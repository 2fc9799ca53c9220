---------------------------- MODULE DeviceCalls ----------------------------
(***************************************************************************)
(* An operation of a fiscal device (a sale or refund, the opening or       *)
(* closing of its shift) or of a payment terminal, which the backend       *)
(* carries out as a chain of commands to the local agent (module           *)
(* LocalAgent).  The device's address is kept in the settings of the       *)
(* integration.  When a command fails the device is looked for in the      *)
(* local network and, if it is found somewhere else, asked again; when its *)
(* clock is off it is synchronised and asked again.                        *)
(*                                                                         *)
(* Each operation is done by a worker of its own.  A command ends as       *)
(* module RemoteCommand says: answered, or not heard of, and then the      *)
(* device may have done it, or may do it yet.                              *)
(***************************************************************************)
EXTENDS Naturals, Sequences

CONSTANTS
  Ops,      \* operations, each carried out once
  Kinds,    \* bound: the kinds of operations that occur
  Urls,     \* addresses in the restaurant's network
  NoUrl,    \* no address
  MaxMoves  \* bound: how often the device changes its address

AllKinds == {"sale", "open", "close", "charge"}

ASSUME ConstantsAssumption ==
  /\ Kinds \subseteq AllKinds
  /\ NoUrl \notin Urls
  /\ MaxMoves \in Nat

\* The requests that an operation consists of: what is asked of the device,
\* whether a failure of it is put up with, and whether it is repeated after a
\* synchronisation of the clock.  (issue_receipts and issue_refund_receipt,
\* open_shift, close_shift, charge_payment.)
Reading(path, tolerated, synced) ==
  [path |-> path, effect |-> FALSE, tolerated |-> tolerated, synced |-> synced]
Acting(path, synced) ==
  [path |-> path, effect |-> TRUE, tolerated |-> FALSE, synced |-> synced]

Requests(kind) ==
  CASE kind = "sale"   -> <<Reading("memory", TRUE, FALSE), Acting("sale", TRUE)>>
    [] kind = "open"   -> <<Acting("open", TRUE)>>
    [] kind = "close"  -> <<Reading("z-info", FALSE, TRUE), Acting("close", TRUE),
                            Reading("memory", TRUE, TRUE)>>
    [] kind = "charge" -> <<Reading("health", FALSE, FALSE), Acting("transaction", FALSE)>>

VARIABLES
  config,   \* the address in the integration's settings
  at,       \* the address the device has
  op,       \* the operations
  acted,    \* how often the device did what each operation asks of it,
  late,     \* and how many unheard commands of it are still on their way
  moves     \* history: how often the device has moved

vars == <<config, at, op, acted, late, moves>>

\* Why the device is looked for: the settings have no address, a command
\* failed, or what answered is not the terminal.
Reasons == {"missing", "error", "invalid"}

Op == [pc     : {"none", "post", "wait", "discover", "done", "failed"},
       kind   : AllKinds,
       step   : 1..3,                      \* which request of the operation
       stage  : {"first", "sync", "again"},\* before, during and after the synchronisation
       tried  : SUBSET Reasons,            \* the searches made since the stage began
       url    : Urls \union {NoUrl},       \* the copy of the settings
       answer : {"none", "ok", "refused", "unsynced"}]

TypeOK ==
  /\ config \in Urls \union {NoUrl}
  /\ at \in Urls
  /\ op \in [Ops -> Op]
  /\ acted \in [Ops -> Nat] /\ late \in [Ops -> Nat]
  /\ moves \in 0..MaxMoves

Begun(kind) ==
  [pc |-> "none", kind |-> kind, step |-> 1, stage |-> "first", tried |-> {},
   url |-> NoUrl, answer |-> "none"]

Init ==
  /\ config \in Urls \union {NoUrl}
  /\ at \in Urls
  /\ \E kind \in [Ops -> Kinds] : op = [o \in Ops |-> Begun(kind[o])]
  /\ acted = [o \in Ops |-> 0] /\ late = [o \in Ops |-> 0]
  /\ moves = 0

-----------------------------------------------------------------------------
Request(o)  == Requests(op[o].kind)[op[o].step]
Terminal(o) == op[o].kind = "charge"

\* The synchronisation itself changes nothing at the device that matters here.
Acts(o) == Request(o).effect /\ op[o].stage # "sync"

\* Where a worker goes on: to a request at the address it knows, or to a search
\* for one.
Ask(r) == IF r.url = NoUrl THEN [r EXCEPT !.pc = "discover", !.tried = {"missing"}]
                           ELSE [r EXCEPT !.pc = "post"]

End(r, result)      == [r EXCEPT !.pc = result]
NextStage(r, stage) == Ask([r EXCEPT !.stage = stage, !.tried = {}, !.answer = "none"])

NextStep(r) ==
  IF r.step = Len(Requests(r.kind)) THEN End(r, "done")
  ELSE NextStage([r EXCEPT !.step = @ + 1], "first")

\* Mutant: the failure of any request is put up with.
RaiseTolerated(r, unsynced) ==
  LET request == Requests(r.kind)[r.step]
  IN  IF unsynced /\ request.synced /\ r.stage = "first" THEN NextStage(r, "sync")
      ELSE NextStep(r)

\* Mutant: the repetition is followed by a synchronisation as well.
RaiseResyncs(r, unsynced) ==
  LET request == Requests(r.kind)[r.step]
  IN  IF unsynced /\ request.synced /\ r.stage # "sync" THEN NextStage(r, "sync")
      ELSE IF request.tolerated THEN NextStep(r)
      ELSE End(r, "failed")

\* An error leaves _post_json: it is the answer "unsynced", or any other.
\* (_post_json_with_sync_retry, and who calls it)
Raise(r, unsynced) ==
  LET request == Requests(r.kind)[r.step]
  IN  IF unsynced /\ request.synced /\ r.stage = "first" THEN NextStage(r, "sync")
      ELSE IF request.tolerated THEN NextStep(r)
      ELSE End(r, "failed")

\* An answer is heard.
Return(r) == IF r.stage = "sync" THEN NextStage(r, "again") ELSE NextStep(r)

Search(r, reason) == [r EXCEPT !.pc = "discover", !.tried = @ \union {reason}]

\* Whether an unheard request makes the worker look for the device: a request of
\* the fiscal device once per call, when the agent names one of three codes; a
\* health check of the terminal once, whatever the code; a transaction never.
Rediscovers(r, known) ==
  IF r.kind = "charge" THEN r.step = 1 /\ r.tried \intersect {"error", "invalid"} = {}
                       ELSE known /\ "error" \notin r.tried

Set(o, r) == op' = [op EXCEPT ![o] = r]

-----------------------------------------------------------------------------
Begin(o) ==
  /\ op[o].pc = "none"
  /\ Set(o, Ask([op[o] EXCEPT !.url = config]))
  /\ UNCHANGED <<config, at, acted, late, moves>>

Post(o) ==
  /\ op[o].pc = "post"
  /\ Set(o, [op[o] EXCEPT !.pc = "wait", !.answer = "none"])
  /\ UNCHANGED <<config, at, acted, late, moves>>

\* The agent is offline: there is no command.
Offline(o) ==
  /\ op[o].pc \in {"post", "discover"}
  /\ Set(o, Raise(op[o], FALSE))
  /\ UNCHANGED <<config, at, acted, late, moves>>

\* The device, if it is where it is asked, does what it is asked or refuses.
DeviceActs(o, answer) ==
  /\ op[o].pc = "wait" /\ op[o].answer = "none"
  /\ op[o].url = at
  /\ answer = "unsynced" => ~ Terminal(o)
  /\ Set(o, [op[o] EXCEPT !.answer = answer])
  /\ acted' = IF answer = "ok" /\ Acts(o) THEN [acted EXCEPT ![o] = @ + 1] ELSE acted
  /\ UNCHANGED <<config, at, late, moves>>

\* Somebody else answers at the address.
StrangerAnswers(o) ==
  /\ op[o].pc = "wait" /\ op[o].answer = "none"
  /\ op[o].url # at
  /\ Set(o, [op[o] EXCEPT !.answer = "refused"])
  /\ UNCHANGED <<config, at, acted, late, moves>>

\* The terminal's answer to a health check that is not one of a ready terminal
\* may or may not look like one of a terminal at all.
Hear(o) ==
  /\ op[o].pc = "wait" /\ op[o].answer # "none"
  /\ LET r == op[o]
     IN  IF r.answer = "ok" THEN Set(o, Return(r))
         ELSE \/ Set(o, Raise(r, r.answer = "unsynced"))
              \/ /\ Terminal(o) /\ r.step = 1 /\ "invalid" \notin r.tried
                 /\ Set(o, Search(r, "invalid"))
  /\ UNCHANGED <<config, at, acted, late, moves>>

\* Mutant: a transaction that failed is looked after, like a health check.
LoseChargeToo(o, known) ==
  /\ op[o].pc = "wait"
  /\ LET r == op[o]
     IN  Set(o, IF r.tried \intersect {"error", "invalid"} = {} THEN Search(r, "error") ELSE Raise(r, FALSE))
  /\ late' = IF Acts(o) /\ op[o].url = at /\ op[o].answer = "none" THEN [late EXCEPT ![o] = @ + 1] ELSE late
  /\ UNCHANGED <<config, at, acted, moves>>

\* The command failed or timed out, whatever the device has made of it.
Lose(o, known) ==
  /\ op[o].pc = "wait"
  /\ LET r == op[o]
     IN  Set(o, IF Rediscovers(r, known) THEN Search(r, "error") ELSE Raise(r, FALSE))
  /\ late' = IF Acts(o) /\ op[o].url = at /\ op[o].answer = "none" THEN [late EXCEPT ![o] = @ + 1] ELSE late
  /\ UNCHANGED <<config, at, acted, moves>>

\* A command that was given up arrives, or does not.
DeviceActsLate(o) ==
  /\ late[o] > 0
  /\ late' = [late EXCEPT ![o] = @ - 1]
  /\ acted' = [acted EXCEPT ![o] = @ + 1]
  /\ UNCHANGED <<config, at, op, moves>>

\* The search finds the device; its address is saved, unless the save fails.
\* After an error the request is repeated at another address only.
Discovered(o, saved) ==
  /\ op[o].pc = "discover"
  /\ LET r == [op[o] EXCEPT !.url = at]
     IN  Set(o, IF op[o].url = at THEN Raise(r, FALSE) ELSE [r EXCEPT !.pc = "post"])
  /\ config' = IF saved THEN at ELSE config
  /\ UNCHANGED <<at, acted, late, moves>>

\* The search finds nothing, or fails like any command.
NotFound(o) ==
  /\ op[o].pc = "discover"
  /\ Set(o, Raise(op[o], FALSE))
  /\ UNCHANGED <<config, at, acted, late, moves>>

-----------------------------------------------------------------------------
\* The device gets another address, and an admin may write one into the settings.
Move(u) ==
  /\ moves < MaxMoves
  /\ u # at
  /\ at' = u
  /\ moves' = moves + 1
  /\ UNCHANGED <<config, op, acted, late>>

Configure(u) ==
  /\ moves < MaxMoves
  /\ config' = u
  /\ moves' = moves + 1
  /\ UNCHANGED <<at, op, acted, late>>

Step(o) ==
  \/ Begin(o) \/ Post(o) \/ Offline(o) \/ Hear(o) \/ NotFound(o)
  \/ \E known \in BOOLEAN : Lose(o, known)
  \/ \E saved \in BOOLEAN : Discovered(o, saved)

Next ==
  \/ \E o \in Ops : Step(o) \/ StrangerAnswers(o) \/ DeviceActsLate(o)
  \/ \E o \in Ops, answer \in {"ok", "refused", "unsynced"} : DeviceActs(o, answer)
  \/ \E u \in Urls : Move(u) \/ Configure(u)

Spec == Init /\ [][Next]_vars

\* A worker goes on, and every command has a deadline (CallsEnd of LocalAgent).
FairSpec == Spec /\ \A o \in Ops : WF_vars(Step(o))

-----------------------------------------------------------------------------
\* What the caller of an operation has been told.
Outcome(o) == CASE op[o].pc = "none"   -> "none"
                [] op[o].pc = "done"   -> "succeeded"
                [] op[o].pc = "failed" -> "failed"
                [] OTHER               -> "waiting"

Remote == INSTANCE RemoteCommand
            WITH Commands <- Ops,
                 outcome  <- [o \in Ops |-> Outcome(o)],
                 done     <- {o \in Ops : acted[o] > 0}

\* An operation as a whole promises what a single command to the agent does,
\* however often the device was looked for and asked again: the caller is told
\* of success only if the device has done it, and of one outcome only.
IsRemoteCommand == Remote!Spec

\* A terminal is asked for the money once, whatever happens.  A fiscal device that
\* stays where it is does what an operation asks of it at most once, although it
\* is searched for and its clock is set on the way; one that moves, at most three
\* times.
ActsOnce ==
  \A o \in Ops : acted[o] + late[o] <= (IF Terminal(o) \/ moves = 0 THEN 1 ELSE 3)

\* Every operation ends: searching and synchronising do not go on for ever.
OperationsEnd == \A o \in Ops : op[o].pc # "none" ~> op[o].pc \in {"done", "failed"}
=============================================================================
