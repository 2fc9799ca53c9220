----------------------------- MODULE LocalAgent -----------------------------
(***************************************************************************)
(* Commands to a restaurant's local agent: the agent's row, the commands'  *)
(* rows, the callers that poll them, the channel layer group that takes a  *)
(* command to the agent's websockets, and the consumers of the websockets. *)
(* The agent itself is a program outside of this repository.               *)
(*                                                                         *)
(* A websocket is used once: the agent reconnects with another one, which  *)
(* may open before the server has noticed that the last one is gone.       *)
(***************************************************************************)
EXTENDS Naturals, FiniteSets

CONSTANTS
  Commands,   \* rows of LocalAgentCommand
  Conns,      \* websockets the agent opens, one after the other or together
  NoCommand

ASSUME NoCommandAssumption == NoCommand \notin Commands
ASSUME ConnsAssumption == IsFiniteSet(Conns)

Status   == {"pending", "sent", "succeeded", "failed", "timed_out"}
\* A websocket: not opened yet, accepted, open, left by the agent without the
\* server knowing, out of the group, closed.
Socket   == {"down", "accepted", "open", "broken", "leaving", "closed"}

VARIABLES
  cmd,      \* the command rows: status, and the answer the agent gave
  caller,   \* the execute call that made each row
  agent,    \* the agent's row: status, and whether it was seen in the last 75 s
  conn,     \* the websockets
  mail,     \* commands on their way to the consumer of a websocket
  busy,     \* the command a consumer is marking as sent
  wire,     \* commands sent down a websocket
  back,     \* answers sent up a websocket
  runs      \* how often a device carried a command out

cmdVars  == <<cmd, caller>>
netVars  == <<conn, mail, busy, wire, back>>
vars     == <<cmdVars, agent, netVars, runs>>

\* An answer is the command and whether the agent reports it as done.
Answer == [cmd : Commands, ok : BOOLEAN]

TypeOK ==
  /\ cmd \in [Commands -> [status : Status \union {"none"}, answer : {"none", "ok", "error"}]]
  /\ caller \in [Commands -> {"none", "waiting", "expiring", "succeeded", "failed", "timed_out"}]
  /\ agent \in [status : {"online", "offline"}, fresh : BOOLEAN]
  /\ conn \in [Conns -> Socket]
  /\ mail \in [Conns -> SUBSET Commands]
  /\ busy \in [Conns -> Commands \union {NoCommand}]
  /\ wire \in [Conns -> SUBSET Commands]
  /\ back \in [Conns -> SUBSET Answer]
  /\ runs \in [Commands -> Nat]

Init ==
  /\ cmd = [c \in Commands |-> [status |-> "none", answer |-> "none"]]
  /\ caller = [c \in Commands |-> "none"]
  /\ agent = [status |-> "offline", fresh |-> FALSE]
  /\ conn = [k \in Conns |-> "down"]
  /\ mail = [k \in Conns |-> {}]
  /\ busy = [k \in Conns |-> NoCommand]
  /\ wire = [k \in Conns |-> {}]
  /\ back = [k \in Conns |-> {}]
  /\ runs = [c \in Commands |-> 0]

-----------------------------------------------------------------------------
(***************************************************************************)
(* The caller: LocalAgentCommandService.execute.                           *)
(***************************************************************************)
\* Mutant: the time the agent was last seen is not looked at.
IsOnlineByStatus == agent.status = "online"

IsOnline == agent.status = "online" /\ agent.fresh

\* The websockets in the agent's group.
Group == {k \in Conns : conn[k] \in {"accepted", "open", "broken"}}

\* The row is made and the command sent to the group.
Call(c) ==
  /\ caller[c] = "none"
  /\ IsOnline
  /\ cmd' = [cmd EXCEPT ![c].status = "pending"]
  /\ caller' = [caller EXCEPT ![c] = "waiting"]
  /\ mail' = [k \in Conns |-> IF k \in Group THEN mail[k] \union {c} ELSE mail[k]]
  /\ UNCHANGED <<agent, conn, busy, wire, back, runs>>

\* Mutant: anything but a pending command counts as a result.
PollAnyChange(c) ==
  /\ caller[c] = "waiting"
  /\ cmd[c].status # "pending"
  /\ caller' = [caller EXCEPT ![c] = IF cmd[c].status = "failed" THEN "failed" ELSE "succeeded"]
  /\ UNCHANGED <<cmd, agent, netVars, runs>>

Poll(c) ==
  /\ caller[c] = "waiting"
  /\ cmd[c].status \in {"succeeded", "failed"}
  /\ caller' = [caller EXCEPT ![c] = cmd[c].status]
  /\ UNCHANGED <<cmd, agent, netVars, runs>>

\* Mutant: a command that was sent is waited for without a deadline.
ExpireUnlessSent(c) ==
  /\ caller[c] = "waiting"
  /\ cmd[c].status = "pending"
  /\ caller' = [caller EXCEPT ![c] = "expiring"]
  /\ UNCHANGED <<cmd, agent, netVars, runs>>

\* The deadline is reached.  The row is read once more, for the wording of the
\* error only,
Expire(c) ==
  /\ caller[c] = "waiting"
  /\ caller' = [caller EXCEPT ![c] = "expiring"]
  /\ UNCHANGED <<cmd, agent, netVars, runs>>

\* Mutant: the code of the error is written as the row's status.
SaveTimeoutAsCode(c) ==
  /\ caller[c] = "expiring"
  /\ cmd' = [cmd EXCEPT ![c].status = "LOCAL_AGENT_TIMEOUT"]
  /\ caller' = [caller EXCEPT ![c] = "timed_out"]
  /\ UNCHANGED <<agent, netVars, runs>>

\* and is written over, whatever it holds.
SaveTimeout(c) ==
  /\ caller[c] = "expiring"
  /\ cmd' = [cmd EXCEPT ![c].status = "timed_out"]
  /\ caller' = [caller EXCEPT ![c] = "timed_out"]
  /\ UNCHANGED <<agent, netVars, runs>>

-----------------------------------------------------------------------------
(***************************************************************************)
(* The consumer of a websocket.  It handles one event at a time; marking a *)
(* command as sent and sending it are two steps.                           *)
(***************************************************************************)
\* The agent's token is checked and the websocket joins the group.
Accept(k) ==
  /\ conn[k] = "down"
  /\ conn' = [conn EXCEPT ![k] = "accepted"]
  /\ UNCHANGED <<cmdVars, agent, mail, busy, wire, back, runs>>

MarkOnline(k) ==
  /\ conn[k] = "accepted"
  /\ conn' = [conn EXCEPT ![k] = "open"]
  /\ agent' = [status |-> "online", fresh |-> TRUE]
  /\ UNCHANGED <<cmdVars, mail, busy, wire, back, runs>>

Heartbeat(k) ==
  /\ conn[k] \in {"open", "broken"}
  /\ busy[k] = NoCommand
  /\ agent' = [status |-> "online", fresh |-> TRUE]
  /\ UNCHANGED <<cmdVars, netVars, runs>>

\* Mutant: an event stays in the channel after it has been handled.
MarkSentKeepsMail(k, c) ==
  /\ conn[k] \in {"open", "broken"}
  /\ busy[k] = NoCommand
  /\ c \in mail[k]
  /\ busy' = [busy EXCEPT ![k] = c]
  /\ cmd' = [cmd EXCEPT ![c].status = "sent"]
  /\ UNCHANGED <<caller, agent, conn, mail, wire, back, runs>>

\* agent_command: the row becomes "sent" whatever it was,
MarkSent(k, c) ==
  /\ conn[k] \in {"open", "broken"}
  /\ busy[k] = NoCommand
  /\ c \in mail[k]
  /\ mail' = [mail EXCEPT ![k] = @ \ {c}]
  /\ busy' = [busy EXCEPT ![k] = c]
  /\ cmd' = [cmd EXCEPT ![c].status = "sent"]
  /\ UNCHANGED <<caller, agent, conn, wire, back, runs>>

\* and the command is sent; down a broken websocket it is lost.
Send(k) ==
  /\ busy[k] # NoCommand
  /\ busy' = [busy EXCEPT ![k] = NoCommand]
  /\ wire' = [wire EXCEPT ![k] = IF conn[k] = "open" THEN @ \union {busy[k]} ELSE @]
  /\ UNCHANGED <<cmdVars, agent, conn, mail, back, runs>>

\* command_result: the row gets the answer, whatever it was.
StoreResult(k, r) ==
  /\ conn[k] \in {"open", "broken"}
  /\ busy[k] = NoCommand
  /\ r \in back[k]
  /\ back' = [back EXCEPT ![k] = @ \ {r}]
  /\ cmd' = [cmd EXCEPT ![r.cmd] = IF r.ok THEN [status |-> "succeeded", answer |-> "ok"]
                                           ELSE [status |-> "failed", answer |-> "error"]]
  /\ UNCHANGED <<caller, agent, conn, mail, busy, wire, runs>>

\* disconnect: the websocket leaves the group,
Leave(k) ==
  /\ conn[k] = "broken"
  /\ busy[k] = NoCommand
  /\ conn' = [conn EXCEPT ![k] = "leaving"]
  /\ mail' = [mail EXCEPT ![k] = {}]
  /\ back' = [back EXCEPT ![k] = {}]
  /\ UNCHANGED <<cmdVars, agent, busy, wire, runs>>

\* and the agent is offline, whatever other websocket it has.
MarkOffline(k) ==
  /\ conn[k] = "leaving"
  /\ conn' = [conn EXCEPT ![k] = "closed"]
  /\ agent' = [agent EXCEPT !.status = "offline"]
  /\ UNCHANGED <<cmdVars, mail, busy, wire, back, runs>>

-----------------------------------------------------------------------------
(***************************************************************************)
(* The surroundings: the agent, the network, the channel layer, the clock. *)
(***************************************************************************)
\* The agent has a device carry the command out and sends the answer up an
\* open websocket, if it has one.
AgentRuns(k, c, ok) ==
  /\ c \in wire[k]
  /\ wire' = [wire EXCEPT ![k] = @ \ {c}]
  /\ runs' = [runs EXCEPT ![c] = IF ok THEN @ + 1 ELSE @]
  /\ \/ \E j \in Conns : /\ conn[j] = "open"
                         /\ back' = [back EXCEPT ![j] = @ \union {[cmd |-> c, ok |-> ok]}]
     \/ UNCHANGED back
  /\ UNCHANGED <<cmdVars, agent, conn, mail, busy>>

\* The agent's end of a websocket is gone.
Break(k) ==
  /\ conn[k] = "open"
  /\ conn' = [conn EXCEPT ![k] = "broken"]
  /\ UNCHANGED <<cmdVars, agent, mail, busy, wire, back, runs>>

\* The channel layer drops an event: it is full, the event is too old, or the
\* websocket is served by a process that does not share the layer.
DropMail(k, c) ==
  /\ c \in mail[k]
  /\ mail' = [mail EXCEPT ![k] = @ \ {c}]
  /\ UNCHANGED <<cmdVars, agent, conn, busy, wire, back, runs>>

\* The process that serves the websockets dies: nobody marks the agent offline.
ServerDies ==
  /\ conn' = [k \in Conns |-> IF conn[k] = "down" THEN "down" ELSE "closed"]
  /\ mail' = [k \in Conns |-> {}]
  /\ busy' = [k \in Conns |-> NoCommand]
  /\ back' = [k \in Conns |-> {}]
  /\ UNCHANGED <<cmdVars, agent, wire, runs>>

\* 75 seconds without a sign of life.
Age ==
  /\ agent.fresh
  /\ agent' = [agent EXCEPT !.fresh = FALSE]
  /\ UNCHANGED <<cmdVars, netVars, runs>>

\* A login with the restaurant's code gives the agent's row a new token; the
\* websockets that are open stay open.
Login ==
  /\ agent' = [status |-> "offline", fresh |-> FALSE]
  /\ UNCHANGED <<cmdVars, netVars, runs>>

-----------------------------------------------------------------------------
CallerStep(c) == Poll(c) \/ Expire(c) \/ SaveTimeout(c)

ConsumerStep(k) ==
  \/ MarkOnline(k)
  \/ \E c \in Commands : MarkSent(k, c)
  \/ Send(k)
  \/ \E r \in Answer : StoreResult(k, r)
  \/ Leave(k)
  \/ MarkOffline(k)

Surroundings ==
  \/ \E k \in Conns : Accept(k) \/ Heartbeat(k) \/ Break(k)
  \/ \E k \in Conns, c \in Commands : DropMail(k, c)
  \/ \E k \in Conns, c \in Commands, ok \in BOOLEAN : AgentRuns(k, c, ok)
  \/ ServerDies
  \/ Age
  \/ Login

Next ==
  \/ \E c \in Commands : Call(c) \/ CallerStep(c)
  \/ \E k \in Conns : ConsumerStep(k)
  \/ Surroundings

Spec == Init /\ [][Next]_vars

\* Callers and consumers go on, a websocket carries a heartbeat every now and
\* then, and time passes.  Nobody has to connect, to log in or to answer.
FairSpec ==
  /\ Spec
  /\ \A c \in Commands : WF_vars(CallerStep(c))
  /\ \A k \in Conns : WF_vars(ConsumerStep(k)) /\ WF_vars(Heartbeat(k))
  /\ WF_vars(Age)

-----------------------------------------------------------------------------
\* A caller that is told of success has had its command carried out.
SuccessIsReal == \A c \in Commands : caller[c] = "succeeded" => runs[c] > 0

\* A command is carried out at most once for each websocket of the agent: every
\* one of them is in the group and hands the command on once.
RunsOncePerSocket == \A c \in Commands : runs[c] <= Cardinality(Conns)

\* Calls to the agent are calls of a remote command.
Outcome == [c \in Commands |-> IF caller[c] = "expiring" THEN "waiting" ELSE caller[c]]

Remote == INSTANCE RemoteCommand WITH outcome <- Outcome, done <- {c \in Commands : runs[c] > 0}

IsRemoteCommand == Remote!Spec

\* Every call ends, whatever becomes of the agent.
CallsEnd ==
  \A c \in Commands : caller[c] = "waiting" ~> caller[c] \in {"succeeded", "failed", "timed_out"}

\* No websocket of the agent is open, or on its way.
Gone == \A k \in Conns : conn[k] \in {"down", "broken", "leaving", "closed"}

\* The agent's status follows its connection: one that is gone is found offline,
\* also when nobody said goodbye, and one that stays connected is found online
\* again, although the end of an older websocket or a login has marked it offline.
StatusFollowsConnection ==
  /\ Gone ~> (~IsOnline \/ ~Gone)
  /\ \A k \in Conns : conn[k] = "open" ~> (IsOnline \/ conn[k] # "open")
=============================================================================
