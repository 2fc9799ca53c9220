-------------------------- MODULE LocalAgentProofs --------------------------
EXTENDS LocalAgent, FiniteSetTheorems, TLAPS

(* The parts of the type invariant that the proofs below need. *)
Typed ==
  /\ cmd \in [Commands -> [status : Status \union {"none"}, answer : {"none", "ok", "error"}]]
  /\ caller \in [Commands -> {"none", "waiting", "expiring", "succeeded", "failed", "timed_out"}]
  /\ mail \in [Conns -> SUBSET Commands]
  /\ busy \in [Conns -> Commands \union {NoCommand}]
  /\ wire \in [Conns -> SUBSET Commands]
  /\ back \in [Conns -> SUBSET Answer]
  /\ runs \in [Commands -> Nat]

(* Inductive: a command is on its way only after it was called for, and a *)
(* report of success, on its way or stored, has a run behind it.          *)
Caused ==
  /\ \A k \in Conns, c \in Commands : c \in mail[k] \/ c \in wire[k] \/ c = busy[k] => caller[c] # "none"
  /\ \A k \in Conns, r \in Answer : r \in back[k] /\ r.ok => runs[r.cmd] > 0
  /\ \A c \in Commands : cmd[c].status = "succeeded" => runs[c] > 0
  /\ \A c \in Commands : caller[c] = "succeeded" => runs[c] > 0

Inv == Typed /\ Caused

LEMMA InitInv == Init => Inv
  BY NoCommandAssumption DEF Init, Inv, Typed, Caused, Status, Answer

LEMMA TypedStep == ASSUME Typed, Next PROVE Typed'
<1>1. ASSUME NEW c \in Commands, Call(c) \/ CallerStep(c)
      PROVE  Typed'
  <2>1. CASE Call(c)
    BY <2>1 DEF Typed, Call, Status
  <2>2. CASE Poll(c) \/ Expire(c)
    <3>1. PICK outcome \in {"succeeded", "failed", "expiring"} :
            caller' = [caller EXCEPT ![c] = outcome]
      BY <2>2 DEF Poll, Expire
    <3>2. caller' \in [Commands -> {"none", "waiting", "expiring", "succeeded", "failed", "timed_out"}]
      BY <3>1 DEF Typed
    <3>3. UNCHANGED <<cmd, agent, netVars, runs>>
      BY <2>2 DEF Poll, Expire
    <3>. QED
      BY <3>2, <3>3 DEF Typed, netVars
  <2>3. CASE SaveTimeout(c)
    <3>1. cmd' = [cmd EXCEPT ![c].status = "timed_out"]
      BY <2>3 DEF SaveTimeout
    <3>2. cmd' \in [Commands -> [status : Status \union {"none"}, answer : {"none", "ok", "error"}]]
      BY <3>1 DEF Typed, Status
    <3>. QED
      BY <2>3, <3>2 DEF Typed, SaveTimeout, netVars
  <2>. QED
    BY <1>1, <2>1, <2>2, <2>3 DEF CallerStep
<1>2. ASSUME NEW k \in Conns, MarkOnline(k) \/ Send(k) \/ Leave(k) \/ MarkOffline(k)
      PROVE  Typed'
  <2>1. CASE Send(k)
    <3>1. conn[k] = "open" => busy[k] \in Commands
      BY <2>1 DEF Send, Typed
    <3>. QED
      BY <2>1, <3>1 DEF Typed, Send, cmdVars
  <2>2. CASE MarkOnline(k) \/ Leave(k) \/ MarkOffline(k)
    BY <2>2 DEF Typed, MarkOnline, Leave, MarkOffline, cmdVars
  <2>. QED
    BY <1>2, <2>1, <2>2
<1>3. ASSUME NEW k \in Conns, NEW c \in Commands, MarkSent(k, c)
      PROVE  Typed'
  BY <1>3 DEF Typed, MarkSent, Status
<1>4. ASSUME NEW k \in Conns, NEW r \in Answer, StoreResult(k, r)
      PROVE  Typed'
  BY <1>4 DEF Typed, StoreResult, Status, Answer
<1>5. ASSUME NEW k \in Conns, Accept(k) \/ Heartbeat(k) \/ Break(k)
      PROVE  Typed'
  BY <1>5 DEF Typed, Accept, Heartbeat, Break, cmdVars, netVars
<1>6. ASSUME NEW k \in Conns, NEW c \in Commands, DropMail(k, c)
      PROVE  Typed'
  BY <1>6 DEF Typed, DropMail, cmdVars
<1>7. ASSUME NEW k \in Conns, NEW c \in Commands, NEW ok \in BOOLEAN, AgentRuns(k, c, ok)
      PROVE  Typed'
  <2>1. [cmd |-> c, ok |-> ok] \in Answer
    BY DEF Answer
  <2>2. wire' \in [Conns -> SUBSET Commands]
    BY <1>7 DEF Typed, AgentRuns
  <2>3. runs' \in [Commands -> Nat]
    BY <1>7 DEF Typed, AgentRuns
  <2>4. back' \in [Conns -> SUBSET Answer]
    <3>1. CASE UNCHANGED back
      BY <3>1 DEF Typed
    <3>2. ASSUME NEW j \in Conns, back' = [back EXCEPT ![j] = @ \union {[cmd |-> c, ok |-> ok]}]
          PROVE  back' \in [Conns -> SUBSET Answer]
      BY <2>1, <3>2 DEF Typed
    <3>. QED
      BY <1>7, <3>1, <3>2 DEF AgentRuns
  <2>. QED
    BY <1>7, <2>2, <2>3, <2>4 DEF Typed, AgentRuns, cmdVars
<1>8. CASE ServerDies \/ Age \/ Login
  BY <1>8 DEF Typed, ServerDies, Age, Login, cmdVars, netVars
<1>. QED
  BY <1>1, <1>2, <1>3, <1>4, <1>5, <1>6, <1>7, <1>8 DEF Next, ConsumerStep, Surroundings

LEMMA CausedStep == ASSUME Inv, Next PROVE Caused'
<1>1. ASSUME NEW c \in Commands, Call(c)
      PROVE  Caused'
  BY <1>1 DEF Inv, Typed, Caused, Call
<1>2. ASSUME NEW c \in Commands, CallerStep(c)
      PROVE  Caused'
  <2>1. CASE Poll(c)
    BY <2>1 DEF Inv, Typed, Caused, Poll, netVars
  <2>2. CASE Expire(c)
    BY <2>2 DEF Inv, Typed, Caused, Expire, netVars
  <2>3. CASE SaveTimeout(c)
    BY <2>3 DEF Inv, Typed, Caused, SaveTimeout, netVars
  <2>. QED
    BY <1>2, <2>1, <2>2, <2>3 DEF CallerStep
<1>3. ASSUME NEW k \in Conns, MarkOnline(k) \/ Send(k) \/ Leave(k) \/ MarkOffline(k)
      PROVE  Caused'
  <2>1. CASE Send(k)
    BY <2>1, NoCommandAssumption DEF Inv, Typed, Caused, Send, cmdVars
  <2>2. CASE MarkOnline(k) \/ Leave(k) \/ MarkOffline(k)
    BY <2>2 DEF Inv, Typed, Caused, MarkOnline, Leave, MarkOffline, cmdVars
  <2>. QED
    BY <1>3, <2>1, <2>2
<1>4. ASSUME NEW k \in Conns, NEW c \in Commands, MarkSent(k, c)
      PROVE  Caused'
  BY <1>4 DEF Inv, Typed, Caused, MarkSent
<1>5. ASSUME NEW k \in Conns, NEW r \in Answer, StoreResult(k, r)
      PROVE  Caused'
  BY <1>5 DEF Inv, Typed, Caused, StoreResult, Answer
<1>6. ASSUME NEW k \in Conns, Accept(k) \/ Heartbeat(k) \/ Break(k)
      PROVE  Caused'
  BY <1>6 DEF Inv, Typed, Caused, Accept, Heartbeat, Break, cmdVars, netVars
<1>7. ASSUME NEW k \in Conns, NEW c \in Commands, DropMail(k, c)
      PROVE  Caused'
  BY <1>7 DEF Inv, Typed, Caused, DropMail, cmdVars
<1>8. ASSUME NEW k \in Conns, NEW c \in Commands, NEW ok \in BOOLEAN, AgentRuns(k, c, ok)
      PROVE  Caused'
  <2>1. \A d \in Commands : runs[d] > 0 => runs'[d] > 0
    BY <1>8 DEF Inv, Typed, AgentRuns
  <2>2. ok => runs'[c] > 0
    BY <1>8 DEF Inv, Typed, AgentRuns
  <2>3. \A j \in Conns, r \in Answer : r \in back'[j] => r \in back[j] \/ (r.cmd = c /\ r.ok = ok)
    BY <1>8 DEF Inv, Typed, AgentRuns
  <2>4. \A j \in Conns, d \in Commands : d \in wire'[j] => d \in wire[j]
    BY <1>8 DEF Inv, Typed, AgentRuns
  <2>5. UNCHANGED <<cmd, caller, mail, busy>>
    BY <1>8 DEF AgentRuns, cmdVars
  <2>6. \A r \in Answer : r.cmd \in Commands
    BY DEF Answer
  <2>. QED
    BY <2>1, <2>2, <2>3, <2>4, <2>5, <2>6 DEF Inv, Caused
<1>9. CASE ServerDies \/ Age \/ Login
  BY <1>9, NoCommandAssumption DEF Inv, Typed, Caused, ServerDies, Age, Login, cmdVars, netVars
<1>. QED
  BY <1>1, <1>2, <1>3, <1>4, <1>5, <1>6, <1>7, <1>8, <1>9 DEF Next, ConsumerStep, Surroundings

LEMMA Invariance == Spec => []Inv
<1>1. Inv /\ UNCHANGED vars => Inv'
  BY DEF Inv, Typed, Caused, vars, cmdVars, netVars
<1>2. Inv /\ [Next]_vars => Inv'
  BY <1>1, TypedStep, CausedStep DEF Inv
<1>. QED
  BY InitInv, <1>2, PTL DEF Spec

(* A caller is told of success only when a device has carried the command   *)
(* out, for any number of commands and websockets, however they overlap.    *)
THEOREM SuccessHasARun == Spec => []SuccessIsReal
<1>1. Inv => SuccessIsReal
  BY DEF Inv, Caused, SuccessIsReal
<1>. QED
  BY Invariance, <1>1, PTL

-----------------------------------------------------------------------------
(* The whole type invariant. *)
LEMMA RestTyped ==
  ASSUME Next
  PROVE  /\ agent \in [status : {"online", "offline"}, fresh : BOOLEAN]
              => agent' \in [status : {"online", "offline"}, fresh : BOOLEAN]
         /\ conn \in [Conns -> Socket] => conn' \in [Conns -> Socket]
<1>1. ASSUME NEW c \in Commands, Call(c) \/ CallerStep(c)
      PROVE  UNCHANGED <<agent, conn>>
  BY <1>1 DEF Call, CallerStep, Poll, Expire, SaveTimeout, netVars
<1>2. ASSUME NEW k \in Conns, ConsumerStep(k)
      PROVE  /\ \/ agent' = agent \/ agent' = [status |-> "online", fresh |-> TRUE]
                \/ agent' = [agent EXCEPT !.status = "offline"]
             /\ conn' = conn \/ \E s \in Socket : conn' = [conn EXCEPT ![k] = s]
  <2>1. CASE MarkOnline(k) \/ Leave(k) \/ MarkOffline(k)
    BY <2>1 DEF MarkOnline, Leave, MarkOffline, Socket
  <2>2. CASE Send(k) \/ (\E c \in Commands : MarkSent(k, c)) \/ (\E r \in Answer : StoreResult(k, r))
    BY <2>2 DEF Send, MarkSent, StoreResult
  <2>. QED
    BY <1>2, <2>1, <2>2 DEF ConsumerStep
<1>3. ASSUME Surroundings
      PROVE  /\ \/ agent' = agent
                \/ \E s \in {"online", "offline"}, f \in BOOLEAN : agent' = [status |-> s, fresh |-> f]
                \/ agent' = [agent EXCEPT !.fresh = FALSE]
             /\ \/ conn' = conn
                \/ \E k \in Conns, s \in Socket : conn' = [conn EXCEPT ![k] = s]
                \/ conn' = [k \in Conns |-> IF conn[k] = "down" THEN "down" ELSE "closed"]
  <2>1. ASSUME NEW k \in Conns, Accept(k) \/ Break(k)
        PROVE  agent' = agent /\ \E s \in Socket : conn' = [conn EXCEPT ![k] = s]
    BY <2>1 DEF Accept, Break, Socket
  <2>2. ASSUME NEW k \in Conns, Heartbeat(k)
        PROVE  agent' = [status |-> "online", fresh |-> TRUE] /\ conn' = conn
    BY <2>2 DEF Heartbeat, netVars
  <2>3. ASSUME NEW k \in Conns, NEW c \in Commands, NEW ok \in BOOLEAN, DropMail(k, c) \/ AgentRuns(k, c, ok)
        PROVE  UNCHANGED <<agent, conn>>
    BY <2>3 DEF DropMail, AgentRuns
  <2>4. CASE ServerDies
    BY <2>4 DEF ServerDies
  <2>5. CASE Age \/ Login
    BY <2>5 DEF Age, Login, netVars
  <2>. QED
    BY <1>3, <2>1, <2>2, <2>3, <2>4, <2>5 DEF Surroundings
<1>4. \A s \in Socket : \A k : conn \in [Conns -> Socket] => [conn EXCEPT ![k] = s] \in [Conns -> Socket]
  OBVIOUS
<1>5. conn \in [Conns -> Socket]
        => [k \in Conns |-> IF conn[k] = "down" THEN "down" ELSE "closed"] \in [Conns -> Socket]
  BY DEF Socket
<1>6. \/ UNCHANGED <<agent, conn>>
      \/ \E k \in Conns : ConsumerStep(k)
      \/ Surroundings
  BY <1>1 DEF Next
<1>7. /\ \/ agent' = agent
         \/ \E s \in {"online", "offline"}, f \in BOOLEAN : agent' = [status |-> s, fresh |-> f]
         \/ agent' = [agent EXCEPT !.status = "offline"]
         \/ agent' = [agent EXCEPT !.fresh = FALSE]
      /\ \/ conn' = conn
         \/ \E k \in Conns, s \in Socket : conn' = [conn EXCEPT ![k] = s]
         \/ conn' = [k \in Conns |-> IF conn[k] = "down" THEN "down" ELSE "closed"]
  BY <1>2, <1>3, <1>6
<1>8. agent \in [status : {"online", "offline"}, fresh : BOOLEAN]
        => agent' \in [status : {"online", "offline"}, fresh : BOOLEAN]
  <2> DEFINE Rows == [status : {"online", "offline"}, fresh : BOOLEAN]
  <2>1. \A s \in {"online", "offline"}, f \in BOOLEAN : [status |-> s, fresh |-> f] \in Rows
    OBVIOUS
  <2>2. agent \in Rows => [agent EXCEPT !.status = "offline"] \in Rows
    OBVIOUS
  <2>3. agent \in Rows => [agent EXCEPT !.fresh = FALSE] \in Rows
    OBVIOUS
  <2> HIDE DEF Rows
  <2>4. agent \in Rows => agent' \in Rows
    BY <1>7, <2>1, <2>2, <2>3
  <2>. QED
    BY <2>4 DEF Rows
<1>9. conn \in [Conns -> Socket] => conn' \in [Conns -> Socket]
  BY <1>4, <1>5, <1>7
<1>. QED
  BY <1>8, <1>9

(* The rows, websockets, callers and answers stay well typed (LocalAgent,   *)
(* LocalAgentCommand and the consumer), for any commands and websockets.    *)
THEOREM Typing == Spec => []TypeOK
<1>1. Init => TypeOK
  BY InitInv DEF Inv, Typed, Init, TypeOK, Socket
<1>2. Inv /\ TypeOK /\ [Next]_vars => TypeOK'
  <2>1. ASSUME Inv, TypeOK, Next
        PROVE  TypeOK'
    <3>1. Typed'
      BY <2>1, TypedStep DEF Inv
    <3>2. /\ agent' \in [status : {"online", "offline"}, fresh : BOOLEAN]
          /\ conn' \in [Conns -> Socket]
      BY <2>1, RestTyped DEF TypeOK
    <3>. QED
      BY <3>1, <3>2 DEF Typed, TypeOK
  <2>2. TypeOK /\ UNCHANGED vars => TypeOK'
    BY DEF vars, cmdVars, netVars, TypeOK
  <2>. QED
    BY <2>1, <2>2
<1>. QED
  BY Invariance, <1>1, <1>2, PTL DEF Spec

-----------------------------------------------------------------------------
(***************************************************************************)
(* A websocket that has a command, on its way to the consumer, with the    *)
(* consumer or on its way to the agent, can still have it carried out,     *)
(* once: it is in one place only.  So the runs there have been and the     *)
(* websockets that have the command are together no more than there are.   *)
(***************************************************************************)
Holds(k, c) == c \in mail[k] \/ c = busy[k] \/ c \in wire[k]

Holders(c) == {k \in Conns : Holds(k, c)}

InOnePlace(k, c) ==
  ~(c \in mail[k] /\ c = busy[k]) /\ ~(c \in mail[k] /\ c \in wire[k]) /\ ~(c = busy[k] /\ c \in wire[k])

Counted(c) ==
  /\ \A k \in Conns : InOnePlace(k, c)
  /\ caller[c] = "none" => runs[c] = 0
  /\ runs[c] + Cardinality(Holders(c)) <= Cardinality(Conns)

AllCounted == \A c \in Commands : Counted(c)

LEMMA HoldersCount ==
  ASSUME NEW S \in SUBSET Conns, NEW T \in SUBSET S
  PROVE  /\ IsFiniteSet(S) /\ Cardinality(S) \in Nat /\ Cardinality(T) \in Nat
         /\ Cardinality(T) <= Cardinality(S)
<1>1. IsFiniteSet(S) /\ IsFiniteSet(T) /\ Cardinality(T) <= Cardinality(S)
  BY ConnsAssumption, FS_Subset, Zenon
<1>. QED
  BY <1>1, FS_CardinalityType, Zenon

(* Nothing new happens to a command: no websocket gets it, and none runs it. *)
LEMMA FewerHold ==
  ASSUME Typed, NEW c \in Commands, Counted(c),
         \A k \in Conns : InOnePlace(k, c)',
         \A k \in Conns : Holds(k, c)' => Holds(k, c),
         runs'[c] = runs[c], caller'[c] = "none" => caller[c] = "none"
  PROVE  Counted(c)'
<1>1. Holders(c)' \in SUBSET Holders(c) /\ Holders(c) \in SUBSET Conns
  BY DEF Holders
<1>2. /\ Cardinality(Holders(c)') <= Cardinality(Holders(c))
      /\ Cardinality(Holders(c)) \in Nat /\ Cardinality(Holders(c)') \in Nat
  BY <1>1, HoldersCount
<1>3. Cardinality(Conns) \in Nat
  BY HoldersCount
<1>4. runs[c] \in Nat
  BY DEF Typed
<1>5. runs'[c] + Cardinality(Holders(c)') <= Cardinality(Conns)
  BY <1>2, <1>3, <1>4 DEF Counted
<1>. QED
  BY <1>5 DEF Counted

LEMMA InitCounted == Init => AllCounted
<1> SUFFICES ASSUME Init, NEW c \in Commands
             PROVE  Counted(c)
  BY DEF AllCounted
<1>1. \A k \in Conns : ~Holds(k, c)
  BY NoCommandAssumption DEF Init, Holds
<1>2. Holders(c) = {}
  BY <1>1 DEF Holders
<1>3. Cardinality(Holders(c)) = 0 /\ Cardinality(Conns) \in Nat
  BY <1>2, HoldersCount, FS_EmptySet
<1>4. \A k \in Conns : InOnePlace(k, c)
  BY <1>1 DEF Holds, InOnePlace
<1>. QED
  BY <1>3, <1>4 DEF Init, Counted

LEMMA CallCounted ==
  ASSUME Inv, AllCounted, NEW d \in Commands, Call(d)
  PROVE  AllCounted'
<1> SUFFICES ASSUME NEW c \in Commands
             PROVE  Counted(c)'
  BY DEF AllCounted
<1>0. Typed /\ Counted(c)
  BY DEF Inv, AllCounted
<1>1. UNCHANGED <<busy, wire, runs>> /\ caller' = [caller EXCEPT ![d] = "waiting"]
  BY DEF Call
<1>2. \A k \in Conns : mail'[k] = IF k \in Group THEN mail[k] \union {d} ELSE mail[k]
  BY DEF Call
<1>3. CASE c # d
  <2>1. \A k \in Conns : InOnePlace(k, c)' /\ (Holds(k, c)' => Holds(k, c))
    BY <1>0, <1>1, <1>2, <1>3 DEF Counted, InOnePlace, Holds
  <2>. QED
    BY <1>0, <1>1, <1>3, <2>1, FewerHold DEF Typed
<1>4. CASE c = d
  <2>1. \A k \in Conns : ~Holds(k, c)
    BY <1>4 DEF Call, Inv, Caused, Holds
  <2>2. \A k \in Conns : InOnePlace(k, c)'
    BY <1>1, <2>1 DEF InOnePlace, Holds
  <2>3. runs'[c] = 0 /\ caller'[c] # "none"
    BY <1>0, <1>1, <1>4 DEF Call, Counted, Typed
  <2>4. Holders(c)' \in SUBSET Conns
    BY DEF Holders
  <2>5. Cardinality(Holders(c)') <= Cardinality(Conns) /\ Cardinality(Holders(c)') \in Nat
    BY <2>4, HoldersCount
  <2>. QED
    BY <2>2, <2>3, <2>5 DEF Counted
<1>. QED
  BY <1>3, <1>4

(* Where a command goes on its way, and where it is dropped. *)
LEMMA ConsumerCounted ==
  ASSUME Inv, AllCounted, NEW k \in Conns,
         ConsumerStep(k) \/ \E c \in Commands : DropMail(k, c)
  PROVE  AllCounted'
<1> SUFFICES ASSUME NEW c \in Commands
             PROVE  Counted(c)'
  BY DEF AllCounted
<1>0. Typed /\ Counted(c) /\ \A j \in Conns : InOnePlace(j, c)
  BY DEF Inv, AllCounted, Counted
<1>1. runs' = runs /\ caller' = caller
  BY DEF ConsumerStep, MarkOnline, MarkSent, Send, StoreResult, Leave, MarkOffline, DropMail, cmdVars
<1>2. \A j \in Conns : InOnePlace(j, c)' /\ (Holds(j, c)' => Holds(j, c))
  <2>1. ASSUME NEW d \in Commands, MarkSent(k, d)
        PROVE  \A j \in Conns : InOnePlace(j, c)' /\ (Holds(j, c)' => Holds(j, c))
    BY <1>0, <2>1, NoCommandAssumption DEF MarkSent, Typed, InOnePlace, Holds
  <2>2. CASE Send(k)
    BY <1>0, <2>2, NoCommandAssumption DEF Send, Typed, InOnePlace, Holds
  <2>3. ASSUME MarkOnline(k) \/ MarkOffline(k) \/ \E r \in Answer : StoreResult(k, r)
        PROVE  \A j \in Conns : InOnePlace(j, c)' /\ (Holds(j, c)' => Holds(j, c))
    <3>1. UNCHANGED <<mail, busy, wire>>
      BY <2>3 DEF MarkOnline, MarkOffline, StoreResult
    <3>. QED
      BY <1>0, <3>1 DEF InOnePlace, Holds
  <2>4. ASSUME Leave(k) \/ \E d \in Commands : DropMail(k, d)
        PROVE  \A j \in Conns : InOnePlace(j, c)' /\ (Holds(j, c)' => Holds(j, c))
    <3>1. UNCHANGED <<busy, wire>> /\ \A j \in Conns : mail'[j] \subseteq mail[j]
      BY <1>0, <2>4 DEF Leave, DropMail, Typed
    <3>. QED
      BY <1>0, <3>1 DEF InOnePlace, Holds
  <2>. QED
    BY <2>1, <2>2, <2>3, <2>4 DEF ConsumerStep
<1>. QED
  BY <1>0, <1>1, <1>2, FewerHold

(* The agent has a command carried out, which its websocket then has no more. *)
LEMMA AgentCounted ==
  ASSUME Inv, AllCounted, NEW k \in Conns, NEW d \in Commands, NEW ok \in BOOLEAN, AgentRuns(k, d, ok)
  PROVE  AllCounted'
<1> SUFFICES ASSUME NEW c \in Commands
             PROVE  Counted(c)'
  BY DEF AllCounted
<1>0. Typed /\ Counted(c) /\ \A j \in Conns : InOnePlace(j, c)
  BY DEF Inv, AllCounted, Counted
<1>1. UNCHANGED <<caller, mail, busy>> /\ d \in wire[k]
  BY DEF AgentRuns, cmdVars
<1>2. \A j \in Conns : wire'[j] = IF j = k THEN wire[j] \ {d} ELSE wire[j]
  BY <1>0 DEF AgentRuns, Typed
<1>3. \A j \in Conns : InOnePlace(j, c)' /\ (Holds(j, c)' => Holds(j, c))
  BY <1>0, <1>1, <1>2 DEF InOnePlace, Holds
<1>4. runs' = [runs EXCEPT ![d] = IF ok THEN @ + 1 ELSE @]
  BY DEF AgentRuns
<1>5. CASE c # d \/ ~ok
  <2>1. runs'[c] = runs[c]
    BY <1>0, <1>4, <1>5 DEF Typed
  <2>. QED
    BY <1>0, <1>1, <1>3, <2>1, FewerHold
<1>6. CASE c = d /\ ok
  <2>1. k \in Holders(c) /\ k \notin Holders(c)'
    BY <1>0, <1>1, <1>2, <1>6 DEF Holders, Holds, InOnePlace
  <2>2. Holders(c)' \in SUBSET (Holders(c) \ {k}) /\ Holders(c) \in SUBSET Conns
    BY <1>3, <2>1 DEF Holders
  <2>3. IsFiniteSet(Holders(c)) /\ Cardinality(Holders(c)) \in Nat
    BY <2>2, HoldersCount
  <2>4. Cardinality(Holders(c) \ {k}) = Cardinality(Holders(c)) - 1
    BY <2>1, <2>3, FS_RemoveElement
  <2>5. /\ Cardinality(Holders(c)') <= Cardinality(Holders(c) \ {k})
        /\ Cardinality(Holders(c)') \in Nat
    BY <2>2, HoldersCount
  <2>6. runs'[c] = runs[c] + 1 /\ runs[c] \in Nat
    BY <1>0, <1>4, <1>6 DEF Typed
  <2>7. Cardinality(Conns) \in Nat
    BY HoldersCount
  <2>8. runs'[c] + Cardinality(Holders(c)') <= Cardinality(Conns)
    BY <1>0, <2>3, <2>4, <2>5, <2>6, <2>7 DEF Counted
  <2>9. caller[c] # "none"
    BY <1>1, <1>6 DEF Inv, Caused
  <2>. QED
    BY <1>1, <1>3, <2>8, <2>9 DEF Counted
<1>. QED
  BY <1>5, <1>6

LEMMA CountedStep == ASSUME Inv, AllCounted, [Next]_vars PROVE AllCounted'
<1>1. ASSUME NEW c \in Commands, Call(c)
      PROVE  AllCounted'
  BY <1>1, CallCounted
<1>2. ASSUME NEW k \in Conns, ConsumerStep(k) \/ \E c \in Commands : DropMail(k, c)
      PROVE  AllCounted'
  BY <1>2, ConsumerCounted
<1>3. ASSUME NEW k \in Conns, NEW c \in Commands, NEW ok \in BOOLEAN, AgentRuns(k, c, ok)
      PROVE  AllCounted'
  BY <1>3, AgentCounted
<1>4. ASSUME UNCHANGED <<busy, mail, runs>> \/ ServerDies, UNCHANGED <<wire, runs>>,
             \A c \in Commands : caller'[c] = "none" => caller[c] = "none"
      PROVE  AllCounted'
  <2> SUFFICES ASSUME NEW c \in Commands
               PROVE  Counted(c)'
    BY DEF AllCounted
  <2>1. Typed /\ Counted(c) /\ \A j \in Conns : InOnePlace(j, c)
    BY DEF Inv, AllCounted, Counted
  <2>2. \A j \in Conns : InOnePlace(j, c)' /\ (Holds(j, c)' => Holds(j, c))
    BY <1>4, <2>1, NoCommandAssumption DEF ServerDies, InOnePlace, Holds
  <2>. QED
    BY <1>4, <2>1, <2>2, FewerHold
<1>5. ASSUME NEW c \in Commands, CallerStep(c)
      PROVE  AllCounted'
  <2>1. PICK s \in {"expiring", "timed_out", "succeeded", "failed"} : caller' = [caller EXCEPT ![c] = s]
    BY <1>5 DEF CallerStep, Poll, Expire, SaveTimeout
  <2>2. \A d \in Commands : caller'[d] = "none" => caller[d] = "none"
    BY <2>1 DEF Inv, Typed
  <2>3. UNCHANGED <<busy, mail, wire, runs>>
    BY <1>5 DEF CallerStep, Poll, Expire, SaveTimeout, netVars
  <2>. QED
    BY <1>4, <2>2, <2>3
<1>6. CASE (\E k \in Conns : Accept(k) \/ Heartbeat(k) \/ Break(k)) \/ ServerDies \/ Age \/ Login \/ UNCHANGED vars
  <2>1. UNCHANGED <<caller, wire, runs>> /\ (UNCHANGED <<busy, mail, runs>> \/ ServerDies)
    BY <1>6 DEF Accept, Heartbeat, Break, ServerDies, Age, Login, vars, cmdVars, netVars
  <2>. QED
    BY <1>4, <2>1
<1>. QED
  BY <1>1, <1>2, <1>3, <1>5, <1>6 DEF Next, Surroundings

(* A command is carried out at most once for each websocket the agent has    *)
(* had, for any number of them, whatever is lost and whenever the server     *)
(* dies (agent_command, to which the group delivers on every websocket).     *)
THEOREM AtMostOncePerSocket == Spec => []RunsOncePerSocket
<1>1. Inv /\ AllCounted => RunsOncePerSocket
  <2> SUFFICES ASSUME Inv, AllCounted, NEW c \in Commands
               PROVE  runs[c] <= Cardinality(Conns)
    BY DEF RunsOncePerSocket
  <2>1. Holders(c) \in SUBSET Conns
    BY DEF Holders
  <2>2. Cardinality(Holders(c)) \in Nat /\ Cardinality(Conns) \in Nat /\ runs[c] \in Nat
    BY <2>1, HoldersCount DEF Inv, Typed
  <2>. QED
    BY <2>2 DEF AllCounted, Counted
<1>2. Inv /\ AllCounted /\ [Next]_vars => AllCounted'
  BY CountedStep
<1>. QED
  BY Invariance, InitCounted, <1>1, <1>2, PTL DEF Spec

-----------------------------------------------------------------------------
(***************************************************************************)
(* The steps of RemoteCommand that the steps of the callers and of the     *)
(* agent are.                                                              *)
(***************************************************************************)
LEMMA CallerMaps ==
  ASSUME Inv, NEW c \in Commands, Call(c) \/ CallerStep(c)
  PROVE  [Remote!Next]_(Remote!vars)
<1>0. caller \in [Commands -> {"none", "waiting", "expiring", "succeeded", "failed", "timed_out"}]
  BY DEF Inv, Typed
<1>1. CASE Call(c)
  <2>1. Outcome[c] = "none" /\ Outcome' = [Outcome EXCEPT ![c] = "waiting"]
    BY <1>0, <1>1 DEF Call, Outcome
  <2>2. UNCHANGED runs
    BY <1>1 DEF Call
  <2>. QED
    BY <2>1, <2>2 DEF Remote!Call, Remote!Next
<1>2. CASE Poll(c)
  <2>1. UNCHANGED runs
    BY <1>2 DEF Poll
  <2>2. CASE cmd[c].status = "succeeded"
    <3>1. Outcome[c] = "waiting" /\ Outcome' = [Outcome EXCEPT ![c] = "succeeded"]
      BY <1>0, <1>2, <2>2 DEF Poll, Outcome
    <3>2. runs[c] > 0
      BY <2>2 DEF Inv, Caused
    <3>. QED
      BY <2>1, <3>1, <3>2 DEF Remote!Succeed, Remote!Next
  <2>3. CASE cmd[c].status = "failed"
    <3>1. Outcome[c] = "waiting" /\ Outcome' = [Outcome EXCEPT ![c] = "failed"]
      BY <1>0, <1>2, <2>3 DEF Poll, Outcome
    <3>. QED
      BY <2>1, <3>1 DEF Remote!Fail, Remote!Next
  <2>. QED
    BY <1>2, <2>2, <2>3 DEF Poll
<1>3. CASE SaveTimeout(c)
  <2>1. Outcome[c] = "waiting" /\ Outcome' = [Outcome EXCEPT ![c] = "timed_out"]
    BY <1>0, <1>3 DEF SaveTimeout, Outcome
  <2>2. UNCHANGED runs
    BY <1>3 DEF SaveTimeout
  <2>. QED
    BY <2>1, <2>2 DEF Remote!GiveUp, Remote!Next
<1>4. CASE Expire(c)
  <2>1. Outcome' = Outcome /\ UNCHANGED runs
    BY <1>0, <1>4 DEF Expire, Outcome
  <2>. QED
    BY <2>1 DEF Remote!vars
<1>. QED
  BY <1>1, <1>2, <1>3, <1>4 DEF CallerStep

LEMMA AgentMaps ==
  ASSUME Inv, NEW k \in Conns, NEW c \in Commands, NEW ok \in BOOLEAN, AgentRuns(k, c, ok)
  PROVE  [Remote!Next]_(Remote!vars)
<1>1. caller[c] # "none" /\ Outcome' = Outcome
  BY DEF AgentRuns, Inv, Caused, cmdVars, Outcome
<1>2. runs \in [Commands -> Nat] /\ runs' = [runs EXCEPT ![c] = IF ok THEN @ + 1 ELSE @]
  BY DEF Inv, Typed, AgentRuns
<1>3. CASE ok
  <2>1. {d \in Commands : runs'[d] > 0} = {d \in Commands : runs[d] > 0} \union {c}
    BY <1>2, <1>3
  <2>2. Outcome[c] # "none"
    BY <1>1 DEF Outcome
  <2>. QED
    BY <1>1, <2>1, <2>2 DEF Remote!Do, Remote!Next
<1>4. CASE ~ok
  <2>1. runs' = runs
    BY <1>2, <1>4
  <2>. QED
    BY <1>1, <2>1 DEF Remote!vars
<1>. QED
  BY <1>3, <1>4

(* Every step of the agent's machinery is a step of a remote command, or    *)
(* none that a caller or a device could tell.                               *)
THEOREM Implements == Spec => IsRemoteCommand
<1>1. Init => Remote!Init
  BY DEF Init, Remote!Init, Outcome
<1>2. UNCHANGED <<caller, runs>> => UNCHANGED Remote!vars
  BY DEF Remote!vars, Outcome
<1>3. ASSUME NEW k \in Conns, ConsumerStep(k)
      PROVE  UNCHANGED <<caller, runs>>
  BY <1>3 DEF ConsumerStep, MarkOnline, MarkSent, Send, StoreResult, Leave, MarkOffline, cmdVars
<1>4. ASSUME Surroundings
      PROVE  \/ \E k \in Conns, c \in Commands, ok \in BOOLEAN : AgentRuns(k, c, ok)
             \/ UNCHANGED <<caller, runs>>
  BY <1>4 DEF Surroundings, Accept, Heartbeat, Break, DropMail, ServerDies, Age, Login, cmdVars
<1>5. Inv /\ Next => [Remote!Next]_(Remote!vars)
  BY <1>2, <1>3, <1>4, CallerMaps, AgentMaps DEF Next
<1>6. UNCHANGED vars => UNCHANGED Remote!vars
  BY <1>2 DEF vars, cmdVars
<1>. QED
  BY Invariance, <1>1, <1>5, <1>6, PTL DEF Spec, IsRemoteCommand, Remote!Spec
=============================================================================
