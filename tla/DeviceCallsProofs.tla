------------------------- MODULE DeviceCallsProofs -------------------------
(***************************************************************************)
(* Theorems about DeviceCalls, for any operations, addresses and moves of  *)
(* the device: an operation does what a single command to the agent does,  *)
(* and the device acts as often as it may.                                 *)
(***************************************************************************)
EXTENDS DeviceCalls, TLAPS

\* The request of an operation at which the device acts.
ActStep(kind) == IF kind = "open" THEN 1 ELSE 2

LEMMA RequestFacts ==
  ASSUME NEW kind \in AllKinds
  PROVE  /\ Len(Requests(kind)) \in 1..3
         /\ ActStep(kind) \in 1..Len(Requests(kind))
         /\ \A n \in 1..Len(Requests(kind)) :
              /\ Requests(kind)[n].effect <=> n = ActStep(kind)
              /\ Requests(kind)[n].tolerated => n # ActStep(kind) /\ kind # "charge"
              /\ Requests(kind)[n].synced => kind # "charge"
<1>1. CASE kind = "sale"
  BY <1>1 DEF Requests, Reading, Acting, ActStep
<1>2. CASE kind = "open"
  BY <1>2 DEF Requests, Reading, Acting, ActStep
<1>3. CASE kind = "close"
  BY <1>3 DEF Requests, Reading, Acting, ActStep
<1>4. CASE kind = "charge"
  BY <1>4 DEF Requests, Reading, Acting, ActStep
<1> QED
  BY <1>1, <1>2, <1>3, <1>4 DEF AllKinds

-----------------------------------------------------------------------------
(***************************************************************************)
(* Where a worker goes on.                                                 *)
(***************************************************************************)
\* From r on to s: the same operation at the address r knows.
Continues(r, s) == s \in Op /\ s.kind = r.kind /\ s.url = r.url /\ s.answer \in {r.answer, "none"}

\* It asks, or searches because it knows no address.
Asking(s) ==
  /\ s.pc \in {"post", "discover"}
  /\ s.pc = "discover" => s.url = NoUrl
  /\ s.tried \subseteq {"missing"}

LEMMA Asked ==
  ASSUME NEW r \in Op, r.tried = {}
  PROVE  Continues(r, Ask(r)) /\ Asking(Ask(r)) /\ Ask(r).step = r.step /\ Ask(r).stage = r.stage
<1>1. CASE r.url = NoUrl
  BY <1>1 DEF Ask, Op, Continues, Asking, Reasons
<1>2. CASE r.url # NoUrl
  BY <1>2 DEF Ask, Op, Continues, Asking, Reasons
<1> QED
  BY <1>1, <1>2

LEMMA Ended ==
  ASSUME NEW r \in Op, NEW result \in {"done", "failed"}
  PROVE  /\ Continues(r, End(r, result))
         /\ End(r, result).pc = result /\ End(r, result).step = r.step /\ End(r, result).stage = r.stage
  BY DEF End, Op, Continues

LEMMA Staged ==
  ASSUME NEW r \in Op, NEW stage \in {"first", "sync", "again"}
  PROVE  LET s == NextStage(r, stage)
         IN  Continues(r, s) /\ Asking(s) /\ s.step = r.step /\ s.stage = stage
<1> DEFINE q == [r EXCEPT !.stage = stage, !.tried = {}, !.answer = "none"]
<1>1. /\ q \in Op /\ q.tried = {} /\ q.step = r.step /\ q.stage = stage
      /\ q.kind = r.kind /\ q.url = r.url /\ q.answer = "none"
  BY DEF Op
<1> HIDE DEF q
<1>2. Continues(q, Ask(q)) /\ Asking(Ask(q)) /\ Ask(q).step = q.step /\ Ask(q).stage = q.stage
  BY <1>1, Asked
<1>3. NextStage(r, stage) = Ask(q)
  BY DEF NextStage, q
<1> QED
  BY <1>1, <1>2, <1>3 DEF Continues

\* The next request, or the end.
Advances(r, s) ==
  /\ Continues(r, s)
  /\ \/ s.pc = "done" /\ s.step = r.step /\ s.stage = r.stage /\ r.step = Len(Requests(r.kind))
     \/ Asking(s) /\ s.step = r.step + 1 /\ s.stage = "first" /\ s.step <= Len(Requests(r.kind))

LEMMA Stepped ==
  ASSUME NEW r \in Op, r.step \in 1..Len(Requests(r.kind))
  PROVE  Advances(r, NextStep(r))
<1>1. r.kind \in AllKinds
  BY DEF Op
<1>2. Len(Requests(r.kind)) \in 1..3
  BY <1>1, RequestFacts
<1>3. CASE r.step = Len(Requests(r.kind))
  BY <1>3, Ended DEF NextStep, Advances
<1>4. CASE r.step # Len(Requests(r.kind))
  <2> DEFINE n == r.step + 1
             q == [r EXCEPT !.step = n]
  <2>1. n \in 1..3 /\ n <= Len(Requests(r.kind))
    <3>1. \A l \in 1..3, m \in 1..3 : m \in 1..l /\ m # l => m + 1 \in 1..3 /\ m + 1 <= l
      OBVIOUS
    <3>2. r.step \in 1..3
      BY DEF Op
    <3> QED
      BY <1>2, <1>4, <3>1, <3>2
  <2> HIDE DEF n
  <2>2. q \in Op /\ q.step = n /\ q.kind = r.kind /\ q.url = r.url /\ q.answer = r.answer
    BY <2>1 DEF Op
  <2> HIDE DEF q
  <2>3. /\ Continues(q, NextStage(q, "first")) /\ Asking(NextStage(q, "first"))
        /\ NextStage(q, "first").step = q.step /\ NextStage(q, "first").stage = "first"
    BY <2>2, Staged
  <2>4. NextStep(r) = NextStage(q, "first")
    BY <1>4 DEF NextStep, q, n
  <2> QED
    BY <2>1, <2>2, <2>3, <2>4 DEF Continues, Advances, n
<1> QED
  BY <1>3, <1>4

\* After an error: the synchronisation, or the next request where the error is put
\* up with, or the end.
Recovers(r, s, unsynced) ==
  /\ Continues(r, s)
  /\ \/ /\ unsynced /\ r.kind # "charge" /\ r.stage = "first"
        /\ Asking(s) /\ s.step = r.step /\ s.stage = "sync"
     \/ /\ r.step # ActStep(r.kind) /\ r.kind # "charge" /\ Advances(r, s)
     \/ s.pc = "failed" /\ s.step = r.step /\ s.stage = r.stage

LEMMA Raised ==
  ASSUME NEW r \in Op, NEW unsynced \in BOOLEAN, r.step \in 1..Len(Requests(r.kind))
  PROVE  Recovers(r, Raise(r, unsynced), unsynced)
<1> DEFINE request == Requests(r.kind)[r.step]
<1>1. /\ request.tolerated => r.step # ActStep(r.kind) /\ r.kind # "charge"
      /\ request.synced => r.kind # "charge"
  BY RequestFacts DEF Op
<1>2. CASE unsynced /\ request.synced /\ r.stage = "first"
  BY <1>1, <1>2, Staged DEF Raise, Recovers
<1>3. CASE ~ (unsynced /\ request.synced /\ r.stage = "first") /\ request.tolerated
  <2>1. Raise(r, unsynced) = NextStep(r)
    BY <1>3 DEF Raise
  <2> QED
    BY <1>1, <1>3, <2>1, Stepped DEF Recovers, Advances
<1>4. CASE ~ (unsynced /\ request.synced /\ r.stage = "first") /\ ~ request.tolerated
  <2>1. Raise(r, unsynced) = End(r, "failed")
    BY <1>4 DEF Raise
  <2> QED
    BY <2>1, Ended DEF Recovers
<1> QED
  BY <1>2, <1>3, <1>4

-----------------------------------------------------------------------------
(***************************************************************************)
(* What is known of an operation r for which the device has acted a times, *)
(* and l commands are on their way, when the device is at x after m moves. *)
(***************************************************************************)
Posting(r)  == r.step = ActStep(r.kind) /\ r.pc \in {"post", "wait"}
Searching(r) == r.step = ActStep(r.kind) /\ r.pc = "discover"

\* The device has done what it is asked and the worker has yet to hear of it.
Latest(r) == IF r.pc = "wait" /\ r.answer = "ok" /\ r.stage # "sync" THEN 1 ELSE 0

\* The posts that may have been lost before: one before each search, and one
\* before the clock was synchronised.
Before(r) == IF r.kind = "charge" THEN 0
             ELSE IF r.stage = "first" THEN IF "error" \in r.tried THEN 1 ELSE 0
             ELSE IF r.stage = "again" /\ "error" \in r.tried THEN 2 ELSE 1

InOrder(r, a, l) ==
  /\ r.step \in 1..Len(Requests(r.kind))
  /\ r.kind = "charge" => r.stage = "first"
  /\ r.pc = "none" \/ r.step < ActStep(r.kind) => a + l = 0
  /\ r.pc = "none" => r.tried = {}

\* Success is told, and the next request made, only after the device has acted.
Earned(r, a) ==
  /\ r.step > ActStep(r.kind) => a > 0
  /\ r.pc = "done" => a > 0
  /\ Posting(r) /\ Latest(r) = 1 => a > 0

Limited(r, a, l) ==
  /\ a + l <= IF r.kind = "charge" THEN 1 ELSE 3
  /\ Posting(r) \/ Searching(r) => a + l <= Before(r) + Latest(r)

\* A device that stays put is found where it was asked, and not asked again.
Unmoved(r, a, l, x) ==
  /\ a + l <= 1
  /\ r.pc = "wait" /\ r.answer = "ok" => r.url = x
  /\ Posting(r) => a + l <= Latest(r)
  /\ Searching(r) /\ a + l > 0 => r.url = x

Good(r, a, l, m, x) ==
  InOrder(r, a, l) /\ Earned(r, a) /\ Limited(r, a, l) /\ (m = 0 => Unmoved(r, a, l, x))

Inv == \A o \in Ops : Good(op[o], acted[o], late[o], moves, at)

LEMMA Advanced ==
  ASSUME NEW r \in Op, NEW s, NEW a \in Nat, NEW l \in Nat, NEW m \in Nat, NEW x,
         Good(r, a, l, m, x), Advances(r, s), r.pc # "none",
         r.step = ActStep(r.kind) => a > 0
  PROVE  Good(s, a, l, m, x)
<1>1. /\ Len(Requests(r.kind)) \in 1..3 /\ ActStep(r.kind) \in 1..Len(Requests(r.kind))
      /\ r.step \in 1..3 /\ r.kind = s.kind
  BY RequestFacts DEF Op, Advances, Continues
<1>2. ASSUME s.pc = "done", s.step = r.step, s.stage = r.stage, r.step = Len(Requests(r.kind))
      PROVE  Good(s, a, l, m, x)
  BY <1>1, <1>2 DEF Good, InOrder, Earned, Limited, Unmoved, Posting, Searching
<1>3. ASSUME Asking(s), s.step = r.step + 1, s.stage = "first", s.step <= Len(Requests(r.kind))
      PROVE  Good(s, a, l, m, x)
  BY <1>1, <1>3 DEF Good, InOrder, Earned, Limited, Unmoved, Posting, Searching, Latest, Before, Asking
<1> QED
  BY <1>2, <1>3 DEF Advances

LEMMA Recovered ==
  ASSUME NEW r \in Op, NEW s, NEW unsynced \in BOOLEAN,
         NEW a \in Nat, NEW l \in Nat, NEW m \in Nat, NEW x,
         Good(r, a, l, m, x), Recovers(r, s, unsynced), r.pc # "none",
         unsynced => r.pc = "wait" /\ r.answer # "ok"
  PROVE  Good(s, a, l, m, x)
<1>1. /\ Len(Requests(r.kind)) \in 1..3 /\ ActStep(r.kind) \in 1..Len(Requests(r.kind))
      /\ r.step \in 1..3 /\ r.kind = s.kind
  BY RequestFacts DEF Op, Recovers, Continues
<1>2. ASSUME unsynced, r.kind # "charge", r.stage = "first",
             Asking(s), s.step = r.step, s.stage = "sync"
      PROVE  Good(s, a, l, m, x)
  BY <1>1, <1>2 DEF Good, InOrder, Earned, Limited, Unmoved, Posting, Searching, Latest, Before, Asking
<1>3. ASSUME r.step # ActStep(r.kind), Advances(r, s)
      PROVE  Good(s, a, l, m, x)
  BY <1>3, Advanced
<1>4. ASSUME s.pc = "failed", s.step = r.step, s.stage = r.stage
      PROVE  Good(s, a, l, m, x)
  BY <1>1, <1>4 DEF Good, InOrder, Earned, Limited, Unmoved, Posting, Searching
<1> QED
  BY <1>2, <1>3, <1>4 DEF Recovers

-----------------------------------------------------------------------------
(***************************************************************************)
(* The steps.  Each of them concerns one operation.                        *)
(***************************************************************************)
LEMMA Updated ==
  ASSUME TypeOK, Inv, NEW o \in Ops, NEW s \in Op, NEW a \in Nat, NEW l \in Nat,
         op' = [op EXCEPT ![o] = s], acted' = [acted EXCEPT ![o] = a], late' = [late EXCEPT ![o] = l],
         UNCHANGED <<at, moves>>, config' \in Urls \union {NoUrl},
         Good(s, a, l, moves, at)
  PROVE  TypeOK' /\ Inv'
<1>1. TypeOK'
  BY DEF TypeOK
<1>2. ASSUME NEW p \in Ops
      PROVE  Good(op'[p], acted'[p], late'[p], moves, at)
  <2>1. CASE p = o
    BY <2>1 DEF TypeOK
  <2>2. CASE p # o
    <3>1. op'[p] = op[p] /\ acted'[p] = acted[p] /\ late'[p] = late[p]
      BY <2>2 DEF TypeOK
    <3> QED
      BY <3>1 DEF Inv
  <2> QED
    BY <2>1, <2>2
<1> QED
  BY <1>1, <1>2 DEF Inv

\* The same where the device does nothing.
LEMMA Continued ==
  ASSUME TypeOK, Inv, NEW o \in Ops, NEW s \in Op,
         op' = [op EXCEPT ![o] = s], UNCHANGED <<acted, late, at, moves>>, config' \in Urls \union {NoUrl},
         Good(s, acted[o], late[o], moves, at)
  PROVE  TypeOK' /\ Inv'
<1>1. acted[o] \in Nat /\ late[o] \in Nat
  BY DEF TypeOK
<1>2. acted' = [acted EXCEPT ![o] = acted[o]] /\ late' = [late EXCEPT ![o] = late[o]]
  BY DEF TypeOK
<1> QED
  BY <1>1, <1>2, Updated

\* What is known of one operation.
LEMMA Known ==
  ASSUME TypeOK, Inv, NEW o \in Ops
  PROVE  /\ op[o] \in Op /\ acted[o] \in Nat /\ late[o] \in Nat /\ moves \in Nat
         /\ Good(op[o], acted[o], late[o], moves, at)
         /\ Len(Requests(op[o].kind)) \in 1..3
         /\ ActStep(op[o].kind) \in 1..Len(Requests(op[o].kind))
         /\ op[o].step \in 1..Len(Requests(op[o].kind))
         /\ Acts(o) <=> op[o].step = ActStep(op[o].kind) /\ op[o].stage # "sync"
<1>1. op[o] \in Op /\ acted[o] \in Nat /\ late[o] \in Nat /\ moves \in Nat
  BY ConstantsAssumption DEF TypeOK
<1>2. Good(op[o], acted[o], late[o], moves, at)
  BY DEF Inv
<1>3. op[o].kind \in AllKinds /\ op[o].step \in 1..Len(Requests(op[o].kind))
  BY <1>1, <1>2 DEF Op, Good, InOrder
<1>4. Request(o).effect <=> op[o].step = ActStep(op[o].kind)
  BY <1>3, RequestFacts DEF Request
<1> QED
  BY <1>1, <1>2, <1>3, <1>4, RequestFacts DEF Acts

LEMMA Searched ==
  ASSUME NEW r \in Op, NEW reason \in Reasons
  PROVE  LET s == Search(r, reason)
         IN  /\ s \in Op /\ s.pc = "discover" /\ s.kind = r.kind /\ s.step = r.step
             /\ s.stage = r.stage /\ s.url = r.url /\ s.tried = r.tried \union {reason}
<1> DEFINE tried == r.tried \union {reason}
<1>1. tried \subseteq Reasons
  BY DEF Op
<1> HIDE DEF tried
<1>2. LET s == [r EXCEPT !.pc = "discover", !.tried = tried]
      IN  /\ s \in Op /\ s.pc = "discover" /\ s.kind = r.kind /\ s.step = r.step
          /\ s.stage = r.stage /\ s.url = r.url /\ s.tried = tried
  BY <1>1 DEF Op
<1>3. Search(r, reason) = [r EXCEPT !.pc = "discover", !.tried = tried]
  BY DEF Search, tried
<1> QED
  BY <1>2, <1>3 DEF tried

LEMMA BeginGood ==
  ASSUME TypeOK, Inv, NEW o \in Ops, Begin(o)
  PROVE  TypeOK' /\ Inv'
<1> DEFINE r == op[o]
           q == [r EXCEPT !.url = config]
<1>1. /\ r \in Op /\ r.pc = "none" /\ acted[o] \in Nat /\ late[o] \in Nat
      /\ Good(r, acted[o], late[o], moves, at)
  BY Known DEF Begin
<1>2. q \in Op /\ q.kind = r.kind /\ q.step = r.step /\ q.stage = r.stage /\ q.tried = r.tried
  BY <1>1 DEF Op, TypeOK
<1>3. op' = [op EXCEPT ![o] = Ask(q)] /\ UNCHANGED <<acted, late, at, moves, config>>
  BY DEF Begin, Set
<1> HIDE DEF q, r
<1>4. q.tried = {} /\ acted[o] + late[o] = 0
  BY <1>1, <1>2 DEF Good, InOrder
<1>5. /\ Ask(q) \in Op /\ Ask(q).kind = r.kind /\ Ask(q).step = r.step /\ Ask(q).stage = r.stage
      /\ Asking(Ask(q))
  BY <1>2, <1>4, Asked DEF Continues
<1>6. Good(Ask(q), acted[o], late[o], moves, at)
  BY <1>1, <1>4, <1>5 DEF Good, InOrder, Earned, Limited, Unmoved, Posting, Searching, Latest, Before, Asking
<1> QED
  BY <1>3, <1>5, <1>6, Continued DEF TypeOK

LEMMA PostGood ==
  ASSUME TypeOK, Inv, NEW o \in Ops, Post(o)
  PROVE  TypeOK' /\ Inv'
<1> DEFINE r == op[o]
           s == [r EXCEPT !.pc = "wait", !.answer = "none"]
<1>1. r \in Op /\ r.pc = "post" /\ acted[o] \in Nat /\ late[o] \in Nat /\ Good(r, acted[o], late[o], moves, at)
  BY Known DEF Post
<1>2. /\ s \in Op /\ s.kind = r.kind /\ s.step = r.step /\ s.stage = r.stage /\ s.tried = r.tried
      /\ s.url = r.url /\ s.pc = "wait" /\ s.answer = "none"
  BY <1>1 DEF Op
<1>3. op' = [op EXCEPT ![o] = s] /\ UNCHANGED <<acted, late, at, moves, config>>
  BY DEF Post, Set
<1> HIDE DEF s, r
<1>4. Good(s, acted[o], late[o], moves, at)
  BY <1>1, <1>2 DEF Good, InOrder, Earned, Limited, Unmoved, Posting, Searching, Latest, Before
<1> QED
  BY <1>2, <1>3, <1>4, Continued DEF TypeOK

\* A failure without an answer: Offline and NotFound.
LEMMA RaiseGood ==
  ASSUME TypeOK, Inv, NEW o \in Ops, op[o].pc # "none",
         op' = [op EXCEPT ![o] = Raise(op[o], FALSE)], UNCHANGED <<acted, late, at, moves, config>>
  PROVE  TypeOK' /\ Inv'
<1>1. /\ op[o] \in Op /\ acted[o] \in Nat /\ late[o] \in Nat /\ moves \in Nat
      /\ Good(op[o], acted[o], late[o], moves, at) /\ op[o].step \in 1..Len(Requests(op[o].kind))
  BY Known
<1>2. Recovers(op[o], Raise(op[o], FALSE), FALSE)
  BY <1>1, Raised
<1>3. Good(Raise(op[o], FALSE), acted[o], late[o], moves, at)
  BY <1>1, <1>2, Recovered
<1> QED
  BY <1>2, <1>3, Continued DEF TypeOK, Recovers, Continues

LEMMA AnswerGood ==
  ASSUME TypeOK, Inv, NEW o \in Ops, NEW answer \in {"ok", "refused", "unsynced"}, DeviceActs(o, answer)
  PROVE  TypeOK' /\ Inv'
<1> DEFINE r == op[o]
           s == [r EXCEPT !.answer = answer]
           a == IF answer = "ok" /\ Acts(o) THEN acted[o] + 1 ELSE acted[o]
<1>1. /\ r \in Op /\ r.pc = "wait" /\ r.answer = "none" /\ r.url = at
      /\ acted[o] \in Nat /\ late[o] \in Nat /\ Good(r, acted[o], late[o], moves, at)
      /\ Acts(o) <=> r.step = ActStep(r.kind) /\ r.stage # "sync"
  BY Known DEF DeviceActs
<1>2. /\ s \in Op /\ s.kind = r.kind /\ s.step = r.step /\ s.stage = r.stage /\ s.tried = r.tried
      /\ s.url = r.url /\ s.pc = "wait" /\ s.answer = answer
  BY <1>1 DEF Op
<1>3. op' = [op EXCEPT ![o] = s] /\ UNCHANGED <<late, at, moves, config>>
  BY DEF DeviceActs, Set
<1>4. acted' = [acted EXCEPT ![o] = a] /\ late' = [late EXCEPT ![o] = late[o]]
  BY <1>3 DEF DeviceActs, TypeOK
<1>5. a \in Nat
  BY <1>1
<1>6. Good(s, a, late[o], moves, at)
  <2>1. r.step \in 1..3 /\ ActStep(r.kind) \in 1..2
    BY <1>1 DEF Op, ActStep
  <2>2. CASE answer = "ok" /\ r.step = ActStep(r.kind) /\ r.stage # "sync"
    <3>1. a = acted[o] + 1
      BY <1>1, <2>2
    <3> HIDE DEF s, r, a
    <3>2. InOrder(s, a, late[o]) /\ Earned(s, a)
      BY <3>1, <2>1, <2>2, <1>1, <1>2, <1>5 DEF Good, InOrder, Earned
    <3>3. Limited(s, a, late[o])
      <4>1. acted[o] + late[o] <= Before(r) + Latest(r)
        BY <2>2, <1>1 DEF Good, Limited, Posting
      <4>2. Latest(r) = 0 /\ Latest(s) = 1
        BY <2>2, <1>1, <1>2 DEF Latest
      <4>3. Before(s) = Before(r) /\ Before(r) \in 0..2 /\ (r.kind = "charge" => Before(r) = 0)
        BY <1>2 DEF Before
      <4> QED
        BY <4>1, <4>2, <4>3, <3>1, <1>1, <1>2, <1>5 DEF Limited
    <3>4. moves = 0 => Unmoved(s, a, late[o], at)
      BY <3>1, <2>1, <2>2, <1>1, <1>2, <1>5 DEF Good, Unmoved, Posting, Searching, Latest
    <3> QED
      BY <3>2, <3>3, <3>4 DEF Good
  <2>3. CASE ~ (answer = "ok" /\ r.step = ActStep(r.kind) /\ r.stage # "sync")
    <3>1. a = acted[o]
      BY <1>1, <2>3
    <3> HIDE DEF s, r, a
    <3> QED
      BY <3>1, <2>1, <2>3, <1>1, <1>2 DEF Good, InOrder, Earned, Limited, Unmoved, Posting, Searching, Latest, Before
  <2> QED
    BY <2>2, <2>3
<1> HIDE DEF s, r, a
<1> QED
  BY <1>1, <1>2, <1>3, <1>4, <1>5, <1>6, Updated DEF TypeOK

LEMMA StrangerGood ==
  ASSUME TypeOK, Inv, NEW o \in Ops, StrangerAnswers(o)
  PROVE  TypeOK' /\ Inv'
<1> DEFINE r == op[o]
           s == [r EXCEPT !.answer = "refused"]
<1>1. /\ r \in Op /\ r.pc = "wait" /\ r.answer = "none" /\ acted[o] \in Nat /\ late[o] \in Nat
      /\ Good(r, acted[o], late[o], moves, at)
  BY Known DEF StrangerAnswers
<1>2. /\ s \in Op /\ s.kind = r.kind /\ s.step = r.step /\ s.stage = r.stage /\ s.tried = r.tried
      /\ s.url = r.url /\ s.pc = "wait" /\ s.answer = "refused"
  BY <1>1 DEF Op
<1>3. op' = [op EXCEPT ![o] = s] /\ UNCHANGED <<acted, late, at, moves, config>>
  BY DEF StrangerAnswers, Set
<1> HIDE DEF s, r
<1>4. Good(s, acted[o], late[o], moves, at)
  BY <1>1, <1>2 DEF Good, InOrder, Earned, Limited, Unmoved, Posting, Searching, Latest, Before
<1> QED
  BY <1>2, <1>3, <1>4, Continued DEF TypeOK

LEMMA HearGood ==
  ASSUME TypeOK, Inv, NEW o \in Ops, Hear(o)
  PROVE  TypeOK' /\ Inv'
<1> DEFINE r == op[o]
<1>1. /\ r \in Op /\ r.pc = "wait" /\ acted[o] \in Nat /\ late[o] \in Nat /\ moves \in Nat
      /\ Good(r, acted[o], late[o], moves, at) /\ r.step \in 1..Len(Requests(r.kind))
  BY Known DEF Hear
<1>2. UNCHANGED <<acted, late, at, moves, config>>
  BY DEF Hear
<1>3. ASSUME NEW s \in Op, op' = [op EXCEPT ![o] = s], Good(s, acted[o], late[o], moves, at)
      PROVE  TypeOK' /\ Inv'
  BY <1>2, <1>3, Continued DEF TypeOK
<1>4. CASE r.answer = "ok" /\ r.stage = "sync"
  <2> DEFINE s == NextStage(r, "again")
  <2>1. Continues(r, s) /\ Asking(s) /\ s.step = r.step /\ s.stage = "again"
    BY <1>1, Staged
  <2>2. op' = [op EXCEPT ![o] = s]
    BY <1>4 DEF Hear, Set, Return
  <2> HIDE DEF r, s
  <2>3. Good(s, acted[o], late[o], moves, at)
    BY <1>1, <1>4, <2>1 DEF Good, InOrder, Earned, Limited, Unmoved, Posting, Searching, Latest, Before,
                            Asking, Continues
  <2> QED
    BY <1>3, <2>1, <2>2, <2>3 DEF Continues
<1>5. CASE r.answer = "ok" /\ r.stage # "sync"
  <2> DEFINE s == NextStep(r)
  <2>1. Advances(r, s)
    BY <1>1, Stepped
  <2>2. op' = [op EXCEPT ![o] = s]
    BY <1>5 DEF Hear, Set, Return
  <2>3. r.step = ActStep(r.kind) => acted[o] > 0
    BY <1>1, <1>5 DEF Good, Earned, Posting, Latest
  <2> HIDE DEF r, s
  <2>4. Good(s, acted[o], late[o], moves, at)
    BY <1>1, <2>1, <2>3, Advanced
  <2> QED
    BY <1>3, <2>1, <2>2, <2>4 DEF Advances, Continues
<1>6. CASE r.answer # "ok" /\ op' = [op EXCEPT ![o] = Raise(r, r.answer = "unsynced")]
  <2> DEFINE unsynced == r.answer = "unsynced"
             s == Raise(r, unsynced)
  <2>1. unsynced \in BOOLEAN /\ (unsynced => r.answer # "ok")
    BY <1>6
  <2> HIDE DEF unsynced
  <2>2. Recovers(r, s, unsynced)
    BY <1>1, <2>1, Raised
  <2>3. Good(s, acted[o], late[o], moves, at)
    BY <1>1, <2>1, <2>2, Recovered
  <2>4. s \in Op
    BY <2>2 DEF Recovers, Continues
  <2>5. op' = [op EXCEPT ![o] = s]
    BY <1>6 DEF unsynced
  <2> HIDE DEF s
  <2> QED
    BY <1>3, <2>3, <2>4, <2>5
<1>7. CASE Terminal(o) /\ r.step = 1 /\ op' = [op EXCEPT ![o] = Search(r, "invalid")]
  <2> DEFINE s == Search(r, "invalid")
  <2>1. /\ s \in Op /\ s.pc = "discover" /\ s.kind = r.kind /\ s.step = r.step /\ s.stage = r.stage
    BY <1>1, Searched DEF Reasons
  <2>2. r.kind = "charge" /\ ActStep(r.kind) = 2
    BY <1>7 DEF Terminal, ActStep
  <2>3. op' = [op EXCEPT ![o] = s]
    BY <1>7
  <2> HIDE DEF r, s
  <2>4. Good(s, acted[o], late[o], moves, at)
    BY <1>1, <1>7, <2>1, <2>2 DEF Good, InOrder, Earned, Limited, Unmoved, Posting, Searching
  <2> QED
    BY <1>3, <2>1, <2>3, <2>4
<1> QED
  BY <1>4, <1>5, <1>6, <1>7 DEF Hear, Set

LEMMA LoseGood ==
  ASSUME TypeOK, Inv, NEW o \in Ops, NEW known \in BOOLEAN, Lose(o, known)
  PROVE  TypeOK' /\ Inv'
<1> DEFINE r == op[o]
           a == acted[o]
           l == IF Acts(o) /\ r.url = at /\ r.answer = "none" THEN late[o] + 1 ELSE late[o]
<1>1. /\ r \in Op /\ r.pc = "wait" /\ a \in Nat /\ late[o] \in Nat /\ moves \in Nat
      /\ Good(r, a, late[o], moves, at) /\ r.step \in 1..Len(Requests(r.kind))
      /\ r.step \in 1..3 /\ ActStep(r.kind) \in 1..2
  BY Known DEF Lose, Op, ActStep
<1>2. acted' = [acted EXCEPT ![o] = a] /\ late' = [late EXCEPT ![o] = l] /\ UNCHANGED <<at, moves, config>>
  BY DEF Lose, TypeOK
<1>3. \/ l = late[o] /\ (r.step = ActStep(r.kind) /\ r.stage # "sync" /\ r.url = at => r.answer # "none")
      \/ /\ l = late[o] + 1
         /\ r.step = ActStep(r.kind) /\ r.stage # "sync" /\ r.url = at /\ r.answer = "none"
  BY Known
<1>4. l \in Nat
  BY <1>1
<1>5. ASSUME NEW s \in Op, op' = [op EXCEPT ![o] = s], Good(s, a, l, moves, at)
      PROVE  TypeOK' /\ Inv'
  BY <1>1, <1>2, <1>4, <1>5, Updated DEF TypeOK
<1>6. CASE Rediscovers(r, known) /\ op' = [op EXCEPT ![o] = Search(r, "error")]
  <2> DEFINE s == Search(r, "error")
  <2>1. /\ s \in Op /\ s.pc = "discover" /\ s.kind = r.kind /\ s.step = r.step /\ s.stage = r.stage
        /\ s.url = r.url /\ s.tried = r.tried \union {"error"}
    BY <1>1, Searched DEF Reasons
  <2>2. IF r.kind = "charge" THEN r.step = 1 ELSE "error" \notin r.tried
    BY <1>6 DEF Rediscovers
  <2>3. op' = [op EXCEPT ![o] = s]
    BY <1>6
  <2>4. r.kind = "charge" => r.step < ActStep(r.kind)
    BY <2>2 DEF ActStep
  <2> HIDE DEF r, s, a, l
  <2>5. InOrder(s, a, l) /\ Earned(s, a)
    BY <1>1, <1>3, <1>4, <2>1, <2>2, <2>4 DEF Good, InOrder, Earned, Posting
  <2>6. Limited(s, a, l)
    <3>1. CASE s.step # ActStep(s.kind)
      BY <3>1, <1>1, <1>3, <1>4, <2>1 DEF Good, Limited, Posting, Searching
    <3>2. CASE s.step = ActStep(s.kind)
      <4>1. r.kind # "charge" /\ "error" \notin r.tried /\ a + late[o] <= Before(r) + Latest(r)
        BY <3>2, <1>1, <2>1, <2>2, <2>4 DEF Good, Limited, Posting
      <4>2. /\ Before(s) = IF r.stage = "sync" THEN Before(r) ELSE Before(r) + 1
            /\ Before(r) \in 0..1 /\ Latest(s) = 0 /\ Latest(r) \in 0..1
            /\ r.stage = "sync" \/ r.answer = "none" => Latest(r) = 0
        BY <4>1, <1>1, <2>1 DEF Before, Latest, Op
      <4> QED
        BY <4>1, <4>2, <1>1, <1>3, <1>4, <2>1 DEF Limited
    <3> QED
      BY <3>1, <3>2
  <2>7. moves = 0 => Unmoved(s, a, l, at)
    BY <1>1, <1>3, <1>4, <2>1, <2>2 DEF Good, Unmoved, Posting, Searching, Latest
  <2>8. Good(s, a, l, moves, at)
    BY <2>5, <2>6, <2>7 DEF Good
  <2> QED
    BY <1>5, <2>1, <2>3, <2>8
<1>7. CASE op' = [op EXCEPT ![o] = Raise(r, FALSE)]
  <2> DEFINE s == Raise(r, FALSE)
  <2>1. Recovers(r, s, FALSE)
    BY <1>1, Raised
  <2>2. s \in Op /\ s.kind = r.kind
    BY <2>1 DEF Recovers, Continues
  <2> HIDE DEF s
  <2>3. CASE r.step # ActStep(r.kind)
    <3>1. Good(s, a, late[o], moves, at)
      BY <1>1, <2>1, Recovered
    <3>2. l = late[o]
      BY <2>3, <1>3
    <3> QED
      BY <1>5, <1>7, <2>2, <3>1, <3>2 DEF s
  <2>4. CASE r.step = ActStep(r.kind)
    <3>1. s.pc = "failed" /\ s.step = r.step /\ s.stage = r.stage
      BY <2>1, <2>4 DEF Recovers
    <3>2. op' = [op EXCEPT ![o] = s]
      BY <1>7 DEF s
    <3> HIDE DEF r, a, l
    <3>3. /\ a + late[o] <= Before(r) + Latest(r) /\ Before(r) \in 0..2 /\ (r.kind = "charge" => Before(r) = 0)
          /\ r.answer = "none" => Latest(r) = 0
      BY <2>4, <1>1 DEF Good, Limited, Posting, Before, Latest
    <3>4. InOrder(s, a, l) /\ Earned(s, a)
      BY <1>1, <1>3, <1>4, <2>2, <2>4, <3>1 DEF Good, InOrder, Earned, Posting
    <3>5. Limited(s, a, l)
      <4>1. a + l <= IF r.kind = "charge" THEN 1 ELSE 3
        BY <1>1, <1>3, <1>4, <3>3 DEF Good, Limited
      <4> QED
        BY <4>1, <2>2, <3>1 DEF Limited, Posting, Searching
    <3>6. moves = 0 => Unmoved(s, a, l, at)
      BY <1>1, <1>3, <1>4, <2>2, <2>4, <3>1 DEF Good, Unmoved, Posting, Searching, Latest
    <3> QED
      BY <1>5, <2>2, <3>2, <3>4, <3>5, <3>6 DEF Good
  <2> QED
    BY <2>3, <2>4
<1> QED
  BY <1>6, <1>7 DEF Lose, Set

LEMMA LateGood ==
  ASSUME TypeOK, Inv, NEW o \in Ops, DeviceActsLate(o)
  PROVE  TypeOK' /\ Inv'
<1> DEFINE r == op[o]
           a == acted[o] + 1
           l == late[o] - 1
<1>1. /\ r \in Op /\ acted[o] \in Nat /\ late[o] \in Nat /\ late[o] > 0
      /\ Good(r, acted[o], late[o], moves, at)
  BY Known DEF DeviceActsLate
<1>2. a \in Nat /\ l \in Nat /\ a + l = acted[o] + late[o] /\ a > 0
  BY <1>1
<1>3. /\ acted' = [acted EXCEPT ![o] = a] /\ late' = [late EXCEPT ![o] = l]
      /\ op' = [op EXCEPT ![o] = r] /\ UNCHANGED <<at, moves, config>>
  BY DEF DeviceActsLate, TypeOK
<1> HIDE DEF r, a, l
<1>4. Good(r, a, l, moves, at)
  BY <1>1, <1>2 DEF Good, InOrder, Earned, Limited, Unmoved
<1> QED
  BY <1>1, <1>2, <1>3, <1>4, Updated DEF TypeOK

LEMMA DiscoveredGood ==
  ASSUME TypeOK, Inv, NEW o \in Ops, NEW saved \in BOOLEAN, Discovered(o, saved)
  PROVE  TypeOK' /\ Inv'
<1> DEFINE r == op[o]
           q == [r EXCEPT !.url = at]
<1>1. /\ r \in Op /\ r.pc = "discover" /\ acted[o] \in Nat /\ late[o] \in Nat /\ moves \in Nat
      /\ Good(r, acted[o], late[o], moves, at) /\ r.step \in 1..Len(Requests(r.kind))
  BY Known DEF Discovered
<1>2. UNCHANGED <<acted, late, at, moves>> /\ config' \in Urls \union {NoUrl}
  BY DEF Discovered, TypeOK
<1>3. /\ q \in Op /\ q.kind = r.kind /\ q.step = r.step /\ q.stage = r.stage /\ q.tried = r.tried
      /\ q.url = at /\ q.pc = r.pc /\ q.answer = r.answer
  BY <1>1 DEF Op, TypeOK
<1>4. CASE r.url = at
  <2>1. op' = [op EXCEPT ![o] = Raise(q, FALSE)]
    BY <1>4 DEF Discovered, Set
  <2> HIDE DEF r, q
  <2>2. Good(q, acted[o], late[o], moves, at)
    BY <1>1, <1>3, <1>4 DEF Good, InOrder, Earned, Limited, Unmoved, Posting, Searching, Latest, Before
  <2>3. Recovers(q, Raise(q, FALSE), FALSE)
    BY <1>1, <1>3, Raised
  <2>4. Good(Raise(q, FALSE), acted[o], late[o], moves, at)
    BY <1>1, <1>3, <2>2, <2>3, Recovered
  <2> QED
    BY <1>2, <2>1, <2>3, <2>4, Continued DEF Recovers, Continues
<1>5. CASE r.url # at
  <2> DEFINE s == [q EXCEPT !.pc = "post"]
  <2>1. op' = [op EXCEPT ![o] = s]
    BY <1>5 DEF Discovered, Set
  <2> HIDE DEF q, r
  <2>2. /\ s \in Op /\ s.kind = r.kind /\ s.step = r.step /\ s.stage = r.stage /\ s.tried = r.tried
        /\ s.url = at /\ s.pc = "post"
    BY <1>3 DEF Op
  <2> HIDE DEF s
  <2>3. Good(s, acted[o], late[o], moves, at)
    BY <1>1, <1>5, <2>2 DEF Good, InOrder, Earned, Limited, Unmoved, Posting, Searching, Latest, Before
  <2> QED
    BY <1>2, <2>1, <2>2, <2>3, Continued
<1> QED
  BY <1>4, <1>5

\* The device or the setting changes: nothing more is said of an unmoved device.
LEMMA MovedGood ==
  ASSUME TypeOK, Inv, NEW u \in Urls, Move(u) \/ Configure(u)
  PROVE  TypeOK' /\ Inv'
<1>1. moves' = moves + 1 /\ moves' \in 0..MaxMoves /\ moves' # 0 /\ UNCHANGED <<op, acted, late>>
  BY ConstantsAssumption DEF TypeOK, Move, Configure
<1>2. at' \in Urls /\ config' \in Urls \union {NoUrl}
  BY DEF TypeOK, Move, Configure
<1>3. TypeOK'
  BY <1>1, <1>2 DEF TypeOK
<1>4. ASSUME NEW o \in Ops
      PROVE  Good(op[o], acted[o], late[o], moves', at')
  BY <1>1 DEF Inv, Good
<1> QED
  BY <1>1, <1>3, <1>4 DEF Inv

-----------------------------------------------------------------------------
LEMMA Started == Init => TypeOK /\ Inv
<1> SUFFICES ASSUME Init
             PROVE  TypeOK /\ Inv
  OBVIOUS
<1>1. ASSUME NEW kind \in AllKinds
      PROVE  /\ Begun(kind) \in Op /\ Begun(kind).kind = kind /\ Begun(kind).pc = "none"
             /\ Begun(kind).step = 1 /\ Begun(kind).stage = "first" /\ Begun(kind).tried = {}
  BY DEF Begun, Op
<1>2. PICK kind \in [Ops -> Kinds] : op = [o \in Ops |-> Begun(kind[o])]
  BY DEF Init
<1>3. \A o \in Ops : kind[o] \in AllKinds
  BY ConstantsAssumption
<1>4. op \in [Ops -> Op]
  BY <1>1, <1>2, <1>3
<1>5. TypeOK
  BY <1>4, ConstantsAssumption DEF Init, TypeOK
<1>6. ASSUME NEW o \in Ops
      PROVE  Good(op[o], acted[o], late[o], moves, at)
  <2>1. /\ op[o].kind = kind[o] /\ op[o].pc = "none" /\ op[o].step = 1 /\ op[o].stage = "first"
        /\ op[o].tried = {}
    BY <1>1, <1>2, <1>3
  <2>2. acted[o] = 0 /\ late[o] = 0
    BY DEF Init
  <2>3. Len(Requests(kind[o])) \in 1..3 /\ ActStep(kind[o]) \in 1..2
    BY <1>3, RequestFacts DEF ActStep
  <2>4. op[o].step \in 1..Len(Requests(op[o].kind)) /\ ~ (op[o].step > ActStep(op[o].kind))
    <3>1. (\A n \in 1..3 : 1 \in 1..n) /\ (\A n \in 1..2 : ~ (1 > n))
      OBVIOUS
    <3> QED
      BY <2>1, <2>3, <3>1
  <2>5. ~ Posting(op[o]) /\ ~ Searching(op[o])
    BY <2>1 DEF Posting, Searching
  <2>6. acted[o] + late[o] = 0
    BY <2>2
  <2> QED
    BY <2>1, <2>2, <2>4, <2>5, <2>6 DEF Good, InOrder, Earned, Limited, Unmoved
<1> QED
  BY <1>5, <1>6 DEF Inv

LEMMA Kept == TypeOK /\ Inv /\ [Next]_vars => TypeOK' /\ Inv'
<1> SUFFICES ASSUME TypeOK, Inv, [Next]_vars
             PROVE  TypeOK' /\ Inv'
  OBVIOUS
<1>1. ASSUME NEW o \in Ops, Offline(o) \/ NotFound(o)
      PROVE  TypeOK' /\ Inv'
  BY <1>1, RaiseGood DEF Offline, NotFound, Set
<1>2. ASSUME NEW o \in Ops, Step(o)
      PROVE  TypeOK' /\ Inv'
  BY <1>1, <1>2, BeginGood, PostGood, HearGood, LoseGood, DiscoveredGood DEF Step
<1>3. CASE UNCHANGED vars
  BY <1>3 DEF vars, TypeOK, Inv
<1> QED
  BY <1>2, <1>3, StrangerGood, LateGood, AnswerGood, MovedGood DEF Next

LEMMA Always == Spec => [](TypeOK /\ Inv)
  BY Started, Kept, PTL DEF Spec

\* Every value of the settings, the operations and the counts is of its type.
THEOREM Typing == Spec => []TypeOK
  BY Always, PTL

\* A customer is asked for the money once and a device that stays where it is acts
\* once, whatever is searched for, synchronised and lost on the way; a device that
\* moves acts three times at most, for any number of operations and moves.
THEOREM ActsSeldom == Spec => []ActsOnce
<1>1. TypeOK /\ Inv => ActsOnce
  <2> SUFFICES ASSUME TypeOK, Inv, NEW o \in Ops
               PROVE  acted[o] + late[o] <= IF Terminal(o) \/ moves = 0 THEN 1 ELSE 3
    BY DEF ActsOnce
  <2>1. Good(op[o], acted[o], late[o], moves, at)
    BY DEF Inv
  <2> QED
    BY <2>1, Known DEF Good, Limited, Unmoved, Terminal
<1> QED
  BY <1>1, Always, PTL

-----------------------------------------------------------------------------
(***************************************************************************)
(* The refinement of RemoteCommand.                                        *)
(***************************************************************************)
Outcomes == [o \in Ops |-> Outcome(o)]
Done     == {o \in Ops : acted[o] > 0}

\* A worker's step tells its caller something at most once.
LEMMA StepTells ==
  ASSUME TypeOK, Inv, Inv', NEW o \in Ops, NEW s \in Op,
         op' = [op EXCEPT ![o] = s], acted' = acted,
         op[o].pc = "none" => s.pc \in {"post", "discover"},
         op[o].pc # "none" => op[o].pc \in {"post", "wait", "discover"} /\ s.pc # "none"
  PROVE  [Remote!Next]_(Remote!vars)
<1>1. /\ Outcomes' = [Outcomes EXCEPT ![o] = Outcome(o)']
      /\ Done' = Done
  BY DEF Outcomes, Outcome, Done, TypeOK
<1>2. op'[o] = s /\ op[o] \in Op
  BY DEF TypeOK
<1>3. CASE op[o].pc = "none"
  <2>1. Outcome(o) = "none" /\ Outcome(o)' = "waiting"
    BY <1>2, <1>3 DEF Outcome
  <2>2. Remote!Call(o)
    BY <1>1, <2>1 DEF Remote!Call, Outcomes, Done
  <2> QED
    BY <2>2 DEF Remote!Next
<1>4. CASE op[o].pc # "none"
  <2>1. Outcome(o) = "waiting"
    BY <1>4 DEF Outcome
  <2>2. CASE s.pc = "done"
    <3>1. Outcome(o)' = "succeeded"
      BY <2>2, <1>2 DEF Outcome
    <3>2. o \in Done
      BY <2>2, <1>2 DEF Inv, Good, Earned, Done
    <3>3. Remote!Succeed(o)
      BY <1>1, <2>1, <3>1, <3>2 DEF Remote!Succeed, Outcomes, Done
    <3> QED
      BY <3>3 DEF Remote!Next
  <2>3. CASE s.pc = "failed"
    <3>1. Outcome(o)' = "failed"
      BY <2>3, <1>2 DEF Outcome
    <3>2. Remote!Fail(o)
      BY <1>1, <2>1, <3>1 DEF Remote!Fail, Outcomes, Done
    <3> QED
      BY <3>2 DEF Remote!Next
  <2>4. CASE s.pc \notin {"done", "failed"}
    <3>1. Outcome(o)' = "waiting"
      BY <2>4, <1>2, <1>4 DEF Outcome, Op
    <3>2. Outcomes' = Outcomes
      BY <1>1, <2>1, <3>1 DEF Outcomes
    <3> QED
      BY <1>1, <3>2 DEF Remote!vars, Outcomes, Done
  <2> QED
    BY <2>2, <2>3, <2>4
<1> QED
  BY <1>3, <1>4

LEMMA Tells ==
  ASSUME TypeOK, Inv, Inv', NEW o \in Ops, Step(o)
  PROVE  [Remote!Next]_(Remote!vars)
<1>1. op[o] \in Op /\ op[o].step \in 1..Len(Requests(op[o].kind)) /\ acted' = acted
  BY Known DEF Step, Begin, Post, Offline, Hear, NotFound, Lose, Discovered
<1>2. ASSUME NEW s \in Op, op' = [op EXCEPT ![o] = s], s.pc # "none", op[o].pc \in {"post", "wait", "discover"}
      PROVE  [Remote!Next]_(Remote!vars)
  BY <1>1, <1>2, StepTells
<1>3. ASSUME NEW r \in Op, NEW unsynced \in BOOLEAN, r.step = op[o].step, r.kind = op[o].kind
      PROVE  Raise(r, unsynced) \in Op /\ Raise(r, unsynced).pc # "none"
  BY <1>1, <1>3, Raised DEF Recovers, Advances, Continues, Asking
<1>4. CASE Begin(o)
  <2> DEFINE q == [op[o] EXCEPT !.url = config]
  <2>1. q \in Op /\ q.tried = op[o].tried
    BY <1>1 DEF Op, TypeOK
  <2>2. op[o].pc = "none" /\ op[o].tried = {} /\ op' = [op EXCEPT ![o] = Ask(q)]
    BY <1>4 DEF Begin, Set, Inv, Good, InOrder
  <2> HIDE DEF q
  <2>3. Ask(q) \in Op /\ Ask(q).pc \in {"post", "discover"}
    BY <2>1, <2>2, Asked DEF Continues, Asking
  <2> QED
    BY <1>1, <2>2, <2>3, StepTells
<1>5. CASE Post(o)
  <2> DEFINE s == [op[o] EXCEPT !.pc = "wait", !.answer = "none"]
  <2>1. s \in Op /\ s.pc = "wait"
    BY <1>1 DEF Op
  <2> HIDE DEF s
  <2> QED
    BY <1>2, <1>5, <2>1 DEF Post, Set, s
<1>6. CASE Offline(o) \/ NotFound(o)
  <2>1. op' = [op EXCEPT ![o] = Raise(op[o], FALSE)] /\ op[o].pc \in {"post", "discover"}
    BY <1>6 DEF Offline, NotFound, Set
  <2> QED
    BY <1>1, <1>2, <1>3, <2>1
<1>7. CASE Hear(o)
  <2>1. CASE op' = [op EXCEPT ![o] = Return(op[o])]
    <3>1. Return(op[o]) \in Op /\ Return(op[o]).pc # "none"
      BY <1>1, Staged, Stepped DEF Return, Advances, Continues, Asking
    <3> QED
      BY <1>2, <1>7, <2>1, <3>1 DEF Hear
  <2>2. CASE op' = [op EXCEPT ![o] = Raise(op[o], op[o].answer = "unsynced")]
    <3> DEFINE unsynced == op[o].answer = "unsynced"
    <3>1. unsynced \in BOOLEAN
      OBVIOUS
    <3> HIDE DEF unsynced
    <3>2. Raise(op[o], unsynced) \in Op /\ Raise(op[o], unsynced).pc # "none"
      BY <1>1, <1>3, <3>1
    <3>3. op' = [op EXCEPT ![o] = Raise(op[o], unsynced)]
      BY <2>2 DEF unsynced
    <3> QED
      BY <1>2, <1>7, <3>2, <3>3 DEF Hear
  <2>3. CASE op' = [op EXCEPT ![o] = Search(op[o], "invalid")]
    BY <1>1, <1>2, <1>7, <2>3, Searched DEF Hear, Reasons
  <2> QED
    BY <1>7, <2>1, <2>2, <2>3 DEF Hear, Set
<1>8. ASSUME NEW known \in BOOLEAN, Lose(o, known)
      PROVE  [Remote!Next]_(Remote!vars)
  <2>1. op' = [op EXCEPT ![o] = Search(op[o], "error")] \/ op' = [op EXCEPT ![o] = Raise(op[o], FALSE)]
    BY <1>8 DEF Lose, Set
  <2>2. op[o].pc = "wait"
    BY <1>8 DEF Lose
  <2> QED
    BY <1>1, <1>2, <1>3, <2>1, <2>2, Searched DEF Reasons
<1>9. ASSUME NEW saved \in BOOLEAN, Discovered(o, saved)
      PROVE  [Remote!Next]_(Remote!vars)
  <2> DEFINE q == [op[o] EXCEPT !.url = at]
             s == [q EXCEPT !.pc = "post"]
  <2>1. q \in Op /\ q.step = op[o].step /\ q.kind = op[o].kind
    BY <1>1 DEF Op, TypeOK
  <2>2. op[o].pc = "discover" /\ (op' = [op EXCEPT ![o] = Raise(q, FALSE)] \/ op' = [op EXCEPT ![o] = s])
    BY <1>9 DEF Discovered, Set
  <2> HIDE DEF q
  <2>3. s \in Op /\ s.pc = "post"
    BY <2>1 DEF Op
  <2> HIDE DEF s
  <2> QED
    BY <1>2, <1>3, <2>1, <2>2, <2>3
<1> QED
  BY <1>4, <1>5, <1>6, <1>7, <1>8, <1>9 DEF Step

\* A device that acts, in time or late, changes nothing of what callers are told.
LEMMA ActingTells ==
  ASSUME TypeOK, Inv, NEW o \in Ops, DeviceActsLate(o) \/ (\E answer \in {"ok", "refused", "unsynced"} : DeviceActs(o, answer))
  PROVE  [Remote!Next]_(Remote!vars)
<1>1. op[o].pc # "none"
  BY Known DEF DeviceActsLate, DeviceActs, Good, InOrder
<1>2. op' = op \/ (\E answer : op' = [op EXCEPT ![o] = [op[o] EXCEPT !.answer = answer]])
  BY DEF DeviceActsLate, DeviceActs, Set
<1>3. ASSUME NEW p \in Ops
      PROVE  op'[p].pc = op[p].pc
  BY <1>2 DEF TypeOK, Op
<1>4. Outcomes' = Outcomes
  BY <1>3 DEF Outcomes, Outcome
<1>5. acted' = acted \/ acted' = [acted EXCEPT ![o] = @ + 1]
  BY DEF DeviceActsLate, DeviceActs
<1>6. CASE acted' = acted
  BY <1>4, <1>6 DEF Remote!vars, Outcomes, Done
<1>7. CASE acted' = [acted EXCEPT ![o] = @ + 1]
  <2>1. Done' = Done \union {o}
    BY <1>7 DEF Done, TypeOK
  <2>2. Outcomes[o] # "none"
    BY <1>1 DEF Outcomes, Outcome
  <2>3. Remote!Do(o)
    BY <1>4, <2>1, <2>2 DEF Remote!Do, Outcomes, Done
  <2> QED
    BY <2>3 DEF Remote!Next
<1> QED
  BY <1>5, <1>6, <1>7

\* An operation of a device, with all its requests, searches and repetitions, keeps
\* the promise of a single command: one outcome, and success only of what was done.
THEOREM Implements == Spec => IsRemoteCommand
<1>1. Init => Remote!Init
  <2> SUFFICES ASSUME Init
               PROVE  Remote!Init
    OBVIOUS
  <2>1. PICK kind \in [Ops -> Kinds] : op = [o \in Ops |-> Begun(kind[o])]
    BY DEF Init
  <2>2. \A o \in Ops : op[o].pc = "none" /\ acted[o] = 0
    BY <2>1 DEF Init, Begun
  <2> QED
    BY <2>2 DEF Remote!Init, Outcome
<1>2. ASSUME UNCHANGED <<op, acted>>
      PROVE  UNCHANGED Remote!vars
  BY <1>2 DEF Remote!vars, Outcome
<1>3. ASSUME TypeOK, Inv, Inv', Next
      PROVE  [Remote!Next]_(Remote!vars)
  <2>1. ASSUME NEW o \in Ops, StrangerAnswers(o)
        PROVE  UNCHANGED Remote!vars
    <3>1. op[o] \in Op
      BY <1>3 DEF TypeOK
    <3>2. acted' = acted /\ op' = [op EXCEPT ![o] = [op[o] EXCEPT !.answer = "refused"]]
      BY <2>1 DEF StrangerAnswers, Set
    <3>3. ASSUME NEW p \in Ops
          PROVE  op'[p].pc = op[p].pc
      BY <1>3, <3>1, <3>2 DEF TypeOK, Op
    <3> QED
      BY <3>2, <3>3 DEF Remote!vars, Outcome
  <2>2. ASSUME NEW u \in Urls, Move(u) \/ Configure(u)
        PROVE  UNCHANGED <<op, acted>>
    BY <2>2 DEF Move, Configure
  <2> QED
    BY <1>2, <1>3, <2>1, <2>2, Tells, ActingTells DEF Next
<1>4. UNCHANGED vars => UNCHANGED Remote!vars
  BY <1>2 DEF vars
<1>5. TypeOK /\ Inv /\ Inv' /\ [Next]_vars => [Remote!Next]_(Remote!vars)
  BY <1>3, <1>4
<1> QED
  BY Always, <1>1, <1>5, PTL DEF Spec, IsRemoteCommand, Remote!Spec
-----------------------------------------------------------------------------
(***************************************************************************)
(* An operation ends: how many steps its worker has left.  A search leaves *)
(* one reason less to search again, a synchronisation is made once in a    *)
(* request, and there are three requests at most.                          *)
(***************************************************************************)
Places == {"post", "wait", "discover"}

Searched1(tried, reason) == IF reason \in tried THEN 0 ELSE 1

Searches(tried) == Searched1(tried, "missing") + Searched1(tried, "error") + Searched1(tried, "invalid")

Stages(stage) == CASE stage = "first" -> 2 [] stage = "sync" -> 1 [] stage = "again" -> 0

Posts(pc) == CASE pc = "discover" -> 2 [] pc = "post" -> 1 [] pc = "wait" -> 0

MaxSteps == 109

StepsLeft(r) ==
  IF r.pc = "none" THEN MaxSteps
  ELSE IF r.pc \in Places
       THEN 36 * (3 - r.step) + 12 * Stages(r.stage) + 3 * Searches(r.tried) + Posts(r.pc) + 1
       ELSE 0

\* No step makes an operation longer, and each of its worker's brings it nearer to its end.
Nearer == \A o \in Ops : /\ StepsLeft(op[o])' <= StepsLeft(op[o])
                         /\ Step(o) => StepsLeft(op[o])' < StepsLeft(op[o])

LEMMA Measured ==
  ASSUME NEW r \in Op
  PROVE  /\ Searches(r.tried) \in 0..3 /\ Stages(r.stage) \in 0..2
         /\ r.pc \in Places => Posts(r.pc) \in 0..2
         /\ r.pc \in Places => StepsLeft(r) \in 1..108
         /\ StepsLeft(r) \in 0..MaxSteps
<1>1. Searches(r.tried) \in 0..3
  BY DEF Searches, Searched1
<1>2. Stages(r.stage) \in 0..2
  BY DEF Stages, Op
<1>3. r.pc \in Places => Posts(r.pc) \in 0..2
  BY DEF Posts, Places
<1>4. r.step \in 1..3
  BY DEF Op
<1>5. r.pc \in Places => StepsLeft(r) \in 1..108
  BY <1>1, <1>2, <1>3, <1>4 DEF StepsLeft, Places
<1> QED
  BY <1>1, <1>2, <1>3, <1>5 DEF StepsLeft, MaxSteps

\* What counts first is the request, then the stage, the searches made, and the place.
LEMMA Lesser ==
  ASSUME NEW r \in Op, NEW s \in Op, r.pc \in Places, s.pc \in Places,
         \/ s.step > r.step
         \/ s.step = r.step /\ Stages(s.stage) < Stages(r.stage)
         \/ /\ s.step = r.step /\ s.stage = r.stage
            /\ Searches(s.tried) < Searches(r.tried)
         \/ /\ s.step = r.step /\ s.stage = r.stage /\ s.tried = r.tried
            /\ Posts(s.pc) < Posts(r.pc)
  PROVE  StepsLeft(s) < StepsLeft(r)
<1> DEFINE a == Searches(r.tried)
           b == Searches(s.tried)
           c == Stages(r.stage)
           d == Stages(s.stage)
           e == Posts(r.pc)
           f == Posts(s.pc)
<1>1. a \in 0..3 /\ b \in 0..3 /\ c \in 0..2 /\ d \in 0..2 /\ e \in 0..2 /\ f \in 0..2
  BY Measured
<1>2. r.step \in 1..3 /\ s.step \in 1..3
  BY DEF Op
<1>3. /\ StepsLeft(r) = 36 * (3 - r.step) + 12 * c + 3 * a + e + 1
      /\ StepsLeft(s) = 36 * (3 - s.step) + 12 * d + 3 * b + f + 1
  BY DEF StepsLeft, Places
<1>4. \/ s.step > r.step
      \/ s.step = r.step /\ d < c
      \/ s.step = r.step /\ d = c /\ b < a
      \/ s.step = r.step /\ d = c /\ b = a /\ f < e
  OBVIOUS
<1> HIDE DEF a, b, c, d, e, f
<1> QED
  BY <1>1, <1>2, <1>3, <1>4

LEMMA EndLesser ==
  ASSUME NEW r \in Op, NEW s, s.pc \in {"done", "failed"}, r.pc \in Places
  PROVE  StepsLeft(s) < StepsLeft(r)
<1>1. StepsLeft(s) = 0
  BY DEF StepsLeft, Places
<1> QED
  BY <1>1, Measured

LEMMA StageLesser ==
  ASSUME NEW r \in Op, NEW stage \in {"first", "sync", "again"}, r.pc \in Places,
         Stages(stage) < Stages(r.stage)
  PROVE  StepsLeft(NextStage(r, stage)) < StepsLeft(r)
<1>1. PICK s : s = NextStage(r, stage)
  OBVIOUS
<1>2. s \in Op /\ s.pc \in Places /\ s.step = r.step /\ s.stage = stage
  BY <1>1, Staged DEF Continues, Asking, Places
<1> QED
  BY <1>1, <1>2, Lesser

LEMMA AdvanceLesser ==
  ASSUME NEW r \in Op, NEW s, Advances(r, s), r.pc \in Places
  PROVE  StepsLeft(s) < StepsLeft(r)
<1>1. CASE s.pc = "done"
  BY <1>1, EndLesser
<1>2. CASE s.pc # "done"
  <2>1. s \in Op /\ s.pc \in Places /\ s.step = r.step + 1 /\ r.step \in 1..3
    BY <1>2 DEF Advances, Continues, Asking, Places, Op
  <2> QED
    BY <2>1, Lesser
<1> QED
  BY <1>1, <1>2

LEMMA RaiseLesser ==
  ASSUME NEW r \in Op, NEW unsynced \in BOOLEAN, r.step \in 1..Len(Requests(r.kind)), r.pc \in Places
  PROVE  StepsLeft(Raise(r, unsynced)) < StepsLeft(r)
<1>1. PICK s : s = Raise(r, unsynced)
  OBVIOUS
<1>2. Recovers(r, s, unsynced)
  BY <1>1, Raised
<1>3. CASE r.stage = "first" /\ Asking(s) /\ s.step = r.step /\ s.stage = "sync"
  <2>1. s \in Op /\ s.pc \in Places
    BY <1>2, <1>3 DEF Recovers, Continues, Asking, Places
  <2>2. Stages(s.stage) < Stages(r.stage)
    BY <1>3 DEF Stages
  <2>3. StepsLeft(s) < StepsLeft(r)
    BY <1>3, <2>1, <2>2, Lesser
  <2> QED
    BY <1>1, <2>3
<1>4. CASE Advances(r, s)
  BY <1>1, <1>4, AdvanceLesser
<1>5. CASE s.pc = "failed"
  BY <1>1, <1>5, EndLesser
<1> QED
  BY <1>2, <1>3, <1>4, <1>5 DEF Recovers

LEMMA SearchLesser ==
  ASSUME NEW r \in Op, NEW reason \in Reasons, reason \notin r.tried, r.pc \in Places
  PROVE  StepsLeft(Search(r, reason)) < StepsLeft(r)
<1>1. PICK s : s = Search(r, reason)
  OBVIOUS
<1>2. s \in Op /\ s.pc = "discover" /\ s.step = r.step /\ s.stage = r.stage /\ s.tried = r.tried \union {reason}
  BY <1>1 DEF Search, Op
<1>3. Searches(s.tried) < Searches(r.tried)
  BY <1>2 DEF Searches, Searched1, Reasons
<1> QED
  BY <1>1, <1>2, <1>3, Lesser DEF Places

\* A step of a worker.
LEMMA WorkerNearer ==
  ASSUME TypeOK, Inv, NEW o \in Ops, Step(o)
  PROVE  StepsLeft(op'[o]) < StepsLeft(op[o])
<1>1. PICK r \in Op : r = op[o]
  BY DEF TypeOK
<1>2. r.step \in 1..Len(Requests(r.kind))
  BY <1>1 DEF Inv, Good, InOrder
<1>3. ASSUME NEW s, op' = [op EXCEPT ![o] = s]
      PROVE  op'[o] = s
  BY <1>3 DEF TypeOK
<1>4. CASE Begin(o)
  <2>1. PICK q : q = [r EXCEPT !.url = config]
    OBVIOUS
  <2>2. r.pc = "none" /\ q \in Op /\ q.tried = {}
    BY <1>1, <1>4, <2>1 DEF Begin, TypeOK, Inv, Good, InOrder, Op
  <2>3. Ask(q) \in Op /\ Ask(q).pc \in Places
    BY <2>2, Asked DEF Continues, Asking, Places
  <2>4. StepsLeft(Ask(q)) \in 1..108
    BY <2>3, Measured
  <2>5. StepsLeft(r) = 109
    BY <2>2 DEF StepsLeft, MaxSteps
  <2>6. op'[o] = Ask(q)
    BY <1>1, <1>3, <1>4, <2>1 DEF Begin, Set
  <2> QED
    BY <1>1, <2>4, <2>5, <2>6
<1>5. CASE Post(o)
  <2>1. PICK s : s = [r EXCEPT !.pc = "wait", !.answer = "none"]
    OBVIOUS
  <2>2. r.pc = "post" /\ op'[o] = s
    BY <1>1, <1>3, <1>5, <2>1 DEF Post, Set
  <2>3. s \in Op /\ s.pc = "wait" /\ s.step = r.step /\ s.stage = r.stage /\ s.tried = r.tried
    BY <2>1 DEF Op
  <2>4. Posts(s.pc) < Posts(r.pc)
    BY <2>2, <2>3 DEF Posts
  <2> QED
    BY <1>1, <2>2, <2>3, <2>4, Lesser DEF Places
<1>6. CASE Offline(o) \/ NotFound(o)
  <2>1. r.pc \in Places /\ op'[o] = Raise(r, FALSE)
    BY <1>1, <1>3, <1>6 DEF Offline, NotFound, Set, Places
  <2> QED
    BY <1>1, <1>2, <2>1, RaiseLesser
<1>7. CASE Hear(o)
  <2>1. r.pc \in Places /\ r.pc = "wait"
    BY <1>1, <1>7 DEF Hear, Places
  <2>2. CASE r.answer = "ok" /\ r.stage = "sync"
    <3>1. op'[o] = NextStage(r, "again")
      BY <1>1, <1>3, <1>7, <2>2 DEF Hear, Set, Return
    <3>2. Stages("again") < Stages(r.stage)
      BY <2>2 DEF Stages
    <3> QED
      BY <1>1, <2>1, <3>1, <3>2, StageLesser
  <2>3. CASE r.answer = "ok" /\ r.stage # "sync"
    <3>1. op'[o] = NextStep(r)
      BY <1>1, <1>3, <1>7, <2>3 DEF Hear, Set, Return
    <3>2. Advances(r, NextStep(r))
      BY <1>2, Stepped
    <3> QED
      BY <1>1, <2>1, <3>1, <3>2, AdvanceLesser
  <2>4. CASE r.answer # "ok" /\ op' = [op EXCEPT ![o] = Raise(r, r.answer = "unsynced")]
    <3>1. PICK unsynced \in BOOLEAN : unsynced = (r.answer = "unsynced")
      OBVIOUS
    <3>2. op'[o] = Raise(r, unsynced)
      BY <1>3, <2>4, <3>1
    <3> QED
      BY <1>1, <1>2, <2>1, <3>2, RaiseLesser
  <2>5. CASE "invalid" \notin r.tried /\ op' = [op EXCEPT ![o] = Search(r, "invalid")]
    <3>1. op'[o] = Search(r, "invalid")
      BY <1>3, <2>5
    <3> QED
      BY <1>1, <2>1, <2>5, <3>1, SearchLesser DEF Reasons
  <2> QED
    BY <1>1, <1>7, <2>2, <2>3, <2>4, <2>5 DEF Hear, Set
<1>8. ASSUME NEW known \in BOOLEAN, Lose(o, known)
      PROVE  StepsLeft(op'[o]) < StepsLeft(op[o])
  <2>1. r.pc \in Places
    BY <1>1, <1>8 DEF Lose, Places
  <2>2. CASE Rediscovers(r, known)
    <3>1. op'[o] = Search(r, "error")
      BY <1>1, <1>3, <1>8, <2>2 DEF Lose, Set
    <3>2. "error" \notin r.tried
      BY <2>2 DEF Rediscovers
    <3> QED
      BY <1>1, <2>1, <3>1, <3>2, SearchLesser DEF Reasons
  <2>3. CASE ~Rediscovers(r, known)
    <3>1. op'[o] = Raise(r, FALSE)
      BY <1>1, <1>3, <1>8, <2>3 DEF Lose, Set
    <3> QED
      BY <1>1, <1>2, <2>1, <3>1, RaiseLesser
  <2> QED
    BY <2>2, <2>3
<1>9. ASSUME NEW saved \in BOOLEAN, Discovered(o, saved)
      PROVE  StepsLeft(op'[o]) < StepsLeft(op[o])
  <2>1. r.pc = "discover" /\ r.pc \in Places
    BY <1>1, <1>9 DEF Discovered, Places
  <2>2. PICK q : q = [r EXCEPT !.url = at]
    OBVIOUS
  <2>3. /\ q \in Op /\ q.pc = r.pc /\ q.step = r.step /\ q.stage = r.stage /\ q.tried = r.tried
        /\ q.kind = r.kind
    BY <2>2 DEF Op, TypeOK
  <2>4. CASE op[o].url = at
    <3>1. op'[o] = Raise(q, FALSE)
      BY <1>1, <1>3, <1>9, <2>2, <2>4 DEF Discovered, Set
    <3>2. StepsLeft(q) = StepsLeft(r)
      BY <2>3 DEF StepsLeft
    <3> QED
      BY <1>1, <1>2, <2>1, <2>3, <3>1, <3>2, RaiseLesser
  <2>5. CASE op[o].url # at
    <3>1. PICK s : s = [q EXCEPT !.pc = "post"]
      OBVIOUS
    <3>2. op'[o] = s
      BY <1>1, <1>3, <1>9, <2>2, <2>5, <3>1 DEF Discovered, Set
    <3>3. s \in Op /\ s.pc = "post" /\ s.step = r.step /\ s.stage = r.stage /\ s.tried = r.tried
      BY <2>3, <3>1 DEF Op
    <3>4. Posts(s.pc) < Posts(r.pc)
      BY <2>1, <3>3 DEF Posts
    <3> QED
      BY <1>1, <2>1, <3>2, <3>3, <3>4, Lesser DEF Places
  <2> QED
    BY <2>4, <2>5
<1> QED
  BY <1>4, <1>5, <1>6, <1>7, <1>8, <1>9 DEF Step

LEMMA OthersNoFarther ==
  ASSUME TypeOK, Inv, NEW o \in Ops, [Next]_vars, ~Step(o)
  PROVE  StepsLeft(op'[o]) = StepsLeft(op[o])
<1>1. ASSUME NEW u \in Ops, Step(u)
      PROVE  op'[o] = op[o]
  BY <1>1 DEF Step, Begin, Post, Offline, Hear, NotFound, Lose, Discovered, Set, TypeOK
<1>2. ASSUME NEW u \in Ops, NEW a \in {"ok", "refused", "unsynced"}, op' = [op EXCEPT ![u].answer = a]
      PROVE  StepsLeft(op'[o]) = StepsLeft(op[o])
  <2>1. PICK r \in Op : r = op[o]
    BY DEF TypeOK
  <2>2. PICK s : s = op'[o]
    OBVIOUS
  <2>3. s.pc = r.pc /\ s.step = r.step /\ s.stage = r.stage /\ s.tried = r.tried
    BY <1>2, <2>1, <2>2 DEF TypeOK, Op
  <2> QED
    BY <2>1, <2>2, <2>3 DEF StepsLeft
<1>3. ASSUME NEW u \in Ops, StrangerAnswers(u) \/ \E a \in {"ok", "refused", "unsynced"} : DeviceActs(u, a)
      PROVE  StepsLeft(op'[o]) = StepsLeft(op[o])
  BY <1>2, <1>3 DEF StrangerAnswers, DeviceActs, Set
<1>4. ASSUME op' = op
      PROVE  StepsLeft(op'[o]) = StepsLeft(op[o])
  BY <1>4
<1> QED
  BY <1>1, <1>3, <1>4 DEF Next, DeviceActsLate, Move, Configure, vars

\* An operation takes its worker no more than 109 steps, whatever fails, moves or is
\* not heard of on the way (_post_json_with_sync_retry, _post_json_via_agent,
\* charge_payment): the part of OperationsEnd that is not fairness.
THEOREM StepsRunOut == Spec => /\ [](\A o \in Ops : StepsLeft(op[o]) \in 0..MaxSteps)
                               /\ [][Nearer]_vars
<1>1. TypeOK => \A o \in Ops : StepsLeft(op[o]) \in 0..MaxSteps
  BY Measured DEF TypeOK
<1>2. TypeOK /\ Inv /\ TypeOK' /\ [Next]_vars => [Nearer]_vars
  <2> SUFFICES ASSUME TypeOK, Inv, TypeOK', [Next]_vars, NEW o \in Ops
               PROVE  /\ StepsLeft(op'[o]) <= StepsLeft(op[o])
                      /\ Step(o) => StepsLeft(op'[o]) < StepsLeft(op[o])
    BY DEF Nearer, StepsLeft
  <2>1. PICK a, b : a = StepsLeft(op[o]) /\ b = StepsLeft(op'[o])
    OBVIOUS
  <2>2. a \in 0..MaxSteps /\ b \in 0..MaxSteps
    BY <2>1, Measured DEF TypeOK
  <2>3. Step(o) => b < a
    BY <2>1, WorkerNearer
  <2>4. ~Step(o) => b = a
    BY <2>1, OthersNoFarther
  <2> QED
    BY <2>1, <2>2, <2>3, <2>4 DEF MaxSteps
<1> QED
  BY <1>1, <1>2, Always, PTL DEF Spec
=============================================================================
