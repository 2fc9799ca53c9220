------------------------ MODULE FiscalReceiptsProofs ------------------------
(***************************************************************************)
(* Proofs about FiscalReceipts, for any workers, parts, rows and crashes:  *)
(* the state stays well typed; a receipt that is SENT is of a part that    *)
(* the device has registered; and with one request at a time no part is    *)
(* registered twice unawares, a retry is never refused, and a payment that *)
(* counts as resolved has every part registered.                           *)
(***************************************************************************)
EXTENDS FiscalReceipts, FiniteSetTheorems, TLAPS

Busy == {"ensure", "post", "save"}

LEMMA BusyFields ==
  ASSUME NEW r \in Request, r.pc # "idle"
  PROVE  /\ r.pc \in Busy /\ r.pending \in Loaded /\ r.split \in BOOLEAN
         /\ r.todo \in SUBSET Parts /\ r.results \in SUBSET Result /\ r.saved \in Nat
         /\ r = [pc |-> r.pc, pending |-> r.pending, split |-> r.split,
                 todo |-> r.todo, results |-> r.results, saved |-> r.saved]
BY DEF Request, Busy

LEMMA BusyType ==
  ASSUME NEW pc \in Busy, NEW pending \in Loaded, NEW split \in BOOLEAN,
         NEW todo \in SUBSET Parts, NEW results \in SUBSET Result, NEW saved \in Nat
  PROVE  [pc |-> pc, pending |-> pending, split |-> split,
          todo |-> todo, results |-> results, saved |-> saved] \in Request
BY DEF Request, Busy

LEMMA IdleType == Idle \in Request
BY DEF Idle, Request

LEMMA LoadedType == ASSUME NEW S \in SUBSET Rows, NEW f \in [S -> Reasons] PROVE f \in Loaded
BY DEF Loaded

\* A row that has its receipt is loaded no longer.
LEMMA LoadedLess ==
  ASSUME NEW f \in Loaded, NEW i
  PROVE  [j \in DOMAIN f \ {i} |-> f[j]] \in Loaded
<1>1. PICK S \in SUBSET Rows : f \in [S -> Reasons]
  BY DEF Loaded
<1>2. [j \in S \ {i} |-> f[j]] \in [S \ {i} -> Reasons]
  BY <1>1
<1>3. DOMAIN f = S
  BY <1>1
<1> QED
  BY <1>2, <1>3, LoadedType

LEMMA ResultType == ASSUME NEW ok \in BOOLEAN, NEW r \in Reasons PROVE [ok |-> ok, reason |-> r] \in Result
BY DEF Result

\* A request stays one when its fields are written, one or several at a time.
LEMMA TodoWritten ==
  ASSUME NEW r \in Request, r.pc # "idle", NEW todo \in SUBSET Parts
  PROVE  [r EXCEPT !.todo = todo] \in Request /\ [r EXCEPT !.todo = todo].pc # "idle"
BY BusyFields, BusyType

LEMMA ResultsWritten ==
  ASSUME NEW r \in Request, r.pc # "idle", NEW results \in SUBSET Result
  PROVE  [r EXCEPT !.results = results] \in Request /\ [r EXCEPT !.results = results].pc # "idle"
BY BusyFields, BusyType

LEMMA SavedWritten ==
  ASSUME NEW r \in Request, r.pc # "idle", NEW saved \in Nat
  PROVE  [r EXCEPT !.saved = saved] \in Request /\ [r EXCEPT !.saved = saved].pc # "idle"
BY BusyFields, BusyType

LEMMA PendingWritten ==
  ASSUME NEW r \in Request, r.pc # "idle", NEW pending \in Loaded
  PROVE  [r EXCEPT !.pending = pending] \in Request
BY BusyFields, BusyType

LEMMA StatusWritten ==
  ASSUME NEW r \in Request, r.pc # "idle", NEW pc \in Busy
  PROVE  [r EXCEPT !.pc = pc] \in Request /\ [r EXCEPT !.pc = pc].pc # "idle"
<1>1. pc # "idle"
  BY DEF Busy
<1>2. [r EXCEPT !.pc = pc].pc = pc
  BY BusyFields
<1>3. [r EXCEPT !.pc = pc] \in Request
  BY BusyFields, BusyType
<1> QED
  BY <1>1, <1>2, <1>3

\* What PostPart writes.
LEMMA PostWritten ==
  ASSUME NEW r \in Request, r.pc # "idle",
         NEW todo \in SUBSET Parts, NEW results \in SUBSET Result
  PROVE  [r EXCEPT !.todo = todo, !.results = results] \in Request
<1> DEFINE s == [r EXCEPT !.todo = todo]
<1>1. s \in Request /\ s.pc # "idle"
  BY TodoWritten
<1> HIDE DEF s
<1>2. [s EXCEPT !.results = results] \in Request
  BY <1>1, ResultsWritten
<1> QED
  BY <1>2 DEF s

\* What FailToPrepare writes.
LEMMA FailureWritten ==
  ASSUME NEW r \in Request, r.pc # "idle", NEW pc \in Busy,
         NEW todo \in SUBSET Parts, NEW results \in SUBSET Result
  PROVE  [r EXCEPT !.pc = pc, !.todo = todo, !.results = results] \in Request
<1> DEFINE s == [r EXCEPT !.pc = pc]
<1>1. s \in Request /\ s.pc # "idle"
  BY StatusWritten
<1> HIDE DEF s
<1>2. [s EXCEPT !.todo = todo, !.results = results] \in Request
  BY <1>1, PostWritten
<1> QED
  BY <1>2 DEF s

\* What SaveReceipt writes.
LEMMA SaveWritten ==
  ASSUME NEW r \in Request, r.pc # "idle", NEW pending \in Loaded,
         NEW results \in SUBSET Result, NEW saved \in Nat
  PROVE  [r EXCEPT !.results = results, !.saved = saved, !.pending = pending] \in Request
<1> DEFINE s == [r EXCEPT !.results = results]
           t == [s EXCEPT !.saved = saved]
<1>1. s \in Request /\ s.pc # "idle"
  BY ResultsWritten
<1> HIDE DEF s
<1>2. t \in Request /\ t.pc # "idle"
  BY <1>1, SavedWritten
<1> HIDE DEF t
<1>3. [t EXCEPT !.pending = pending] \in Request
  BY <1>2, PendingWritten
<1> QED
  BY <1>3 DEF s, t

LEMMA InitType == Init => TypeOK
<1> SUFFICES ASSUME Init PROVE TypeOK
  OBVIOUS
<1>1. row \in [Rows -> Receipt]
  BY DEF Init, Receipt, Reasons
<1>2. registered \in [Parts -> Nat]
  BY DEF Init
<1>3. req \in [Workers -> Request]
  BY IdleType DEF Init
<1> QED
  BY <1>1, <1>2, <1>3 DEF Init, TypeOK

-----------------------------------------------------------------------------
(***************************************************************************)
(* Requests stay well typed, one action at a time.                         *)
(***************************************************************************)
LEMMA BeginType ==
  ASSUME TypeOK, NEW w \in Workers, NEW S \in SUBSET Rows, NEW pending \in [S -> Reasons],
         NEW split \in BOOLEAN, NEW todo \in SUBSET Parts, Begin(w, pending, split, todo)
  PROVE  req' \in [Workers -> Request] /\ overlap' \in BOOLEAN
<1>1. [pc |-> "ensure", pending |-> pending, split |-> split,
       todo |-> todo, results |-> {}, saved |-> 0] \in Request
  BY BusyType, LoadedType DEF Busy
<1> QED
  BY <1>1 DEF Begin, TypeOK

LEMMA RetryType ==
  ASSUME TypeOK, NEW w \in Workers, Retry(w)
  PROVE  req' \in [Workers -> Request] /\ overlap' \in BOOLEAN
<1>1. [i \in Pending |-> row[i].reason] \in [Pending -> Reasons] /\ Pending \in SUBSET Rows
  BY DEF TypeOK, Pending, Receipt
<1>2. {row[i].reason : i \in Pending} \ {NoReason} \in SUBSET Parts
  BY DEF TypeOK, Pending, Receipt, Reasons
<1>3. PICK todo \in SUBSET Parts :
        Begin(w, [i \in Pending |-> row[i].reason], Sent # {}, todo)
  BY <1>2, Zenon DEF Retry
<1> QED
  BY <1>1, <1>3, BeginType

LEMMA NextType == TypeOK /\ [Next]_vars => TypeOK'
<1> SUFFICES ASSUME TypeOK, [Next]_vars PROVE TypeOK'
  OBVIOUS
<1>0. /\ row \in [Rows -> Receipt] /\ registered \in [Parts -> Nat] /\ issued \in BOOLEAN
      /\ req \in [Workers -> Request] /\ lost \subseteq Parts
      /\ cut \in BOOLEAN /\ overlap \in BOOLEAN
  BY DEF TypeOK
<1>1. ASSUME NEW w \in Workers, Issue(w) PROVE TypeOK'
  <2>1. [i \in {} |-> NoReason] \in [{} -> Reasons]
    OBVIOUS
  <2>2. req' \in [Workers -> Request] /\ overlap' \in BOOLEAN
    BY <1>1, <2>1, BeginType DEF Issue
  <2> QED
    BY <1>0, <1>1, <2>2 DEF Issue, TypeOK
<1>2. ASSUME NEW w \in Workers, Retry(w) PROVE TypeOK'
  BY <1>0, <1>2, RetryType DEF Retry, TypeOK
<1>3. ASSUME NEW w \in Workers, Prepare(w) PROVE TypeOK'
  <2>1. [req[w] EXCEPT !.pc = "post"] \in Request
    BY <1>0, <1>3, BusyFields, BusyType DEF Prepare, Busy
  <2> QED
    BY <1>0, <1>3, <2>1 DEF Prepare, TypeOK
<1>4. ASSUME NEW w \in Workers, FailToPrepare(w) PROVE TypeOK'
  <2>1. PICK named \in SUBSET Reasons :
          req' = [req EXCEPT ![w].pc = "save", ![w].todo = {},
                             ![w].results = {[ok |-> FALSE, reason |-> r] : r \in named}]
    <3>1. req[w].todo \in SUBSET Reasons /\ {NoReason} \in SUBSET Reasons
      BY <1>0, <1>4, BusyFields DEF FailToPrepare, Reasons
    <3> QED
      BY <1>4, <3>1, Zenon DEF FailToPrepare
  <2>2. {[ok |-> FALSE, reason |-> r] : r \in named} \in SUBSET Result
    BY ResultType
  <2>3. [req[w] EXCEPT !.pc = "save", !.todo = {},
                       !.results = {[ok |-> FALSE, reason |-> r] : r \in named}] \in Request
    <3> DEFINE old == req[w]
               failures == {[ok |-> FALSE, reason |-> r] : r \in named}
    <3>1. old \in Request /\ old.pc # "idle"
      BY <1>0, <1>4 DEF FailToPrepare
    <3>2. failures \in SUBSET Result
      BY <2>2
    <3> HIDE DEF old, failures
    <3>3. [old EXCEPT !.pc = "save", !.todo = {}, !.results = failures] \in Request
      BY <3>1, <3>2, FailureWritten DEF Busy
    <3> QED
      BY <3>3 DEF old, failures
  <2>4. req' \in [Workers -> Request]
    BY <1>0, <2>1, <2>3
  <2> QED
    BY <1>0, <1>4, <2>4 DEF FailToPrepare, TypeOK
<1>5. ASSUME NEW w \in Workers, NEW n \in 0..3, NEW ok \in BOOLEAN, PostPart(w, n, ok)
      PROVE  TypeOK'
  <2>1. PICK part \in req[w].todo :
          /\ registered' = [registered EXCEPT ![part] = @ + n]
          /\ lost' = lost \/ lost' = lost \union {part}
          /\ req' = [req EXCEPT ![w].todo = @ \ {part},
                                ![w].results = @ \union {[ok |-> ok, reason |-> part]}]
    BY <1>5 DEF PostPart
  <2>2. req[w].pc = "post" /\ part \in Parts /\ n \in Nat
    BY <1>0, <1>5, BusyFields DEF PostPart
  <2>3. registered' \in [Parts -> Nat]
    BY <1>0, <2>1, <2>2
  <2>4. [ok |-> ok, reason |-> part] \in Result
    BY <2>2, ResultType DEF Reasons
  <2>5. [req[w] EXCEPT !.todo = @ \ {part},
                       !.results = @ \union {[ok |-> ok, reason |-> part]}] \in Request
    <3> DEFINE old == req[w]
               left == req[w].todo \ {part}
               done == req[w].results \union {[ok |-> ok, reason |-> part]}
    <3>1. left \in SUBSET Parts
      BY <1>0, <2>2, BusyFields
    <3>2. done \in SUBSET Result
      BY <1>0, <2>2, <2>4, BusyFields
    <3>3. old \in Request /\ old.pc # "idle"
      BY <1>0, <2>2
    <3> HIDE DEF old, left, done
    <3>4. [old EXCEPT !.todo = left, !.results = done] \in Request
      BY <3>1, <3>2, <3>3, PostWritten
    <3> QED
      BY <3>4 DEF old, left, done
  <2>6. req' \in [Workers -> Request]
    BY <1>0, <2>1, <2>5
  <2> QED
    BY <1>0, <1>5, <2>1, <2>2, <2>3, <2>6 DEF PostPart, TypeOK
<1>6. ASSUME NEW w \in Workers, PostsDone(w) PROVE TypeOK'
  <2>1. [req[w] EXCEPT !.pc = "save"] \in Request
    BY <1>0, <1>6, BusyFields, BusyType DEF PostsDone, Busy
  <2> QED
    BY <1>0, <1>6, <2>1 DEF PostsDone, TypeOK
<1>7. ASSUME NEW w \in Workers, SaveReceipt(w) PROVE TypeOK'
  <2>1. PICK res \in req[w].results, i \in Rows :
          /\ row' = [row EXCEPT ![i] = [status |-> StatusOf(res), reason |-> res.reason]]
          /\ req' = [req EXCEPT ![w].results = @ \ {res},
                                ![w].saved = @ + 1,
                                ![w].pending = [j \in DOMAIN @ \ {i} |-> @[j]]]
    BY <1>7 DEF SaveReceipt
  <2>2. req[w].pc = "save" /\ res \in Result
    BY <1>0, <1>7, BusyFields DEF SaveReceipt
  <2>3. row' \in [Rows -> Receipt]
    BY <1>0, <2>1, <2>2 DEF StatusOf, Receipt, Result
  <2>4. [req[w] EXCEPT !.results = @ \ {res}, !.saved = @ + 1,
                       !.pending = [j \in DOMAIN @ \ {i} |-> @[j]]] \in Request
    <3> DEFINE old == req[w]
               rest == [j \in DOMAIN req[w].pending \ {i} |-> req[w].pending[j]]
               less == req[w].results \ {res}
               more == req[w].saved + 1
    <3>1. rest \in Loaded
      BY <1>0, <2>2, BusyFields, LoadedLess
    <3>2. less \in SUBSET Result /\ more \in Nat
      BY <1>0, <2>2, BusyFields
    <3>3. old \in Request /\ old.pc # "idle"
      BY <1>0, <2>2
    <3> HIDE DEF old, rest, less, more
    <3>4. [old EXCEPT !.results = less, !.saved = more, !.pending = rest] \in Request
      BY <3>1, <3>2, <3>3, SaveWritten
    <3> QED
      BY <3>4 DEF old, rest, less, more
  <2>5. req' \in [Workers -> Request]
    BY <1>0, <2>1, <2>4
  <2> QED
    BY <1>0, <1>7, <2>3, <2>5 DEF SaveReceipt, TypeOK
<1>8. ASSUME NEW w \in Workers, Finish(w) \/ Crash(w) PROVE TypeOK'
  BY <1>0, <1>8, IdleType DEF Finish, Crash, TypeOK
<1>9. CASE UNCHANGED vars
  BY <1>9 DEF vars, TypeOK
<1> QED
  BY <1>1, <1>2, <1>3, <1>4, <1>5, <1>6, <1>7, <1>8, <1>9 DEF Next

\* Every reachable state of rows, registrations and requests is well typed
\* (FiscalReceipt and the result lists of billing/services/fiscal_receipts).
THEOREM Typing == Spec => []TypeOK
BY InitType, NextType, PTL DEF Spec

-----------------------------------------------------------------------------
(***************************************************************************)
(* A good result that is yet to be saved was earned at the device.         *)
(***************************************************************************)
Earned(res) == res.ok => res.reason \in Parts /\ registered[res.reason] >= 1

ResultsAreEarned ==
  \A w \in Workers : req[w].pc # "idle" => \A res \in req[w].results : Earned(res)

IInv == TypeOK /\ ResultsAreEarned /\ SentIsRegistered

LEMMA InitInv == Init => IInv
<1> SUFFICES ASSUME Init PROVE IInv
  OBVIOUS
<1>1. ResultsAreEarned
  BY DEF Init, Idle, ResultsAreEarned
<1>2. SentIsRegistered
  BY DEF Init, SentIsRegistered, Sent
<1> QED
  BY <1>1, <1>2, InitType DEF IInv

\* A step that saves no row and forgets no registration keeps the sent receipts
\* right, and the results of the requests it leaves alone.
LEMMA RegisteredMore ==
  ASSUME IInv, TypeOK', UNCHANGED row,
         \A p \in Parts : registered'[p] >= registered[p]
  PROVE  /\ SentIsRegistered'
         /\ \A res : Earned(res) => Earned(res)'
<1>1. \A p \in Parts : registered[p] \in Nat /\ registered'[p] \in Nat
  BY DEF IInv, TypeOK
<1>2. Sent' = Sent
  BY DEF Sent
<1>3. SentIsRegistered'
  BY <1>1, <1>2 DEF IInv, SentIsRegistered, Sent
<1>4. ASSUME NEW res, Earned(res) PROVE Earned(res)'
  BY <1>1, <1>4 DEF Earned
<1> QED
  BY <1>3, <1>4

\* A step of one request whose results are as good as before.
LEMMA OneRequest ==
  ASSUME IInv, TypeOK', NEW w \in Workers, NEW r, req' = [req EXCEPT ![w] = r],
         UNCHANGED <<row, registered>>,
         r.pc # "idle" => \A res \in r.results : Earned(res)
  PROVE  ResultsAreEarned' /\ SentIsRegistered'
<1>1. \A res : Earned(res)' <=> Earned(res)
  BY DEF Earned
<1>2. ResultsAreEarned'
  BY <1>1 DEF IInv, TypeOK, ResultsAreEarned
<1>3. SentIsRegistered'
  BY DEF IInv, SentIsRegistered, Sent
<1> QED
  BY <1>2, <1>3

LEMMA NextInv == IInv /\ [Next]_vars => IInv'
<1> SUFFICES ASSUME IInv, [Next]_vars PROVE ResultsAreEarned' /\ SentIsRegistered'
  BY NextType DEF IInv
<1>0. /\ TypeOK' /\ ResultsAreEarned /\ SentIsRegistered
      /\ row \in [Rows -> Receipt] /\ registered \in [Parts -> Nat]
      /\ req \in [Workers -> Request]
  BY NextType DEF IInv, TypeOK
<1>1. ASSUME NEW w \in Workers, Issue(w) \/ Retry(w) PROVE ResultsAreEarned' /\ SentIsRegistered'
  <2>1. PICK pending, split, todo : Begin(w, pending, split, todo)
    BY <1>1, Zenon DEF Issue, Retry
  <2>2. UNCHANGED <<row, registered>>
    BY <1>1 DEF Issue, Retry
  <2> QED
    BY <1>0, <2>1, <2>2, OneRequest DEF Begin
<1>2. ASSUME NEW w \in Workers, Prepare(w) \/ PostsDone(w)
      PROVE  ResultsAreEarned' /\ SentIsRegistered'
  <2>1. PICK pc \in Busy : req' = [req EXCEPT ![w] = [req[w] EXCEPT !.pc = pc]]
    BY <1>0, <1>2 DEF Prepare, PostsDone, Busy
  <2>2. req[w].pc # "idle" /\ UNCHANGED <<row, registered>>
    BY <1>2 DEF Prepare, PostsDone
  <2>3. [req[w] EXCEPT !.pc = pc].results = req[w].results
    BY <1>0, <2>2, BusyFields
  <2> QED
    BY <1>0, <2>1, <2>2, <2>3, OneRequest DEF ResultsAreEarned
<1>3. ASSUME NEW w \in Workers, FailToPrepare(w) PROVE ResultsAreEarned' /\ SentIsRegistered'
  <2>1. PICK named :
          req' = [req EXCEPT ![w].pc = "save", ![w].todo = {},
                             ![w].results = {[ok |-> FALSE, reason |-> r] : r \in named}]
    BY <1>3, Zenon DEF FailToPrepare
  <2> DEFINE r1 == [req[w] EXCEPT !.pc = "save", !.todo = {},
                          !.results = {[ok |-> FALSE, reason |-> r] : r \in named}]
  <2>2. req[w].pc # "idle" /\ UNCHANGED <<row, registered>>
    BY <1>3 DEF FailToPrepare
  <2>3. req' = [req EXCEPT ![w] = r1]
    BY <1>0, <2>1
  <2>4. r1.results = {[ok |-> FALSE, reason |-> r] : r \in named}
    BY <1>0, <2>2, BusyFields
  <2>5. \A res \in r1.results : Earned(res)
    BY <2>4 DEF Earned
  <2> QED
    BY <1>0, <2>2, <2>3, <2>5, OneRequest
<1>4. ASSUME NEW w \in Workers, NEW n \in 0..3, NEW ok \in BOOLEAN, PostPart(w, n, ok)
      PROVE  ResultsAreEarned' /\ SentIsRegistered'
  <2>1. PICK part \in req[w].todo :
          /\ registered' = [registered EXCEPT ![part] = @ + n]
          /\ req' = [req EXCEPT ![w].todo = @ \ {part},
                                ![w].results = @ \union {[ok |-> ok, reason |-> part]}]
    BY <1>4 DEF PostPart
  <2>2. req[w].pc # "idle" /\ part \in Parts /\ row' = row /\ n \in Nat
    BY <1>0, <1>4, BusyFields DEF PostPart
  <2>3. \A p \in Parts : registered'[p] >= registered[p]
    BY <1>0, <2>1, <2>2
  <2>4. SentIsRegistered' /\ \A res : Earned(res) => Earned(res)'
    BY <1>0, <2>2, <2>3, RegisteredMore
  <2>5. ok => registered'[part] >= 1
    BY <1>0, <1>4, <2>1, <2>2 DEF PostPart
  <2>6. Earned([ok |-> ok, reason |-> part])'
    BY <2>2, <2>5 DEF Earned
  <2>7. req'[w].results = req[w].results \union {[ok |-> ok, reason |-> part]}
    BY <1>0, <2>1, <2>2, BusyFields
  <2>8. \A res \in req'[w].results : Earned(res)'
    BY <1>0, <2>2, <2>4, <2>6, <2>7 DEF ResultsAreEarned
  <2>9. \A v \in Workers \ {w} : req'[v] = req[v]
    BY <1>0, <2>1
  <2>10. ResultsAreEarned'
    BY <1>0, <2>4, <2>8, <2>9 DEF ResultsAreEarned
  <2> QED
    BY <2>4, <2>10
<1>5. ASSUME NEW w \in Workers, SaveReceipt(w) PROVE ResultsAreEarned' /\ SentIsRegistered'
  <2>1. PICK res \in req[w].results, i \in Rows :
          /\ row' = [row EXCEPT ![i] = [status |-> StatusOf(res), reason |-> res.reason]]
          /\ req' = [req EXCEPT ![w].results = @ \ {res},
                                ![w].saved = @ + 1,
                                ![w].pending = [j \in DOMAIN @ \ {i} |-> @[j]]]
    BY <1>5 DEF SaveReceipt
  <2>2. req[w].pc # "idle" /\ registered' = registered
    BY <1>5 DEF SaveReceipt
  <2>3. Earned(res)
    BY <1>0, <2>1, <2>2 DEF ResultsAreEarned
  <2>4. row'[i].status = "sent" => res.ok
    BY <1>0, <2>1 DEF StatusOf
  <2>5. row'[i].reason = res.reason /\ \A j \in Rows \ {i} : row'[j] = row[j]
    BY <1>0, <2>1
  <2>6. SentIsRegistered'
    BY <1>0, <2>2, <2>3, <2>4, <2>5 DEF SentIsRegistered, Sent, Earned
  <2>7. req'[w].results = req[w].results \ {res} /\ \A v \in Workers \ {w} : req'[v] = req[v]
    BY <1>0, <2>1, <2>2, BusyFields
  <2>8. ResultsAreEarned'
    BY <1>0, <2>2, <2>7 DEF ResultsAreEarned, Earned
  <2> QED
    BY <2>6, <2>8
<1>6. ASSUME NEW w \in Workers, Finish(w) \/ Crash(w) PROVE ResultsAreEarned' /\ SentIsRegistered'
  BY <1>0, <1>6, OneRequest DEF Finish, Crash, Idle
<1>7. CASE UNCHANGED vars
  BY <1>0, <1>7 DEF vars, ResultsAreEarned, Earned, SentIsRegistered, Sent
<1> QED
  BY <1>1, <1>2, <1>3, <1>4, <1>5, <1>6, <1>7 DEF Next

\* A receipt is SENT only when the device has registered its part, for any
\* number of overlapping retries and crashes (create_fiscal_receipts).
THEOREM NothingSentUnregistered == Spec => []SentIsRegistered
<1>1. IInv => SentIsRegistered
  BY DEF IInv
<1> QED
  BY <1>1, InitInv, NextInv, PTL DEF Spec
-----------------------------------------------------------------------------
(***************************************************************************)
(* One request at a time.  Then row i is of part i, in the order in which  *)
(* the parts are posted; only the first row may be of no part, as long as  *)
(* nothing was sent.  From this follow the other three properties.         *)
(***************************************************************************)
Made(i) == row[i].status # "none"

Serving(w) == req[w].pc # "idle"

Asked(r) == {res.reason : res \in r.results}

OneByOne ==
  /\ \A v, w \in Workers : Serving(v) /\ Serving(w) => v = w
  /\ \A w \in Workers : Serving(w) => issued
  /\ issued \/ \A i \in Rows : ~Made(i)

RowsInOrder ==
  \A i \in Rows : Made(i) =>
    /\ \A j \in Rows : j < i => Made(j)
    /\ row[i].reason = i \/ (i = 1 /\ row[i].reason = NoReason /\ Sent = {})

\* What the device has registered is sent, or is about to be saved, or lost.
Accounted ==
  \A p \in Parts \ lost :
    /\ registered[p] <= 1
    /\ registered[p] = 1 => \/ p \in Sent
                            \/ \E w \in Workers : Serving(w) /\ [ok |-> TRUE, reason |-> p] \in req[w].results

\* The results of a request, and what it has yet to post.
Consistent(r) ==
  /\ \A x, y \in r.results : x.reason = y.reason => x = y
  /\ r.todo \intersect Asked(r) = {}
  /\ r.pc = "ensure" => r.results = {}
  /\ DOMAIN r.pending \subseteq Pending
  /\ \A i \in DOMAIN r.pending : r.pending[i] = row[i].reason

\* Some parts are asked for: those of rows that failed.
Some(r) == Sent # {} /\ r.todo \union Asked(r) \subseteq DOMAIN r.pending

\* All parts are asked for: no row was written yet,
Fresh(r) == Sent = {} /\ r.saved = 0 /\ DOMAIN r.pending = Pending

\* or those of the parts up to "saved" were.
Partway(r) ==
  /\ Asked(r) = {p \in Parts : p > r.saved}
  /\ \A i \in Sent : i <= r.saved
  /\ DOMAIN r.pending = {i \in Pending : i > r.saved}
  /\ \A p \in 1..r.saved : p \in Rows /\ Made(p) /\ row[p].reason = p

All(r) ==
  \/ r.pc = "ensure" /\ Fresh(r) /\ r.todo = Parts /\ r.results = {}
  \/ r.pc = "post" /\ Fresh(r) /\ r.todo \union Asked(r) = Parts
  \/ r.pc = "save" /\ Fresh(r) /\ r.todo = {} /\ r.results = {[ok |-> FALSE, reason |-> NoReason]}
  \/ r.pc = "save" /\ r.todo = {} /\ r.results = {} /\ Sent = {}
  \/ r.pc = "save" /\ r.todo = {} /\ Partway(r)

Orderly(w) == Consistent(req[w]) /\ IF req[w].split THEN Some(req[w]) ELSE All(req[w])

\* A payment of which something was sent has a row for every part.
RowsComplete ==
  ~cut /\ Sent # {} /\ (\A w \in Workers : Serving(w) => req[w].split)
    => \A p \in Parts : p \in Rows /\ Made(p)

Serial ==
  /\ OneByOne
  /\ RowsInOrder
  /\ Accounted
  /\ \A w \in Workers : Serving(w) => Orderly(w)
  /\ RowsComplete

SerialInv == ~overlap => Serial

Steady == TypeOK /\ Serial

LEMMA ServingFields ==
  ASSUME TypeOK, NEW w \in Workers, Serving(w)
  PROVE  /\ req[w] \in Request /\ req[w].pc \in Busy
         /\ req[w].pending \in Loaded /\ req[w].split \in BOOLEAN
         /\ req[w].todo \in SUBSET Parts /\ req[w].results \in SUBSET Result /\ req[w].saved \in Nat
<1>1. req[w] \in Request /\ req[w].pc # "idle"
  BY DEF TypeOK, Serving
<1> QED
  BY <1>1, BusyFields

LEMMA ResultFields ==
  ASSUME NEW x \in Result
  PROVE  x.ok \in BOOLEAN /\ x.reason \in Reasons /\ x = [ok |-> x.ok, reason |-> x.reason]
BY DEF Result

LEMMA InitSerial == Init => Serial
<1> SUFFICES ASSUME Init PROVE Serial
  OBVIOUS
<1>1. \A w \in Workers : ~Serving(w)
  BY DEF Init, Idle, Serving
<1>2. (\A i \in Rows : ~Made(i)) /\ Sent = {}
  BY DEF Init, Made, Sent
<1>3. Accounted
  BY DEF Init, Accounted
<1> QED
  BY <1>1, <1>2, <1>3 DEF Serial, OneByOne, RowsInOrder, RowsComplete

\* The one request that is served goes on, and no row is written.
LEMMA SameRows ==
  ASSUME Steady, NEW w \in Workers, Serving(w), NEW r, r.pc # "idle", r.split = req[w].split,
         req' = [req EXCEPT ![w] = r], UNCHANGED <<row, issued, cut>>,
         Accounted', Consistent(r), IF r.split THEN Some(r) ELSE All(r)
  PROVE  Serial'
<1>1. req'[w] = r /\ \A v \in Workers \ {w} : req'[v] = req[v]
  BY DEF Steady, TypeOK
<1>2. \A v \in Workers : Serving(v)' <=> v = w
  BY <1>1 DEF Steady, Serial, OneByOne, Serving
<1>3. Sent' = Sent /\ Pending' = Pending /\ \A i : Made(i)' <=> Made(i)
  BY DEF Sent, Pending, Made
<1>4. OneByOne'
  BY <1>2 DEF Steady, Serial, OneByOne
<1>5. RowsInOrder'
  BY <1>3 DEF Steady, Serial, RowsInOrder
<1>6. Consistent(r)' /\ IF r.split THEN Some(r)' ELSE All(r)'
  <2>1. Consistent(r)'
    <3>1. \A i \in DOMAIN r.pending : i \in Pending => row'[i] = row[i]
      OBVIOUS
    <3> QED
      BY <1>3, <3>1 DEF Consistent, Asked
  <2>2. Some(r)' <=> Some(r)
    BY <1>3 DEF Some, Asked
  <2>3. All(r)' <=> All(r)
    BY <1>3 DEF All, Fresh, Partway, Asked
  <2> QED
    BY <2>1, <2>2, <2>3
<1>7. \A v \in Workers : Serving(v)' => Orderly(v)'
  BY <1>1, <1>2, <1>6 DEF Orderly
<1>8. RowsComplete'
  <2>1. (\A v \in Workers : Serving(v)' => req'[v].split) => \A v \in Workers : Serving(v) => req[v].split
    BY <1>1, <1>2 DEF Steady, Serial, OneByOne
  <2> QED
    BY <1>3, <2>1 DEF Steady, Serial, RowsComplete
<1> QED
  BY <1>4, <1>5, <1>7, <1>8 DEF Serial

\* Nothing of what was accounted for is forgotten.
LEMMA StillAccounted ==
  ASSUME Steady, NEW w \in Workers, Serving(w), NEW r, r.pc # "idle",
         req' = [req EXCEPT ![w] = r], UNCHANGED <<row, registered, lost>>,
         \A x \in req[w].results : x.ok => x \in r.results
  PROVE  Accounted'
<1>1. req'[w] = r /\ \A v \in Workers : Serving(v) => v = w
  BY DEF Steady, TypeOK, Serial, OneByOne
<1>2. \A p \in Parts : (\E v \in Workers : Serving(v) /\ [ok |-> TRUE, reason |-> p] \in req[v].results)
                          => Serving(w)' /\ [ok |-> TRUE, reason |-> p] \in req'[w].results
  BY <1>1 DEF Serving
<1>3. Sent' = Sent
  BY DEF Sent
<1> QED
  BY <1>2, <1>3 DEF Steady, Serial, Accounted

\* A request begins, alone.
LEMMA BeginSerial ==
  ASSUME Steady, NEW w \in Workers, NEW pending, NEW split \in BOOLEAN, NEW todo \in SUBSET Parts,
         Begin(w, pending, split, todo), ~overlap', issued', UNCHANGED <<row, registered, lost, cut>>,
         DOMAIN pending = Pending, \A i \in Pending : pending[i] = row[i].reason,
         IF split THEN Sent # {} /\ todo \subseteq Pending ELSE Sent = {} /\ todo = Parts
  PROVE  Serial'
<1>0. PICK r : r = [pc |-> "ensure", pending |-> pending, split |-> split,
                    todo |-> todo, results |-> {}, saved |-> 0]
  OBVIOUS
<1>1. \A v \in Workers : ~Serving(v)
  <2>1. \A v \in Workers : req[v] = Idle
    BY Zenon DEF Begin
  <2> QED
    BY <2>1 DEF Serving, Idle
<1>2. req'[w] = r /\ \A v \in Workers \ {w} : req'[v] = req[v]
  BY <1>0 DEF Begin, Steady, TypeOK
<1>3. /\ r.pc = "ensure" /\ r.pending = pending /\ r.split = split
      /\ r.todo = todo /\ r.results = {} /\ r.saved = 0
  BY <1>0
<1>4. \A v \in Workers : Serving(v)' <=> v = w
  BY <1>1, <1>2, <1>3 DEF Serving
<1>5. Sent' = Sent /\ Pending' = Pending /\ \A i : Made(i)' <=> Made(i)
  BY DEF Sent, Pending, Made
<1>6. OneByOne'
  BY <1>4 DEF OneByOne
<1>7. RowsInOrder'
  BY <1>5 DEF Steady, Serial, RowsInOrder
<1>8. Accounted'
  BY <1>1, <1>5 DEF Steady, Serial, Accounted
<1>9. Asked(r) = {}
  BY <1>3 DEF Asked
<1>10. Consistent(r)'
  BY <1>3, <1>5, <1>9 DEF Consistent, Asked
<1>11. IF split THEN Some(r)' ELSE All(r)'
  BY <1>3, <1>5, <1>9 DEF Some, All, Fresh, Asked
<1>12. \A v \in Workers : Serving(v)' => Orderly(v)'
  BY <1>2, <1>3, <1>4, <1>10, <1>11 DEF Orderly
<1>13. RowsComplete'
  BY <1>1, <1>5 DEF Steady, Serial, RowsComplete
<1> QED
  BY <1>6, <1>7, <1>8, <1>12, <1>13 DEF Serial

LEMMA IssueSerial ==
  ASSUME Steady, NEW w \in Workers, Issue(w), ~overlap'
  PROVE  Serial'
<1>1. \A i \in Rows : ~Made(i)
  BY DEF Issue, Steady, Serial, OneByOne
<1>2. Sent = {} /\ Pending = {}
  BY <1>1 DEF Made, Sent, Pending
<1> DEFINE none == [i \in {} |-> NoReason]
<1>3. DOMAIN none = {} /\ Begin(w, none, FALSE, Parts)
  BY DEF Issue
<1> HIDE DEF none
<1>4. issued' /\ UNCHANGED <<row, registered, lost, cut>>
  BY DEF Issue
<1> QED
  BY <1>2, <1>3, <1>4, BeginSerial

LEMMA RetrySerial ==
  ASSUME Steady, NEW w \in Workers, Retry(w), ~overlap'
  PROVE  Serial'
<1> DEFINE pending == [i \in Pending |-> row[i].reason]
           named   == {row[i].reason : i \in Pending} \ {NoReason}
           todo    == IF Sent # {} THEN named ELSE Parts
<1>1. DOMAIN pending = Pending /\ \A i \in Pending : pending[i] = row[i].reason
  OBVIOUS
<1>2. named \subseteq Parts
  BY DEF Steady, TypeOK, Pending, Receipt, Reasons
<1>3. \A i \in Pending : Made(i) /\ i \in Rows
  BY DEF Pending, Made
<1>4. Sent # {} => named \subseteq Pending
  BY <1>3 DEF Steady, Serial, RowsInOrder
<1>5. Begin(w, pending, Sent # {}, todo)
  BY Zenon DEF Retry
<1>6. issued' /\ UNCHANGED <<row, registered, lost, cut>>
  BY DEF Retry
<1>7. todo \in SUBSET Parts /\ IF Sent # {} THEN Sent # {} /\ todo \subseteq Pending ELSE Sent = {} /\ todo = Parts
  BY <1>2, <1>4
<1> HIDE DEF pending, named, todo
<1> QED
  BY <1>1, <1>5, <1>6, <1>7, BeginSerial

LEMMA PrepareSerial ==
  ASSUME Steady, NEW w \in Workers, Prepare(w)
  PROVE  Serial'
<1> DEFINE r == [req[w] EXCEPT !.pc = "post"]
<1>1. Serving(w) /\ req[w].pc = "ensure"
  BY DEF Prepare, Serving
<1>2. /\ r.pc = "post" /\ r.pending = req[w].pending /\ r.split = req[w].split
      /\ r.todo = req[w].todo /\ r.results = req[w].results /\ r.saved = req[w].saved
  BY <1>1, BusyFields DEF Steady, TypeOK
<1>3. req' = [req EXCEPT ![w] = r] /\ UNCHANGED <<row, registered, issued, lost, cut>>
  BY DEF Prepare
<1> HIDE DEF r
<1>4. Accounted'
  BY <1>1, <1>2, <1>3, StillAccounted
<1>5. Orderly(w) /\ Asked(r) = Asked(req[w])
  BY <1>1, <1>2 DEF Steady, Serial, Asked
<1>6. Consistent(r)
  BY <1>2, <1>5 DEF Orderly, Consistent
<1>7. IF r.split THEN Some(r) ELSE All(r)
  <2>1. Asked(req[w]) \subseteq {} \/ req[w].results # {}
    BY DEF Asked
  <2> QED
    BY <1>1, <1>2, <1>5, <2>1 DEF Orderly, Some, All, Fresh
<1> QED
  BY <1>1, <1>2, <1>3, <1>4, <1>6, <1>7, SameRows

LEMMA PostsDoneSerial ==
  ASSUME Steady, NEW w \in Workers, PostsDone(w)
  PROVE  Serial'
<1> DEFINE r == [req[w] EXCEPT !.pc = "save"]
<1>1. Serving(w) /\ req[w].pc = "post" /\ req[w].todo = {}
  BY DEF PostsDone, Serving
<1>2. /\ r.pc = "save" /\ r.pending = req[w].pending /\ r.split = req[w].split
      /\ r.todo = req[w].todo /\ r.results = req[w].results /\ r.saved = req[w].saved
  BY <1>1, BusyFields DEF Steady, TypeOK
<1>3. req' = [req EXCEPT ![w] = r] /\ UNCHANGED <<row, registered, issued, lost, cut>>
  BY DEF PostsDone
<1> HIDE DEF r
<1>4. Accounted'
  BY <1>1, <1>2, <1>3, StillAccounted
<1>5. Orderly(w) /\ Asked(r) = Asked(req[w])
  BY <1>1, <1>2 DEF Steady, Serial, Asked
<1>6. Consistent(r)
  BY <1>2, <1>5 DEF Orderly, Consistent
<1>7. ASSUME ~r.split
      PROVE  Partway(r)
  <2>1. Fresh(r) /\ Asked(r) = Parts
    BY <1>1, <1>2, <1>5, <1>7 DEF Orderly, All, Fresh
  <2>2. r.saved = 0
    BY <2>1 DEF Fresh
  <2>3. Asked(r) = {p \in Parts : p > r.saved}
    BY <2>1, <2>2 DEF Parts
  <2>4. DOMAIN r.pending = {i \in Pending : i > r.saved}
    BY <2>1, <2>2 DEF Fresh, Pending, Rows
  <2>5. 1..r.saved = {}
    BY <2>2
  <2> QED
    BY <2>1, <2>3, <2>4, <2>5 DEF Fresh, Partway
<1>8. IF r.split THEN Some(r) ELSE All(r)
  BY <1>1, <1>2, <1>5, <1>7 DEF Orderly, Some, All
<1> QED
  BY <1>1, <1>2, <1>3, <1>4, <1>6, <1>8, SameRows

LEMMA FailuresOf ==
  ASSUME NEW named
  PROVE  LET failures == {[ok |-> FALSE, reason |-> x] : x \in named}
         IN  /\ \A x, y \in failures : x.reason = y.reason => x = y
             /\ {x.reason : x \in failures} = named
<1> DEFINE failures == {[ok |-> FALSE, reason |-> x] : x \in named}
<1>1. ASSUME NEW x \in failures
      PROVE  x.reason \in named /\ x = [ok |-> FALSE, reason |-> x.reason]
  OBVIOUS
<1>2. \A x, y \in failures : x.reason = y.reason => x = y
  BY <1>1
<1>3. ASSUME NEW x \in named
      PROVE  \E y \in failures : y.reason = x
  <2>1. [ok |-> FALSE, reason |-> x] \in failures /\ [ok |-> FALSE, reason |-> x].reason = x
    OBVIOUS
  <2> HIDE DEF failures
  <2> QED
    BY <2>1
<1> HIDE DEF failures
<1>4. {x.reason : x \in failures} = named
  BY <1>1, <1>3
<1> QED
  BY <1>2, <1>4 DEF failures

LEMMA FailSerial ==
  ASSUME Steady, NEW w \in Workers, FailToPrepare(w)
  PROVE  Serial'
<1> DEFINE named == IF req[w].split THEN req[w].todo ELSE {NoReason}
           failures == {[ok |-> FALSE, reason |-> x] : x \in named}
           old == req[w]
           r == [old EXCEPT !.pc = "save", !.todo = {}, !.results = failures]
<1>1. Serving(w) /\ req[w].pc = "ensure"
  BY DEF FailToPrepare, Serving
<1>2. old \in Request /\ old.pc # "idle"
  BY <1>1 DEF Steady, TypeOK
<1>3. req' = [req EXCEPT ![w] = r] /\ UNCHANGED <<row, registered, issued, lost, cut>>
  <2>1. req' = [req EXCEPT ![w].pc = "save", ![w].todo = {}, ![w].results = failures]
    BY DEF FailToPrepare
  <2> HIDE DEF failures
  <2> QED
    BY <2>1 DEF FailToPrepare, Steady, TypeOK
<1>4. (\A x, y \in failures : x.reason = y.reason => x = y) /\ {x.reason : x \in failures} = named
  BY FailuresOf
<1>5. ~req[w].split => failures = {[ok |-> FALSE, reason |-> NoReason]}
  OBVIOUS
<1>6. req[w].split => named = req[w].todo
  OBVIOUS
<1> HIDE DEF failures, named
<1>7. /\ r.pc = "save" /\ r.pending = old.pending /\ r.split = old.split
      /\ r.todo = {} /\ r.results = failures /\ r.saved = old.saved
  BY <1>2, BusyFields
<1> HIDE DEF r
<1>8. Orderly(w) /\ req[w].results = {}
  BY <1>1 DEF Steady, Serial, Orderly, Consistent
<1>9. Accounted'
  BY <1>1, <1>3, <1>7, <1>8, StillAccounted
<1>10. Asked(r) = named
  BY <1>4, <1>7 DEF Asked
<1>11. Consistent(r)
  BY <1>4, <1>7, <1>8, <1>10 DEF Orderly, Consistent
<1>12. IF r.split THEN Some(r) ELSE All(r)
  BY <1>1, <1>5, <1>6, <1>7, <1>8, <1>10 DEF Orderly, Some, All, Fresh
<1> QED
  BY <1>1, <1>3, <1>7, <1>9, <1>11, <1>12, SameRows

LEMMA PostSerial ==
  ASSUME Steady, NEW w \in Workers, NEW n \in 0..3, NEW ok \in BOOLEAN, PostPart(w, n, ok)
  PROVE  Serial'
<1>1. PICK part \in req[w].todo :
        /\ registered' = [registered EXCEPT ![part] = @ + n]
        /\ lost' = IF n = (IF ok THEN 1 ELSE 0) THEN lost ELSE lost \union {part}
        /\ req' = [req EXCEPT ![w].todo = @ \ {part},
                              ![w].results = @ \union {[ok |-> ok, reason |-> part]}]
  BY DEF PostPart
<1> DEFINE old == req[w]
           left == old.todo \ {part}
           new == [ok |-> ok, reason |-> part]
           done == old.results \union {new}
           r == [old EXCEPT !.todo = left, !.results = done]
<1>2. Serving(w) /\ old.pc = "post"
  BY DEF PostPart, Serving
<1>3. old \in Request /\ part \in Parts /\ old.results \in SUBSET Result
  BY <1>1, <1>2, ServingFields DEF Steady
<1>4. req' = [req EXCEPT ![w] = r] /\ UNCHANGED <<row, issued, cut>>
  BY <1>1 DEF PostPart, Steady, TypeOK
<1>5. new.ok = ok /\ new.reason = part
  OBVIOUS
<1>6. /\ r.pc = "post" /\ r.pending = old.pending /\ r.split = old.split
      /\ r.todo = left /\ r.results = done /\ r.saved = old.saved
  <2> HIDE DEF left, done
  <2>1. old.pc # "idle"
    BY <1>2
  <2> QED
    BY <1>2, <1>3, <2>1, BusyFields
<1> HIDE DEF r, new
<1>7. Asked(r) = Asked(old) \union {part}
  BY <1>5, <1>6 DEF Asked
<1> HIDE DEF old
<1>8. Orderly(w) /\ Consistent(old) /\ IF old.split THEN Some(old) ELSE All(old)
  BY <1>2 DEF Steady, Serial, Orderly, old
<1>9. part \in old.todo /\ part \notin Asked(old)
  BY <1>1, <1>8 DEF Consistent, old
<1>10. \A x \in old.results : x.reason # part
  BY <1>9 DEF Asked
<1>11. Consistent(r)
  <2>1. \A x, y \in r.results : x.reason = y.reason => x = y
    BY <1>5, <1>6, <1>8, <1>10 DEF Consistent
  <2>2. r.todo \intersect Asked(r) = {}
    BY <1>6, <1>7, <1>8 DEF Consistent
  <2> QED
    BY <1>6, <1>8, <2>1, <2>2 DEF Consistent
<1>12. IF r.split THEN Some(r) ELSE All(r)
  <2>1. r.todo \union Asked(r) = old.todo \union Asked(old)
    BY <1>6, <1>7, <1>9
  <2> QED
    BY <1>2, <1>6, <1>8, <2>1 DEF Some, All, Fresh, old
<1>13. part \notin Sent
  BY <1>2, <1>8, <1>9 DEF Some, All, Fresh, Consistent, Sent, Pending, old
<1>14. \A v \in Workers : Serving(v) => req[v] = old
  BY <1>2 DEF Steady, Serial, OneByOne, old
<1>15. req'[w] = r /\ Serving(w)' /\ Sent' = Sent
  BY <1>3, <1>4, <1>6 DEF Steady, TypeOK, Serving, Sent
<1>16. registered \in [Parts -> Nat]
  BY DEF Steady, TypeOK
<1>17. ASSUME NEW p \in Parts \ lost'
       PROVE  /\ registered'[p] <= 1
              /\ registered'[p] = 1 => p \in Sent' \/ [ok |-> TRUE, reason |-> p] \in req'[w].results
  <2>1. p \in Parts \ lost
    BY <1>1
  <2>2. /\ registered[p] <= 1
        /\ registered[p] = 1 => p \in Sent \/ [ok |-> TRUE, reason |-> p] \in old.results
    BY <2>1, <1>14 DEF Steady, Serial, Accounted
  <2>3. CASE p # part
    BY <1>1, <1>6, <1>15, <1>16, <2>2, <2>3
  <2>4. CASE p = part
    <3>1. [ok |-> TRUE, reason |-> part] \notin old.results
      BY <1>10
    <3>2. registered[part] = 0
      BY <1>13, <1>16, <2>2, <2>4, <3>1
    <3>3. n = IF ok THEN 1 ELSE 0
      BY <1>1, <2>4
    <3>4. registered'[part] = n
      BY <1>1, <1>3, <1>16, <3>2
    <3>5. ok => [ok |-> TRUE, reason |-> part] \in req'[w].results
      BY <1>6, <1>15 DEF new
    <3> QED
      BY <2>4, <3>3, <3>4, <3>5
  <2> QED
    BY <2>3, <2>4
<1>18. Accounted'
  BY <1>15, <1>17 DEF Accounted
<1> QED
  BY <1>2, <1>4, <1>6, <1>11, <1>12, <1>18, SameRows DEF old

\* The row at index 0 of the loaded ones is the first row, if that is loaded.
LEMMA FirstLoaded ==
  ASSUME NEW S \in SUBSET Rows, 1 \in S,
         NEW i, IsLeast(i, IF {k \in S : Cardinality({j \in S : j < k}) = 0} # {}
                           THEN {k \in S : Cardinality({j \in S : j < k}) = 0} ELSE S)
  PROVE  i = 1
<1> DEFINE T == {k \in S : Cardinality({j \in S : j < k}) = 0}
<1>1. \A k \in S : k \in Nat /\ k >= 1
  BY DEF Rows
<1>2. {j \in S : j < 1} = {}
  BY <1>1
<1>3. Cardinality({j \in S : j < 1}) = 0
  BY <1>2, FS_EmptySet
<1>4. 1 \in T
  BY <1>3
<1> HIDE DEF T
<1>5. IsLeast(i, T)
  BY <1>4 DEF T
<1>6. i \in S /\ i <= 1
  BY <1>4, <1>5 DEF IsLeast, T
<1> QED
  BY <1>1, <1>6

\* The row that _pick_existing_receipt picks is the one of the result's part, and
\* it was not sent.
LEMMA PickedRow ==
  ASSUME Steady, NEW w \in Workers, Serving(w), req[w].pc = "save", NEW res \in req[w].results,
         \A other \in req[w].results : res.reason <= other.reason,
         NEW i \in Rows, IsLeast(i, RowsFor(req[w], res.reason))
  PROVE  /\ i \notin Sent
         /\ \A j \in Rows : j < i => Made(j)
         /\ \/ req[w].split /\ i = res.reason
            \/ /\ ~req[w].split /\ req[w].todo = {} /\ Sent = {} /\ i = 1
               /\ req[w].results = {[ok |-> FALSE, reason |-> NoReason]}
            \/ /\ ~req[w].split /\ req[w].todo = {} /\ Partway(req[w])
               /\ i = req[w].saved + 1 /\ i = res.reason
<1> DEFINE r == req[w]
           loaded == DOMAIN r.pending
           same == {k \in loaded : r.pending[k] = res.reason}
           atIndex == {k \in loaded : Cardinality({j \in loaded : j < k}) = r.saved}
           free == {k \in Rows : row[k].status = "none"}
<1>1. /\ res.reason \in Reasons /\ res.ok \in BOOLEAN
      /\ r.saved \in Nat /\ r.split \in BOOLEAN /\ r.results \in SUBSET Result
      /\ \A k \in Rows : row[k].status \in {"none", "failed", "sent"}
  BY ServingFields, ResultFields DEF Steady, TypeOK, Receipt
<1>2. Consistent(r) /\ (IF r.split THEN Some(r) ELSE All(r)) /\ RowsInOrder
  BY DEF Steady, Serial, Orderly
<1>3. /\ loaded \subseteq Pending
      /\ same = {k \in loaded : row[k].reason = res.reason}
      /\ \A k \in loaded : Made(k) /\ k \notin Sent /\ k \in Rows
  BY <1>2 DEF Consistent, Pending, Sent, Made
<1>4. IsLeast(i, IF same # {} THEN same
                 ELSE IF atIndex # {} THEN atIndex
                 ELSE IF loaded # {} THEN loaded ELSE free)
  BY DEF RowsFor
<1>5. res.reason \in Asked(r)
  BY DEF Asked
<1>6. MaxRows \in Nat /\ \A k : k \in Rows <=> k \in Nat /\ 1 <= k /\ k <= MaxRows
  BY ConstantsAssumption DEF Rows
<1>7. \A k \in free : ~Made(k) /\ k \notin Sent
  BY DEF Made, Sent
<1> HIDE DEF r, loaded, same, atIndex, free
<1>7a. ASSUME same = {}, 1 \in loaded, r.saved = 0
       PROVE  i = 1
  <2>1. loaded \in SUBSET Rows
    BY <1>3
  <2>2. IsLeast(i, IF {k \in loaded : Cardinality({j \in loaded : j < k}) = 0} # {}
                   THEN {k \in loaded : Cardinality({j \in loaded : j < k}) = 0} ELSE loaded)
    BY <1>4, <1>7a DEF atIndex
  <2> QED
    BY <1>7a, <2>1, <2>2, FirstLoaded
<1>8. CASE r.split
  <2>1. res.reason \in loaded /\ Sent # {}
    BY <1>2, <1>5, <1>8 DEF Some, loaded
  <2>2. \A k \in loaded : row[k].reason = k
    BY <1>2, <1>3, <2>1 DEF RowsInOrder
  <2>3. same = {res.reason}
    BY <1>3, <2>1, <2>2
  <2>4. i = res.reason
    BY <1>4, <2>3 DEF IsLeast
  <2> QED
    BY <1>2, <1>3, <1>8, <2>1, <2>4 DEF RowsInOrder, r
<1>9. CASE ~r.split /\ Sent = {} /\ r.results = {[ok |-> FALSE, reason |-> NoReason]} /\ Fresh(r) /\ r.todo = {}
  <2>1. res.reason = NoReason
    BY <1>9 DEF r
  <2>2. r.saved = 0 /\ loaded = Pending
    BY <1>9 DEF Fresh, loaded
  <2>3. \A k \in Rows : Made(k) <=> k \in Pending
    BY <1>1, <1>9 DEF Made, Pending, Sent
  <2>4. i = 1
    <3>1. CASE same # {}
      <4>1. i \in loaded /\ row[i].reason = NoReason
        BY <1>3, <1>4, <2>1, <3>1 DEF IsLeast
      <4> QED
        BY <1>2, <1>3, <1>6, <4>1 DEF RowsInOrder, NoReason
    <3>2. CASE same = {} /\ loaded = {}
      <4>1. atIndex = {}
        BY <3>2 DEF atIndex
      <4>2. IsLeast(i, free)
        BY <1>4, <3>2, <4>1
      <4>3. 1 \in free
        BY <1>6, <2>2, <2>3, <3>2 DEF free, Made
      <4> QED
        BY <1>6, <4>2, <4>3 DEF IsLeast
    <3>3. CASE same = {} /\ loaded # {}
      <4>1. PICK k \in loaded : k \in Rows /\ Made(k)
        BY <1>3, <3>3
      <4>2. 1 \in Rows
        BY <1>6, <4>1
      <4>3. Made(1)
        BY <1>2, <1>6, <4>1, <4>2 DEF RowsInOrder
      <4>4. 1 \in loaded
        BY <2>2, <2>3, <4>2, <4>3
      <4> QED
        BY <1>7a, <2>2, <3>3, <4>4
    <3> QED
      BY <3>1, <3>2, <3>3
  <2> QED
    BY <1>6, <1>9, <2>4 DEF r
<1>10. CASE ~r.split /\ Partway(r) /\ r.todo = {}
  <2> DEFINE n == r.saved + 1
  <2>0. r.saved \in Nat /\ n \in Nat /\ n = r.saved + 1 /\ n >= 1
    BY <1>1
  <2>1. res.reason \in Parts /\ res.reason > r.saved
    BY <1>5, <1>10 DEF Partway
  <2>2. n \in Parts
    BY <2>0, <2>1, ConstantsAssumption DEF Parts
  <2>3. n \in Asked(r)
    BY <1>10, <2>0, <2>2 DEF Partway
  <2>4. res.reason <= n
    BY <2>3 DEF Asked, r
  <2>5. res.reason = n
    BY <2>0, <2>1, <2>4 DEF Parts
  <2> HIDE DEF n
  <2>6. loaded = {k \in Pending : k > r.saved} /\ \A k \in Sent : k <= r.saved
    BY <1>10 DEF Partway, loaded
  <2>7. \A k \in 1..r.saved : k \in Rows /\ Made(k)
    BY <1>10 DEF Partway
  <2>8. \A k \in loaded : k >= n /\ (row[k].reason = k \/ (k = 1 /\ n = 1 /\ row[k].reason = NoReason))
    BY <1>2, <1>3, <1>6, <2>0, <2>6 DEF RowsInOrder
  <2>9. i = n
    <3>1. CASE same # {}
      <4>1. i \in loaded /\ row[i].reason = n
        BY <1>3, <1>4, <2>5, <3>1 DEF IsLeast
      <4> QED
        BY <2>0, <2>8, <4>1 DEF NoReason
    <3>2. CASE same = {} /\ loaded = {}
      <4>1. atIndex = {}
        BY <3>2 DEF atIndex
      <4>2. IsLeast(i, free)
        BY <1>4, <3>2, <4>1
      <4>3. i > r.saved
        BY <1>6, <1>7, <2>0, <2>7, <4>2 DEF IsLeast
      <4>4. n \in Rows
        BY <1>6, <2>0, <4>3
      <4>5. n \notin Sent /\ n \notin Pending
        BY <2>0, <2>6, <3>2
      <4>6. n \in free
        BY <1>1, <4>4, <4>5 DEF free, Sent, Pending
      <4>7. i <= n
        BY <4>2, <4>6 DEF IsLeast
      <4> QED
        BY <1>6, <2>0, <4>3, <4>7
    <3>3. CASE same = {} /\ loaded # {}
      <4>1. PICK k \in loaded : TRUE
        BY <3>3
      <4>2. n \in Rows /\ Made(n)
        <5>1. k \in Rows /\ Made(k) /\ k >= n
          BY <1>3, <2>8, <4>1
        <5>2. n \in Rows
          BY <1>3, <1>6, <2>0, <5>1
        <5> QED
          BY <1>2, <1>6, <2>0, <5>1, <5>2 DEF RowsInOrder
      <4>3. n \in loaded
        BY <1>1, <2>0, <2>6, <4>2 DEF Made, Sent, Pending
      <4>4. n = 1
        BY <1>3, <2>5, <2>8, <3>3, <4>3
      <4>5. r.saved = 0
        BY <2>0, <4>4
      <4>6. i = 1
        BY <1>7a, <3>3, <4>3, <4>4, <4>5
      <4> QED
        BY <4>4, <4>6
    <3> QED
      BY <3>1, <3>2, <3>3
  <2>10. i \notin Sent /\ \A j \in Rows : j < i => Made(j)
    BY <1>6, <2>0, <2>6, <2>7, <2>9
  <2> QED
    BY <1>10, <2>5, <2>9, <2>10 DEF r, n
<1>11. ~r.split => \/ Sent = {} /\ r.results = {[ok |-> FALSE, reason |-> NoReason]} /\ Fresh(r) /\ r.todo = {}
                   \/ Partway(r) /\ r.todo = {}
  BY <1>2 DEF All, Fresh, r
<1> QED
  BY <1>8, <1>9, <1>10, <1>11

LEMMA SaveSerial ==
  ASSUME Steady, NEW w \in Workers, SaveReceipt(w)
  PROVE  Serial'
<1>1. PICK res \in req[w].results, i \in Rows :
        /\ \A other \in req[w].results : res.reason <= other.reason
        /\ IsLeast(i, RowsFor(req[w], res.reason))
        /\ row' = [row EXCEPT ![i] = [status |-> StatusOf(res), reason |-> res.reason]]
        /\ req' = [req EXCEPT ![w].results = @ \ {res},
                              ![w].saved = @ + 1,
                              ![w].pending = [j \in DOMAIN @ \ {i} |-> @[j]]]
  BY DEF SaveReceipt
<1> DEFINE old == req[w]
           less == old.results \ {res}
           more == old.saved + 1
           rest == [j \in DOMAIN old.pending \ {i} |-> old.pending[j]]
<1>2. Serving(w) /\ old.pc = "save" /\ UNCHANGED <<registered, issued, lost, cut>>
  BY DEF SaveReceipt, Serving
<1>3. /\ old \in Request /\ old.results \in SUBSET Result /\ old.saved \in Nat
      /\ old.split \in BOOLEAN /\ res \in Result
  BY <1>1, <1>2, ServingFields DEF Steady
<1>4. PICK r : r = [old EXCEPT !.results = less, !.saved = more, !.pending = rest]
  OBVIOUS
<1>5. req'[w] = r /\ \A v \in Workers \ {w} : req'[v] = req[v]
  BY <1>1, <1>4 DEF Steady, TypeOK
<1>6. /\ r.pc = "save" /\ r.split = old.split /\ r.todo = old.todo
      /\ r.results = less /\ r.saved = more /\ r.pending = rest
  <2> HIDE DEF less, more, rest
  <2> QED
    BY <1>2, <1>3, <1>4, BusyFields
<1>7. DOMAIN r.pending = DOMAIN old.pending \ {i} /\ \A j \in DOMAIN r.pending : r.pending[j] = old.pending[j]
  BY <1>6
<1> HIDE DEF less, more, rest
<1>8. /\ i \notin Sent
      /\ \A j \in Rows : j < i => Made(j)
      /\ \/ old.split /\ i = res.reason
         \/ /\ ~old.split /\ old.todo = {} /\ Sent = {} /\ i = 1
            /\ old.results = {[ok |-> FALSE, reason |-> NoReason]}
         \/ /\ ~old.split /\ old.todo = {} /\ Partway(old)
            /\ i = old.saved + 1 /\ i = res.reason
  BY <1>1, <1>2, PickedRow
<1>9. Consistent(old) /\ (IF old.split THEN Some(old) ELSE All(old)) /\ RowsInOrder /\ Accounted
  BY <1>2 DEF Steady, Serial, Orderly
<1>10. \A v \in Workers : (Serving(v) <=> v = w) /\ (Serving(v)' <=> v = w)
  BY <1>2, <1>5, <1>6 DEF Steady, Serial, OneByOne, Serving
<1> HIDE DEF old
<1>11. /\ row'[i].status = (IF res.ok THEN "sent" ELSE "failed") /\ row'[i].reason = res.reason
       /\ \A j \in Rows \ {i} : row'[j] = row[j]
  BY <1>1 DEF Steady, TypeOK, StatusOf
<1>12. /\ Sent' = IF res.ok THEN Sent \union {i} ELSE Sent
       /\ \A j \in Rows \ {i} : j \in Pending' <=> j \in Pending
       /\ \A j \in Rows : Made(j)' <=> Made(j) \/ j = i
  BY <1>8, <1>11 DEF Sent, Pending, Made
<1>13. Asked(r) = Asked(old) \ {res.reason} /\ res.reason \in Asked(old)
  <2>1. \A x \in old.results : x.reason = res.reason => x = res
    BY <1>1, <1>9 DEF Consistent, old
  <2> QED
    BY <1>1, <1>6, <2>1 DEF Asked, less, old
<1>14. Sent \subseteq Rows /\ Pending \subseteq Rows /\ \A k \in Rows : k \in Nat /\ k >= 1
  BY ConstantsAssumption DEF Sent, Pending, Rows
<1>15. Consistent(r)'
  <2>1. \A x, y \in r.results : x.reason = y.reason => x = y
    BY <1>6, <1>9 DEF Consistent, less
  <2>2. r.todo \intersect Asked(r) = {}
    BY <1>6, <1>9, <1>13 DEF Consistent
  <2>3. DOMAIN r.pending \subseteq Pending' /\ \A j \in DOMAIN r.pending : r.pending[j] = row'[j].reason
    BY <1>7, <1>9, <1>11, <1>12, <1>14 DEF Consistent
  <2>4. Asked(r)' = Asked(r) /\ r.pc # "ensure"
    BY <1>6 DEF Asked
  <2> QED
    BY <2>1, <2>2, <2>3, <2>4 DEF Consistent
<1>16. ASSUME old.split
       PROVE  RowsInOrder' /\ RowsComplete' /\ IF r.split THEN Some(r)' ELSE All(r)'
  <2>1. i = res.reason /\ Some(old)
    BY <1>8, <1>9, <1>16
  <2>2. Some(r)'
    <3>1. r.todo \union Asked(r) \subseteq DOMAIN r.pending
      BY <1>6, <1>7, <1>9, <1>13, <2>1 DEF Some, Consistent
    <3>2. Asked(r)' = Asked(r) /\ Sent' # {}
      BY <1>12, <2>1 DEF Asked, Some
    <3> QED
      BY <3>1, <3>2 DEF Some
  <2>3. RowsInOrder'
    BY <1>8, <1>9, <1>11, <1>12, <2>1 DEF RowsInOrder, Some
  <2>4. RowsComplete'
    BY <1>2, <1>10, <1>12, <1>16, <2>1 DEF Steady, Serial, RowsComplete, Some, old
  <2> QED
    BY <1>6, <1>16, <2>1, <2>2, <2>3, <2>4
<1>17. ASSUME ~old.split /\ old.todo = {} /\ Sent = {} /\ i = 1 /\ old.results = {[ok |-> FALSE, reason |-> NoReason]}
       PROVE  RowsInOrder' /\ RowsComplete' /\ IF r.split THEN Some(r)' ELSE All(r)'
  <2>1. res = [ok |-> FALSE, reason |-> NoReason]
    BY <1>1, <1>17 DEF old
  <2>2. r.results = {} /\ Sent' = {} /\ ~res.ok /\ res.reason = NoReason
    BY <1>6, <1>12, <1>17, <2>1 DEF less
  <2>3. All(r)'
    BY <1>6, <1>17, <2>2 DEF All
  <2>4. RowsInOrder'
    BY <1>8, <1>9, <1>11, <1>12, <1>17, <2>2 DEF RowsInOrder
  <2>5. RowsComplete'
    BY <2>2 DEF RowsComplete
  <2> QED
    BY <1>6, <1>17, <2>2, <2>3, <2>4, <2>5
<1>18. ASSUME ~old.split /\ old.todo = {} /\ Partway(old) /\ i = old.saved + 1 /\ i = res.reason
       PROVE  RowsInOrder' /\ RowsComplete' /\ IF r.split THEN Some(r)' ELSE All(r)'
  <2>1. r.saved = i /\ old.saved \in Nat /\ i = old.saved + 1
    BY <1>3, <1>6, <1>18 DEF more
  <2>2. Asked(r) = {p \in Parts : p > r.saved}
    BY <1>13, <1>18, <2>1, ConstantsAssumption DEF Partway, Parts
  <2>3. \A j \in Sent' : j <= r.saved
    BY <1>12, <1>14, <1>18, <2>1 DEF Partway
  <2>4. DOMAIN r.pending = {j \in Pending' : j > r.saved}
    <3>1. DOMAIN old.pending = {j \in Pending : j > old.saved}
      BY <1>18 DEF Partway
    <3>2. Pending' \subseteq Rows
      BY DEF Pending
    <3> QED
      <4>1. ASSUME NEW j \in Rows
            PROVE  j \in DOMAIN r.pending <=> j \in Pending' /\ j > r.saved
        <5>1. j \in Nat /\ (j > r.saved <=> j > old.saved /\ j # i)
          BY <1>14, <2>1
        <5> QED
          BY <1>7, <1>12, <2>1, <3>1, <5>1
      <4>2. DOMAIN r.pending \subseteq Rows
        BY <1>7, <1>14, <3>1
      <4> QED
        BY <3>2, <4>1, <4>2
  <2>5. \A p \in 1..r.saved : p \in Rows /\ Made(p)' /\ row'[p].reason = p
    BY <1>11, <1>12, <1>14, <1>18, <2>1 DEF Partway
  <2>6. All(r)'
    <3>1. Asked(r)' = Asked(r)
      BY DEF Asked
    <3>2. Partway(r)'
      BY <2>2, <2>3, <2>4, <2>5, <3>1 DEF Partway
    <3> QED
      BY <1>6, <1>18, <3>2 DEF All
  <2>7. RowsInOrder'
    <3> SUFFICES ASSUME NEW j \in Rows, Made(j)'
                 PROVE  /\ \A k \in Rows : k < j => Made(k)'
                        /\ row'[j].reason = j \/ (j = 1 /\ row'[j].reason = NoReason /\ Sent' = {})
      BY DEF RowsInOrder
    <3>1. CASE j = i
      BY <1>8, <1>11, <1>12, <1>18, <3>1
    <3>2. CASE j # i
      <4>1. Made(j) /\ row'[j] = row[j] /\ \A k \in Rows : k < j => Made(k)'
        BY <1>9, <1>11, <1>12, <3>2 DEF RowsInOrder
      <4>2. CASE j <= old.saved
        BY <1>14, <2>1, <2>5, <4>1, <4>2
      <4>3. CASE j > i
        BY <1>9, <1>14, <2>1, <4>1, <4>3 DEF RowsInOrder
      <4> QED
        BY <1>14, <2>1, <3>2, <4>2, <4>3
    <3> QED
      BY <3>1, <3>2
  <2>8. RowsComplete'
    BY <1>5, <1>6, <1>10, <1>18 DEF RowsComplete
  <2> QED
    BY <1>6, <1>18, <2>1, <2>6, <2>7, <2>8
<1>19. RowsInOrder' /\ RowsComplete' /\ IF r.split THEN Some(r)' ELSE All(r)'
  BY <1>6, <1>8, <1>16, <1>17, <1>18
<1>20. res.ok /\ res.reason \in Parts => i = res.reason
  <2>1. CASE old.results = {[ok |-> FALSE, reason |-> NoReason]}
    BY <1>1, <2>1 DEF old
  <2> QED
    BY <1>8, <2>1
<1>21. Accounted'
  <2> SUFFICES ASSUME NEW p \in Parts \ lost', registered'[p] = 1,
                      ~(Serving(w)' /\ [ok |-> TRUE, reason |-> p] \in req'[w].results)
               PROVE  p \in Sent'
    BY <1>2, <1>9 DEF Accounted
  <2>1. p \in Sent \/ [ok |-> TRUE, reason |-> p] \in old.results
    BY <1>2, <1>9, <1>10 DEF Accounted, old
  <2>2. CASE p \in Sent
    BY <1>12, <2>2
  <2>3. CASE [ok |-> TRUE, reason |-> p] \in old.results
    <3>1. res = [ok |-> TRUE, reason |-> p]
      BY <1>5, <1>6, <1>10, <2>3 DEF less
    <3>2. res.ok /\ res.reason = p
      BY <3>1
    <3> QED
      BY <1>12, <1>20, <3>2
  <2> QED
    BY <2>1, <2>2, <2>3
<1>22. OneByOne'
  BY <1>2, <1>10 DEF Steady, Serial, OneByOne
<1>23. \A v \in Workers : Serving(v)' => Orderly(v)'
  BY <1>5, <1>10, <1>15, <1>19 DEF Orderly
<1> QED
  BY <1>19, <1>21, <1>22, <1>23 DEF Serial

\* A request ends; the results it has not saved, if any, are lost.
LEMMA EndSerial ==
  ASSUME Steady, NEW w \in Workers, Serving(w), req' = [req EXCEPT ![w] = Idle],
         UNCHANGED <<row, registered, issued>>, lost \subseteq lost',
         \A p \in Parts : [ok |-> TRUE, reason |-> p] \in req[w].results => p \in lost',
         ~cut' => ~cut /\ req[w].results = {}
  PROVE  Serial'
<1>1. \A v \in Workers : (Serving(v) <=> v = w) /\ ~Serving(v)'
  BY DEF Steady, TypeOK, Serial, OneByOne, Serving, Idle
<1>2. Sent' = Sent /\ \A i : Made(i)' <=> Made(i)
  BY DEF Sent, Made
<1>3. Accounted'
  BY <1>1, <1>2 DEF Steady, Serial, Accounted
<1>4. RowsInOrder'
  BY <1>2 DEF Steady, Serial, RowsInOrder
<1>5. RowsComplete'
  <2> SUFFICES ASSUME ~cut', Sent # {}, NEW p \in Parts
               PROVE  p \in Rows /\ Made(p)
    BY <1>2 DEF RowsComplete
  <2>1. ~cut /\ req[w].results = {} /\ Orderly(w)
    BY DEF Steady, Serial
  <2>2. CASE req[w].split
    BY <1>1, <2>1, <2>2 DEF Steady, Serial, RowsComplete
  <2>3. CASE ~req[w].split
    <3>1. Partway(req[w])
      BY <2>1, <2>3 DEF Orderly, All, Fresh
    <3>2. Asked(req[w]) = {}
      BY <2>1 DEF Asked
    <3>3. req[w].saved \in Nat /\ p \in Nat /\ p >= 1
      BY ServingFields, ConstantsAssumption DEF Steady, Parts
    <3>4. p \in 1..req[w].saved
      BY <3>1, <3>2, <3>3 DEF Partway
    <3> QED
      BY <3>1, <3>4 DEF Partway
  <2> QED
    BY <2>2, <2>3
<1>6. OneByOne'
  BY <1>1, <1>2 DEF Steady, Serial, OneByOne
<1> QED
  BY <1>1, <1>3, <1>4, <1>5, <1>6 DEF Serial

LEMMA CrashSerial ==
  ASSUME Steady, NEW w \in Workers, Crash(w)
  PROVE  Serial'
<1>1. Serving(w)
  BY BusyFields DEF Crash, Steady, TypeOK, Serving, Request, Idle
<1>2. ~cut' => ~cut /\ req[w].results = {}
  BY Zenon DEF Crash
<1>3. \A p \in Parts : [ok |-> TRUE, reason |-> p] \in req[w].results => p \in lost'
  BY DEF Crash
<1>4. lost \subseteq lost' /\ req' = [req EXCEPT ![w] = Idle] /\ UNCHANGED <<row, registered, issued>>
  BY DEF Crash
<1> QED
  BY <1>1, <1>2, <1>3, <1>4, EndSerial

LEMMA FinishSerial ==
  ASSUME Steady, NEW w \in Workers, Finish(w)
  PROVE  Serial'
<1>1. Serving(w) /\ req[w].results = {} /\ req' = [req EXCEPT ![w] = Idle]
  BY DEF Finish, Serving
<1>2. UNCHANGED <<row, registered, issued, lost, cut>>
  BY DEF Finish
<1> QED
  BY <1>1, <1>2, EndSerial

LEMMA NextSerial == TypeOK /\ SerialInv /\ [Next]_vars => SerialInv'
<1> SUFFICES ASSUME TypeOK, SerialInv, [Next]_vars, ~overlap'
             PROVE  Serial'
  BY DEF SerialInv
<1>1. ~overlap
  <2>1. ASSUME NEW w \in Workers, NEW pending, NEW split, NEW todo, Begin(w, pending, split, todo)
        PROVE  ~overlap
    BY <2>1, Zenon DEF Begin
  <2>2. ASSUME NEW w \in Workers, Issue(w) \/ Retry(w)
        PROVE  ~overlap
    <3>1. PICK pending, split, todo : Begin(w, pending, split, todo)
      BY <2>2, Zenon DEF Issue, Retry
    <3> QED
      BY <2>1, <3>1
  <2>3. ASSUME NEW w \in Workers,
               \/ Prepare(w) \/ FailToPrepare(w) \/ PostsDone(w) \/ SaveReceipt(w) \/ Finish(w) \/ Crash(w)
               \/ \E n \in 0..3, ok \in BOOLEAN : PostPart(w, n, ok)
        PROVE  ~overlap
    BY <2>3 DEF Prepare, FailToPrepare, PostsDone, SaveReceipt, Finish, Crash, PostPart
  <2> QED
    BY <2>2, <2>3 DEF Next, vars
<1>2. Steady
  BY <1>1 DEF Steady, SerialInv
<1>3. CASE UNCHANGED vars
  <2>1. Sent' = Sent /\ Pending' = Pending /\ \A i : Made(i)' <=> Made(i)
    BY <1>3 DEF vars, Sent, Pending, Made
  <2>2. \A w \in Workers : Serving(w)' => Orderly(w)'
    BY <1>2, <1>3 DEF vars, Steady, Serial, Serving, Orderly, Consistent, Some, All, Fresh, Partway, Asked,
         Sent, Pending, Made
  <2> QED
    BY <1>2, <1>3, <2>1, <2>2 DEF vars, Steady, Serial, OneByOne, RowsInOrder, Accounted, RowsComplete, Serving
<1>4. CASE Next
  BY <1>2, <1>4, IssueSerial, RetrySerial, PrepareSerial, FailSerial, PostSerial, PostsDoneSerial,
     SaveSerial, FinishSerial, CrashSerial DEF Next
<1> QED
  BY <1>3, <1>4

LEMMA SerialAlways == Spec => [](TypeOK /\ SerialInv)
<1>1. Init => SerialInv
  BY InitSerial DEF SerialInv
<1> QED
  BY <1>1, InitType, NextType, NextSerial, PTL DEF Spec

\* With one request at a time no part is registered twice, for any number of parts
\* and retries, unless an answer was lost (create_fiscal_receipts, retry_receipt).
THEOREM OneRegistration == Spec => []RegisteredOnce
<1>1. SerialInv => RegisteredOnce
  BY DEF SerialInv, Serial, Accounted, RegisteredOnce
<1> QED
  BY <1>1, SerialAlways, PTL

\* With one request at a time a retry is never refused for want of the parts'
\* names, however often the device or a worker fails.
THEOREM NeverBlocked == Spec => []RetryIsPossible
<1>1. SerialInv => RetryIsPossible
  <2> SUFFICES ASSUME Serial, Blocked
               PROVE  FALSE
    BY DEF SerialInv, RetryIsPossible
  <2>1. PICK i \in Pending : TRUE
    BY DEF Blocked
  <2>2. i \in Rows /\ Made(i) /\ row[i].reason = NoReason /\ Sent # {}
    BY <2>1 DEF Blocked, Pending, Made
  <2>3. i # NoReason
    BY <2>2, ConstantsAssumption DEF Rows, NoReason
  <2> QED
    BY <2>2, <2>3 DEF Serial, RowsInOrder
<1> QED
  BY <1>1, SerialAlways, PTL

\* With one request at a time and no results lost with a worker, the payment of a
\* shift that may be closed has every part registered (CashShiftService).
THEOREM ResolvedPaymentsAreRegistered == Spec => []ResolvedIsRegistered
<1>1. TypeOK /\ SerialInv /\ SentIsRegistered => ResolvedIsRegistered
  <2> SUFFICES ASSUME TypeOK, Serial, SentIsRegistered, ~cut, Resolved,
                      \A w \in Workers : req[w] = Idle, NEW p \in Parts
               PROVE  registered[p] >= 1
    BY DEF SerialInv, ResolvedIsRegistered
  <2>1. \A w \in Workers : ~Serving(w)
    BY DEF Serving, Idle
  <2>2. p \in Rows /\ Made(p)
    BY <2>1 DEF Serial, RowsComplete, Resolved
  <2>3. p \in Sent
    BY <2>2 DEF TypeOK, Receipt, Made, Resolved, Sent, Pending
  <2>4. row[p].reason = p
    BY <2>2, <2>3 DEF Serial, RowsInOrder
  <2> QED
    BY <2>3, <2>4 DEF SentIsRegistered
<1> QED
  BY <1>1, SerialAlways, NothingSentUnregistered, PTL
-----------------------------------------------------------------------------
\* A receipt that was sent is not written over: what a retry writes over are rows
\* that had failed when it read them.
SentStands == ~overlap => \A i \in Sent : row'[i] = row[i]

\* With one request at a time no retry makes a receipt that was sent count as failed,
\* or gives it to another part (_pick_existing_receipt), for any parts and rows, and
\* whoever dies in between.
THEOREM ReceiptsStand == Spec => [][SentStands]_vars
<1>1. TypeOK /\ SerialInv /\ [Next]_vars => [SentStands]_vars
  <2> SUFFICES ASSUME TypeOK, SerialInv, [Next]_vars, ~overlap, NEW i \in Sent
               PROVE  row'[i] = row[i]
    BY DEF SentStands
  <2>1. Serial /\ i \in Rows /\ row[i].status = "sent"
    BY DEF SerialInv, Sent
  <2>2. ASSUME NEW w \in Workers, SaveReceipt(w)
        PROVE  row'[i] = row[i]
    <3>1. PICK res \in req[w].results, j \in Rows :
            /\ IsLeast(j, RowsFor(req[w], res.reason))
            /\ row' = [row EXCEPT ![j] = [status |-> StatusOf(res), reason |-> res.reason]]
      BY <2>2 DEF SaveReceipt
    <3>2. Serving(w)
      BY <2>2 DEF SaveReceipt, Serving
    <3>3. DOMAIN req[w].pending \subseteq Pending
      BY <2>1, <3>2 DEF Serial, Orderly, Consistent
    <3>4. j \in DOMAIN req[w].pending \/ row[j].status = "none"
      BY <3>1 DEF IsLeast, RowsFor
    <3>5. j # i
      BY <2>1, <3>3, <3>4 DEF Pending
    <3> QED
      BY <2>1, <3>1, <3>5 DEF TypeOK
  <2>3. CASE UNCHANGED vars
    BY <2>3 DEF vars
  <2>4. ASSUME NEW w \in Workers,
               \/ Issue(w) \/ Retry(w) \/ Prepare(w) \/ FailToPrepare(w) \/ PostsDone(w) \/ Finish(w) \/ Crash(w)
               \/ \E n \in 0..3, ok \in BOOLEAN : PostPart(w, n, ok)
        PROVE  row'[i] = row[i]
    BY <2>4 DEF Issue, Retry, Prepare, FailToPrepare, PostsDone, Finish, Crash, PostPart
  <2> QED
    BY <2>2, <2>3, <2>4 DEF Next
<1> QED
  BY <1>1, SerialAlways, PTL DEF Spec
=============================================================================
