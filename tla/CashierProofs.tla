--------------------------- MODULE CashierProofs ---------------------------
(***************************************************************************)
(* Proofs about Cashier.  The state stays well typed for any workers.      *)
(* With one request at a time, for any desks, cashiers, payments, shifts   *)
(* and crashes, a closed shift counts its payments and leaves no receipt   *)
(* behind, and is not written again.  The invariant says what each kind of *)
(* request knows.                                                          *)
(***************************************************************************)
EXTENDS Cashier, TLAPS

LEMMA ShiftNumbers == Shifts \subseteq Nat /\ NoShift \notin Shifts /\ NoShift \in Nat
BY ConstantsAssumption DEF Shifts, NoShift

(***************************************************************************)
(* Requests: what there is in a request that is at a given step.           *)
(***************************************************************************)
LEMMA IdleType == Idle \in Request
BY DEF Idle, Request

LEMMA RequestFields ==
  ASSUME NEW r \in Request
  PROVE  /\ r.pc = "open" => r.desk \in Desks /\ r.cashier \in Cashiers \union {NoOne}
         /\ r.pc \in {"charge", "ensure", "issue", "refund"}
              => r.pay \in Payments /\ r = [pc |-> r.pc, pay |-> r.pay]
         /\ r.pc = "closeFiscal" => r.key \in Keys /\ r.shift \in Shifts \union {NoShift}
         /\ r.pc = "close" => r.shift \in Shifts
         /\ r.pc = "save" => /\ r.shift \in Shifts
                             /\ r.counted \in SUBSET Payments
                             /\ r.returned \in SUBSET Payments
BY DEF Request

LEMMA PaymentRequest ==
  ASSUME NEW pc \in {"charge", "ensure", "issue", "refund"}, NEW p \in Payments
  PROVE  [pc |-> pc, pay |-> p] \in Request
BY DEF Request

LEMMA ServeType ==
  ASSUME TypeOK, NEW w \in Workers, NEW r \in Request, req' = [req EXCEPT ![w] = r]
  PROVE  req' \in [Workers -> Request]
BY DEF TypeOK

(***************************************************************************)
(* Type correctness.                                                       *)
(***************************************************************************)
LEMMA InitType == Init => TypeOK
<1> SUFFICES ASSUME Init PROVE TypeOK
  OBVIOUS
<1>1. shift \in [Shifts -> Shift]
  BY DEF Init, Shift
<1>2. pay \in [Payments -> Payment]
  BY DEF Init, Payment
<1>3. fiscal \in [Keys -> FiscalShift]
  BY DEF Init, FiscalShift
<1>4. req \in [Workers -> Request]
  BY IdleType DEF Init
<1> QED
  BY <1>1, <1>2, <1>3, <1>4 DEF TypeOK

LEMMA OpenedType == Opened \in FiscalShift
BY DEF Opened, FiscalShift

LEMMA PostedType ==
  ASSUME TypeOK, NEW p \in Payments PROVE Posted(p) \in [Keys -> FiscalShift]
BY DEF TypeOK, Posted, FiscalShift

LEMMA RefundedType == ASSUME NEW p \in Payment PROVE [p EXCEPT !.refunded = TRUE] \in Payment
BY DEF Payment

LEMMA NextType == TypeOK /\ [Next]_vars => TypeOK'
<1> SUFFICES ASSUME TypeOK, [Next]_vars PROVE TypeOK'
  OBVIOUS
<1>0. /\ shift \in [Shifts -> Shift] /\ pay \in [Payments -> Payment]
      /\ fiscal \in [Keys -> FiscalShift] /\ req \in [Workers -> Request]
  BY DEF TypeOK
<1>1. ASSUME NEW w \in Workers, NEW d \in Desks, NEW c \in Cashiers \union {NoOne}, CheckOpen(w, d, c)
      PROVE  TypeOK'
  <2>1. [pc |-> "open", desk |-> d, cashier |-> c] \in Request
    BY DEF Request
  <2> QED
    BY <1>0, <1>1, <2>1 DEF CheckOpen, Serve, TypeOK
<1>2. ASSUME NEW w \in Workers, NEW s \in Shifts, InsertShift(w, s) PROVE TypeOK'
  <2>1. [status |-> "open", desk |-> req[w].desk, cashier |-> req[w].cashier,
         counted |-> {}, returned |-> {}] \in Shift
    BY <1>0, <1>2, RequestFields DEF InsertShift, Shift
  <2> QED
    BY <1>0, <1>2, <2>1, IdleType DEF InsertShift, Finish, TypeOK
<1>3. ASSUME NEW w \in Workers, NEW u \in Cashiers, NEW p \in Payments, NEW f \in Flows,
             NEW r \in BOOLEAN, BeginPayment(w, u, p, f, r)
      PROVE  TypeOK'
  <2>1. PICK s \in Shifts : pay' = [pay EXCEPT ![p].status = "pending", ![p].shift = s,
                                              ![p].flow = f, ![p].fiscal = r]
    BY <1>3 DEF BeginPayment
  <2>2. pay' \in [Payments -> Payment]
    <3>1. [pay[p] EXCEPT !.status = "pending", !.shift = s, !.flow = f, !.fiscal = r] \in Payment
      BY <1>0 DEF Payment
    <3>2. pay' = [pay EXCEPT ![p] = [pay[p] EXCEPT !.status = "pending", !.shift = s,
                                                   !.flow = f, !.fiscal = r]]
      BY <1>0, <2>1
    <3> QED
      BY <1>0, <3>1, <3>2
  <2>3. req' \in [Workers -> Request]
    BY <1>0, <1>3, PaymentRequest DEF BeginPayment, Serve
  <2> QED
    BY <1>0, <1>3, <2>2, <2>3 DEF BeginPayment, TypeOK
<1>4. ASSUME NEW w \in Workers, NEW p \in Payments,
             ReadTerminalResult(w, p) \/ RetryFiscal(w, p) \/ \E u \in Cashiers : ReadForRefund(w, u, p)
      PROVE  TypeOK'
  BY <1>0, <1>4, PaymentRequest DEF ReadTerminalResult, RetryFiscal, ReadForRefund, Serve, TypeOK
<1>5. ASSUME NEW w \in Workers, NEW ok \in BOOLEAN, SavePayment(w, ok) PROVE TypeOK'
  <2>1. req[w].pay \in Payments
    BY <1>0, <1>5, RequestFields DEF SavePayment
  <2>2. pay' \in [Payments -> Payment]
    BY <1>0, <1>5, <2>1 DEF SavePayment, Payment
  <2>3. fiscal' \in [Keys -> FiscalShift]
    BY <1>0, <1>5, <2>1 DEF SavePayment, FiscalShift
  <2>4. req' \in [Workers -> Request]
    BY <1>0, <1>5, <2>1, PaymentRequest, IdleType DEF SavePayment, Continue, Finish
  <2> QED
    BY <1>0, <1>5, <2>2, <2>3, <2>4 DEF SavePayment, TypeOK
<1>6. ASSUME NEW w \in Workers, UseFiscalShift(w) \/ SkipFiscalShift(w) PROVE TypeOK'
  <2>1. [req[w] EXCEPT !.pc = "issue"] \in Request
    BY <1>0, <1>6, RequestFields, PaymentRequest DEF UseFiscalShift, SkipFiscalShift
  <2> QED
    BY <1>0, <1>6, <2>1 DEF UseFiscalShift, SkipFiscalShift, Continue, TypeOK
<1>7. ASSUME NEW w \in Workers, NEW ok \in BOOLEAN, EnsureFiscalShift(w, ok) PROVE TypeOK'
  <2>1. req[w].pay \in Payments /\ [req[w] EXCEPT !.pc = "issue"] \in Request
    BY <1>0, <1>7, RequestFields, PaymentRequest DEF EnsureFiscalShift
  <2>2. pay' \in [Payments -> Payment]
    BY <1>0, <1>7, <2>1 DEF EnsureFiscalShift, Payment
  <2>3. fiscal' \in [Keys -> FiscalShift]
    BY <1>0, <1>7, OpenedType DEF EnsureFiscalShift
  <2>4. req' \in [Workers -> Request]
    BY <1>0, <1>7, <2>1, IdleType DEF EnsureFiscalShift, Continue, Finish
  <2> QED
    BY <1>0, <1>7, <2>2, <2>3, <2>4 DEF EnsureFiscalShift, TypeOK
<1>8. ASSUME NEW w \in Workers, NEW ok \in BOOLEAN, IssueReceipts(w, ok) \/ CommitRefund(w, ok)
      PROVE  TypeOK'
  <2>1. req[w].pay \in Payments
    BY <1>0, <1>8, RequestFields DEF IssueReceipts, CommitRefund
  <2>2. pay' \in [Payments -> Payment]
    <3>1. ASSUME IssueReceipts(w, ok) PROVE pay' \in [Payments -> Payment]
      <4>1. PICK r \in {"failed", "sent"} : pay' = [pay EXCEPT ![req[w].pay].receipt = r]
        BY <3>1, Zenon DEF IssueReceipts
      <4> QED
        BY <1>0, <2>1, <4>1 DEF Payment
    <3>2. ASSUME CommitRefund(w, ok) PROVE pay' \in [Payments -> Payment]
      <4>1. pay' = [pay EXCEPT ![req[w].pay].refunded = TRUE]
        BY <3>2, Zenon DEF CommitRefund
      <4>2. [pay[req[w].pay] EXCEPT !.refunded = TRUE] \in Payment
        BY <1>0, <2>1, RefundedType
      <4> QED
        BY <1>0, <2>1, <4>1, <4>2, Zenon
    <3> QED
      BY <1>8, <3>1, <3>2
  <2>3. fiscal' \in [Keys -> FiscalShift]
    BY <1>0, <1>8, <2>1, PostedType DEF IssueReceipts, CommitRefund
  <2>4. req' \in [Workers -> Request]
    BY <1>0, <1>8, IdleType DEF IssueReceipts, CommitRefund, Finish
  <2> QED
    BY <1>0, <1>8, <2>2, <2>3, <2>4 DEF IssueReceipts, CommitRefund, TypeOK
<1>9. ASSUME NEW w \in Workers, NEW k \in Keys, OpenFiscalShift(w, k) PROVE TypeOK'
  BY <1>0, <1>9, OpenedType DEF OpenFiscalShift, TypeOK
<1>10. ASSUME NEW w \in Workers, NEW k \in Keys, ReadForCloseFiscal(w, k) PROVE TypeOK'
  <2>1. [pc |-> "closeFiscal", key |-> k, shift |-> NoShift] \in Request
    BY DEF Request
  <2> QED
    BY <1>0, <1>10, <2>1 DEF ReadForCloseFiscal, Serve, TypeOK
<1>11. ASSUME NEW w \in Workers, NEW s \in Shifts, ReadForClose(w, s) \/ ReadForCloseBoth(w, s)
       PROVE  TypeOK'
  <2>1. /\ [pc |-> "closeFiscal", key |-> NoDesk, shift |-> s] \in Request
        /\ [pc |-> "close", shift |-> s] \in Request
    BY ConstantsAssumption DEF Request
  <2> QED
    BY <1>0, <1>11, <2>1 DEF ReadForClose, ReadForCloseBoth, Serve, TypeOK
<1>12. ASSUME NEW w \in Workers, NEW ok \in BOOLEAN, CloseFiscalShift(w, ok) PROVE TypeOK'
  <2>1. req[w].key \in Keys /\ req[w].shift \in Shifts \union {NoShift}
    BY <1>0, <1>12, RequestFields DEF CloseFiscalShift
  <2>2. fiscal' \in [Keys -> FiscalShift]
    <3>1. [fiscal EXCEPT ![req[w].key].open = FALSE] \in [Keys -> FiscalShift]
      BY <1>0, <2>1 DEF FiscalShift
    <3> QED
      BY <1>0, <1>12, <3>1 DEF CloseFiscalShift
  <2>3. req[w].shift # NoShift => [pc |-> "close", shift |-> req[w].shift] \in Request
    BY <2>1 DEF Request
  <2>4. req' \in [Workers -> Request]
    BY <1>0, <1>12, <2>3, IdleType DEF CloseFiscalShift, Continue, Finish
  <2> QED
    BY <1>0, <1>12, <2>2, <2>4 DEF CloseFiscalShift, TypeOK
<1>13. ASSUME NEW w \in Workers, RefuseClose(w) \/ Crash(w) PROVE TypeOK'
  BY <1>0, <1>13, IdleType DEF RefuseClose, Crash, Finish, TypeOK
<1>14. ASSUME NEW w \in Workers, Snapshot(w) PROVE TypeOK'
  <2>1. req[w].shift \in Shifts
    BY <1>0, <1>14, RequestFields DEF Snapshot
  <2>2. [pc |-> "save", shift |-> req[w].shift, counted |-> Totals(req[w].shift),
         returned |-> RefundTotals(req[w].shift)] \in Request
    BY <2>1 DEF Request, Totals, Taken, RefundTotals
  <2> QED
    BY <1>0, <1>14, <2>2 DEF Snapshot, Continue, TypeOK
<1>15. ASSUME NEW w \in Workers, SaveShift(w) PROVE TypeOK'
  <2>1. /\ req[w].shift \in Shifts
        /\ req[w].counted \in SUBSET Payments /\ req[w].returned \in SUBSET Payments
    BY <1>0, <1>15, RequestFields DEF SaveShift
  <2>2. shift' \in [Shifts -> Shift]
    BY <1>0, <1>15, <2>1 DEF SaveShift, Shift
  <2> QED
    BY <1>0, <1>15, <2>2, IdleType DEF SaveShift, Finish, TypeOK
<1>16. CASE UNCHANGED vars
  BY <1>16 DEF vars, TypeOK
<1> QED
  BY <1>1, <1>2, <1>3, <1>4, <1>5, <1>6, <1>7, <1>8, <1>9, <1>10, <1>11, <1>12, <1>13,
     <1>14, <1>15, <1>16 DEF Next

\* Every reachable state of shifts, payments, fiscal sessions and requests is
\* well typed, however requests overlap (the models of billing/models).
THEOREM Typing == Spec => []TypeOK
BY InitType, NextType, PTL DEF Spec

-----------------------------------------------------------------------------
(***************************************************************************)
(* One request at a time.  "Knows" is what the request knows: a charge in  *)
(* progress is of an open shift, receipts are issued for a payment that    *)
(* has none yet, and the totals about to be saved are those of the shift.  *)
(***************************************************************************)
Knows(w) ==
  LET r == req[w]
  IN  /\ r.pc = "charge" =>
           /\ pay[r.pay].status \notin {"none", "succeeded"}
           /\ pay[r.pay].flow # "terminal" => shift[pay[r.pay].shift].status # "closed"
      /\ r.pc \in {"ensure", "issue"} =>
           /\ pay[r.pay].status = "succeeded"
           /\ pay[r.pay].fiscal
           /\ pay[r.pay].receipt # "sent"
      /\ r.pc = "save" => /\ r.counted = Taken(r.shift)
                          /\ Unresolved(Taken(r.shift)) = {}

\* Receipts are sent of payments that have succeeded.
SentIsPaid == \A p \in Payments : pay[p].receipt = "sent" => pay[p].status = "succeeded"

IInv(w) ==
  /\ TypeOK
  /\ Knows(w)
  /\ SentIsPaid
  /\ CountedIsTaken
  /\ ClosedIsResolved

\* A step that leaves the shifts alone, takes no payment and leaves no receipt
\* to be sent that was not to be sent before keeps both properties.
LEMMA NothingTaken ==
  ASSUME CountedIsTaken, ClosedIsResolved, UNCHANGED shift,
         \A p \in Payments :
           /\ (pay'[p].status = "succeeded") <=> (pay[p].status = "succeeded")
           /\ pay[p].status = "succeeded" =>
                /\ pay'[p].shift = pay[p].shift /\ pay'[p].flow = pay[p].flow
                /\ pay'[p].fiscal = pay[p].fiscal
                /\ pay[p].fiscal /\ pay'[p].receipt # "sent" => pay[p].receipt # "sent"
  PROVE  CountedIsTaken' /\ ClosedIsResolved'
BY DEF CountedIsTaken, ClosedIsResolved, Taken, Unresolved

LEMMA InitKnows == ASSUME NEW w \in Workers, Init PROVE IInv(w)
<1>1. Knows(w)
  BY DEF Init, Idle, Knows
<1>2. CountedIsTaken /\ ClosedIsResolved /\ SentIsPaid
  BY DEF Init, CountedIsTaken, ClosedIsResolved, SentIsPaid
<1> QED
  BY <1>1, <1>2, InitType DEF IInv

LEMMA IdleKnows == ASSUME NEW w \in Workers, TypeOK, Finish(w) PROVE Knows(w)'
BY DEF TypeOK, Finish, Idle, Knows

LEMMA QuietStep ==
  ASSUME NEW w \in Workers, IInv(w), UNCHANGED <<shift, pay>>
  PROVE  SentIsPaid' /\ CountedIsTaken' /\ ClosedIsResolved'
BY NothingTaken DEF IInv, SentIsPaid

\* A receipt is saved of a payment that has been paid and has none.
LEMMA ReceiptKept ==
  ASSUME TypeOK, SentIsPaid, CountedIsTaken, ClosedIsResolved, UNCHANGED shift,
         NEW p \in Payments, NEW r \in {"failed", "sent"},
         pay' = [pay EXCEPT ![p].receipt = r],
         pay[p].status = "succeeded", pay[p].receipt # "sent"
  PROVE  SentIsPaid' /\ CountedIsTaken' /\ ClosedIsResolved'
<1>1. /\ pay'[p].status = pay[p].status /\ pay'[p].shift = pay[p].shift
      /\ pay'[p].flow = pay[p].flow /\ pay'[p].fiscal = pay[p].fiscal
      /\ \A q \in Payments \ {p} : pay'[q] = pay[q]
  BY DEF TypeOK, Payment
<1>2. SentIsPaid'
  BY <1>1 DEF SentIsPaid
<1>3. CountedIsTaken' /\ ClosedIsResolved'
  BY <1>1, NothingTaken
<1> QED
  BY <1>2, <1>3

LEMMA StepKnows ==
  ASSUME NEW w, Workers = {w}, IInv(w), [Next]_vars
  PROVE  IInv(w)'
<1> DEFINE Rest == SentIsPaid' /\ CountedIsTaken' /\ ClosedIsResolved'
<1>0. /\ w \in Workers
      /\ TypeOK /\ Knows(w) /\ SentIsPaid /\ CountedIsTaken /\ ClosedIsResolved
  BY DEF IInv
<1>t. /\ shift \in [Shifts -> Shift] /\ pay \in [Payments -> Payment]
      /\ req \in [Workers -> Request]
  BY <1>0 DEF TypeOK
<1>1. ASSUME NEW d \in Desks, NEW c \in Cashiers \union {NoOne}, CheckOpen(w, d, c)
      PROVE  Knows(w)' /\ Rest
  <2>1. Knows(w)'
    BY <1>0, <1>1, <1>t DEF CheckOpen, Serve, Knows
  <2> QED
    BY <1>0, <1>1, <2>1, QuietStep DEF CheckOpen
<1>2. ASSUME NEW s \in Shifts, InsertShift(w, s) PROVE Knows(w)' /\ Rest
  <2>1. Knows(w)'
    BY <1>0, <1>2, IdleKnows DEF InsertShift
  <2>2. /\ pay' = pay
        /\ shift' \in [Shifts -> Shift]
        /\ \A t \in Shifts : shift'[t].status = "closed" => shift'[t] = shift[t]
    <3>1. TypeOK'
      BY <1>0, NextType
    <3> QED
      BY <1>t, <1>2, <3>1 DEF InsertShift, TypeOK
  <2> QED
    BY <1>0, <2>1, <2>2 DEF SentIsPaid, CountedIsTaken, ClosedIsResolved, Taken, Unresolved
<1>3. ASSUME NEW u \in Cashiers, NEW p \in Payments, NEW f \in Flows, NEW r \in BOOLEAN,
             BeginPayment(w, u, p, f, r)
      PROVE  Knows(w)' /\ Rest
  <2>1. PICK s \in Shifts : IsActiveShift(u, s) /\
               pay' = [pay EXCEPT ![p].status = "pending", ![p].shift = s,
                                  ![p].flow = f, ![p].fiscal = r]
    BY <1>3 DEF BeginPayment
  <2>2. pay' = [pay EXCEPT ![p] = [pay[p] EXCEPT !.status = "pending", !.shift = s,
                                                 !.flow = f, !.fiscal = r]]
    BY <1>t, <2>1
  <2>3. /\ pay'[p].status = "pending" /\ pay'[p].shift = s /\ pay'[p].flow = f
        /\ pay'[p].receipt = pay[p].receipt
        /\ \A q \in Payments \ {p} : pay'[q] = pay[q]
    BY <1>t, <2>2 DEF Payment
  <2>4. pay[p].status = "none" /\ shift' = shift /\ shift[s].status = "open"
    BY <1>3, <2>1 DEF BeginPayment, IsActiveShift, Usable, OpenShifts
  <2>5. Knows(w)'
    <3>1. CASE f = "charge"
      <4>1. req'[w] = [pc |-> "charge", pay |-> p]
        BY <1>0, <1>3, <1>t, <3>1 DEF BeginPayment, Serve
      <4> QED
        BY <2>3, <2>4, <4>1 DEF Knows
    <3>2. CASE f # "charge"
      <4>1. req'[w] = Idle
        BY <1>0, <1>3, <1>t, <3>2 DEF BeginPayment
      <4> QED
        BY <4>1 DEF Knows, Idle
    <3> QED
      BY <3>1, <3>2
  <2>6. SentIsPaid'
    BY <1>0, <2>3, <2>4 DEF SentIsPaid
  <2>7. CountedIsTaken' /\ ClosedIsResolved'
    BY <1>0, <2>3, <2>4, NothingTaken
  <2> QED
    BY <2>5, <2>6, <2>7
<1>4. ASSUME NEW p \in Payments, ReadTerminalResult(w, p) PROVE Knows(w)' /\ Rest
  <2>1. Knows(w)'
    BY <1>0, <1>4, <1>t DEF ReadTerminalResult, Serve, Knows
  <2> QED
    BY <1>0, <1>4, <2>1, QuietStep DEF ReadTerminalResult
<1>5. ASSUME NEW p \in Payments, RetryFiscal(w, p) PROVE Knows(w)' /\ Rest
  <2>1. Knows(w)'
    BY <1>0, <1>5, <1>t DEF RetryFiscal, Serve, Knows
  <2> QED
    BY <1>0, <1>5, <2>1, QuietStep DEF RetryFiscal
<1>6. ASSUME NEW u \in Cashiers, NEW p \in Payments, ReadForRefund(w, u, p) PROVE Knows(w)' /\ Rest
  <2>1. Knows(w)'
    BY <1>0, <1>6, <1>t DEF ReadForRefund, Serve, Knows
  <2> QED
    BY <1>0, <1>6, <2>1, QuietStep DEF ReadForRefund
<1>7. ASSUME NEW ok \in BOOLEAN, SavePayment(w, ok) PROVE Knows(w)' /\ Rest
  <2> DEFINE p == req[w].pay
  <2>1. /\ p \in Payments /\ shift' = shift
        /\ pay[p].status \notin {"none", "succeeded"} /\ pay[p].receipt # "sent"
        /\ pay[p].flow # "terminal" => shift[pay[p].shift].status # "closed"
    BY <1>0, <1>7, <1>t, RequestFields DEF SavePayment, Knows, SentIsPaid
  <2>2. CASE ok
    <3>1. pay' = [pay EXCEPT ![p].status = "succeeded"]
      BY <1>7, <2>2 DEF SavePayment
    <3>2. /\ pay'[p].status = "succeeded" /\ pay'[p].shift = pay[p].shift
          /\ pay'[p].flow = pay[p].flow /\ pay'[p].fiscal = pay[p].fiscal
          /\ pay'[p].receipt = pay[p].receipt
          /\ \A q \in Payments \ {p} : pay'[q] = pay[q]
      BY <1>t, <2>1, <3>1 DEF Payment
    <3>3. Knows(w)'
      <4>1. CASE pay[p].fiscal
        <5>1. req'[w] = [pc |-> "ensure", pay |-> p]
          BY <1>0, <1>7, <1>t, <2>2, <4>1 DEF SavePayment, Continue
        <5>2. pay'[p].fiscal
          BY <3>2, <4>1, Zenon
        <5>3. req'[w].pc = "ensure" /\ req'[w].pay = p
          BY <5>1
        <5> QED
          BY <2>1, <3>2, <5>2, <5>3 DEF Knows
      <4>2. CASE ~pay[p].fiscal
        BY <1>0, <1>7, <2>2, <4>2, IdleKnows DEF SavePayment
      <4> QED
        BY <4>1, <4>2
    <3>4. SentIsPaid'
      BY <1>0, <2>1, <3>2 DEF SentIsPaid
    <3>5. CountedIsTaken'
      BY <1>0, <2>1, <3>2 DEF CountedIsTaken, Taken
    <3>6. ClosedIsResolved'
      BY <1>0, <2>1, <3>2 DEF ClosedIsResolved, Taken, Unresolved
    <3> QED
      BY <3>3, <3>4, <3>5, <3>6
  <2>3. CASE ~ok
    <3>1. pay' = [pay EXCEPT ![p].status = "failed"] /\ Finish(w)
      BY <1>7, <2>3 DEF SavePayment
    <3>2. /\ pay'[p].status = "failed" /\ pay'[p].receipt = pay[p].receipt
          /\ \A q \in Payments \ {p} : pay'[q] = pay[q]
      BY <1>t, <2>1, <3>1 DEF Payment
    <3>3. SentIsPaid'
      BY <1>0, <2>1, <3>2 DEF SentIsPaid
    <3>4. CountedIsTaken' /\ ClosedIsResolved'
      BY <1>0, <2>1, <3>2, NothingTaken
    <3> QED
      BY <1>0, <3>1, <3>3, <3>4, IdleKnows
  <2> QED
    BY <2>2, <2>3
<1>8. ASSUME UseFiscalShift(w) \/ SkipFiscalShift(w) PROVE Knows(w)' /\ Rest
  <2>1. req'[w] = [req[w] EXCEPT !.pc = "issue"] /\ pay' = pay /\ shift' = shift
    BY <1>0, <1>8, <1>t DEF UseFiscalShift, SkipFiscalShift, Continue
  <2>2. req[w].pc = "ensure" /\ req'[w] = [pc |-> "issue", pay |-> req[w].pay]
    BY <1>0, <1>8, <1>t, <2>1, RequestFields DEF UseFiscalShift, SkipFiscalShift
  <2>3. Knows(w)'
    BY <1>0, <2>1, <2>2 DEF Knows
  <2> QED
    BY <1>0, <2>1, <2>3, QuietStep
<1>9. ASSUME NEW ok \in BOOLEAN, EnsureFiscalShift(w, ok) PROVE Knows(w)' /\ Rest
  <2>1. CASE ok
    <3>1. req'[w] = [req[w] EXCEPT !.pc = "issue"] /\ pay' = pay /\ shift' = shift
      BY <1>0, <1>9, <1>t, <2>1 DEF EnsureFiscalShift, Continue
    <3>2. req[w].pc = "ensure" /\ req'[w] = [pc |-> "issue", pay |-> req[w].pay]
      BY <1>0, <1>9, <1>t, <3>1, RequestFields DEF EnsureFiscalShift
    <3>3. Knows(w)'
      BY <1>0, <3>1, <3>2 DEF Knows
    <3> QED
      BY <1>0, <3>1, <3>3, QuietStep
  <2>2. CASE ~ok
    <3>1. pay' = [pay EXCEPT ![req[w].pay].receipt = "failed"] /\ Finish(w) /\ shift' = shift
      BY <1>9, <2>2 DEF EnsureFiscalShift
    <3> QED
      BY <1>0, <3>1, <1>9, <1>t, IdleKnows, ReceiptKept, RequestFields DEF EnsureFiscalShift, Knows
  <2> QED
    BY <2>1, <2>2
<1>10. ASSUME NEW ok \in BOOLEAN, IssueReceipts(w, ok) PROVE Knows(w)' /\ Rest
  <2>1. PICK r \in {"failed", "sent"} : pay' = [pay EXCEPT ![req[w].pay].receipt = r]
    BY <1>10, Zenon DEF IssueReceipts
  <2>2. Finish(w) /\ shift' = shift /\ req[w].pc = "issue"
    BY <1>10 DEF IssueReceipts
  <2> QED
    BY <1>0, <1>t, <2>1, <2>2, IdleKnows, ReceiptKept, RequestFields DEF Knows
<1>11. ASSUME NEW heard \in BOOLEAN, CommitRefund(w, heard) PROVE Knows(w)' /\ Rest
  <2> DEFINE p == req[w].pay
  <2>1. pay' = [pay EXCEPT ![p].refunded = TRUE] /\ Finish(w) /\ shift' = shift /\ p \in Payments
    BY <1>t, <1>11, RequestFields DEF CommitRefund
  <2>2. /\ pay'[p].status = pay[p].status /\ pay'[p].shift = pay[p].shift
        /\ pay'[p].flow = pay[p].flow /\ pay'[p].fiscal = pay[p].fiscal
        /\ pay'[p].receipt = pay[p].receipt
        /\ \A q \in Payments \ {p} : pay'[q] = pay[q]
    BY <1>t, <2>1 DEF Payment
  <2>3. SentIsPaid'
    BY <1>0, <2>1, <2>2 DEF SentIsPaid
  <2>4. CountedIsTaken' /\ ClosedIsResolved'
    BY <1>0, <2>1, <2>2, NothingTaken
  <2> QED
    BY <1>0, <2>1, <2>3, <2>4, IdleKnows
<1>12. ASSUME NEW k \in Keys, OpenFiscalShift(w, k) PROVE Knows(w)' /\ Rest
  <2>1. UNCHANGED <<shift, pay, req>>
    BY <1>12 DEF OpenFiscalShift
  <2> QED
    BY <1>0, <2>1, QuietStep DEF Knows, Taken, Unresolved
<1>13. ASSUME NEW k \in Keys, ReadForCloseFiscal(w, k) PROVE Knows(w)' /\ Rest
  <2>1. Knows(w)'
    BY <1>0, <1>13, <1>t DEF ReadForCloseFiscal, Serve, Knows
  <2> QED
    BY <1>0, <1>13, <2>1, QuietStep DEF ReadForCloseFiscal
<1>14. ASSUME NEW s \in Shifts, ReadForClose(w, s) \/ ReadForCloseBoth(w, s) PROVE Knows(w)' /\ Rest
  <2>1. Knows(w)'
    BY <1>0, <1>14, <1>t DEF ReadForClose, ReadForCloseBoth, Serve, Knows
  <2> QED
    BY <1>0, <1>14, <2>1, QuietStep DEF ReadForClose, ReadForCloseBoth
<1>15. ASSUME NEW ok \in BOOLEAN, CloseFiscalShift(w, ok) PROVE Knows(w)' /\ Rest
  <2>1. req'[w].pc \in {"idle", "close"} /\ UNCHANGED <<shift, pay>>
    BY <1>0, <1>15, <1>t DEF CloseFiscalShift, Continue, Finish, Idle
  <2>2. Knows(w)'
    BY <2>1 DEF Knows
  <2> QED
    BY <1>0, <2>1, <2>2, QuietStep
<1>16. ASSUME RefuseClose(w) \/ Crash(w) PROVE Knows(w)' /\ Rest
  BY <1>0, <1>16, IdleKnows, QuietStep DEF RefuseClose, Crash
<1>17. ASSUME Snapshot(w) PROVE Knows(w)' /\ Rest
  <2>1. /\ req'[w].pc = "save" /\ req'[w].shift = req[w].shift
        /\ req'[w].counted = Taken(req[w].shift) /\ Unresolved(Taken(req[w].shift)) = {}
        /\ UNCHANGED <<shift, pay>>
    BY <1>0, <1>17, <1>t DEF Snapshot, Continue, Totals
  <2>2. Knows(w)'
    BY <2>1 DEF Knows, Taken, Unresolved
  <2> QED
    BY <1>0, <2>1, <2>2, QuietStep
<1>18. ASSUME SaveShift(w) PROVE Knows(w)' /\ Rest
  <2> DEFINE s == req[w].shift
  <2>1. /\ s \in Shifts /\ Finish(w) /\ pay' = pay
        /\ req[w].counted = Taken(s) /\ Unresolved(Taken(s)) = {}
    BY <1>0, <1>t, <1>18, RequestFields DEF SaveShift, Knows
  <2>2. /\ shift'[s].counted = Taken(s)
        /\ \A t \in Shifts \ {s} : shift'[t] = shift[t]
    BY <1>t, <1>18, <2>1 DEF SaveShift, Shift
  <2>3. SentIsPaid'
    BY <1>0, <2>1 DEF SentIsPaid
  <2>4. CountedIsTaken'
    BY <1>0, <2>1, <2>2 DEF CountedIsTaken, Taken
  <2>5. ClosedIsResolved'
    BY <1>0, <2>1, <2>2 DEF ClosedIsResolved, Taken, Unresolved
  <2> QED
    BY <1>0, <2>1, <2>3, <2>4, <2>5, IdleKnows
<1>19. ASSUME UNCHANGED vars PROVE Knows(w)' /\ Rest
  <2>1. UNCHANGED <<shift, pay, req>>
    BY <1>19 DEF vars
  <2> QED
    BY <1>0, <2>1, QuietStep DEF Knows, Taken, Unresolved
<1> HIDE DEF Rest
<1>20. Knows(w)' /\ Rest
  BY <1>1, <1>2, <1>3, <1>4, <1>5, <1>6, <1>7, <1>8, <1>9, <1>10, <1>11, <1>12, <1>13, <1>14,
     <1>15, <1>16, <1>17, <1>18, <1>19 DEF Next
<1>21. TypeOK'
  BY <1>0, NextType
<1> QED
  BY <1>20, <1>21 DEF IInv, Rest

LEMMA Invariance == ASSUME NEW w, Workers = {w} PROVE Spec => []IInv(w)
<1>1. Init => IInv(w)
  BY InitKnows
<1>2. IInv(w) /\ [Next]_vars => IInv(w)'
  BY StepKnows
<1> QED
  BY <1>1, <1>2, PTL DEF Spec

\* The totals of a closed shift are those of its payments, but for terminal
\* payments that were answered too late (build_shift_snapshot, close_shift).
THEOREM ShiftsCount == ASSUME NEW w, Workers = {w} PROVE Spec => []CountedIsTaken
<1>1. IInv(w) => CountedIsTaken
  BY DEF IInv
<1> QED
  BY <1>1, Invariance, PTL

\* No charge of a closed shift has a receipt yet to be sent
\* (ensure_no_unresolved_fiscal_payments).
THEOREM ShiftsResolve == ASSUME NEW w, Workers = {w} PROVE Spec => []ClosedIsResolved
<1>1. IInv(w) => ClosedIsResolved
  BY DEF IInv
<1> QED
  BY <1>1, Invariance, PTL
-----------------------------------------------------------------------------
(***************************************************************************)
(* What has been closed or settled stands, one request at a time.          *)
(***************************************************************************)
ClosedStands == \A s \in Shifts : shift[s].status = "closed" => shift'[s] = shift[s]

SettledStands ==
  \A p \in Payments : pay[p].status \in {"succeeded", "failed"} =>
    /\ pay'[p].status = pay[p].status /\ pay'[p].shift = pay[p].shift
    /\ pay[p].receipt = "sent" => pay'[p].receipt = "sent"

\* Who closes a shift has found it open, and who asks for money that it is owed.
Aims(w) ==
  LET r == req[w]
  IN  /\ r.pc \in {"close", "save"} => shift[r.shift].status = "open"
      /\ r.pc = "closeFiscal" /\ r.shift # NoShift => shift[r.shift].status = "open"
      /\ r.pc = "charge" => pay[r.pay].status = "pending"

LEMMA AimsStep == ASSUME NEW w, Workers = {w}, TypeOK, Aims(w), [Next]_vars PROVE Aims(w)'
<1>0. /\ req \in [Workers -> Request] /\ w \in Workers /\ req[w] \in Request
      /\ shift \in [Shifts -> Shift] /\ pay \in [Payments -> Payment]
  BY DEF TypeOK
<1>1. ASSUME NEW s \in Shifts, ReadForClose(w, s) \/ ReadForCloseBoth(w, s)
      PROVE  Aims(w)'
  BY <1>0, <1>1 DEF ReadForClose, ReadForCloseBoth, OpenShifts, Serve, Aims
<1>2. ASSUME NEW ok \in BOOLEAN, CloseFiscalShift(w, ok)
      PROVE  Aims(w)'
  BY <1>0, <1>2 DEF CloseFiscalShift, Continue, Finish, Idle, Aims
<1>3. CASE Snapshot(w)
  BY <1>0, <1>3 DEF Snapshot, Continue, Aims
<1>4. ASSUME NEW u \in Cashiers, NEW p \in Payments, NEW f \in Flows, NEW r \in BOOLEAN,
             BeginPayment(w, u, p, f, r)
      PROVE  Aims(w)'
  <2>1. shift' = shift /\ req[w].pc = "idle" /\ pay'[p].status = "pending"
    BY <1>0, <1>4 DEF BeginPayment, Idle, Payment
  <2>2. req' = req \/ req'[w] = [pc |-> "charge", pay |-> p]
    BY <1>0, <1>4 DEF BeginPayment, Serve
  <2>. QED
    BY <2>1, <2>2 DEF Aims
<1>5. ASSUME NEW p \in Payments, ReadTerminalResult(w, p)
      PROVE  Aims(w)'
  BY <1>0, <1>5 DEF ReadTerminalResult, Serve, Aims
<1>6. CASE req'[w].pc \notin {"charge", "closeFiscal", "close", "save"}
  BY <1>6 DEF Aims
<1>7. CASE UNCHANGED vars
  BY <1>7 DEF vars, Aims
<1>8. ASSUME NEW k \in Keys, ReadForCloseFiscal(w, k)
      PROVE  Aims(w)'
  BY <1>0, <1>8 DEF ReadForCloseFiscal, Serve, Aims
<1>9. ASSUME NEW k \in Keys, OpenFiscalShift(w, k)
      PROVE  Aims(w)'
  BY <1>9 DEF OpenFiscalShift, Aims
<1>10. ASSUME \/ \E d \in Desks, c \in Cashiers \union {NoOne} : CheckOpen(w, d, c)
              \/ \E s \in Shifts : InsertShift(w, s)
              \/ \E ok \in BOOLEAN : SavePayment(w, ok) \/ EnsureFiscalShift(w, ok) \/ IssueReceipts(w, ok)
              \/ \E heard \in BOOLEAN : CommitRefund(w, heard)
              \/ UseFiscalShift(w) \/ SkipFiscalShift(w) \/ RefuseClose(w) \/ SaveShift(w) \/ Crash(w)
       PROVE  req'[w].pc \in {"idle", "open", "ensure", "issue"}
  <2>1. \/ Finish(w)
        \/ \E r : r.pc \in {"open", "ensure", "issue"} /\ req' = [req EXCEPT ![w] = r]
    <3>1. ASSUME UseFiscalShift(w) \/ SkipFiscalShift(w) \/ \E ok \in BOOLEAN : EnsureFiscalShift(w, ok)
          PROVE  Finish(w) \/ \E r : r.pc = "issue" /\ req' = [req EXCEPT ![w] = r]
      <4>1. PICK r : r = [req[w] EXCEPT !.pc = "issue"]
        OBVIOUS
      <4>2. req[w].pc = "ensure"
        BY <3>1 DEF UseFiscalShift, SkipFiscalShift, EnsureFiscalShift
      <4>3. r.pc = "issue"
        BY <1>0, <4>1, <4>2, RequestFields
      <4>4. Finish(w) \/ req' = [req EXCEPT ![w] = r]
        BY <3>1, <4>1 DEF UseFiscalShift, SkipFiscalShift, EnsureFiscalShift, Continue
      <4>. QED
        BY <4>3, <4>4
    <3>2. ASSUME NEW d \in Desks, NEW c \in Cashiers \union {NoOne}, CheckOpen(w, d, c)
          PROVE  \E r : r.pc = "open" /\ req' = [req EXCEPT ![w] = r]
      <4>1. PICK r : r = [pc |-> "open", desk |-> d, cashier |-> c]
        OBVIOUS
      <4>. QED
        BY <3>2, <4>1 DEF CheckOpen, Serve
    <3>3. ASSUME NEW ok \in BOOLEAN, SavePayment(w, ok)
          PROVE  Finish(w) \/ \E r : r.pc = "ensure" /\ req' = [req EXCEPT ![w] = r]
      <4>1. PICK r : r = [pc |-> "ensure", pay |-> req[w].pay]
        OBVIOUS
      <4>2. Finish(w) \/ req' = [req EXCEPT ![w] = r]
        BY <3>3, <4>1 DEF SavePayment, Continue
      <4>. QED
        BY <4>1, <4>2
    <3>4. ASSUME \/ \E s \in Shifts : InsertShift(w, s)
                 \/ \E ok \in BOOLEAN : IssueReceipts(w, ok) \/ CommitRefund(w, ok)
                 \/ RefuseClose(w) \/ SaveShift(w) \/ Crash(w)
          PROVE  Finish(w)
      BY <3>4 DEF InsertShift, IssueReceipts, CommitRefund, RefuseClose, SaveShift, Crash
    <3>. QED
      BY <1>10, <3>1, <3>2, <3>3, <3>4
  <2>. QED
    BY <1>0, <2>1 DEF Finish, Idle
<1>11. ASSUME NEW p \in Payments, RetryFiscal(w, p) \/ \E u \in Cashiers : ReadForRefund(w, u, p)
       PROVE  req'[w].pc \in {"ensure", "refund"}
  BY <1>0, <1>11 DEF RetryFiscal, ReadForRefund, Serve
<1>. QED
  BY <1>1, <1>2, <1>3, <1>4, <1>5, <1>6, <1>7, <1>8, <1>9, <1>10, <1>11 DEF Next

LEMMA AimsAlways == ASSUME NEW w, Workers = {w} PROVE Spec => [](IInv(w) /\ Aims(w))
<1>1. Init => Aims(w)
  BY DEF Init, Idle, Aims
<1>2. IInv(w) /\ Aims(w) /\ [Next]_vars => Aims(w)'
  BY AimsStep DEF IInv
<1>. QED
  BY <1>1, <1>2, Invariance, PTL DEF Spec

LEMMA Standing ==
  ASSUME NEW w, Workers = {w}, IInv(w), Aims(w), [Next]_vars
  PROVE  ClosedStands /\ SettledStands
<1>0. /\ w \in Workers /\ req[w] \in Request
      /\ shift \in [Shifts -> Shift] /\ pay \in [Payments -> Payment]
  BY DEF IInv, TypeOK
<1>1. ClosedStands
  <2>1. CASE shift' = shift
    BY <2>1 DEF ClosedStands
  <2>2. ASSUME NEW s \in Shifts, InsertShift(w, s)
        PROVE  ClosedStands
    BY <1>0, <2>2 DEF InsertShift, ClosedStands
  <2>3. CASE SaveShift(w)
    <3>1. req[w].shift \in Shifts /\ shift[req[w].shift].status = "open"
      BY <1>0, <2>3, RequestFields DEF SaveShift, Aims
    <3>2. \A s \in Shifts \ {req[w].shift} : shift'[s] = shift[s]
      BY <1>0, <2>3 DEF SaveShift
    <3>. QED
      BY <3>1, <3>2 DEF ClosedStands
  <2>4. shift' = shift \/ SaveShift(w) \/ \E s \in Shifts : InsertShift(w, s)
    <3>1. CASE UNCHANGED vars
      BY <3>1 DEF vars
    <3>2. \/ \E d \in Desks, c \in Cashiers \union {NoOne} : CheckOpen(w, d, c)
          \/ \E u \in Cashiers, p \in Payments, f \in Flows, r \in BOOLEAN : BeginPayment(w, u, p, f, r)
          \/ \E p \in Payments : ReadTerminalResult(w, p) \/ RetryFiscal(w, p)
          \/ \E ok \in BOOLEAN : SavePayment(w, ok) \/ EnsureFiscalShift(w, ok) \/ IssueReceipts(w, ok)
          \/ \E ok \in BOOLEAN : CommitRefund(w, ok) \/ CloseFiscalShift(w, ok)
          => shift' = shift
      BY DEF CheckOpen, BeginPayment, ReadTerminalResult, SavePayment, EnsureFiscalShift, IssueReceipts,
           RetryFiscal, CommitRefund, CloseFiscalShift
    <3>3. \/ \E u \in Cashiers, p \in Payments : ReadForRefund(w, u, p)
          \/ \E k \in Keys : OpenFiscalShift(w, k) \/ ReadForCloseFiscal(w, k)
          \/ \E s \in Shifts : ReadForClose(w, s) \/ ReadForCloseBoth(w, s)
          \/ UseFiscalShift(w) \/ SkipFiscalShift(w) \/ RefuseClose(w) \/ Snapshot(w) \/ Crash(w)
          => shift' = shift
      BY DEF ReadForRefund, OpenFiscalShift, ReadForCloseFiscal, ReadForClose, ReadForCloseBoth,
           UseFiscalShift, SkipFiscalShift, RefuseClose, Snapshot, Crash
    <3>. QED
      BY <3>1, <3>2, <3>3 DEF Next
  <2>. QED
    BY <2>1, <2>2, <2>3, <2>4
<1>2. SettledStands
  <2>1. CASE pay' = pay
    BY <2>1 DEF SettledStands
  <2>2. ASSUME NEW u \in Cashiers, NEW p \in Payments, NEW f \in Flows, NEW r \in BOOLEAN,
               BeginPayment(w, u, p, f, r)
        PROVE  SettledStands
    <3>1. pay[p].status = "none" /\ \A q \in Payments \ {p} : pay'[q] = pay[q]
      BY <1>0, <2>2 DEF BeginPayment
    <3>. QED
      BY <3>1 DEF SettledStands
  <2>3. ASSUME NEW ok \in BOOLEAN, SavePayment(w, ok)
        PROVE  SettledStands
    <3>1. req[w].pay \in Payments /\ pay[req[w].pay].status = "pending"
      BY <1>0, <2>3, RequestFields DEF SavePayment, Aims
    <3>2. \A q \in Payments \ {req[w].pay} : pay'[q] = pay[q]
      BY <1>0, <2>3 DEF SavePayment
    <3>. QED
      BY <3>1, <3>2 DEF SettledStands
  <2>4. ASSUME NEW ok \in BOOLEAN, EnsureFiscalShift(w, ok) \/ IssueReceipts(w, ok)
        PROVE  SettledStands
    <3>1. req[w].pc \in {"ensure", "issue"} /\ req[w].pay \in Payments
      BY <1>0, <2>4, RequestFields DEF EnsureFiscalShift, IssueReceipts
    <3>2. pay[req[w].pay].receipt # "sent"
      BY <3>1 DEF IInv, Knows
    <3>3. pay' = pay \/ \E x : pay' = [pay EXCEPT ![req[w].pay].receipt = x]
      BY <2>4 DEF EnsureFiscalShift, IssueReceipts
    <3>4. CASE pay' = pay
      BY <3>4 DEF SettledStands
    <3>5. ASSUME NEW x, pay' = [pay EXCEPT ![req[w].pay].receipt = x]
          PROVE  SettledStands
      <4>1. /\ pay'[req[w].pay].status = pay[req[w].pay].status
            /\ pay'[req[w].pay].shift = pay[req[w].pay].shift
            /\ \A q \in Payments \ {req[w].pay} : pay'[q] = pay[q]
        BY <1>0, <3>1, <3>5 DEF Payment
      <4>. QED
        BY <3>2, <4>1 DEF SettledStands
    <3>. QED
      BY <3>3, <3>4, <3>5
  <2>5. ASSUME NEW heard \in BOOLEAN, CommitRefund(w, heard)
        PROVE  SettledStands
    BY <1>0, <2>5 DEF CommitRefund, SettledStands, Payment
  <2>6. \/ pay' = pay
        \/ \E u \in Cashiers, p \in Payments, f \in Flows, r \in BOOLEAN : BeginPayment(w, u, p, f, r)
        \/ \E ok \in BOOLEAN : SavePayment(w, ok) \/ EnsureFiscalShift(w, ok) \/ IssueReceipts(w, ok)
        \/ \E heard \in BOOLEAN : CommitRefund(w, heard)
    BY DEF Next, vars, CheckOpen, InsertShift, ReadTerminalResult, UseFiscalShift,
         SkipFiscalShift, RetryFiscal, ReadForRefund,
         OpenFiscalShift, ReadForCloseFiscal, ReadForClose, ReadForCloseBoth, CloseFiscalShift,
         RefuseClose, Snapshot, SaveShift, Crash
  <2>. QED
    BY <2>1, <2>2, <2>3, <2>4, <2>5, <2>6
<1>. QED
  BY <1>1, <1>2

\* One request at a time, nothing is added to a closed shift any more, and its
\* totals are not written again (close_shift).
THEOREM ClosedShiftsStand == ASSUME NEW w, Workers = {w} PROVE Spec => [][ClosedStands]_vars
<1>1. IInv(w) /\ Aims(w) /\ [Next]_vars => [ClosedStands]_vars
  BY Standing
<1>. QED
  BY <1>1, AimsAlways, PTL DEF Spec

\* One request at a time, a payment keeps its outcome and its shift, also a
\* terminal payment, and what was sent of it stays sent
\* (complete_marta_terminal_payment, the retry of the receipts).
THEOREM PaymentsStand == ASSUME NEW w, Workers = {w} PROVE Spec => [][SettledStands]_vars
<1>1. IInv(w) /\ Aims(w) /\ [Next]_vars => [SettledStands]_vars
  BY Standing
<1>. QED
  BY <1>1, AimsAlways, PTL DEF Spec
=============================================================================
