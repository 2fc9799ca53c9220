------------------------------- MODULE Cashier -------------------------------
(***************************************************************************)
(* The cashier's day in a restaurant: cash shifts on its cash desks, the   *)
(* payments and refunds taken in them, and the shift of the fiscal device. *)
(* A cash shift is closed with the totals of its payments, and only when   *)
(* the receipts of its payments have all been sent (module FiscalReceipts  *)
(* has the receipts of one payment in detail, OrderLifecycle its order).   *)
(*                                                                         *)
(* A request is cut after its reads and around each call of a terminal or  *)
(* of the fiscal device; a worker may die there.                           *)
(***************************************************************************)
EXTENDS Integers

CONSTANTS
  Workers,    \* server processes that serve requests
  Desks,      \* active cash desks of the restaurant
  NoDesk,     \* the fiscal shift of the restaurant as a whole
  Cashiers,   \* users who take payments
  NoOne,      \* the cashier of a shift that is everybody's
  Payments,   \* payment rows
  Keys,       \* what fiscal shifts are opened for: NoDesk or a desk
  MaxShifts,  \* bound: cash shift rows
  Flows,      \* ways a payment is taken
  MayCrash    \* a worker may die between two steps of a request

ASSUME ConstantsAssumption ==
  /\ NoDesk \notin Desks
  /\ NoDesk \in Keys /\ Keys \subseteq Desks \union {NoDesk}
  /\ NoOne \notin Cashiers
  /\ MaxShifts \in Nat
  /\ Flows \subseteq {"charge", "terminal"}
  /\ MayCrash \in BOOLEAN

Shifts  == 1..MaxShifts      \* in the order of their opening
NoShift == 0

\* A cash shift; once closed, "counted" are the payments its totals are the
\* sums of, and "returned" those that its refund total counts.
Shift == [status : {"none", "open", "closed"}, desk : Desks \union {NoDesk}, cashier : Cashiers \union {NoOne},
          counted : SUBSET Payments, returned : SUBSET Payments]

\* A payment; "receipt" is "sent" when nothing of it is unresolved.
Payment == [status : {"none", "pending", "succeeded", "failed"}, shift : Shifts \union {NoShift},
            flow : Flows \union {"none"}, fiscal : BOOLEAN, receipt : {"none", "failed", "sent"},
            refunded : BOOLEAN]

\* The last fiscal shift of a key: "paid" are the payments with paid_at since
\* it was opened, "posted" those that something was sent to the device for.
FiscalShift == [open : BOOLEAN, paid : SUBSET Payments, posted : SUBSET Payments]

VARIABLES
  shift,    \* the cash shift rows
  pay,      \* the payment rows with their receipts and refunds
  fiscal,   \* the fiscal shift sessions
  req       \* the request each worker is serving

vars == <<shift, pay, fiscal, req>>

Idle == [pc |-> "idle"]

Request ==
  [pc : {"idle"}]
    \union [pc : {"open"}, desk : Desks, cashier : Cashiers \union {NoOne}]
    \union [pc : {"charge", "ensure", "issue", "refund"}, pay : Payments]
    \union [pc : {"closeFiscal"}, key : Keys, shift : Shifts \union {NoShift}]
    \union [pc : {"close"}, shift : Shifts]
    \union [pc : {"save"}, shift : Shifts, counted : SUBSET Payments, returned : SUBSET Payments]

TypeOK ==
  /\ shift \in [Shifts -> Shift]
  /\ pay \in [Payments -> Payment]
  /\ fiscal \in [Keys -> FiscalShift]
  /\ req \in [Workers -> Request]

Init ==
  /\ shift = [s \in Shifts |-> [status |-> "none", desk |-> NoDesk, cashier |-> NoOne,
                                counted |-> {}, returned |-> {}]]
  /\ pay = [p \in Payments |-> [status |-> "none", shift |-> NoShift, flow |-> "none",
                                fiscal |-> FALSE, receipt |-> "none", refunded |-> FALSE]]
  /\ fiscal = [k \in Keys |-> [open |-> FALSE, paid |-> {}, posted |-> {}]]
  /\ req = [w \in Workers |-> Idle]

Serve(w, r)    == /\ req[w] = Idle
                  /\ req' = [req EXCEPT ![w] = r]
Continue(w, r) == req' = [req EXCEPT ![w] = r]
Finish(w)      == req' = [req EXCEPT ![w] = Idle]

-----------------------------------------------------------------------------
OpenShifts == {s \in Shifts : shift[s].status = "open"}

\* get_active_shift: the newest open shift that is the user's or everybody's.
Usable(u) == {s \in OpenShifts : shift[s].cashier \in {u, NoOne}}

IsActiveShift(u, s) == s \in Usable(u) /\ \A t \in Usable(u) : t <= s

Taken(s) == {p \in Payments : pay[p].status = "succeeded" /\ pay[p].shift = s}

\* Mutant: only a receipt that failed is unresolved.
UnresolvedFailed(ps) == {p \in ps : pay[p].fiscal /\ pay[p].receipt = "failed"}

\* get_unresolved_fiscal_payments_queryset over succeeded payments.
Unresolved(ps) == {p \in ps : pay[p].fiscal /\ pay[p].receipt # "sent"}

(***************************************************************************)
(* Opening a cash shift: checked, checked again in a transaction, inserted.*)
(***************************************************************************)
CheckOpen(w, d, c) ==
  /\ \A s \in OpenShifts : shift[s].desk # d /\ (c # NoOne => shift[s].cashier # c)
  /\ c = NoOne => Desks = {d}
  /\ Serve(w, [pc |-> "open", desk |-> d, cashier |-> c])
  /\ UNCHANGED <<shift, pay, fiscal>>

InsertShift(w, s) ==
  /\ req[w].pc = "open"
  /\ shift[s].status = "none"
  /\ \A t \in Shifts : t < s => shift[t].status # "none"
  /\ shift' = [shift EXCEPT ![s] = [status |-> "open", desk |-> req[w].desk,
                 cashier |-> req[w].cashier, counted |-> {}, returned |-> {}]]
  /\ Finish(w)
  /\ UNCHANGED <<pay, fiscal>>

(***************************************************************************)
(* Taking a payment.  A charge asks the terminal while the request waits;  *)
(* a terminal payment is recorded, and its result posted by the browser.   *)
(***************************************************************************)
BeginPayment(w, u, p, flow, registers) ==
  /\ pay[p].status = "none"
  /\ req[w] = Idle
  /\ \E s \in Shifts :
       /\ IsActiveShift(u, s)
       /\ pay' = [pay EXCEPT ![p].status = "pending", ![p].shift = s,
                             ![p].flow = flow, ![p].fiscal = registers]
  /\ IF flow = "charge" THEN Serve(w, [pc |-> "charge", pay |-> p]) ELSE UNCHANGED req
  /\ UNCHANGED <<shift, fiscal>>

ReadTerminalResult(w, p) ==
  /\ pay[p].status = "pending"
  /\ pay[p].flow = "terminal"
  /\ Serve(w, [pc |-> "charge", pay |-> p])
  /\ UNCHANGED <<shift, pay, fiscal>>

\* The sessions whose period a payment made now falls into.
Covering(p) == {k \in Keys : fiscal[k].open /\ k \in {NoDesk, shift[pay[p].shift].desk}}

SavePayment(w, ok) ==
  /\ req[w].pc = "charge"
  /\ LET p == req[w].pay
     IN  IF ok
         THEN /\ pay' = [pay EXCEPT ![p].status = "succeeded"]
              /\ fiscal' = [k \in Keys |-> IF k \in Covering(p)
                                           THEN [fiscal[k] EXCEPT !.paid = @ \union {p}]
                                           ELSE fiscal[k]]
              /\ IF pay[p].fiscal THEN Continue(w, [pc |-> "ensure", pay |-> p]) ELSE Finish(w)
         ELSE /\ pay' = [pay EXCEPT ![p].status = "failed"]
              /\ Finish(w)
              /\ UNCHANGED fiscal
  /\ UNCHANGED shift

(***************************************************************************)
(* Receipts.  The fiscal shift of the restaurant is opened when it is not. *)
(***************************************************************************)
Opened == [open |-> TRUE, paid |-> {}, posted |-> {}]

UseFiscalShift(w) ==
  /\ req[w].pc = "ensure"
  /\ fiscal[NoDesk].open
  /\ Continue(w, [req[w] EXCEPT !.pc = "issue"])
  /\ UNCHANGED <<shift, pay, fiscal>>

EnsureFiscalShift(w, ok) ==
  /\ req[w].pc = "ensure"
  /\ ~fiscal[NoDesk].open
  /\ IF ok
     THEN /\ fiscal' = [fiscal EXCEPT ![NoDesk] = Opened]
          /\ Continue(w, [req[w] EXCEPT !.pc = "issue"])
          /\ UNCHANGED pay
     ELSE /\ pay' = [pay EXCEPT ![req[w].pay].receipt = "failed"]
          /\ Finish(w)
          /\ UNCHANGED fiscal
  /\ UNCHANGED shift

\* The restaurant has no device of its own, only the desk: no session is kept.
SkipFiscalShift(w) ==
  /\ req[w].pc = "ensure"
  /\ ~fiscal[NoDesk].open
  /\ Continue(w, [req[w] EXCEPT !.pc = "issue"])
  /\ UNCHANGED <<shift, pay, fiscal>>

\* What is sent to the device falls into every fiscal shift that is open.
Posted(p) == [k \in Keys |-> IF fiscal[k].open
                             THEN [fiscal[k] EXCEPT !.posted = @ \union {p}]
                             ELSE fiscal[k]]

IssueReceipts(w, ok) ==
  /\ req[w].pc = "issue"
  /\ pay' = [pay EXCEPT ![req[w].pay].receipt = IF ok THEN "sent" ELSE "failed"]
  /\ fiscal' = Posted(req[w].pay)
  /\ Finish(w)
  /\ UNCHANGED shift

RetryFiscal(w, p) ==
  /\ pay[p].status = "succeeded"
  /\ pay[p].fiscal
  /\ pay[p].receipt # "sent"
  /\ Serve(w, [pc |-> "ensure", pay |-> p])
  /\ UNCHANGED <<shift, pay, fiscal>>

(***************************************************************************)
(* A refund is one transaction around the call of the fiscal device.       *)
(***************************************************************************)
ReadForRefund(w, u, p) ==
  /\ pay[p].status = "succeeded"
  /\ ~pay[p].refunded
  /\ Usable(u) # {}
  /\ Serve(w, [pc |-> "refund", pay |-> p])
  /\ UNCHANGED <<shift, pay, fiscal>>

\* The device hears of a refund only when it has a receipt of the sale; the
\* refund is made whatever the device says.
CommitRefund(w, heard) ==
  /\ req[w].pc = "refund"
  /\ LET p == req[w].pay
     IN  /\ heard => pay[p].receipt # "none"
         /\ pay' = [pay EXCEPT ![p].refunded = TRUE]
         /\ fiscal' = IF heard THEN Posted(p) ELSE fiscal
  /\ Finish(w)
  /\ UNCHANGED shift

(***************************************************************************)
(* The fiscal shift on its own, and the closing of a cash shift.           *)
(***************************************************************************)
\* A request of the POS that names no desk means the only one there is.
Meant(k) == k = NoDesk => \A d \in Desks : Desks # {d}

OpenFiscalShift(w, k) ==
  /\ req[w] = Idle
  /\ Meant(k)
  /\ ~fiscal[k].open
  /\ fiscal' = [fiscal EXCEPT ![k] = Opened]
  /\ UNCHANGED <<shift, pay, req>>

\* close_fiscal_shift looks at the payments since the session was opened.
MayCloseFiscal(k) == fiscal[k].open /\ Unresolved(fiscal[k].paid) = {}

ReadForCloseFiscal(w, k) ==
  /\ Meant(k)
  /\ MayCloseFiscal(k)
  /\ Serve(w, [pc |-> "closeFiscal", key |-> k, shift |-> NoShift])
  /\ UNCHANGED <<shift, pay, fiscal>>

\* Mutant: the active shift is closed when there is none.
ReadForCloseUnchecked(w, s) ==
  /\ \E u \in Cashiers :
       Serve(w, [pc |-> "close", shift |-> IF Usable(u) = {} THEN NoShift ELSE s])
  /\ UNCHANGED <<shift, pay, fiscal>>

\* The cash shift is closed alone, or as the last one with the fiscal shift.
ReadForClose(w, s) ==
  /\ s \in OpenShifts
  /\ Serve(w, [pc |-> "close", shift |-> s])
  /\ UNCHANGED <<shift, pay, fiscal>>

ReadForCloseBoth(w, s) ==
  /\ OpenShifts = {s}
  /\ MayCloseFiscal(NoDesk)
  /\ Serve(w, [pc |-> "closeFiscal", key |-> NoDesk, shift |-> s])
  /\ UNCHANGED <<shift, pay, fiscal>>

\* The device closes its shift, unless it fails or has nothing to report.
CloseFiscalShift(w, ok) ==
  /\ req[w].pc = "closeFiscal"
  /\ LET r == req[w]
     IN  /\ ok => fiscal[r.key].posted # {}
         /\ fiscal' = IF ok THEN [fiscal EXCEPT ![r.key].open = FALSE] ELSE fiscal
         /\ IF ok /\ r.shift # NoShift
            THEN Continue(w, [pc |-> "close", shift |-> r.shift])
            ELSE Finish(w)
  /\ UNCHANGED <<shift, pay>>

\* Mutant: the totals count what is still pending.
TotalsOfAll(s) == {p \in Payments : pay[p].status \in {"pending", "succeeded"} /\ pay[p].shift = s}

\* build_shift_snapshot: the payments and the refunds that the totals sum up.
Totals(s) == Taken(s)

RefundTotals(s) == {p \in Payments : pay[p].refunded /\ pay[p].shift = s}

RefuseClose(w) ==
  /\ req[w].pc = "close"
  /\ Unresolved(Taken(req[w].shift)) # {}
  /\ Finish(w)
  /\ UNCHANGED <<shift, pay, fiscal>>

Snapshot(w) ==
  /\ req[w].pc = "close"
  /\ LET s == req[w].shift
     IN  /\ Unresolved(Taken(s)) = {}
         /\ Continue(w, [pc |-> "save", shift |-> s, counted |-> Totals(s),
                         returned |-> RefundTotals(s)])
  /\ UNCHANGED <<shift, pay, fiscal>>

\* The status was looked at when the shift was loaded, and is not again.
SaveShift(w) ==
  /\ req[w].pc = "save"
  /\ LET r == req[w]
     IN  shift' = [shift EXCEPT ![r.shift].status = "closed",
                                ![r.shift].counted = r.counted, ![r.shift].returned = r.returned]
  /\ Finish(w)
  /\ UNCHANGED <<pay, fiscal>>

Crash(w) ==
  /\ MayCrash
  /\ req[w] # Idle
  /\ Finish(w)
  /\ UNCHANGED <<shift, pay, fiscal>>

Next ==
  \E w \in Workers :
    \/ \E d \in Desks, c \in Cashiers \union {NoOne} : CheckOpen(w, d, c)
    \/ \E s \in Shifts : InsertShift(w, s)
    \/ \E u \in Cashiers, p \in Payments, f \in Flows, r \in BOOLEAN : BeginPayment(w, u, p, f, r)
    \/ \E p \in Payments : ReadTerminalResult(w, p)
    \/ \E ok \in BOOLEAN : SavePayment(w, ok)
    \/ UseFiscalShift(w)
    \/ \E ok \in BOOLEAN : EnsureFiscalShift(w, ok)
    \/ SkipFiscalShift(w)
    \/ \E ok \in BOOLEAN : IssueReceipts(w, ok)
    \/ \E p \in Payments : RetryFiscal(w, p)
    \/ \E u \in Cashiers, p \in Payments : ReadForRefund(w, u, p)
    \/ \E heard \in BOOLEAN : CommitRefund(w, heard)
    \/ \E k \in Keys : OpenFiscalShift(w, k)
    \/ \E k \in Keys : ReadForCloseFiscal(w, k)
    \/ \E s \in Shifts : ReadForClose(w, s)
    \/ \E s \in Shifts : ReadForCloseBoth(w, s)
    \/ \E ok \in BOOLEAN : CloseFiscalShift(w, ok)
    \/ RefuseClose(w)
    \/ Snapshot(w)
    \/ SaveShift(w)
    \/ Crash(w)

Spec == Init /\ [][Next]_vars

-----------------------------------------------------------------------------
\* The totals of a closed shift are those of its payments, and of all of them
\* but those whose terminal answered too late.
CountedIsTaken ==
  \A s \in Shifts : shift[s].status = "closed" =>
    /\ shift[s].counted \subseteq Taken(s)
    /\ \A p \in Taken(s) \ shift[s].counted : pay[p].flow = "terminal"

\* A closed shift leaves no receipt of its charges to be sent.
ClosedIsResolved ==
  \A s \in Shifts : shift[s].status = "closed" =>
    \A p \in Unresolved(Taken(s)) : pay[p].flow = "terminal"
=============================================================================
