--------------------------- MODULE OrderLifecycle ---------------------------
(***************************************************************************)
(* The life of one order of a restaurant: its items, its kitchen tickets,  *)
(* its payments and the table session it was opened for, under concurrent  *)
(* HTTP requests of waiters, cooks and cashiers.                           *)
(*                                                                         *)
(* A request is served by a worker.  It loads rows into memory, decides on *)
(* the copies, and writes some columns back.  The code takes no lock on an *)
(* order, so a copy may be stale when it is used.  Each request is         *)
(* therefore cut where another request can get in between: after its reads *)
(* and, in the handlers that run without a transaction, after each group   *)
(* of writes.  A request that is refused writes nothing and is no step.    *)
(***************************************************************************)
EXTENDS Integers, FiniteSets

CONSTANTS
  Workers,        \* server processes that serve requests
  Items,          \* order item rows the order may get
  Stations,       \* preparation stations of the kitchen
  StationOf,      \* the station an item is prepared at, or NoStation
  NoStation,
  MaxQty,         \* bound: the largest quantity of an item
  Payments,       \* payment rows the order may get
  Amounts,        \* sums a cashier may enter
  Cost(_),        \* the price of a bill: subtotal plus service fee
  Channel,        \* the order's channel
  Kinds,          \* kinds of requests the clients send
  Flows,          \* ways the cash desk takes a payment
  PosItemStatuses,\* item statuses the POS clients write
  PatchStatuses,  \* order statuses the clients write through PATCH
  MayCrash        \* a worker may die between two writes of a request

OrderStatus  == {"open", "submitted", "ready", "closed", "cancelled"}
ItemStatus   == {"new", "cooking", "done", "served", "cancelled"}
KitchenItemStatus == {"new", "cooking", "done", "cancelled"}
TicketStatus == {"new", "cooking", "done"}
Mutable      == {"open", "submitted", "ready"}

\* An item row; quantity 0 stands for "no such row".
Row    == [status : ItemStatus, qty : 0..MaxQty]
NoRow  == [status |-> "new", qty |-> 0]

\* What an order is charged for: a quantity of each item.
Bill   == [Items -> 0..MaxQty]

Order  == [status : OrderStatus, total : Nat]

ASSUME ConstantsAssumption ==
  /\ StationOf \in [Items -> Stations \union {NoStation}]
  /\ NoStation \notin Stations
  /\ MaxQty \in Nat \ {0}
  /\ Amounts \subseteq Nat \ {0}
  /\ \A b \in Bill : Cost(b) \in Nat
  /\ Cost([i \in Items |-> 0]) = 0
  /\ Channel \in {"hall", "takeaway", "online", "delivery"}
  /\ Kinds \subseteq {"items", "submit", "patch", "kitchen", "pay"}
  /\ Flows \subseteq {"charge", "terminal"}
  /\ PosItemStatuses \subseteq ItemStatus
  /\ PatchStatuses \subseteq OrderStatus
  /\ MayCrash \in BOOLEAN

VARIABLES
  order,     \* the order row: status and total
  items,     \* the order item rows
  tickets,   \* the kitchen ticket of each station, "none" when there is none
  payments,  \* the payment rows
  paid,      \* the sum of the succeeded payments, as the database adds it up
  session,   \* the order's table session
  table,     \* the table of that session
  req        \* the request each worker is serving

rows == <<order, items, tickets, payments, paid, session, table>>
vars == <<rows, req>>

(***************************************************************************)
(* Requests in flight.  "order" is the copy of the order row in memory.    *)
(***************************************************************************)
Idle == [pc |-> "idle"]

Request ==
  [pc : {"idle"}]
    \union [pc : {"item"}, order : Order, item : Items, row : Row, bill : Nat]
    \union [pc : {"submit", "patch", "recalc", "sync"}, order : Order]
    \union [pc : {"kitchenItem"}, order : Order, item : Items, status : KitchenItemStatus]
    \union [pc : {"kitchenTicket"}, order : Order, station : Stations, status : TicketStatus]
    \union [pc : {"pay"}, order : Order, flow : Flows]
    \union [pc : {"charge", "result"}, order : Order, pay : Payments]
    \union [pc : {"complete"}, order : Order]
    \union [pc : {"release"}]

TypeOK ==
  /\ order \in Order
  /\ items \in [Items -> Row]
  /\ tickets \in [Stations -> TicketStatus \union {"none"}]
  /\ payments \in [Payments -> [status : {"none", "pending", "succeeded", "failed"},
                                amount : Amounts \union {0},
                                flow   : Flows \union {"none"}]]
  /\ paid \in Int
  /\ session \in {"none", "open", "closed"}
  /\ table \in {"none", "available", "occupied"}
  /\ req \in [Workers -> Request]

-----------------------------------------------------------------------------
(***************************************************************************)
(* The order's items and what follows from them.                           *)
(***************************************************************************)
Active(its) == {i \in Items : its[i].qty > 0 /\ its[i].status # "cancelled"}

AllDone(its) == \A i \in Active(its) : its[i].status = "done"

\* What Order.recalculate_totals charges for.
BillOf(its) == [i \in Items |-> IF i \in Active(its) THEN its[i].qty ELSE 0]

AtStation(its, s) == {i \in Active(its) : StationOf[i] = s}

\* Mutant: the ticket takes over the status of one of its items.
StationStatusOfAnItem(its, s) ==
  IF AtStation(its, s) = {} THEN "none" ELSE its[CHOOSE i \in AtStation(its, s) : TRUE].status

StationStatus(its, s) ==
  LET at == AtStation(its, s)
  IN  IF at = {} THEN "none"
      ELSE IF \E i \in at : its[i].status = "cooking" THEN "cooking"
      ELSE IF \A i \in at : its[i].status = "done" THEN "done"
      ELSE "new"

(***************************************************************************)
(* OrderTicketSyncService.sync, run with the in-memory status st of the    *)
(* order: the tickets it leaves, the status it leaves in memory, and the   *)
(* row it leaves behind when it found row ord.                             *)
(***************************************************************************)
SyncedTickets(st, its) ==
  [s \in Stations |-> IF st = "open" THEN "none" ELSE StationStatus(its, s)]

\* Mutant: a ready order is not taken back when something is left to prepare.
SyncedStatusKeepsReady(st, its) ==
  IF st \notin {"open", "closed"} /\ Active(its) # {} /\ AllDone(its) THEN "ready" ELSE st

SyncedStatus(st, its) ==
  IF st = "open" \/ Active(its) = {} THEN st
  ELSE IF AllDone(its) /\ st # "closed" THEN "ready"
  ELSE IF st = "ready" /\ ~AllDone(its) THEN "submitted"
  ELSE st

\* sync saves the status only when one of its two branches assigns it.
SyncSaves(st, its) ==
  /\ st # "open"
  /\ Active(its) # {}
  /\ IF AllDone(its) THEN st # "closed" ELSE st = "ready"

SyncedRow(ord, st, its) ==
  IF SyncSaves(st, its) THEN [ord EXCEPT !.status = SyncedStatus(st, its)] ELSE ord

\* submit_order: an order in memory that is open becomes submitted, then sync runs.
SubmittedStatus(st) == IF st = "open" THEN "submitted" ELSE st

SubmittedRow(ord, st, its) ==
  SyncedRow(IF st = "open" THEN [ord EXCEPT !.status = "submitted"] ELSE ord,
            SubmittedStatus(st), its)

-----------------------------------------------------------------------------
Init ==
  /\ order = [status |-> "open", total |-> 0]
  /\ items = [i \in Items |-> NoRow]
  /\ tickets = [s \in Stations |-> "none"]
  /\ payments = [p \in Payments |-> [status |-> "none", amount |-> 0, flow |-> "none"]]
  /\ paid = 0
  /\ session = IF Channel = "hall" THEN "open" ELSE "none"
  /\ table = IF Channel = "hall" THEN "occupied" ELSE "none"
  /\ req = [w \in Workers |-> Idle]

Serve(w, r)  == /\ req[w] = Idle
                /\ req' = [req EXCEPT ![w] = r]

Continue(w, r) == req' = [req EXCEPT ![w] = r]

Finish(w) == req' = [req EXCEPT ![w] = Idle]

(***************************************************************************)
(* Waiter and cashier: the items of the order.  The row to write and the   *)
(* new total come from the reads of the transaction, everything is written *)
(* at its commit.  A new row has quantity 1; "row" with quantity 0 deletes.*)
(***************************************************************************)
ReadForItem(w, i, row) ==
  /\ order.status \in Mutable
  /\ Serve(w, [pc |-> "item", order |-> order, item |-> i, row |-> row,
               bill |-> Cost(BillOf([items EXCEPT ![i] = row]))])
  /\ UNCHANGED rows

AddItem(w, i, row) ==
  /\ items[i].qty = 0
  /\ row.qty > 0
  /\ row.status \in PosItemStatuses
  /\ ReadForItem(w, i, row)

\* PATCH of an item saves the whole row: the columns it does not name are
\* written back as they were read.
UpdateItem(w, i, row) ==
  /\ items[i].qty > 0
  /\ row.qty > 0
  /\ row.status \in PosItemStatuses \union {items[i].status}
  /\ ReadForItem(w, i, row)

DeleteItem(w, i) ==
  /\ items[i].qty > 0
  /\ ReadForItem(w, i, NoRow)

\* Mutant: the tickets are synchronised only while the order is submitted.
CommitItemSubmittedOnly(w) ==
  /\ req[w].pc = "item"
  /\ LET r   == req[w]
         its == [items EXCEPT ![r.item] = r.row]
         ord == [order EXCEPT !.total = r.bill]
     IN  /\ items' = its
         /\ IF r.order.status # "submitted"
            THEN order' = ord /\ UNCHANGED tickets
            ELSE /\ order' = SyncedRow(ord, r.order.status, its)
                 /\ tickets' = SyncedTickets(r.order.status, its)
  /\ Finish(w)
  /\ UNCHANGED <<payments, paid, session, table>>

\* Mutant: an edit goes to the kitchen at once.
CommitItemToKitchen(w) ==
  /\ req[w].pc = "item"
  /\ LET r   == req[w]
         its == [items EXCEPT ![r.item] = r.row]
     IN  /\ items' = its
         /\ order' = SyncedRow([order EXCEPT !.total = r.bill], r.order.status, its)
         /\ tickets' = [s \in Stations |-> StationStatus(its, s)]
  /\ Finish(w)
  /\ UNCHANGED <<payments, paid, session, table>>

CommitItem(w) ==
  /\ req[w].pc = "item"
  /\ LET r   == req[w]
         its == [items EXCEPT ![r.item] = r.row]
         ord == [order EXCEPT !.total = r.bill]
     IN  /\ items' = its
         /\ IF r.order.status = "open"
            THEN order' = ord /\ UNCHANGED tickets
            ELSE /\ order' = SyncedRow(ord, r.order.status, its)
                 /\ tickets' = SyncedTickets(r.order.status, its)
  /\ Finish(w)
  /\ UNCHANGED <<payments, paid, session, table>>

(***************************************************************************)
(* Waiter: send the order to the kitchen; edit the order itself.  PATCH of *)
(* an order saves every column of the copy it read.                        *)
(***************************************************************************)
ReadForSubmit(w) ==
  /\ order.status \in Mutable
  /\ \E i \in Items : items[i].qty > 0
  /\ Serve(w, [pc |-> "submit", order |-> order])
  /\ UNCHANGED rows

CommitSubmit(w) ==
  /\ req[w].pc = "submit"
  /\ LET st == req[w].order.status
     IN  /\ order' = SubmittedRow(order, st, items)
         /\ tickets' = SyncedTickets(SubmittedStatus(st), items)
  /\ Finish(w)
  /\ UNCHANGED <<items, payments, paid, session, table>>

ReadForPatch(w, status) ==
  /\ status \in PatchStatuses \union {order.status}
  /\ Serve(w, [pc |-> "patch", order |-> [order EXCEPT !.status = status]])
  /\ UNCHANGED rows

SavePatch(w) ==
  /\ req[w].pc = "patch"
  /\ order' = req[w].order
  /\ Finish(w)
  /\ UNCHANGED <<items, tickets, payments, paid, session, table>>

(***************************************************************************)
(* Cook: one item, or a whole ticket.  No transaction and no look at the   *)
(* status of the order; the copy of the order is read with the item.       *)
(***************************************************************************)
ReadForKitchenItem(w, i, status) ==
  /\ items[i].qty > 0
  /\ Serve(w, [pc |-> "kitchenItem", order |-> order, item |-> i, status |-> status])
  /\ UNCHANGED rows

SaveKitchenItem(w) ==
  /\ req[w].pc = "kitchenItem"
  /\ LET r == req[w]
     IN  IF items[r.item].qty > 0
         THEN /\ items' = [items EXCEPT ![r.item].status = r.status]
              /\ Continue(w, [pc |-> "recalc", order |-> r.order])
         ELSE /\ UNCHANGED items   \* the row is gone: the save fails
              /\ Finish(w)
  /\ UNCHANGED <<order, tickets, payments, paid, session, table>>

\* Mutant: the totals are not recalculated.
RecalculateKitchenNothing(w) ==
  /\ req[w].pc = "recalc"
  /\ Continue(w, [pc |-> "sync", order |-> req[w].order])
  /\ UNCHANGED rows

\* recalculate_totals writes the totals of the order, and of its copy.
RecalculateKitchen(w) ==
  /\ req[w].pc = "recalc"
  /\ LET bill == Cost(BillOf(items))
     IN  /\ order' = [order EXCEPT !.total = bill]
         /\ Continue(w, [pc |-> "sync", order |-> [req[w].order EXCEPT !.total = bill]])
  /\ UNCHANGED <<items, tickets, payments, paid, session, table>>

ReadForKitchenTicket(w, s, status) ==
  /\ tickets[s] # "none"
  /\ Serve(w, [pc |-> "kitchenTicket", order |-> order, station |-> s, status |-> status])
  /\ UNCHANGED rows

SaveKitchenTicket(w) ==
  /\ req[w].pc = "kitchenTicket"
  /\ LET r == req[w]
     IN  /\ items' = [i \in Items |-> IF i \in AtStation(items, r.station)
                                      THEN [items[i] EXCEPT !.status = r.status]
                                      ELSE items[i]]
         /\ IF tickets[r.station] # "none"
            THEN /\ tickets' = [tickets EXCEPT ![r.station] = r.status]
                 /\ Continue(w, [pc |-> "sync", order |-> r.order])
            ELSE /\ UNCHANGED tickets   \* the ticket is gone: the save fails
                 /\ Finish(w)
  /\ UNCHANGED <<order, payments, paid, session, table>>

SyncKitchen(w) ==
  /\ req[w].pc = "sync"
  /\ LET st == req[w].order.status
     IN  /\ order' = SyncedRow(order, st, items)
         /\ tickets' = SyncedTickets(st, items)
  /\ Finish(w)
  /\ UNCHANGED <<items, payments, paid, session, table>>

(***************************************************************************)
(* Cashier.  A "charge" payment asks the terminal while the request waits; *)
(* a "terminal" payment is only recorded, and the cashier's browser posts  *)
(* the terminal's answer in a request of its own.                          *)
(***************************************************************************)
\* ensure_order_can_be_paid, then the order is submitted unless it is a takeaway.
BeginPayment(w, flow) ==
  /\ order.status \in Mutable
  /\ LET submits == order.status = "open" /\ Channel # "takeaway"
         ord     == IF submits THEN SubmittedRow(order, "open", items) ELSE order
     IN  /\ order' = ord
         /\ tickets' = IF submits THEN SyncedTickets("submitted", items) ELSE tickets
         /\ Serve(w, [pc |-> "pay", order |-> ord, flow |-> flow])
  /\ UNCHANGED <<items, payments, paid, session, table>>

\* No open shift, a disabled method, a missing marking or a sum that is too
\* small: the request ends here, and a submission it made stays.
RefusePayment(w) ==
  /\ req[w].pc = "pay"
  /\ Finish(w)
  /\ UNCHANGED rows

\* Mutant: any sum is accepted.
CreatePaymentOfAnySum(w, p, amount) ==
  /\ req[w].pc = "pay"
  /\ payments[p].status = "none"
  /\ payments' = [payments EXCEPT ![p] = [status |-> "pending", amount |-> amount,
                                          flow |-> req[w].flow]]
  /\ Continue(w, [pc |-> "charge", order |-> req[w].order, pay |-> p])
  /\ UNCHANGED <<order, items, tickets, paid, session, table>>

\* The sum entered covers what is left of the total in memory.
CreatePayment(w, p, amount) ==
  /\ req[w].pc = "pay"
  /\ payments[p].status = "none"
  /\ amount >= req[w].order.total - paid
  /\ payments' = [payments EXCEPT ![p] = [status |-> "pending", amount |-> amount,
                                          flow |-> req[w].flow]]
  /\ IF req[w].flow = "charge"
     THEN Continue(w, [pc |-> "charge", order |-> req[w].order, pay |-> p])
     ELSE Finish(w)
  /\ UNCHANGED <<order, items, tickets, paid, session, table>>

Counted(pay) == IF pay.status = "succeeded" THEN pay.amount ELSE 0

\* Mutant: a failed charge is reported and not saved.
SettleSuccessOnly(w, ok) ==
  /\ IF ok
     THEN /\ payments' = [payments EXCEPT ![req[w].pay].status = "succeeded"]
          /\ paid' = paid + payments[req[w].pay].amount
          /\ Continue(w, [pc |-> "complete", order |-> req[w].order])
     ELSE Finish(w) /\ UNCHANGED <<payments, paid>>
  /\ UNCHANGED <<order, items, tickets, session, table>>

\* The terminal's answer is saved; a failure ends the request.
Settle(w, ok) ==
  LET p   == req[w].pay
      new == [payments[p] EXCEPT !.status = IF ok THEN "succeeded" ELSE "failed"]
  IN  /\ payments' = [payments EXCEPT ![p] = new]
      /\ paid' = paid + Counted(new) - Counted(payments[p])
      /\ IF ok THEN Continue(w, [pc |-> "complete", order |-> req[w].order]) ELSE Finish(w)
      /\ UNCHANGED <<order, items, tickets, session, table>>

SaveCharge(w, ok) ==
  /\ req[w].pc = "charge"
  /\ Settle(w, ok)

ReadTerminalResult(w, p) ==
  /\ payments[p].status = "pending"
  /\ payments[p].flow = "terminal"
  /\ Serve(w, [pc |-> "result", order |-> order, pay |-> p])
  /\ UNCHANGED rows

SaveTerminalResult(w, ok) ==
  /\ req[w].pc = "result"
  /\ Settle(w, ok)

\* Mutant: the order is closed without a look at what has been paid.
CompletePaymentUncovered(w) ==
  /\ req[w].pc = "complete"
  /\ order' = [order EXCEPT !.status = "closed"]
  /\ IF session # "none" THEN Continue(w, [pc |-> "release"]) ELSE Finish(w)
  /\ UNCHANGED <<items, tickets, payments, paid, session, table>>

\* Mutant: the session and the table of the closed order are left alone.
CompletePaymentKeepsTable(w) ==
  /\ req[w].pc = "complete"
  /\ order' = IF paid >= req[w].order.total THEN [order EXCEPT !.status = "closed"] ELSE order
  /\ Finish(w)
  /\ UNCHANGED <<items, tickets, payments, paid, session, table>>

\* _complete_successful_payment up to the write of the order row: an open
\* takeaway is submitted, a covered order is closed.
CompletePayment(w) ==
  /\ req[w].pc = "complete"
  /\ LET copy    == req[w].order
         submits == Channel = "takeaway" /\ copy.status = "open"
         covered == paid >= copy.total
         ord     == IF submits THEN SubmittedRow(order, "open", items) ELSE order
     IN  /\ tickets' = IF submits THEN SyncedTickets("submitted", items) ELSE tickets
         /\ order' = IF covered THEN [ord EXCEPT !.status = "closed"] ELSE ord
         /\ IF covered /\ session # "none" THEN Continue(w, [pc |-> "release"]) ELSE Finish(w)
  /\ UNCHANGED <<items, payments, paid, session, table>>

\* close_order_after_payment goes on to close the session and free its table.
ReleaseTable(w) ==
  /\ req[w].pc = "release"
  /\ session' = "closed"
  /\ table' = "available"
  /\ Finish(w)
  /\ UNCHANGED <<order, items, tickets, payments, paid>>

(***************************************************************************)
(* A worker dies.  What it has not written yet is lost; inside a           *)
(* transaction that is everything.                                         *)
(***************************************************************************)
Crash(w) ==
  /\ MayCrash
  /\ req[w] # Idle
  /\ Finish(w)
  /\ UNCHANGED rows

Start(w) ==
  \/ "items" \in Kinds /\ \E i \in Items, row \in Row : AddItem(w, i, row)
  \/ "items" \in Kinds /\ \E i \in Items, row \in Row : UpdateItem(w, i, row)
  \/ "items" \in Kinds /\ \E i \in Items : DeleteItem(w, i)
  \/ "submit" \in Kinds /\ ReadForSubmit(w)
  \/ "patch" \in Kinds /\ \E s \in OrderStatus : ReadForPatch(w, s)
  \/ "kitchen" \in Kinds /\ \E i \in Items, s \in KitchenItemStatus : ReadForKitchenItem(w, i, s)
  \/ "kitchen" \in Kinds /\ \E s \in Stations, t \in TicketStatus : ReadForKitchenTicket(w, s, t)
  \/ "pay" \in Kinds /\ \E f \in Flows : BeginPayment(w, f)
  \/ "pay" \in Kinds /\ \E p \in Payments : ReadTerminalResult(w, p)

\* The next step of the request a worker is serving.
Proceed(w) ==
  \/ CommitItem(w)
  \/ CommitSubmit(w)
  \/ SavePatch(w)
  \/ SaveKitchenItem(w)
  \/ RecalculateKitchen(w)
  \/ SaveKitchenTicket(w)
  \/ SyncKitchen(w)
  \/ RefusePayment(w)
  \/ \E p \in Payments, a \in Amounts : CreatePayment(w, p, a)
  \/ \E ok \in BOOLEAN : SaveCharge(w, ok)
  \/ \E ok \in BOOLEAN : SaveTerminalResult(w, ok)
  \/ CompletePayment(w)
  \/ ReleaseTable(w)

Next == \E w \in Workers : Start(w) \/ Proceed(w) \/ Crash(w)

Spec == Init /\ [][Next]_vars

\* A request that has begun is carried on by its worker; nobody has to send one.
FairSpec == Spec /\ \A w \in Workers : WF_vars(Proceed(w))

-----------------------------------------------------------------------------
\* No request is being served.
Quiet == \A w \in Workers : req[w] = Idle

\* Between requests the kitchen's tickets are those of the items of an order
\* that has been submitted: one for each station with something to prepare,
\* in the state of its items (OrderTicketSyncService.sync).
TicketsShowTheItems ==
  Quiet /\ order.status \in {"submitted", "ready", "closed"}
    => \A s \in Stations : tickets[s] = StationStatus(items, s)

\* Between requests a submitted order is ready exactly when the kitchen has
\* finished all of it.
ReadyMeansAllDone ==
  Quiet /\ Active(items) # {} /\ order.status \in {"submitted", "ready"}
    => (order.status = "ready" <=> AllDone(items))

\* Between requests the total is the price of the items (recalculate_totals).
TotalIsTheBill == Quiet => order.total = Cost(BillOf(items))

\* An order is closed by a payment only when the payments cover the price of
\* what has been ordered.
ClosedWhenCovered ==
  [][order.status # "closed" /\ order'.status = "closed" => paid >= Cost(BillOf(items))]_vars

\* The kitchen sees nothing of an order that is still open.
NoTicketBeforeSubmission ==
  order.status = "open" => \A s \in Stations : tickets[s] = "none"

\* A request whose charge succeeded ends with the order closed: process never
\* takes money for an order and leaves it unpaid.
ChargedMeansClosed ==
  [][\A w \in Workers : req[w].pc = "complete" /\ req'[w] # req[w] => order'.status = "closed"]_vars

\* A payment that has succeeded or failed keeps its outcome.
OutcomeIsFinal ==
  [][\A p \in Payments : payments[p].status \in {"succeeded", "failed"}
                            => payments'[p] = payments[p]]_vars

\* The table of a closed order is free, or the request that closed the order
\* is about to free it.
ClosedFreesTheTable ==
  order.status = "closed" /\ Channel = "hall"
    => \/ session = "closed" /\ table = "available"
       \/ \E w \in Workers : req[w].pc = "release"

\* A charge that was begun is settled.
ChargesSettle ==
  \A p \in Payments :
    payments[p].status = "pending" /\ payments[p].flow = "charge"
      ~> payments[p].status \in {"succeeded", "failed"}

-----------------------------------------------------------------------------
(***************************************************************************)
(* What the code's own messages say and the code does not keep.            *)
(***************************************************************************)

\* "Closed orders cannot be paid again." (ensure_order_can_be_paid)
ClosedIsNotPaidAgain ==
  [][\A p \in Payments : payments[p].status # "succeeded" /\ payments'[p].status = "succeeded"
                            => order.status # "closed"]_vars
=============================================================================
