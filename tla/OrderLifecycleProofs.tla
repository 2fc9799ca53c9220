------------------------ MODULE OrderLifecycleProofs ------------------------
EXTENDS OrderLifecycle, TLAPS

(* What sync leaves of a typed order row is typed. *)
LEMMA SyncedRowType ==
  ASSUME NEW ord \in Order, NEW st \in OrderStatus, NEW its
  PROVE  /\ SyncedRow(ord, st, its) \in Order
         /\ SyncedStatus(st, its) \in OrderStatus
         /\ SyncedRow(ord, st, its).total = ord.total
  BY DEF SyncedRow, SyncSaves, SyncedStatus, Order, OrderStatus

LEMMA SubmittedRowType ==
  ASSUME NEW ord \in Order, NEW st \in OrderStatus, NEW its
  PROVE  SubmittedRow(ord, st, its) \in Order
<1>1. SubmittedStatus(st) \in OrderStatus
  BY DEF SubmittedStatus, OrderStatus
<1>2. (IF st = "open" THEN [ord EXCEPT !.status = "submitted"] ELSE ord) \in Order
  BY DEF Order, OrderStatus
<1>. QED
  BY <1>1, <1>2, SyncedRowType DEF SubmittedRow

(* The tickets that sync leaves are typed when the items are. *)
LEMMA SyncedTicketsType ==
  ASSUME NEW st, NEW its \in [Items -> Row]
  PROVE  SyncedTickets(st, its) \in [Stations -> TicketStatus \union {"none"}]
  BY DEF SyncedTickets, StationStatus, TicketStatus

(* A bill charges for a quantity of each item, so that it has a price. *)
LEMMA BillOfType ==
  ASSUME NEW its \in [Items -> Row]
  PROVE  Cost(BillOf(its)) \in Nat
<1>1. BillOf(its) \in Bill
  BY ConstantsAssumption DEF BillOf, Bill, Row
<1>. QED
  BY <1>1, ConstantsAssumption

-----------------------------------------------------------------------------
(***************************************************************************)
(* Types                                                                   *)
(***************************************************************************)

(* The copies that the requests in flight hold are typed. *)
LEMMA RequestFields ==
  ASSUME NEW r \in Request
  PROVE  /\ r.pc \notin {"idle", "release"} => r.order \in Order
         /\ r.pc = "item" => r.item \in Items /\ r.row \in Row /\ r.bill \in Nat
         /\ r.pc = "kitchenItem" => r.item \in Items /\ r.status \in KitchenItemStatus
         /\ r.pc = "kitchenTicket" => r.station \in Stations /\ r.status \in TicketStatus
         /\ r.pc = "pay" => r.flow \in Flows
         /\ r.pc \in {"charge", "result"} => r.pay \in Payments
  BY DEF Request

LEMMA AmountType == (\A a \in Amounts \union {0} : a \in Nat) /\ Flows \subseteq {"charge", "terminal"}
<1>1. Amounts \subseteq Nat \ {0} /\ Flows \subseteq {"charge", "terminal"}
  BY ConstantsAssumption
<1>. QED
  BY <1>1

LEMMA PaymentFields ==
  ASSUME TypeOK, NEW p \in Payments
  PROVE  payments[p].amount \in Nat
<1>1. payments[p] \in [status : {"none", "pending", "succeeded", "failed"},
                       amount : Amounts \union {0}, flow : Flows \union {"none"}]
  BY DEF TypeOK
<1>2. payments[p].amount \in Amounts \union {0}
  BY <1>1
<1>. QED
  BY <1>2, AmountType

LEMMA InitType == Init => TypeOK
  BY ConstantsAssumption
     DEF Init, TypeOK, Order, OrderStatus, Row, NoRow, ItemStatus, TicketStatus, Request, Idle

(* A step that leaves the rows alone and gives a worker a typed request. *)
LEMMA ServeType ==
  ASSUME TypeOK, NEW w \in Workers, NEW r \in Request, UNCHANGED rows,
         req' = [req EXCEPT ![w] = r]
  PROVE  TypeOK'
  BY DEF TypeOK, rows

LEMMA IdleType == Idle \in Request
  BY DEF Idle, Request

LEMMA ItemRequestType ==
  ASSUME TypeOK, NEW w \in Workers, NEW i \in Items, NEW row \in Row, ReadForItem(w, i, row)
  PROVE  TypeOK'
<1>1. [items EXCEPT ![i] = row] \in [Items -> Row]
  BY DEF TypeOK
<1>2. Cost(BillOf([items EXCEPT ![i] = row])) \in Nat
  BY <1>1, BillOfType
<1>3. [pc |-> "item", order |-> order, item |-> i, row |-> row,
       bill |-> Cost(BillOf([items EXCEPT ![i] = row]))] \in Request
  BY <1>2 DEF Request, TypeOK
<1>. QED
  BY <1>3, ServeType DEF ReadForItem, Serve

LEMMA StartType ==
  ASSUME TypeOK, NEW w \in Workers, Start(w)
  PROVE  TypeOK'
<1>1. ASSUME NEW i \in Items, NEW row \in Row, AddItem(w, i, row) \/ UpdateItem(w, i, row)
      PROVE  TypeOK'
  BY <1>1, ItemRequestType DEF AddItem, UpdateItem
<1>2. ASSUME NEW i \in Items, DeleteItem(w, i)
      PROVE  TypeOK'
  <2>1. NoRow \in Row
    BY ConstantsAssumption DEF NoRow, Row, ItemStatus
  <2>. QED
    BY <1>2, <2>1, ItemRequestType DEF DeleteItem
<1>3. CASE ReadForSubmit(w)
  <2>1. [pc |-> "submit", order |-> order] \in Request
    BY DEF Request, TypeOK
  <2>. QED
    BY <1>3, <2>1, ServeType DEF ReadForSubmit, Serve
<1>4. ASSUME NEW s \in OrderStatus, ReadForPatch(w, s)
      PROVE  TypeOK'
  <2>1. [pc |-> "patch", order |-> [order EXCEPT !.status = s]] \in Request
    BY DEF Request, TypeOK, Order
  <2>. QED
    BY <1>4, <2>1, ServeType DEF ReadForPatch, Serve
<1>5. ASSUME NEW i \in Items, NEW s \in KitchenItemStatus, ReadForKitchenItem(w, i, s)
      PROVE  TypeOK'
  <2>1. [pc |-> "kitchenItem", order |-> order, item |-> i, status |-> s] \in Request
    BY DEF Request, TypeOK
  <2>. QED
    BY <1>5, <2>1, ServeType DEF ReadForKitchenItem, Serve
<1>6. ASSUME NEW s \in Stations, NEW t \in TicketStatus, ReadForKitchenTicket(w, s, t)
      PROVE  TypeOK'
  <2>1. [pc |-> "kitchenTicket", order |-> order, station |-> s, status |-> t] \in Request
    BY DEF Request, TypeOK
  <2>. QED
    BY <1>6, <2>1, ServeType DEF ReadForKitchenTicket, Serve
<1>7. ASSUME NEW f \in Flows, BeginPayment(w, f)
      PROVE  TypeOK'
  <2>1. order' \in Order /\ tickets' \in [Stations -> TicketStatus \union {"none"}]
    BY <1>7, SubmittedRowType, SyncedTicketsType DEF BeginPayment, TypeOK, Order
  <2>2. [pc |-> "pay", order |-> order', flow |-> f] \in Request
    BY <2>1 DEF Request
  <2>3. req' = [req EXCEPT ![w] = [pc |-> "pay", order |-> order', flow |-> f]]
    BY <1>7 DEF BeginPayment, Serve
  <2>. QED
    BY <1>7, <2>1, <2>2, <2>3 DEF BeginPayment, TypeOK
<1>8. ASSUME NEW p \in Payments, ReadTerminalResult(w, p)
      PROVE  TypeOK'
  <2>1. [pc |-> "result", order |-> order, pay |-> p] \in Request
    BY DEF Request, TypeOK
  <2>. QED
    BY <1>8, <2>1, ServeType DEF ReadTerminalResult, Serve
<1>. QED
  BY <1>1, <1>2, <1>3, <1>4, <1>5, <1>6, <1>7, <1>8 DEF Start

LEMMA ProceedType ==
  ASSUME TypeOK, NEW w \in Workers, Proceed(w)
  PROVE  TypeOK'
<1>. /\ req[w] \in Request
     /\ Idle \in Request
  BY IdleType DEF TypeOK
<1>1. CASE CommitItem(w)
  <2>1. req[w].order \in Order /\ req[w].item \in Items /\ req[w].row \in Row /\ req[w].bill \in Nat
    BY <1>1, RequestFields DEF CommitItem
  <2>2. items' \in [Items -> Row] /\ [order EXCEPT !.total = req[w].bill] \in Order
    BY <1>1, <2>1 DEF CommitItem, TypeOK, Order
  <2>3. order' \in Order
    BY <1>1, <2>1, <2>2, SyncedRowType DEF CommitItem, Order
  <2>4. tickets' \in {tickets, SyncedTickets(req[w].order.status, items')}
    BY <1>1 DEF CommitItem
  <2>5. tickets' \in [Stations -> TicketStatus \union {"none"}]
    BY <2>2, <2>4, SyncedTicketsType DEF TypeOK
  <2>. QED
    BY <1>1, <2>2, <2>3, <2>5 DEF CommitItem, Finish, TypeOK
<1>2. CASE CommitSubmit(w)
  <2>1. req[w].order.status \in OrderStatus
    BY <1>2, RequestFields DEF CommitSubmit, Order
  <2>. QED
    BY <1>2, <2>1, SubmittedRowType, SyncedTicketsType DEF CommitSubmit, Finish, TypeOK
<1>3. CASE SavePatch(w)
  <2>1. req[w].order \in Order
    BY <1>3, RequestFields DEF SavePatch
  <2>. QED
    BY <1>3, <2>1 DEF SavePatch, Finish, TypeOK
<1>4. CASE SaveKitchenItem(w)
  <2>1. req[w].order \in Order /\ req[w].item \in Items /\ req[w].status \in ItemStatus
    BY <1>4, RequestFields DEF SaveKitchenItem, KitchenItemStatus, ItemStatus
  <2>2. items' \in [Items -> Row]
    BY <1>4, <2>1 DEF SaveKitchenItem, TypeOK, Row
  <2>3. [pc |-> "recalc", order |-> req[w].order] \in Request
    BY <2>1 DEF Request
  <2>. QED
    BY <1>4, <2>2, <2>3 DEF SaveKitchenItem, Continue, Finish, TypeOK
<1>12. CASE RecalculateKitchen(w)
  <2>. DEFINE bill == Cost(BillOf(items))
              copy == [req[w].order EXCEPT !.total = bill]
  <2>1. bill \in Nat
    BY BillOfType DEF TypeOK
  <2>2. req[w].order \in Order
    BY <1>12, RequestFields DEF RecalculateKitchen
  <2>. HIDE DEF bill
  <2>3. copy \in Order /\ [order EXCEPT !.total = bill] \in Order
    BY <2>1, <2>2 DEF TypeOK, Order
  <2>. HIDE DEF copy
  <2>4. [pc |-> "sync", order |-> copy] \in Request
    BY <2>3 DEF Request
  <2>5. /\ order' = [order EXCEPT !.total = bill]
        /\ req' = [req EXCEPT ![w] = [pc |-> "sync", order |-> copy]]
    BY <1>12 DEF RecalculateKitchen, Continue, bill, copy
  <2>. QED
    BY <1>12, <2>3, <2>4, <2>5 DEF RecalculateKitchen, TypeOK
<1>5. CASE SaveKitchenTicket(w)
  <2>1. req[w].order \in Order /\ req[w].station \in Stations /\ req[w].status \in TicketStatus
    BY <1>5, RequestFields DEF SaveKitchenTicket
  <2>2. items' \in [Items -> Row]
    BY <1>5, <2>1 DEF SaveKitchenTicket, TypeOK, Row, TicketStatus, ItemStatus
  <2>3. tickets' \in [Stations -> TicketStatus \union {"none"}]
    BY <1>5, <2>1 DEF SaveKitchenTicket, TypeOK
  <2>4. [pc |-> "sync", order |-> req[w].order] \in Request
    BY <2>1 DEF Request
  <2>. QED
    BY <1>5, <2>2, <2>3, <2>4 DEF SaveKitchenTicket, Continue, Finish, TypeOK
<1>6. CASE SyncKitchen(w)
  <2>1. req[w].order.status \in OrderStatus
    BY <1>6, RequestFields DEF SyncKitchen, Order
  <2>. QED
    BY <1>6, <2>1, SyncedRowType, SyncedTicketsType DEF SyncKitchen, Finish, TypeOK
<1>7. CASE RefusePayment(w)
  BY <1>7, ServeType DEF RefusePayment, Finish
<1>8. ASSUME NEW p \in Payments, NEW a \in Amounts, CreatePayment(w, p, a)
      PROVE  TypeOK'
  <2>1. req[w].order \in Order /\ req[w].flow \in Flows
    BY <1>8, RequestFields DEF CreatePayment
  <2>2. [pc |-> "charge", order |-> req[w].order, pay |-> p] \in Request
    BY <2>1 DEF Request
  <2>3. payments'= [payments EXCEPT ![p] = [status |-> "pending", amount |-> a, flow |-> req[w].flow]]
    BY <1>8 DEF CreatePayment
  <2>. QED
    BY <1>8, <2>1, <2>2, <2>3 DEF CreatePayment, Continue, Finish, TypeOK
<1>9. ASSUME NEW ok \in BOOLEAN, SaveCharge(w, ok) \/ SaveTerminalResult(w, ok)
      PROVE  TypeOK'
  <2>1. req[w].order \in Order /\ req[w].pay \in Payments
    BY <1>9, RequestFields DEF SaveCharge, SaveTerminalResult
  <2>2. Settle(w, ok)
    BY <1>9 DEF SaveCharge, SaveTerminalResult
  <2>3. [pc |-> "complete", order |-> req[w].order] \in Request
    BY <2>1 DEF Request
  <2>4. paid' \in Int
    BY <2>1, <2>2, ConstantsAssumption DEF Settle, Counted, TypeOK
  <2>5. payments' = [payments EXCEPT ![req[w].pay] = [payments[req[w].pay] EXCEPT !.status = IF ok THEN "succeeded" ELSE "failed"]]
    BY <2>2 DEF Settle
  <2>. QED
    BY <2>1, <2>2, <2>3, <2>4, <2>5 DEF Settle, Continue, Finish, TypeOK
<1>10. CASE CompletePayment(w)
  <2>1. req[w].order \in Order
    BY <1>10, RequestFields DEF CompletePayment
  <2>2. SubmittedRow(order, "open", items) \in Order
    BY SubmittedRowType DEF TypeOK, OrderStatus
  <2>3. order' \in Order
    BY <1>10, <2>2 DEF CompletePayment, TypeOK, Order, OrderStatus
  <2>4. tickets' \in [Stations -> TicketStatus \union {"none"}]
    BY <1>10, SyncedTicketsType DEF CompletePayment, TypeOK
  <2>5. [pc |-> "release"] \in Request
    BY DEF Request
  <2>. QED
    BY <1>10, <2>3, <2>4, <2>5 DEF CompletePayment, Continue, Finish, TypeOK
<1>11. CASE ReleaseTable(w)
  BY <1>11 DEF ReleaseTable, Finish, TypeOK
<1>. QED
  BY <1>1, <1>2, <1>3, <1>4, <1>5, <1>6, <1>7, <1>8, <1>9, <1>10, <1>11, <1>12 DEF Proceed

LEMMA NextType == TypeOK /\ [Next]_vars => TypeOK'
<1>1. ASSUME TypeOK, NEW w \in Workers, Crash(w)
      PROVE  TypeOK'
  BY <1>1, ServeType, IdleType DEF Crash, Finish
<1>2. CASE UNCHANGED vars
  BY <1>2 DEF vars, rows, TypeOK
<1>. QED
  BY <1>1, <1>2, StartType, ProceedType DEF Next

(* Every reachable state is typed, for any number of workers, items, stations *)
(* and payments.                                                              *)
THEOREM Typing == Spec => []TypeOK
  BY InitType, NextType, PTL DEF Spec

-----------------------------------------------------------------------------
(***************************************************************************)
(* The kitchen sees nothing of an open order                               *)
(***************************************************************************)

(* Inductive: while the order row is open nobody has seen it otherwise. *)
UntouchedWhileOpen ==
  /\ \A w \in Workers : req[w].pc # "patch"
  /\ order.status = "open" =>
       /\ \A s \in Stations : tickets[s] = "none"
       /\ \A w \in Workers : req[w].pc \notin {"idle", "release"} => req[w].order.status = "open"

(* sync and submit_order never open an order. *)
LEMMA SyncNeverOpens ==
  ASSUME NEW ord \in Order, NEW st \in OrderStatus, NEW its
  PROVE  /\ SyncedRow(ord, st, its).status = "open" => ord.status = "open"
         /\ \A s \in Stations : SyncedTickets("open", its)[s] = "none"
  BY DEF SyncedRow, SyncSaves, SyncedStatus, SyncedTickets, Order, OrderStatus

LEMMA SubmitLeavesOpen ==
  ASSUME NEW ord \in Order, NEW st \in OrderStatus, NEW its
  PROVE  SubmittedRow(ord, st, its).status = "open" => ord.status = "open" /\ st # "open"
  BY DEF SubmittedRow, SubmittedStatus, SyncedRow, SyncSaves, SyncedStatus, Order, OrderStatus

(* What a step has to show: it does not open the order, makes no ticket for *)
(* an open one, and the copy it goes on with is open if the row is.         *)
LEMMA UntouchedStep ==
  ASSUME UntouchedWhileOpen, NEW w \in Workers,
         \A v \in Workers \ {w} : req'[v] = req[v],
         req'[w].pc # "patch",
         order'.status = "open" =>
            /\ order.status = "open"
            /\ \A s \in Stations : tickets'[s] = "none"
            /\ req'[w].pc \notin {"idle", "release"} => req'[w].order.status = "open"
  PROVE  UntouchedWhileOpen'
  BY DEF UntouchedWhileOpen

LEMMA UntouchedStart ==
  ASSUME "patch" \notin Kinds, TypeOK, UntouchedWhileOpen, NEW w \in Workers, Start(w)
  PROVE  UntouchedWhileOpen'
<1>0. req \in [Workers -> Request]
  BY DEF TypeOK
<1>1. ASSUME NEW i \in Items, NEW row, ReadForItem(w, i, row)
      PROVE  UntouchedWhileOpen'
  BY <1>0, <1>1, UntouchedStep DEF ReadForItem, Serve, rows, UntouchedWhileOpen
<1>2. CASE ReadForSubmit(w)
  BY <1>0, <1>2, UntouchedStep DEF ReadForSubmit, Serve, rows, UntouchedWhileOpen
<1>3. ASSUME NEW i \in Items, NEW s \in KitchenItemStatus, ReadForKitchenItem(w, i, s)
      PROVE  UntouchedWhileOpen'
  BY <1>0, <1>3, UntouchedStep DEF ReadForKitchenItem, Serve, rows, UntouchedWhileOpen
<1>4. ASSUME NEW s \in Stations, NEW t \in TicketStatus, ReadForKitchenTicket(w, s, t)
      PROVE  UntouchedWhileOpen'
  BY <1>0, <1>4, UntouchedStep DEF ReadForKitchenTicket, Serve, rows, UntouchedWhileOpen
<1>5. ASSUME NEW f \in Flows, BeginPayment(w, f)
      PROVE  UntouchedWhileOpen'
  <2>1. order'.status = "open" => order.status = "open" /\ UNCHANGED tickets
    BY <1>5, SubmitLeavesOpen DEF BeginPayment, TypeOK, OrderStatus
  <2>2. req' = [req EXCEPT ![w] = [pc |-> "pay", order |-> order', flow |-> f]]
    BY <1>5 DEF BeginPayment, Serve
  <2>. QED
    BY <1>0, <2>1, <2>2, UntouchedStep DEF UntouchedWhileOpen
<1>6. ASSUME NEW p \in Payments, ReadTerminalResult(w, p)
      PROVE  UntouchedWhileOpen'
  BY <1>0, <1>6, UntouchedStep DEF ReadTerminalResult, Serve, rows, UntouchedWhileOpen
<1>. QED
  BY <1>1, <1>2, <1>3, <1>4, <1>5, <1>6 DEF Start, AddItem, UpdateItem, DeleteItem

LEMMA UntouchedProceed ==
  ASSUME TypeOK, UntouchedWhileOpen, NEW w \in Workers, Proceed(w)
  PROVE  UntouchedWhileOpen'
<1>0. /\ req \in [Workers -> Request]
      /\ req[w] \in Request
      /\ order \in Order
      /\ req[w].pc \notin {"idle", "release"} => req[w].order \in Order /\ req[w].order.status \in OrderStatus
  BY RequestFields DEF TypeOK, Order
<1>1. CASE CommitItem(w)
  <2>1. [order EXCEPT !.total = req[w].bill] \in Order
    BY <1>0, <1>1, RequestFields DEF CommitItem, Order
  <2>2. order'.status = "open" => order.status = "open"
    BY <1>0, <1>1, <2>1, SyncNeverOpens DEF CommitItem, Order
  <2>3. order.status = "open" => UNCHANGED tickets
    BY <1>1 DEF CommitItem, UntouchedWhileOpen
  <2>. QED
    BY <1>0, <1>1, <2>2, <2>3, UntouchedStep DEF CommitItem, Finish, Idle, UntouchedWhileOpen
<1>2. CASE CommitSubmit(w)
  <2>1. order'.status # "open"
    BY <1>0, <1>2, SubmitLeavesOpen DEF CommitSubmit, UntouchedWhileOpen
  <2>2. req' = [req EXCEPT ![w] = [pc |-> "idle"]]
    BY <1>2 DEF CommitSubmit, Finish, Idle
  <2>. QED
    BY <1>0, <2>1, <2>2, UntouchedStep
<1>3. CASE SavePatch(w)
  BY <1>3 DEF SavePatch, UntouchedWhileOpen
<1>4. CASE SaveKitchenItem(w)
  <2>1. UNCHANGED <<order, tickets>>
    BY <1>4 DEF SaveKitchenItem
  <2>. QED
    BY <1>0, <1>4, <2>1, UntouchedStep DEF SaveKitchenItem, Continue, Finish, Idle, UntouchedWhileOpen
<1>12. CASE RecalculateKitchen(w)
  <2>1. order'.status = order.status /\ UNCHANGED tickets
    BY <1>0, <1>12 DEF RecalculateKitchen, Order
  <2>. DEFINE copy == [req[w].order EXCEPT !.total = Cost(BillOf(items))]
  <2>2. copy.status = req[w].order.status
    BY <1>0, <1>12 DEF RecalculateKitchen, Order
  <2>3. req' = [req EXCEPT ![w] = [pc |-> "sync", order |-> copy]]
    BY <1>12 DEF RecalculateKitchen, Continue
  <2>. HIDE DEF copy
  <2>4. order.status = "open" => req[w].order.status = "open" /\ \A s \in Stations : tickets[s] = "none"
    BY <1>12 DEF RecalculateKitchen, UntouchedWhileOpen
  <2>5. /\ req'[w].pc = "sync" /\ req'[w].order = copy
        /\ \A v \in Workers \ {w} : req'[v] = req[v]
    BY <1>0, <2>3
  <2>. QED
    BY <2>1, <2>2, <2>4, <2>5, UntouchedStep
<1>5. CASE SaveKitchenTicket(w)
  <2>1. req[w].station \in Stations
    BY <1>0, <1>5, RequestFields DEF SaveKitchenTicket
  <2>2. order' = order
    BY <1>5 DEF SaveKitchenTicket
  <2>3. order.status = "open" => UNCHANGED tickets
    BY <1>5, <2>1 DEF SaveKitchenTicket, UntouchedWhileOpen
  <2>. QED
    BY <1>0, <1>5, <2>2, <2>3, UntouchedStep
       DEF SaveKitchenTicket, Continue, Finish, Idle, UntouchedWhileOpen
<1>6. CASE SyncKitchen(w)
  <2>1. order'.status = "open" => order.status = "open"
    BY <1>0, <1>6, SyncNeverOpens DEF SyncKitchen
  <2>2. order.status = "open" => \A s \in Stations : tickets'[s] = "none"
    BY <1>0, <1>6, SyncNeverOpens DEF SyncKitchen, UntouchedWhileOpen
  <2>3. req' = [req EXCEPT ![w] = [pc |-> "idle"]]
    BY <1>6 DEF SyncKitchen, Finish, Idle
  <2>. QED
    BY <1>0, <2>1, <2>2, <2>3, UntouchedStep
<1>7. CASE RefusePayment(w)
  BY <1>0, <1>7, UntouchedStep DEF RefusePayment, Finish, Idle, rows, UntouchedWhileOpen
<1>8. ASSUME NEW p \in Payments, NEW a \in Amounts, CreatePayment(w, p, a)
      PROVE  UntouchedWhileOpen'
  BY <1>0, <1>8, UntouchedStep DEF CreatePayment, Continue, Finish, Idle, UntouchedWhileOpen
<1>9. ASSUME NEW ok \in BOOLEAN, SaveCharge(w, ok) \/ SaveTerminalResult(w, ok)
      PROVE  UntouchedWhileOpen'
  BY <1>0, <1>9, UntouchedStep
     DEF SaveCharge, SaveTerminalResult, Settle, Continue, Finish, Idle, UntouchedWhileOpen
<1>10. CASE CompletePayment(w)
  <2>1. order'.status = "open" => order.status = "open" /\ UNCHANGED tickets
    BY <1>0, <1>10, SubmitLeavesOpen DEF CompletePayment, OrderStatus, Order
  <2>. QED
    BY <1>0, <1>10, <2>1, UntouchedStep DEF CompletePayment, Continue, Finish, Idle, UntouchedWhileOpen
<1>11. CASE ReleaseTable(w)
  BY <1>0, <1>11, UntouchedStep DEF ReleaseTable, Finish, Idle, UntouchedWhileOpen
<1>. QED
  BY <1>1, <1>2, <1>3, <1>4, <1>5, <1>6, <1>7, <1>8, <1>9, <1>10, <1>11, <1>12 DEF Proceed

(* Until it is submitted an order has no kitchen ticket, however the requests *)
(* overlap and wherever a worker dies, as long as nobody edits the order row  *)
(* through PATCH, which may write an old status back.                         *)
THEOREM KitchenWaits == ASSUME "patch" \notin Kinds PROVE Spec => []NoTicketBeforeSubmission
<1>1. Init => UntouchedWhileOpen
  BY DEF Init, Idle, UntouchedWhileOpen
<1>2. TypeOK /\ UntouchedWhileOpen /\ [Next]_vars => UntouchedWhileOpen'
  <2>1. ASSUME TypeOK, UntouchedWhileOpen, NEW w \in Workers, Crash(w)
        PROVE  UntouchedWhileOpen'
    BY <2>1, UntouchedStep DEF Crash, Finish, Idle, rows, TypeOK, UntouchedWhileOpen
  <2>2. ASSUME UntouchedWhileOpen, UNCHANGED vars
        PROVE  UntouchedWhileOpen'
    BY <2>2 DEF vars, rows, UntouchedWhileOpen
  <2>. QED
    BY <2>1, <2>2, UntouchedStart, UntouchedProceed DEF Next
<1>3. UntouchedWhileOpen => NoTicketBeforeSubmission
  BY DEF UntouchedWhileOpen, NoTicketBeforeSubmission
<1>. QED
  BY <1>1, <1>2, <1>3, Typing, PTL DEF Spec

-----------------------------------------------------------------------------
(***************************************************************************)
(* Charges                                                                 *)
(***************************************************************************)

(* Inductive where no payment is taken through the cashier's terminal: a    *)
(* charge waits for a pending payment of its own, which covers the rest of  *)
(* the order, and a request that completes a payment finds the order paid.  *)
ChargesCover ==
  /\ \A p \in Payments : payments[p].flow # "terminal"
  /\ \A w \in Workers : req[w].pc # "result"
  /\ \A w \in Workers : req[w].pc = "charge" =>
        /\ payments[req[w].pay].status = "pending"
        /\ paid + payments[req[w].pay].amount >= req[w].order.total
  /\ \A v, w \in Workers :
        req[v].pc = "charge" /\ req[w].pc = "charge" /\ req[v].pay = req[w].pay => v = w
  /\ \A w \in Workers : req[w].pc = "complete" => paid >= req[w].order.total

(* Steps that touch neither the payments nor the requests that charge. *)
LEMMA CoverOther ==
  ASSUME ChargesCover, NEW w \in Workers, UNCHANGED <<payments, paid>>,
         \A v \in Workers \ {w} : req'[v] = req[v],
         req'[w].pc \notin {"charge", "result", "complete"}
  PROVE  ChargesCover'
  BY DEF ChargesCover

LEMMA CoverStart ==
  ASSUME TypeOK, ChargesCover, NEW w \in Workers, Start(w)
  PROVE  ChargesCover'
<1>0. req \in [Workers -> Request]
  BY DEF TypeOK
<1>1. ASSUME NEW i, NEW row, ReadForItem(w, i, row)
      PROVE  ChargesCover'
  BY <1>0, <1>1, CoverOther DEF ReadForItem, Serve, rows
<1>2. CASE ReadForSubmit(w)
  BY <1>0, <1>2, CoverOther DEF ReadForSubmit, Serve, rows
<1>3. ASSUME NEW s, ReadForPatch(w, s)
      PROVE  ChargesCover'
  BY <1>0, <1>3, CoverOther DEF ReadForPatch, Serve, rows
<1>4. ASSUME NEW i, NEW s, ReadForKitchenItem(w, i, s)
      PROVE  ChargesCover'
  BY <1>0, <1>4, CoverOther DEF ReadForKitchenItem, Serve, rows
<1>5. ASSUME NEW s, NEW t, ReadForKitchenTicket(w, s, t)
      PROVE  ChargesCover'
  BY <1>0, <1>5, CoverOther DEF ReadForKitchenTicket, Serve, rows
<1>6. ASSUME NEW f, BeginPayment(w, f)
      PROVE  ChargesCover'
  <2>1. UNCHANGED <<payments, paid>> /\ req' = [req EXCEPT ![w] = [pc |-> "pay", order |-> order', flow |-> f]]
    BY <1>6 DEF BeginPayment, Serve
  <2>. QED
    BY <1>0, <2>1, CoverOther
<1>7. ASSUME NEW p \in Payments
      PROVE  ~ReadTerminalResult(w, p)
  BY DEF ReadTerminalResult, ChargesCover
<1>. QED
  BY <1>1, <1>2, <1>3, <1>4, <1>5, <1>6, <1>7 DEF Start, AddItem, UpdateItem, DeleteItem

LEMMA CoverCreate ==
  ASSUME "terminal" \notin Flows, TypeOK, ChargesCover,
         NEW w \in Workers, NEW p \in Payments, NEW a \in Amounts, CreatePayment(w, p, a)
  PROVE  ChargesCover'
<1>0. req[w] \in Request /\ req[w].pc = "pay"
  BY DEF TypeOK, CreatePayment
<1>1. /\ req \in [Workers -> Request] /\ req[w].flow = "charge"
      /\ req[w].order.total \in Nat /\ a \in Nat /\ paid \in Int
  BY <1>0, RequestFields, AmountType DEF TypeOK, Order
<1>2. req' = [req EXCEPT ![w] = [pc |-> "charge", order |-> req[w].order, pay |-> p]]
  BY <1>1 DEF CreatePayment, Continue
<1>3. payments' = [payments EXCEPT ![p] = [status |-> "pending", amount |-> a, flow |-> "charge"]]
  BY <1>1 DEF CreatePayment
<1>4. \A q \in Payments : payments'[q] = IF q = p THEN [status |-> "pending", amount |-> a, flow |-> "charge"]
                                                ELSE payments[q]
  BY <1>3 DEF TypeOK
<1>5. /\ \A v \in Workers \ {w} : req'[v] = req[v]
      /\ req'[w].pc = "charge" /\ req'[w].order = req[w].order /\ req'[w].pay = p
      /\ paid' = paid
      /\ paid + a >= req[w].order.total
  BY <1>1, <1>2 DEF CreatePayment
<1>6. \A v \in Workers \ {w} : req[v].pc = "charge" => req[v].pay \in Payments /\ req[v].pay # p
  BY <1>1, RequestFields DEF ChargesCover, CreatePayment
<1>. QED
  BY <1>4, <1>5, <1>6 DEF ChargesCover

LEMMA CoverSave ==
  ASSUME TypeOK, ChargesCover, NEW w \in Workers, NEW ok \in BOOLEAN, SaveCharge(w, ok)
  PROVE  ChargesCover'
<1>. DEFINE p == req[w].pay
<1>1. /\ req \in [Workers -> Request] /\ p \in Payments /\ paid \in Int
      /\ \A v \in Workers : req[v].pc \in {"charge", "complete"} => req[v].order.total \in Nat
      /\ \A v \in Workers : req[v].pc = "charge" => req[v].pay \in Payments
  BY RequestFields DEF SaveCharge, TypeOK, Order
<1>2. \A q \in Payments : payments[q].amount \in Nat
  BY PaymentFields
<1>3. payments[p].status = "pending"
  BY DEF ChargesCover, SaveCharge
<1>4. /\ payments'[p].flow = payments[p].flow
      /\ \A q \in Payments \ {p} : payments'[q] = payments[q]
      /\ paid' = IF ok THEN paid + payments[p].amount ELSE paid
  BY <1>1, <1>2, <1>3 DEF SaveCharge, Settle, Counted, TypeOK
<1>5. /\ \A v \in Workers \ {w} : req'[v] = req[v]
      /\ IF ok THEN req'[w].pc = "complete" /\ req'[w].order = req[w].order ELSE req'[w].pc = "idle"
  BY <1>1 DEF SaveCharge, Settle, Continue, Finish, Idle
<1>6. \A v \in Workers \ {w} : req[v].pc = "charge" => req[v].pay # p
  BY DEF ChargesCover, SaveCharge
<1>7. paid' >= paid /\ paid' \in Int
  BY <1>1, <1>2, <1>4
<1>8. ok => paid' >= req[w].order.total
  BY <1>4 DEF ChargesCover, SaveCharge
<1>. HIDE DEF p
<1>. QED
  BY <1>1, <1>2, <1>4, <1>5, <1>6, <1>7, <1>8 DEF ChargesCover

LEMMA CoverProceed ==
  ASSUME "terminal" \notin Flows, TypeOK, ChargesCover, NEW w \in Workers, Proceed(w)
  PROVE  ChargesCover'
<1>0. req \in [Workers -> Request]
  BY DEF TypeOK
<1>1. CASE CommitItem(w) \/ CommitSubmit(w) \/ SavePatch(w) \/ SyncKitchen(w) \/ ReleaseTable(w)
  BY <1>0, <1>1, CoverOther
     DEF CommitItem, CommitSubmit, SavePatch, SyncKitchen, ReleaseTable, Finish, Idle
<1>2. CASE SaveKitchenItem(w) \/ RecalculateKitchen(w) \/ SaveKitchenTicket(w)
  <2>1. UNCHANGED <<payments, paid>>
    BY <1>2 DEF SaveKitchenItem, RecalculateKitchen, SaveKitchenTicket
  <2>2. PICK c : \/ req' = [req EXCEPT ![w] = [pc |-> "recalc", order |-> c]]
                 \/ req' = [req EXCEPT ![w] = [pc |-> "sync", order |-> c]]
                 \/ req' = [req EXCEPT ![w] = Idle]
    BY <1>2 DEF SaveKitchenItem, RecalculateKitchen, SaveKitchenTicket, Continue, Finish
  <2>. QED
    BY <1>0, <2>1, <2>2, CoverOther DEF Idle
<1>3. CASE RefusePayment(w)
  BY <1>0, <1>3, CoverOther DEF RefusePayment, Finish, Idle, rows
<1>4. ASSUME NEW ok \in BOOLEAN
      PROVE  ~SaveTerminalResult(w, ok)
  BY DEF SaveTerminalResult, ChargesCover
<1>5. CASE CompletePayment(w)
  <2>1. /\ UNCHANGED <<payments, paid>>
        /\ req' = [req EXCEPT ![w] = [pc |-> "release"]] \/ req' = [req EXCEPT ![w] = Idle]
    BY <1>5 DEF CompletePayment, Continue, Finish
  <2>. QED
    BY <1>0, <2>1, CoverOther DEF Idle
<1>. QED
  BY <1>1, <1>2, <1>3, <1>4, <1>5, CoverCreate, CoverSave DEF Proceed

LEMMA Covering == ASSUME "terminal" \notin Flows PROVE Spec => []ChargesCover
<1>1. Init => ChargesCover
  BY DEF Init, Idle, ChargesCover
<1>2. TypeOK /\ ChargesCover /\ [Next]_vars => ChargesCover'
  <2>1. ASSUME TypeOK, ChargesCover, NEW w \in Workers, Crash(w)
        PROVE  ChargesCover'
    BY <2>1, CoverOther DEF Crash, Finish, Idle, rows, TypeOK
  <2>2. ASSUME ChargesCover, UNCHANGED vars
        PROVE  ChargesCover'
    BY <2>2 DEF vars, rows, ChargesCover
  <2>. QED
    BY <2>1, <2>2, CoverStart, CoverProceed DEF Next
<1>. QED
  BY <1>1, <1>2, Typing, PTL DEF Spec

(* A request whose charge succeeded closes the order as its next step, when *)
(* workers do not die and no other request pays through the terminal: the   *)
(* sum was checked against the total of the copy the request goes on with,  *)
(* and succeeded payments only add up.                                      *)
THEOREM ChargeCloses ==
  ASSUME "terminal" \notin Flows, ~MayCrash PROVE Spec => ChargedMeansClosed
<1>1. TypeOK /\ ChargesCover /\ [Next]_vars
        => [\A w \in Workers : req[w].pc = "complete" /\ req'[w] # req[w] => order'.status = "closed"]_vars
  <2>. SUFFICES ASSUME TypeOK, ChargesCover, Next, NEW w \in Workers,
                        req[w].pc = "complete", req'[w] # req[w]
                 PROVE  order'.status = "closed"
    OBVIOUS
  <2>2. PICK v \in Workers : Start(v) \/ Proceed(v)
    BY DEF Next, Crash
  <2>3. Start(v) => req[v] = Idle
    BY DEF Start, AddItem, UpdateItem, DeleteItem, ReadForItem, ReadForSubmit, ReadForPatch,
           ReadForKitchenItem, ReadForKitchenTicket, BeginPayment, ReadTerminalResult, Serve
  <2>4. \A u \in Workers \ {v} : req'[u] = req[u]
    <3>1. PICK r : req' = [req EXCEPT ![v] = r]
      BY <2>2 DEF Start, AddItem, UpdateItem, DeleteItem, ReadForItem, ReadForSubmit, ReadForPatch,
           ReadForKitchenItem, ReadForKitchenTicket, BeginPayment, ReadTerminalResult, Serve,
           Proceed, CommitItem, CommitSubmit, SavePatch, SaveKitchenItem, RecalculateKitchen, SaveKitchenTicket,
           SyncKitchen, RefusePayment, CreatePayment, SaveCharge, SaveTerminalResult, Settle,
           CompletePayment, ReleaseTable, Continue, Finish
    <3>. QED
      BY <3>1 DEF TypeOK
  <2>5. v = w
    BY <2>4
  <2>. Proceed(w)
    BY <2>2, <2>3, <2>5 DEF Idle
  <2>6. CompletePayment(w)
    BY DEF Proceed, CommitItem, CommitSubmit, SavePatch, SaveKitchenItem, RecalculateKitchen, SaveKitchenTicket,
           SyncKitchen, RefusePayment, CreatePayment, SaveCharge, SaveTerminalResult, ReleaseTable
  <2>7. paid >= req[w].order.total
    BY DEF ChargesCover
  <2>8. SubmittedRow(order, "open", items) \in Order /\ order \in Order
    BY SubmittedRowType DEF TypeOK, OrderStatus
  <2>. QED
    BY <2>6, <2>7, <2>8 DEF CompletePayment, Order
<1>. QED
  BY <1>1, Typing, Covering, PTL DEF Spec, ChargedMeansClosed

(* A payment that has succeeded or failed is never written again, under the *)
(* same condition on the flows; a worker may die anywhere.                  *)
THEOREM OutcomesStand ==
  ASSUME "terminal" \notin Flows PROVE Spec => OutcomeIsFinal
<1>1. TypeOK /\ ChargesCover /\ [Next]_vars
        => [\A p \in Payments : payments[p].status \in {"succeeded", "failed"}
                                   => payments'[p] = payments[p]]_vars
  <2>. SUFFICES ASSUME TypeOK, ChargesCover, Next, NEW q \in Payments,
                        payments[q].status \in {"succeeded", "failed"}
                 PROVE  payments'[q] = payments[q]
    OBVIOUS
  <2>2. CASE UNCHANGED payments
    BY <2>2
  <2>3. ASSUME NEW w \in Workers, NEW p \in Payments, NEW a \in Amounts, CreatePayment(w, p, a)
        PROVE  payments'[q] = payments[q]
    BY <2>3 DEF CreatePayment, TypeOK
  <2>4. ASSUME NEW w \in Workers, NEW ok \in BOOLEAN, SaveCharge(w, ok)
        PROVE  payments'[q] = payments[q]
    BY <2>4 DEF SaveCharge, Settle, ChargesCover, TypeOK
  <2>5. ASSUME NEW w \in Workers, NEW ok \in BOOLEAN
        PROVE  ~SaveTerminalResult(w, ok)
    BY DEF SaveTerminalResult, ChargesCover
  <2>6. ASSUME NEW w \in Workers, Start(w) \/ Crash(w) PROVE UNCHANGED payments
    BY <2>6 DEF Start, AddItem, UpdateItem, DeleteItem, ReadForItem, ReadForSubmit, ReadForPatch,
           ReadForKitchenItem, ReadForKitchenTicket, BeginPayment, ReadTerminalResult, Crash, rows
  <2>7. ASSUME NEW w \in Workers, Proceed(w)
        PROVE  \/ UNCHANGED payments
               \/ \E p \in Payments, a \in Amounts : CreatePayment(w, p, a)
               \/ \E ok \in BOOLEAN : SaveCharge(w, ok) \/ SaveTerminalResult(w, ok)
    BY <2>7 DEF Proceed, CommitItem, CommitSubmit, SavePatch, SaveKitchenItem, RecalculateKitchen, SaveKitchenTicket,
           SyncKitchen, RefusePayment, CompletePayment, ReleaseTable, rows
  <2>. QED
    BY <2>2, <2>3, <2>4, <2>5, <2>6, <2>7 DEF Next
<1>. QED
  BY <1>1, Typing, Covering, PTL DEF Spec, OutcomeIsFinal

-----------------------------------------------------------------------------
(***************************************************************************)
(* The table of a closed order                                             *)
(***************************************************************************)

(* Inductive where workers do not die and the order row is not edited. *)
FreedWhenClosed ==
  /\ Channel = "hall" => session # "none"
  /\ \A w \in Workers : req[w].pc # "patch"
  /\ ClosedFreesTheTable

(* Steps that do not close the order, and end no request that frees a table. *)
LEMMA FreedOther ==
  ASSUME FreedWhenClosed, NEW w \in Workers, UNCHANGED <<session, table>>,
         order'.status = "closed" => order.status = "closed",
         \A v \in Workers \ {w} : req'[v] = req[v],
         req[w].pc # "release", req'[w].pc # "patch"
  PROVE  FreedWhenClosed'
  BY DEF FreedWhenClosed, ClosedFreesTheTable

(* sync and submit_order never close an order. *)
LEMMA SyncNeverCloses ==
  ASSUME NEW ord \in Order, NEW st \in OrderStatus, NEW its
  PROVE  /\ SyncedRow(ord, st, its).status = "closed" => ord.status = "closed"
         /\ SubmittedRow(ord, st, its).status = "closed" => ord.status = "closed"
  BY DEF SubmittedRow, SubmittedStatus, SyncedRow, SyncSaves, SyncedStatus, Order, OrderStatus

LEMMA FreedStart ==
  ASSUME "patch" \notin Kinds, TypeOK, FreedWhenClosed, NEW w \in Workers, Start(w)
  PROVE  FreedWhenClosed'
<1>0. req \in [Workers -> Request]
  BY DEF TypeOK
<1>1. ASSUME NEW i, NEW row, ReadForItem(w, i, row)
      PROVE  FreedWhenClosed'
  BY <1>0, <1>1, FreedOther DEF ReadForItem, Serve, Idle, rows
<1>2. CASE ReadForSubmit(w)
  BY <1>0, <1>2, FreedOther DEF ReadForSubmit, Serve, Idle, rows
<1>3. ASSUME NEW i, NEW s, ReadForKitchenItem(w, i, s)
      PROVE  FreedWhenClosed'
  BY <1>0, <1>3, FreedOther DEF ReadForKitchenItem, Serve, Idle, rows
<1>4. ASSUME NEW s, NEW t, ReadForKitchenTicket(w, s, t)
      PROVE  FreedWhenClosed'
  BY <1>0, <1>4, FreedOther DEF ReadForKitchenTicket, Serve, Idle, rows
<1>5. ASSUME NEW p, ReadTerminalResult(w, p)
      PROVE  FreedWhenClosed'
  BY <1>0, <1>5, FreedOther DEF ReadTerminalResult, Serve, Idle, rows
<1>6. ASSUME NEW f, BeginPayment(w, f)
      PROVE  FreedWhenClosed'
  <2>1. /\ UNCHANGED <<session, table>> /\ req[w] = Idle
        /\ req' = [req EXCEPT ![w] = [pc |-> "pay", order |-> order', flow |-> f]]
    BY <1>6 DEF BeginPayment, Serve
  <2>2. order'.status = "closed" => order.status = "closed"
    BY <1>6, SyncNeverCloses DEF BeginPayment, TypeOK, OrderStatus
  <2>. QED
    BY <1>0, <2>1, <2>2, FreedOther DEF Idle
<1>. QED
  BY <1>1, <1>2, <1>3, <1>4, <1>5, <1>6 DEF Start, AddItem, UpdateItem, DeleteItem

LEMMA FreedProceed ==
  ASSUME TypeOK, FreedWhenClosed, NEW w \in Workers, Proceed(w)
  PROVE  FreedWhenClosed'
<1>0. /\ req \in [Workers -> Request]
      /\ order \in Order
      /\ req[w].pc \notin {"idle", "release"} => req[w].order \in Order /\ req[w].order.status \in OrderStatus
  BY RequestFields DEF TypeOK, Order
<1>1. CASE CommitItem(w)
  <2>1. [order EXCEPT !.total = req[w].bill] \in Order
    BY <1>0, <1>1, RequestFields DEF CommitItem, TypeOK, Order
  <2>2. order'.status = "closed" => order.status = "closed"
    BY <1>0, <1>1, <2>1, SyncNeverCloses DEF CommitItem, Order
  <2>. QED
    BY <1>0, <1>1, <2>2, FreedOther DEF CommitItem, Finish, Idle
<1>2. CASE CommitSubmit(w) \/ SyncKitchen(w)
  <2>1. order'.status = "closed" => order.status = "closed"
    BY <1>0, <1>2, SyncNeverCloses DEF CommitSubmit, SyncKitchen
  <2>2. /\ UNCHANGED <<session, table>> /\ req[w].pc \in {"submit", "sync"}
        /\ req' = [req EXCEPT ![w] = Idle]
    BY <1>2 DEF CommitSubmit, SyncKitchen, Finish
  <2>. QED
    BY <1>0, <2>1, <2>2, FreedOther DEF Idle
<1>3. ~SavePatch(w)
  BY DEF SavePatch, FreedWhenClosed
<1>4. CASE SaveKitchenItem(w) \/ RecalculateKitchen(w) \/ SaveKitchenTicket(w)
  <2>1. /\ UNCHANGED <<session, table>> /\ req[w].pc \in {"kitchenItem", "recalc", "kitchenTicket"}
        /\ order'.status = order.status
    BY <1>0, <1>4 DEF SaveKitchenItem, RecalculateKitchen, SaveKitchenTicket, Order
  <2>2. PICK c : \/ req' = [req EXCEPT ![w] = [pc |-> "recalc", order |-> c]]
                 \/ req' = [req EXCEPT ![w] = [pc |-> "sync", order |-> c]]
                 \/ req' = [req EXCEPT ![w] = Idle]
    BY <1>4 DEF SaveKitchenItem, RecalculateKitchen, SaveKitchenTicket, Continue, Finish
  <2>. QED
    BY <1>0, <2>1, <2>2, FreedOther DEF Idle
<1>5. CASE RefusePayment(w)
  BY <1>0, <1>5, FreedOther DEF RefusePayment, Finish, Idle, rows
<1>6. ASSUME NEW p \in Payments, NEW a \in Amounts, CreatePayment(w, p, a)
      PROVE  FreedWhenClosed'
  BY <1>0, <1>6, FreedOther DEF CreatePayment, Continue, Finish, Idle
<1>7. ASSUME NEW ok \in BOOLEAN, SaveCharge(w, ok) \/ SaveTerminalResult(w, ok)
      PROVE  FreedWhenClosed'
  BY <1>0, <1>7, FreedOther DEF SaveCharge, SaveTerminalResult, Settle, Continue, Finish, Idle
<1>8. CASE CompletePayment(w)
  <2>1. CASE req' = [req EXCEPT ![w] = [pc |-> "release"]]
    <3>1. req'[w].pc = "release" /\ \A v \in Workers : req'[v].pc # "patch"
      BY <1>0, <2>1 DEF FreedWhenClosed
    <3>2. session' = session
      BY <1>8 DEF CompletePayment
    <3>. QED
      BY <3>1, <3>2 DEF FreedWhenClosed, ClosedFreesTheTable
  <2>2. CASE req' # [req EXCEPT ![w] = [pc |-> "release"]]
    <3>1. /\ UNCHANGED <<session, table>> /\ req[w].pc = "complete"
          /\ req' = [req EXCEPT ![w] = Idle]
      BY <1>8, <2>2 DEF CompletePayment, Continue, Finish
    <3>2. CASE paid >= req[w].order.total
      <4>1. session = "none"
        BY <1>8, <2>2, <3>2 DEF CompletePayment, Continue
      <4>2. Channel # "hall"
        BY <4>1 DEF FreedWhenClosed
      <4>3. \A v \in Workers : req'[v].pc # "patch"
        BY <1>0, <3>1 DEF Idle, FreedWhenClosed
      <4>. QED
        BY <4>2, <4>3 DEF FreedWhenClosed, ClosedFreesTheTable
    <3>3. CASE ~(paid >= req[w].order.total)
      <4>1. order'.status = "closed" => order.status = "closed"
        BY <1>0, <1>8, <3>3, SyncNeverCloses DEF CompletePayment, OrderStatus
      <4>. QED
        BY <1>0, <3>1, <4>1, FreedOther DEF Idle
    <3>. QED
      BY <3>2, <3>3
  <2>. QED
    BY <2>1, <2>2
<1>9. CASE ReleaseTable(w)
  BY <1>0, <1>9 DEF ReleaseTable, Finish, Idle, FreedWhenClosed, ClosedFreesTheTable
<1>. QED
  BY <1>1, <1>2, <1>3, <1>4, <1>5, <1>6, <1>7, <1>8, <1>9 DEF Proceed

(* A hall order that is closed has freed its table, or the request that      *)
(* closed it is about to, however many requests overlap.                     *)
THEOREM TablesAreFreed ==
  ASSUME "patch" \notin Kinds, ~MayCrash PROVE Spec => []ClosedFreesTheTable
<1>1. Init => FreedWhenClosed
  BY DEF Init, Idle, FreedWhenClosed, ClosedFreesTheTable
<1>2. TypeOK /\ FreedWhenClosed /\ [Next]_vars => FreedWhenClosed'
  <2>1. ASSUME FreedWhenClosed, UNCHANGED vars
        PROVE  FreedWhenClosed'
    BY <2>1 DEF vars, rows, FreedWhenClosed, ClosedFreesTheTable
  <2>. QED
    BY <2>1, FreedStart, FreedProceed DEF Next, Crash
<1>3. FreedWhenClosed => ClosedFreesTheTable
  BY DEF FreedWhenClosed
<1>. QED
  BY <1>1, <1>2, <1>3, Typing, PTL DEF Spec
-----------------------------------------------------------------------------
(***************************************************************************)
(* One worker, so that requests do not overlap: the copy a request holds   *)
(* is the row, and between the steps of the kitchen's requests the total,  *)
(* the tickets and the status follow from the items.  A worker that dies   *)
(* in a request of the kitchen leaves them behind, so none does.           *)
(***************************************************************************)
Pc(w) == req[w].pc

Copied(w) ==
  /\ Pc(w) \notin {"idle", "release", "patch"} => req[w].order = order
  /\ Pc(w) = "patch" => /\ req[w].order.total = order.total
                        /\ req[w].order.status \in PatchStatuses \union {order.status}
  /\ Pc(w) = "item" => req[w].bill = Cost(BillOf([items EXCEPT ![req[w].item] = req[w].row]))
  /\ Pc(w) = "kitchenTicket" => tickets[req[w].station] # "none"
  /\ Pc(w) \in {"kitchenItem", "kitchenTicket", "recalc", "sync"} => "kitchen" \in Kinds

Totalled(w) == Pc(w) # "recalc" => order.total = Cost(BillOf(items))

(* The order is ready when all of it is done. *)
Ripe(ord, its) == Active(its) # {} /\ ord.status \in {"submitted", "ready"}
                    => (ord.status = "ready" <=> AllDone(its))

Finished == Ripe(order, items)

HasPayment == \E p \in Payments : payments[p].status # "none"

(* A payment of an order that is no takeaway submits it first. *)
PaidIsSubmitted(w) ==
  /\ HasPayment => order.status # "open"
  /\ Pc(w) = "pay" => order.status \in {"submitted", "ready"}
  /\ Pc(w) \in {"charge", "result", "complete"} => HasPayment

(* The order has been in the kitchen, so that tickets are kept for it. *)
InKitchen == order.status \in {"submitted", "ready", "closed"} \/ HasPayment

Shown == InKitchen => \A s \in Stations : tickets[s] = StationStatus(items, s)

Prepared(w) ==
  /\ Pc(w) \notin {"recalc", "sync"} => Finished /\ (Channel # "takeaway" => Shown)
  /\ Channel # "takeaway" => PaidIsSubmitted(w)

(* An order without items costs nothing. *)
LEMMA EmptyBill ==
  ASSUME items = [i \in Items |-> NoRow]
  PROVE  Cost(BillOf(items)) = 0
<1>1. BillOf(items) = [i \in Items |-> 0]
  BY DEF BillOf, Active, NoRow
<1>. QED
  BY <1>1, ConstantsAssumption

(* Neither a submission nor a cook who finishes a ticket changes the price. *)
LEMMA SubmittedRowTotal ==
  ASSUME NEW ord \in Order, NEW st \in OrderStatus, NEW its
  PROVE  SubmittedRow(ord, st, its).total = ord.total
<1>1. SubmittedStatus(st) \in OrderStatus
  BY DEF SubmittedStatus, OrderStatus
<1>2. /\ (IF st = "open" THEN [ord EXCEPT !.status = "submitted"] ELSE ord) \in Order
      /\ (IF st = "open" THEN [ord EXCEPT !.status = "submitted"] ELSE ord).total = ord.total
  BY DEF Order, OrderStatus
<1>. QED
  BY <1>1, <1>2, SyncedRowType DEF SubmittedRow

LEMMA TicketKeepsBill ==
  ASSUME NEW its \in [Items -> Row], NEW s, NEW status \in TicketStatus
  PROVE  BillOf([i \in Items |-> IF i \in AtStation(its, s) THEN [its[i] EXCEPT !.status = status]
                                                            ELSE its[i]]) = BillOf(its)
<1> DEFINE new == [i \in Items |-> IF i \in AtStation(its, s) THEN [its[i] EXCEPT !.status = status]
                                                               ELSE its[i]]
<1>1. ASSUME NEW i \in Items
      PROVE  new[i].qty = its[i].qty /\ (i \in Active(new) <=> i \in Active(its))
  BY <1>1 DEF AtStation, Active, Row, TicketStatus
<1> HIDE DEF new
<1>2. BillOf(new) = BillOf(its)
  BY <1>1 DEF BillOf
<1>. QED
  BY <1>2 DEF new

OneByOne(w) ==
  /\ TypeOK
  /\ Copied(w)
  /\ Totalled(w)

InTurn(w) == Workers = {w} /\ (MayCrash => "kitchen" \notin Kinds)

(* A request is begun, and no row is written. *)
LEMMA Served ==
  ASSUME NEW w, InTurn(w), OneByOne(w), NEW r, Serve(w, r), UNCHANGED rows
  PROVE  /\ Pc(w) = "idle" /\ req'[w] = r /\ Pc(w)' = r.pc
         /\ order.total = Cost(BillOf(items)) /\ order' = order /\ items' = items
         /\ Totalled(w)'
<1>1. Pc(w) = "idle" /\ req'[w] = r /\ Pc(w)' = r.pc
  BY DEF Serve, InTurn, OneByOne, TypeOK, Pc, Idle
<1>2. order.total = Cost(BillOf(items))
  BY <1>1 DEF OneByOne, Totalled
<1>. QED
  BY <1>1, <1>2 DEF rows, Totalled

LEMMA ItemServed ==
  ASSUME NEW w, InTurn(w), OneByOne(w), NEW i \in Items, NEW row \in Row, ReadForItem(w, i, row)
  PROVE  Copied(w)' /\ Totalled(w)'
<1> DEFINE bill == Cost(BillOf([items EXCEPT ![i] = row]))
<1>1. PICK r : r = [pc |-> "item", order |-> order, item |-> i, row |-> row, bill |-> bill]
  OBVIOUS
<1>2. Serve(w, r) /\ UNCHANGED rows
  BY <1>1 DEF ReadForItem
<1>3. r.pc = "item" /\ r.order = order /\ r.item = i /\ r.row = row /\ r.bill = bill
  BY <1>1
<1>4. Pc(w)' = "item" /\ req'[w] = r /\ order' = order /\ items' = items /\ Totalled(w)'
  BY <1>2, <1>3, Served
<1>5. bill' = bill
  BY <1>4
<1>. QED
  BY <1>3, <1>4, <1>5 DEF Copied

LEMMA StartServed ==
  ASSUME NEW w, InTurn(w), OneByOne(w), Start(w)
  PROVE  Copied(w)' /\ Totalled(w)'
<1>1. ASSUME NEW i \in Items, NEW row \in Row, AddItem(w, i, row) \/ UpdateItem(w, i, row)
      PROVE  Copied(w)' /\ Totalled(w)'
  BY <1>1, ItemServed DEF AddItem, UpdateItem
<1>2. ASSUME NEW i \in Items, DeleteItem(w, i)
      PROVE  Copied(w)' /\ Totalled(w)'
  <2>1. NoRow \in Row
    BY ConstantsAssumption DEF NoRow, Row, ItemStatus
  <2>. QED
    BY <1>2, <2>1, ItemServed DEF DeleteItem
<1>3. CASE ReadForSubmit(w)
  <2>1. PICK r : r = [pc |-> "submit", order |-> order]
    OBVIOUS
  <2>2. Serve(w, r) /\ UNCHANGED rows /\ r.pc = "submit" /\ r.order = order
    BY <1>3, <2>1 DEF ReadForSubmit
  <2>3. Pc(w)' = "submit" /\ req'[w] = r /\ order' = order /\ Totalled(w)'
    BY <2>2, Served
  <2>. QED
    BY <2>2, <2>3 DEF Copied
<1>4. ASSUME NEW status \in OrderStatus, ReadForPatch(w, status)
      PROVE  Copied(w)' /\ Totalled(w)'
  <2>1. PICK r : r = [pc |-> "patch", order |-> [order EXCEPT !.status = status]]
    OBVIOUS
  <2>2. Serve(w, r) /\ UNCHANGED rows /\ r.pc = "patch" /\ status \in PatchStatuses \union {order.status}
    BY <1>4, <2>1 DEF ReadForPatch
  <2>3. r.order.total = order.total /\ r.order.status = status
    BY <2>1 DEF OneByOne, TypeOK, Order
  <2>4. Pc(w)' = "patch" /\ req'[w] = r /\ order' = order /\ Totalled(w)'
    BY <2>2, Served
  <2>. QED
    BY <2>2, <2>3, <2>4 DEF Copied
<1>5. ASSUME "kitchen" \in Kinds, NEW i \in Items, NEW status, ReadForKitchenItem(w, i, status)
      PROVE  Copied(w)' /\ Totalled(w)'
  <2>1. PICK r : r = [pc |-> "kitchenItem", order |-> order, item |-> i, status |-> status]
    OBVIOUS
  <2>2. Serve(w, r) /\ UNCHANGED rows /\ r.pc = "kitchenItem" /\ r.order = order
    BY <1>5, <2>1 DEF ReadForKitchenItem
  <2>3. Pc(w)' = "kitchenItem" /\ req'[w] = r /\ order' = order /\ Totalled(w)'
    BY <2>2, Served
  <2>. QED
    BY <1>5, <2>2, <2>3 DEF Copied
<1>6. ASSUME "kitchen" \in Kinds, NEW s \in Stations, NEW status, ReadForKitchenTicket(w, s, status)
      PROVE  Copied(w)' /\ Totalled(w)'
  <2>1. PICK r : r = [pc |-> "kitchenTicket", order |-> order, station |-> s, status |-> status]
    OBVIOUS
  <2>2. /\ Serve(w, r) /\ UNCHANGED rows /\ r.pc = "kitchenTicket" /\ r.order = order
        /\ r.station = s /\ tickets[s] # "none"
    BY <1>6, <2>1 DEF ReadForKitchenTicket
  <2>3. Pc(w)' = "kitchenTicket" /\ req'[w] = r /\ order' = order /\ Totalled(w)'
    BY <2>2, Served
  <2>4. tickets' = tickets
    BY <2>2 DEF rows
  <2>. QED
    BY <1>6, <2>2, <2>3, <2>4 DEF Copied
<1>7. ASSUME NEW flow \in Flows, BeginPayment(w, flow)
      PROVE  Copied(w)' /\ Totalled(w)'
  <2>1. PICK r : r = [pc |-> "pay", order |-> order', flow |-> flow]
    OBVIOUS
  <2>2. Serve(w, r) /\ items' = items /\ r.pc = "pay" /\ r.order = order'
    BY <1>7, <2>1 DEF BeginPayment
  <2>3. Pc(w) = "idle" /\ req'[w] = r
    BY <2>2 DEF Serve, InTurn, OneByOne, TypeOK, Pc, Idle
  <2>4. order'.total = order.total
    <3>1. order \in Order
      BY DEF OneByOne, TypeOK
    <3>2. order' = order \/ order' = SubmittedRow(order, "open", items)
      BY <1>7 DEF BeginPayment
    <3>. QED
      BY <3>1, <3>2, SubmittedRowTotal DEF OrderStatus
  <2>5. order.total = Cost(BillOf(items))
    BY <2>3 DEF OneByOne, Totalled
  <2>6. Pc(w)' = "pay"
    BY <2>2, <2>3 DEF Pc
  <2>. QED
    BY <2>2, <2>3, <2>4, <2>5, <2>6 DEF Copied, Totalled
<1>8. ASSUME NEW p \in Payments, ReadTerminalResult(w, p)
      PROVE  Copied(w)' /\ Totalled(w)'
  <2>1. PICK r : r = [pc |-> "result", order |-> order, pay |-> p]
    OBVIOUS
  <2>2. Serve(w, r) /\ UNCHANGED rows /\ r.pc = "result" /\ r.order = order
    BY <1>8, <2>1 DEF ReadTerminalResult
  <2>3. Pc(w)' = "result" /\ req'[w] = r /\ order' = order /\ Totalled(w)'
    BY <2>2, Served
  <2>. QED
    BY <2>2, <2>3 DEF Copied
<1>. QED
  BY <1>1, <1>2, <1>3, <1>4, <1>5, <1>6, <1>7, <1>8 DEF Start, OrderStatus

(* A request ends after a step that leaves the total the price of the items. *)
LEMMA Ended ==
  ASSUME NEW w, InTurn(w), OneByOne(w), Finish(w), order'.total = Cost(BillOf(items'))
  PROVE  Copied(w)' /\ Totalled(w)'
<1>1. req'[w] = Idle /\ Pc(w)' = "idle"
  BY DEF Finish, InTurn, OneByOne, TypeOK, Pc, Idle
<1>. QED
  BY <1>1 DEF Copied, Totalled

(* A request goes on with the order as it is, and the total is right. *)
LEMMA WentOn ==
  ASSUME NEW w, InTurn(w), OneByOne(w), NEW r, Continue(w, r),
         r.pc \in {"charge", "complete", "release"} \/ (r.pc = "sync" /\ "kitchen" \in Kinds),
         r.pc # "release" => r.order = order',
         order'.total = Cost(BillOf(items'))
  PROVE  Copied(w)' /\ Totalled(w)'
<1>1. req'[w] = r
  BY DEF Continue, InTurn, OneByOne, TypeOK
<1>2. Pc(w)' = r.pc
  BY <1>1 DEF Pc
<1>. QED
  BY <1>1, <1>2 DEF Copied, Totalled

LEMMA ProceedServed ==
  ASSUME NEW w, InTurn(w), OneByOne(w), Proceed(w)
  PROVE  Copied(w)' /\ Totalled(w)'
<1>0. /\ order \in Order /\ items \in [Items -> Row]
      /\ Pc(w) \notin {"idle", "release", "patch"} => req[w].order = order
      /\ Pc(w) # "recalc" => order.total = Cost(BillOf(items))
      /\ req[w] \in Request
  BY DEF OneByOne, TypeOK, Copied, Totalled, InTurn
<1>1. CASE CommitItem(w)
  <2>1. Pc(w) = "item" /\ Finish(w)
    BY <1>1 DEF CommitItem, Pc
  <2>2. items' = [items EXCEPT ![req[w].item] = req[w].row]
    BY <1>1 DEF CommitItem
  <2>3. order'.total = req[w].bill
    <3>1. req[w].bill \in Nat /\ req[w].order.status \in OrderStatus
      BY <1>0, <2>1, RequestFields DEF Pc, Order
    <3>2. PICK ord : ord = [order EXCEPT !.total = req[w].bill]
      OBVIOUS
    <3>3. ord \in Order /\ ord.total = req[w].bill
      BY <1>0, <3>1, <3>2 DEF Order
    <3>4. \/ order' = ord
          \/ \E its : order' = SyncedRow(ord, req[w].order.status, its)
      BY <1>1, <3>2, Zenon DEF CommitItem
    <3>. QED
      BY <3>1, <3>3, <3>4, SyncedRowType
  <2>4. req[w].bill = Cost(BillOf([items EXCEPT ![req[w].item] = req[w].row]))
    BY <2>1 DEF OneByOne, Copied
  <2>. QED
    BY <2>1, <2>2, <2>3, <2>4, Ended
<1>2. CASE CommitSubmit(w)
  <2>1. Pc(w) = "submit" /\ Finish(w) /\ items' = items
    BY <1>2 DEF CommitSubmit, Pc
  <2>2. order' = SubmittedRow(order, order.status, items)
    BY <1>0, <1>2, <2>1 DEF CommitSubmit
  <2>. QED
    BY <1>0, <2>1, <2>2, SubmittedRowTotal, Ended DEF Order
<1>3. CASE SavePatch(w)
  <2>1. Pc(w) = "patch" /\ Finish(w) /\ items' = items /\ order' = req[w].order
    BY <1>3 DEF SavePatch, Pc
  <2>. QED
    BY <1>0, <2>1, Ended DEF OneByOne, Copied
<1>4. CASE SaveKitchenItem(w)
  <2>1. Pc(w) = "kitchenItem" /\ order' = order /\ "kitchen" \in Kinds
    BY <1>4 DEF SaveKitchenItem, Pc, OneByOne, Copied
  <2>2. CASE Finish(w) /\ items' = items
    BY <1>0, <2>1, <2>2, Ended
  <2>3. CASE Continue(w, [pc |-> "recalc", order |-> req[w].order])
    <3>1. PICK r : r = [pc |-> "recalc", order |-> req[w].order]
      OBVIOUS
    <3>2. req'[w] = r /\ r.pc = "recalc" /\ r.order = req[w].order
      BY <2>3, <3>1 DEF Continue, InTurn, OneByOne, TypeOK
    <3>3. Pc(w)' = "recalc"
      BY <3>2 DEF Pc
    <3>. QED
      BY <1>0, <2>1, <3>2, <3>3 DEF Copied, Totalled
  <2>. QED
    BY <1>4, <2>2, <2>3 DEF SaveKitchenItem
<1>5. CASE RecalculateKitchen(w)
  <2> DEFINE bill == Cost(BillOf(items))
  <2>1. Pc(w) = "recalc" /\ "kitchen" \in Kinds /\ items' = items
    BY <1>5 DEF RecalculateKitchen, Pc, OneByOne, Copied
  <2>2. PICK r : r = [pc |-> "sync", order |-> [order EXCEPT !.total = bill]]
    OBVIOUS
  <2>3. Continue(w, r) /\ order' = [order EXCEPT !.total = bill]
    BY <1>0, <1>5, <2>1, <2>2 DEF RecalculateKitchen
  <2>4. r.pc = "sync" /\ r.order = order' /\ order'.total = bill
    BY <1>0, <2>2, <2>3 DEF Order
  <2>. QED
    BY <2>1, <2>3, <2>4, WentOn
<1>6. CASE SaveKitchenTicket(w)
  <2>1. /\ Pc(w) = "kitchenTicket" /\ "kitchen" \in Kinds /\ order' = order
        /\ tickets[req[w].station] # "none"
    BY <1>6 DEF SaveKitchenTicket, Pc, OneByOne, Copied
  <2>2. /\ req[w].status \in TicketStatus
        /\ items' = [i \in Items |-> IF i \in AtStation(items, req[w].station)
                                     THEN [items[i] EXCEPT !.status = req[w].status] ELSE items[i]]
    BY <1>0, <1>6, <2>1, RequestFields DEF SaveKitchenTicket, Pc
  <2>3. BillOf(items') = BillOf(items)
    BY <1>0, <2>2, TicketKeepsBill
  <2>4. PICK r : r = [pc |-> "sync", order |-> req[w].order]
    OBVIOUS
  <2>5. Continue(w, r) /\ r.pc = "sync" /\ r.order = order'
    BY <1>0, <1>6, <2>1, <2>4 DEF SaveKitchenTicket
  <2>. QED
    BY <1>0, <2>1, <2>3, <2>5, WentOn
<1>7. CASE SyncKitchen(w)
  <2>1. Pc(w) = "sync" /\ Finish(w) /\ items' = items
    BY <1>7 DEF SyncKitchen, Pc
  <2>2. order' = SyncedRow(order, order.status, items)
    BY <1>0, <1>7, <2>1 DEF SyncKitchen
  <2>. QED
    BY <1>0, <2>1, <2>2, SyncedRowType, Ended DEF Order
<1>8. CASE RefusePayment(w)
  <2>1. Pc(w) = "pay" /\ Finish(w) /\ order' = order /\ items' = items
    BY <1>8 DEF RefusePayment, Pc, rows
  <2>. QED
    BY <1>0, <2>1, Ended
<1>9. ASSUME NEW p \in Payments, NEW a \in Amounts, CreatePayment(w, p, a)
      PROVE  Copied(w)' /\ Totalled(w)'
  <2>1. Pc(w) = "pay" /\ order' = order /\ items' = items
    BY <1>9 DEF CreatePayment, Pc
  <2>2. PICK r : r = [pc |-> "charge", order |-> req[w].order, pay |-> p]
    OBVIOUS
  <2>3. Finish(w) \/ Continue(w, r)
    BY <1>9, <2>2 DEF CreatePayment
  <2>4. r.pc = "charge" /\ r.order = order'
    BY <1>0, <2>1, <2>2
  <2>. QED
    BY <1>0, <2>1, <2>3, <2>4, Ended, WentOn
<1>10. ASSUME NEW ok \in BOOLEAN, SaveCharge(w, ok) \/ SaveTerminalResult(w, ok)
       PROVE  Copied(w)' /\ Totalled(w)'
  <2>1. Pc(w) \in {"charge", "result"} /\ order' = order /\ items' = items
    BY <1>10 DEF SaveCharge, SaveTerminalResult, Settle, Pc
  <2>2. PICK r : r = [pc |-> "complete", order |-> req[w].order]
    OBVIOUS
  <2>3. Finish(w) \/ Continue(w, r)
    BY <1>10, <2>2 DEF SaveCharge, SaveTerminalResult, Settle
  <2>4. r.pc = "complete" /\ r.order = order'
    BY <1>0, <2>1, <2>2
  <2>. QED
    BY <1>0, <2>1, <2>3, <2>4, Ended, WentOn
<1>11. CASE CompletePayment(w)
  <2>1. Pc(w) = "complete" /\ items' = items
    BY <1>11 DEF CompletePayment, Pc
  <2>2. PICK r : r = [pc |-> "release"]
    OBVIOUS
  <2>3. (Finish(w) \/ Continue(w, r)) /\ r.pc = "release"
    BY <1>11, <2>2 DEF CompletePayment
  <2>4. PICK ord : /\ ord = order \/ ord = SubmittedRow(order, "open", items)
                   /\ order' = ord \/ order' = [ord EXCEPT !.status = "closed"]
    BY <1>11, Zenon DEF CompletePayment
  <2>5. ord \in Order /\ ord.total = order.total
    BY <1>0, <2>4, SubmittedRowType, SubmittedRowTotal DEF OrderStatus
  <2>6. order'.total = order.total
    BY <2>4, <2>5 DEF Order
  <2>. QED
    BY <1>0, <2>1, <2>3, <2>6, Ended, WentOn
<1>12. CASE ReleaseTable(w)
  <2>1. Pc(w) = "release" /\ Finish(w) /\ order' = order /\ items' = items
    BY <1>12 DEF ReleaseTable, Pc
  <2>. QED
    BY <1>0, <2>1, Ended
<1>. QED
  BY <1>1, <1>2, <1>3, <1>4, <1>5, <1>6, <1>7, <1>8, <1>9, <1>10, <1>11, <1>12 DEF Proceed

LEMMA OneByOneStep == ASSUME NEW w, InTurn(w), OneByOne(w), [Next]_vars PROVE OneByOne(w)'
<1>1. TypeOK'
  BY NextType DEF OneByOne
<1>2. CASE Start(w)
  BY <1>1, <1>2, StartServed DEF OneByOne
<1>3. CASE Proceed(w)
  BY <1>1, <1>3, ProceedServed DEF OneByOne
<1>4. CASE Crash(w)
  <2>1. Pc(w) # "recalc"
    BY <1>4 DEF Crash, InTurn, OneByOne, Copied
  <2>2. order'.total = Cost(BillOf(items')) /\ Finish(w)
    BY <1>4, <2>1 DEF Crash, rows, OneByOne, Totalled
  <2>. QED
    BY <1>1, <2>2, Ended DEF OneByOne
<1>5. CASE UNCHANGED vars
  BY <1>1, <1>5 DEF vars, rows, OneByOne, Copied, Totalled, Pc
<1>. QED
  BY <1>2, <1>3, <1>4, <1>5 DEF Next, InTurn

LEMMA OneByOneInit == ASSUME NEW w, InTurn(w), Init PROVE OneByOne(w)
<1>1. TypeOK
  BY InitType
<1>2. Pc(w) = "idle"
  BY DEF Init, Pc, Idle, InTurn
<1>3. Cost(BillOf(items)) = 0
  BY EmptyBill DEF Init
<1>. QED
  BY <1>1, <1>2, <1>3 DEF Init, OneByOne, Copied, Totalled

(* sync leaves the status and the tickets as the items are. *)
LEMMA SyncShows ==
  ASSUME NEW ord \in Order, NEW its
  PROVE  /\ Ripe(SyncedRow(ord, ord.status, its), its)
         /\ SyncedRow(ord, ord.status, its).status = "open" <=> ord.status = "open"
         /\ ord.status # "open" => \A s \in Stations : SyncedTickets(ord.status, its)[s] = StationStatus(its, s)
  BY DEF Ripe, SyncedRow, SyncSaves, SyncedStatus, SyncedTickets, Order, OrderStatus

LEMMA SubmitShows ==
  ASSUME NEW ord \in Order, NEW its
  PROVE  /\ Ripe(SubmittedRow(ord, ord.status, its), its)
         /\ SubmittedRow(ord, ord.status, its).status # "open"
         /\ ord.status = "open" => SubmittedRow(ord, ord.status, its).status \in {"submitted", "ready"}
         /\ \A s \in Stations : SyncedTickets(SubmittedStatus(ord.status), its)[s] = StationStatus(its, s)
<1>1. PICK new : new = IF ord.status = "open" THEN [ord EXCEPT !.status = "submitted"] ELSE ord
  OBVIOUS
<1>2. new \in Order /\ new.status = SubmittedStatus(ord.status) /\ new.status # "open"
  BY <1>1 DEF SubmittedStatus, Order, OrderStatus
<1>3. SubmittedRow(ord, ord.status, its) = SyncedRow(new, new.status, its)
  BY <1>1, <1>2 DEF SubmittedRow
<1>4. ord.status = "open" => SyncedRow(new, new.status, its).status \in {"submitted", "ready"}
  BY <1>1, <1>2 DEF SyncedRow, SyncSaves, SyncedStatus, SubmittedStatus, Order, OrderStatus
<1>. QED
  BY <1>2, <1>3, <1>4, SyncShows

(* A step that leaves the items, the tickets and the status alone. *)
LEMMA KitchenKept ==
  ASSUME NEW w, Prepared(w), Pc(w) \notin {"recalc", "sync"},
         items' = items, tickets' = tickets, payments' = payments, order'.status = order.status
  PROVE  /\ Finished' /\ (Channel # "takeaway" => Shown')
         /\ Channel # "takeaway" => (HasPayment' => order'.status # "open")
<1>1. Finished /\ (Channel # "takeaway" => Shown) /\ (Channel # "takeaway" => (HasPayment => order.status # "open"))
  BY DEF Prepared, PaidIsSubmitted
<1>2. Finished'
  BY <1>1 DEF Finished, Ripe
<1>3. HasPayment' = HasPayment
  BY DEF HasPayment
<1>4. Shown => Shown'
  BY <1>3 DEF Shown, InKitchen
<1>. QED
  BY <1>1, <1>2, <1>3, <1>4

(* A step that leaves status and tickets as the items are. *)
LEMMA KitchenSynced ==
  ASSUME NEW w, Ripe(order', items'), order'.status # "open",
         \A s \in Stations : tickets'[s] = StationStatus(items', s),
         Channel # "takeaway" => (Pc(w)' = "pay" => order'.status \in {"submitted", "ready"}),
         Channel # "takeaway" => (Pc(w)' \in {"charge", "result", "complete"} => HasPayment')
  PROVE  Prepared(w)'
<1>1. Finished' /\ Shown'
  BY DEF Finished, Shown
<1>. QED
  BY <1>1 DEF Prepared, PaidIsSubmitted

LEMMA StartPrepared ==
  ASSUME NEW w, InTurn(w), OneByOne(w), Prepared(w), Start(w)
  PROVE  Prepared(w)'
<1>0. order \in Order
  BY DEF OneByOne, TypeOK
<1>1. ASSUME NEW r, Serve(w, r), UNCHANGED rows, r.pc \notin {"pay", "charge", "complete"},
             r.pc = "result" => HasPayment
      PROVE  Prepared(w)'
  <2>1. Pc(w) = "idle" /\ Pc(w)' = r.pc
    BY <1>1, Served
  <2>2. items' = items /\ tickets' = tickets /\ payments' = payments /\ order' = order
    BY <1>1 DEF rows
  <2>3. HasPayment => HasPayment'
    BY <2>2 DEF HasPayment
  <2>. QED
    BY <1>1, <2>1, <2>2, <2>3, KitchenKept DEF Prepared, PaidIsSubmitted
<1>2. ASSUME NEW i, NEW row, ReadForItem(w, i, row)
      PROVE  Prepared(w)'
  <2>1. PICK r : r = [pc |-> "item", order |-> order, item |-> i, row |-> row,
                      bill |-> Cost(BillOf([items EXCEPT ![i] = row]))]
    OBVIOUS
  <2>. QED
    BY <1>1, <1>2, <2>1 DEF ReadForItem
<1>3. CASE ReadForSubmit(w)
  <2>1. PICK r : r = [pc |-> "submit", order |-> order]
    OBVIOUS
  <2>. QED
    BY <1>1, <1>3, <2>1 DEF ReadForSubmit
<1>4. ASSUME NEW status \in OrderStatus, ReadForPatch(w, status)
      PROVE  Prepared(w)'
  <2>1. PICK r : r = [pc |-> "patch", order |-> [order EXCEPT !.status = status]]
    OBVIOUS
  <2>. QED
    BY <1>1, <1>4, <2>1 DEF ReadForPatch
<1>5. ASSUME NEW i, NEW status, ReadForKitchenItem(w, i, status)
      PROVE  Prepared(w)'
  <2>1. PICK r : r = [pc |-> "kitchenItem", order |-> order, item |-> i, status |-> status]
    OBVIOUS
  <2>. QED
    BY <1>1, <1>5, <2>1 DEF ReadForKitchenItem
<1>6. ASSUME NEW s, NEW status, ReadForKitchenTicket(w, s, status)
      PROVE  Prepared(w)'
  <2>1. PICK r : r = [pc |-> "kitchenTicket", order |-> order, station |-> s, status |-> status]
    OBVIOUS
  <2>. QED
    BY <1>1, <1>6, <2>1 DEF ReadForKitchenTicket
<1>7. ASSUME NEW flow \in Flows, BeginPayment(w, flow)
      PROVE  Prepared(w)'
  <2>1. PICK r : r = [pc |-> "pay", order |-> order', flow |-> flow]
    OBVIOUS
  <2>2. Serve(w, r) /\ r.pc = "pay" /\ items' = items /\ payments' = payments /\ order.status \in Mutable
    BY <1>7, <2>1 DEF BeginPayment
  <2>3. Pc(w) = "idle" /\ Pc(w)' = "pay"
    BY <2>2 DEF Serve, InTurn, OneByOne, TypeOK, Pc, Idle
  <2>4. CASE order.status = "open" /\ Channel # "takeaway"
    <3>1. order' = SubmittedRow(order, "open", items) /\ tickets' = SyncedTickets("submitted", items)
      BY <1>7, <2>4 DEF BeginPayment
    <3>2. SubmittedStatus(order.status) = "submitted"
      BY <2>4 DEF SubmittedStatus
    <3>. QED
      BY <1>0, <2>2, <2>3, <2>4, <3>1, <3>2, SubmitShows, KitchenSynced
  <2>5. CASE ~(order.status = "open" /\ Channel # "takeaway")
    <3>1. order' = order /\ tickets' = tickets
      BY <1>7, <2>5 DEF BeginPayment
    <3>2. Channel # "takeaway" => order'.status \in {"submitted", "ready"}
      BY <2>2, <2>5, <3>1 DEF Mutable
    <3>. QED
      BY <2>2, <2>3, <3>1, <3>2, KitchenKept DEF Prepared, PaidIsSubmitted
  <2>. QED
    BY <2>4, <2>5
<1>8. ASSUME NEW p \in Payments, ReadTerminalResult(w, p)
      PROVE  Prepared(w)'
  <2>1. PICK r : r = [pc |-> "result", order |-> order, pay |-> p]
    OBVIOUS
  <2>2. HasPayment
    BY <1>8 DEF ReadTerminalResult, HasPayment
  <2>. QED
    BY <1>1, <1>8, <2>1, <2>2 DEF ReadTerminalResult
<1>. QED
  BY <1>2, <1>3, <1>4, <1>5, <1>6, <1>7, <1>8 DEF Start, AddItem, UpdateItem, DeleteItem

(* A request ends, or goes on to a step that is no payment's. *)
LEMMA Ending ==
  ASSUME NEW w, InTurn(w), OneByOne(w)
  PROVE  /\ Finish(w) => Pc(w)' = "idle"
         /\ \A r : Continue(w, r) => Pc(w)' = r.pc
  BY DEF Finish, Continue, InTurn, OneByOne, TypeOK, Pc, Idle

LEMMA ProceedPrepared ==
  ASSUME NEW w, InTurn(w), OneByOne(w), Prepared(w), PatchStatuses \subseteq {"cancelled"}, Proceed(w)
  PROVE  Prepared(w)'
<1>0. /\ order \in Order
      /\ Pc(w) \notin {"idle", "release", "patch"} => req[w].order = order
      /\ Channel # "takeaway" => PaidIsSubmitted(w)
      /\ req[w] \in Request
  BY DEF OneByOne, TypeOK, Copied, InTurn, Prepared
<1>1. CASE CommitItem(w)
  <2>1. Pc(w) = "item" /\ Pc(w)' = "idle" /\ req[w].order = order /\ payments' = payments
    BY <1>0, <1>1, Ending DEF CommitItem, Pc
  <2>2. req[w].bill \in Nat
    BY <1>0, <2>1, RequestFields DEF Pc
  <2>3. PICK ord : ord = [order EXCEPT !.total = req[w].bill]
    OBVIOUS
  <2>4. ord \in Order /\ ord.status = order.status
    BY <1>0, <2>2, <2>3 DEF Order
  <2>5. CASE order.status = "open"
    <3>1. order'.status = "open"
      BY <1>1, <2>1, <2>3, <2>4, <2>5 DEF CommitItem
    <3>2. HasPayment' = HasPayment
      BY <2>1 DEF HasPayment
    <3>3. Finished'
      BY <3>1 DEF Finished, Ripe
    <3>4. Channel # "takeaway" => ~HasPayment
      BY <1>0, <2>5 DEF PaidIsSubmitted
    <3>. QED
      BY <2>1, <3>1, <3>2, <3>3, <3>4 DEF Prepared, PaidIsSubmitted, Shown, InKitchen
  <2>6. CASE order.status # "open"
    <3>1. /\ order' = SyncedRow(ord, ord.status, items')
          /\ tickets' = SyncedTickets(ord.status, items')
      BY <1>1, <2>1, <2>3, <2>4, <2>6 DEF CommitItem
    <3>. QED
      BY <2>1, <2>4, <2>6, <3>1, SyncShows, KitchenSynced
  <2>. QED
    BY <2>5, <2>6
<1>2. CASE CommitSubmit(w)
  <2>1. Pc(w) = "submit" /\ Pc(w)' = "idle" /\ req[w].order = order /\ items' = items
    BY <1>0, <1>2, Ending DEF CommitSubmit, Pc
  <2>2. /\ order' = SubmittedRow(order, order.status, items')
        /\ tickets' = SyncedTickets(SubmittedStatus(order.status), items')
    BY <1>2, <2>1 DEF CommitSubmit
  <2>. QED
    BY <1>0, <2>1, <2>2, SubmitShows, KitchenSynced
<1>3. CASE SavePatch(w)
  <2>1. /\ Pc(w) = "patch" /\ Pc(w)' = "idle" /\ order' = req[w].order
        /\ items' = items /\ tickets' = tickets /\ payments' = payments
    BY <1>3, Ending DEF SavePatch, Pc
  <2>2. order'.status \in {"cancelled", order.status}
    BY <2>1 DEF OneByOne, Copied
  <2>3. CASE order'.status = order.status
    BY <2>1, <2>3, KitchenKept DEF Prepared, PaidIsSubmitted
  <2>4. CASE order'.status = "cancelled"
    <3>1. HasPayment' = HasPayment
      BY <2>1 DEF HasPayment
    <3>2. Channel # "takeaway" => Shown
      BY <2>1 DEF Prepared
    <3>3. Shown => Shown'
      BY <2>1, <2>4, <3>1 DEF Shown, InKitchen
    <3>4. Finished'
      BY <2>4 DEF Finished, Ripe
    <3>. QED
      BY <2>1, <2>4, <3>2, <3>3, <3>4 DEF Prepared, PaidIsSubmitted
  <2>. QED
    BY <2>2, <2>3, <2>4
<1>4. CASE SaveKitchenItem(w)
  <2>1. Pc(w) = "kitchenItem" /\ order' = order /\ payments' = payments /\ tickets' = tickets
    BY <1>4 DEF SaveKitchenItem, Pc
  <2>2. HasPayment' = HasPayment
    BY <2>1 DEF HasPayment
  <2>3. CASE Finish(w) /\ items' = items
    BY <2>1, <2>3, Ending, KitchenKept DEF Prepared, PaidIsSubmitted
  <2>4. CASE Continue(w, [pc |-> "recalc", order |-> req[w].order])
    <3>1. Pc(w)' = "recalc"
      BY <2>4, Ending
    <3>. QED
      BY <1>0, <2>1, <2>2, <3>1 DEF Prepared, PaidIsSubmitted
  <2>. QED
    BY <1>4, <2>3, <2>4 DEF SaveKitchenItem
<1>5. CASE RecalculateKitchen(w)
  <2>1. payments' = payments /\ order'.status = order.status
    BY <1>0, <1>5 DEF RecalculateKitchen, Order
  <2>2. Pc(w)' = "sync"
    BY <1>5, Ending DEF RecalculateKitchen
  <2>3. HasPayment' = HasPayment
    BY <2>1 DEF HasPayment
  <2>. QED
    BY <1>0, <2>1, <2>2, <2>3 DEF Prepared, PaidIsSubmitted
<1>6. CASE SaveKitchenTicket(w)
  <2>1. Pc(w) = "kitchenTicket" /\ tickets[req[w].station] # "none" /\ payments' = payments /\ order' = order
    BY <1>6 DEF SaveKitchenTicket, Pc, OneByOne, Copied
  <2>2. Pc(w)' = "sync"
    BY <1>6, <2>1, Ending DEF SaveKitchenTicket
  <2>3. HasPayment' = HasPayment
    BY <2>1 DEF HasPayment
  <2>. QED
    BY <1>0, <2>1, <2>2, <2>3 DEF Prepared, PaidIsSubmitted
<1>7. CASE SyncKitchen(w)
  <2>1. /\ Pc(w) = "sync" /\ Pc(w)' = "idle" /\ req[w].order = order
        /\ items' = items /\ payments' = payments
    BY <1>0, <1>7, Ending DEF SyncKitchen, Pc
  <2>2. /\ order' = SyncedRow(order, order.status, items')
        /\ tickets' = SyncedTickets(order.status, items')
    BY <1>7, <2>1 DEF SyncKitchen
  <2>3. HasPayment' = HasPayment
    BY <2>1 DEF HasPayment
  <2>4. CASE order.status = "open"
    <3>1. order'.status = "open"
      BY <1>0, <2>2, <2>4, SyncShows
    <3>2. Finished'
      BY <3>1 DEF Finished, Ripe
    <3>3. Channel # "takeaway" => ~HasPayment
      BY <1>0, <2>4 DEF PaidIsSubmitted
    <3>. QED
      BY <2>1, <2>3, <3>1, <3>2, <3>3 DEF Prepared, PaidIsSubmitted, Shown, InKitchen
  <2>5. CASE order.status # "open"
    BY <1>0, <2>1, <2>2, <2>5, SyncShows, KitchenSynced
  <2>. QED
    BY <2>4, <2>5
<1>8. CASE RefusePayment(w) \/ ReleaseTable(w)
  <2>1. /\ Pc(w) \in {"pay", "release"} /\ Pc(w)' = "idle"
        /\ items' = items /\ tickets' = tickets /\ payments' = payments /\ order' = order
    BY <1>8, Ending DEF RefusePayment, ReleaseTable, rows, Pc
  <2>. QED
    BY <2>1, KitchenKept DEF Prepared, PaidIsSubmitted
<1>9. ASSUME NEW p \in Payments, NEW a \in Amounts, CreatePayment(w, p, a)
      PROVE  Prepared(w)'
  <2>1. Pc(w) = "pay" /\ order' = order /\ items' = items /\ tickets' = tickets
    BY <1>9 DEF CreatePayment, Pc
  <2>2. Pc(w)' \in {"idle", "charge"}
    BY <1>9, Ending DEF CreatePayment
  <2>3. payments'[p].status = "pending"
    BY <1>9 DEF CreatePayment, OneByOne, TypeOK
  <2>4. HasPayment'
    BY <2>3 DEF HasPayment
  <2>5. Finished /\ (Channel # "takeaway" => Shown /\ order.status \in {"submitted", "ready"})
    BY <2>1 DEF Prepared, PaidIsSubmitted
  <2>6. Finished' /\ (Channel # "takeaway" => Shown')
    BY <2>1, <2>5 DEF Finished, Ripe, Shown, InKitchen
  <2>. QED
    BY <2>1, <2>2, <2>4, <2>5, <2>6 DEF Prepared, PaidIsSubmitted
<1>10. ASSUME NEW ok \in BOOLEAN, SaveCharge(w, ok) \/ SaveTerminalResult(w, ok)
       PROVE  Prepared(w)'
  <2>1. /\ Pc(w) \in {"charge", "result"} /\ order' = order /\ items' = items /\ tickets' = tickets
        /\ Settle(w, ok)
    BY <1>10 DEF SaveCharge, SaveTerminalResult, Settle, Pc
  <2>2. Pc(w)' \in {"idle", "complete"}
    BY <2>1, Ending DEF Settle
  <2>3. req[w].pay \in Payments
    BY <1>0, <2>1, RequestFields DEF Pc
  <2>4. payments'[req[w].pay].status # "none"
    BY <2>1, <2>3 DEF Settle, OneByOne, TypeOK
  <2>5. HasPayment'
    BY <2>3, <2>4 DEF HasPayment
  <2>6. Finished /\ (Channel # "takeaway" => Shown /\ HasPayment /\ order.status # "open")
    BY <2>1 DEF Prepared, PaidIsSubmitted
  <2>7. Finished' /\ (Channel # "takeaway" => Shown')
    BY <2>1, <2>6 DEF Finished, Ripe, Shown, InKitchen
  <2>. QED
    BY <2>1, <2>2, <2>5, <2>6, <2>7 DEF Prepared, PaidIsSubmitted
<1>11. CASE CompletePayment(w)
  <2>1. Pc(w) = "complete" /\ req[w].order = order /\ items' = items /\ payments' = payments
    BY <1>0, <1>11 DEF CompletePayment, Pc
  <2>2. Pc(w)' \in {"idle", "release"}
    BY <1>11, Ending DEF CompletePayment
  <2>3. HasPayment' = HasPayment
    BY <2>1 DEF HasPayment
  <2>4. Finished /\ (Channel # "takeaway" => Shown /\ HasPayment /\ order.status # "open")
    BY <2>1 DEF Prepared, PaidIsSubmitted
  <2>5. PICK ord : /\ ord = IF Channel = "takeaway" /\ order.status = "open"
                            THEN SubmittedRow(order, "open", items) ELSE order
                   /\ order' = ord \/ order' = [ord EXCEPT !.status = "closed"]
    BY <1>11, <2>1, Zenon DEF CompletePayment
  <2>6. ord \in Order /\ Ripe(ord, items)
    BY <1>0, <2>4, <2>5, SubmitShows, SubmittedRowType DEF Finished, OrderStatus
  <2>7. order' = ord \/ order'.status = "closed"
    BY <2>5, <2>6 DEF Order
  <2>8. Finished'
    BY <2>1, <2>6, <2>7 DEF Finished, Ripe
  <2>9. Channel # "takeaway" => tickets' = tickets /\ order'.status # "open"
    BY <1>11, <2>4, <2>5, <2>7 DEF CompletePayment
  <2>10. Channel # "takeaway" => Shown'
    BY <2>1, <2>4, <2>9 DEF Shown, InKitchen
  <2>. QED
    BY <2>2, <2>8, <2>9, <2>10 DEF Prepared, PaidIsSubmitted
<1>. QED
  BY <1>1, <1>2, <1>3, <1>4, <1>5, <1>6, <1>7, <1>8, <1>9, <1>10, <1>11 DEF Proceed

LEMMA PreparedInit == ASSUME NEW w, InTurn(w), Init PROVE Prepared(w)
<1>1. Pc(w) = "idle" /\ order.status = "open" /\ ~HasPayment
  BY DEF Init, Pc, Idle, InTurn, HasPayment
<1>. QED
  BY <1>1 DEF Prepared, PaidIsSubmitted, Finished, Ripe, Shown, InKitchen

LEMMA PreparedStep ==
  ASSUME NEW w, InTurn(w), OneByOne(w), Prepared(w), PatchStatuses \subseteq {"cancelled"}, [Next]_vars
  PROVE  Prepared(w)'
<1>1. CASE Start(w)
  BY <1>1, StartPrepared
<1>2. CASE Proceed(w)
  BY <1>2, ProceedPrepared
<1>3. CASE Crash(w)
  <2>1. Pc(w) \notin {"recalc", "sync"} /\ Pc(w)' = "idle"
    BY <1>3, Ending DEF Crash, InTurn, OneByOne, Copied
  <2>2. items' = items /\ tickets' = tickets /\ payments' = payments /\ order' = order
    BY <1>3 DEF Crash, rows
  <2>. QED
    BY <2>1, <2>2, KitchenKept DEF Prepared, PaidIsSubmitted
<1>4. CASE UNCHANGED vars
  <2>1. items' = items /\ tickets' = tickets /\ payments' = payments /\ order' = order /\ req' = req
    BY <1>4 DEF vars, rows
  <2>. QED
    BY <2>1 DEF Prepared, PaidIsSubmitted, Finished, Ripe, Shown, InKitchen, HasPayment, Pc
<1>. QED
  BY <1>1, <1>2, <1>3, <1>4 DEF Next, InTurn

(* Between requests the total is the price of the items, whoever edits them, *)
(* while requests do not overlap (Order.recalculate_totals).                 *)
THEOREM TotalFollows ==
  ASSUME NEW w, InTurn(w)
  PROVE  Spec => []TotalIsTheBill
<1>1. Init => OneByOne(w)
  BY OneByOneInit
<1>2. OneByOne(w) /\ [Next]_vars => OneByOne(w)'
  BY OneByOneStep
<1>3. OneByOne(w) => TotalIsTheBill
  BY DEF OneByOne, Totalled, TotalIsTheBill, Quiet, InTurn, Pc, Idle
<1>. QED
  BY <1>1, <1>2, <1>3, PTL DEF Spec

(* While requests do not overlap, an order is closed only when what was paid *)
(* covers the price of its items (_complete_successful_payment).             *)
THEOREM ClosedIsCovered ==
  ASSUME NEW w, InTurn(w), "closed" \notin PatchStatuses
  PROVE  Spec => ClosedWhenCovered
<1>1. Init => OneByOne(w)
  BY OneByOneInit
<1>2. OneByOne(w) /\ [Next]_vars => OneByOne(w)'
  BY OneByOneStep
<1>3. OneByOne(w) /\ [Next]_vars
        => [order.status # "closed" /\ order'.status = "closed" => paid >= Cost(BillOf(items))]_vars
  <2> SUFFICES ASSUME OneByOne(w), Next, order.status # "closed", order'.status = "closed"
               PROVE  paid >= Cost(BillOf(items))
    OBVIOUS
  <2>0. order \in Order /\ w \in Workers /\ req[w] \in Request
    BY DEF OneByOne, TypeOK, InTurn
  <2>1. CASE Start(w)
    <3>1. PICK flow \in Flows : BeginPayment(w, flow)
      <4>1. UNCHANGED rows \/ \E flow \in Flows : BeginPayment(w, flow)
        BY <2>1 DEF Start, AddItem, UpdateItem, DeleteItem, ReadForItem, ReadForSubmit, ReadForPatch,
             ReadForKitchenItem, ReadForKitchenTicket, ReadTerminalResult
      <4>. QED
        BY <4>1 DEF rows
    <3>2. order' = SubmittedRow(order, "open", items)
      BY <3>1 DEF BeginPayment
    <3>. QED
      BY <2>0, <3>2, SyncNeverCloses DEF SubmittedRow, SubmittedStatus, Order, OrderStatus
  <2>2. CASE CompletePayment(w)
    <3>1. req[w].order = order /\ order.total = Cost(BillOf(items))
      BY <2>2 DEF CompletePayment, OneByOne, Copied, Totalled, Pc
    <3>2. CASE paid >= order.total
      BY <3>1, <3>2
    <3>3. CASE ~(paid >= order.total)
      <4>1. order' = order \/ (order.status = "open" /\ order' = SubmittedRow(order, "open", items))
        BY <2>2, <3>1, <3>3 DEF CompletePayment
      <4>. QED
        BY <2>0, <4>1, SyncNeverCloses DEF SubmittedRow, SubmittedStatus, Order, OrderStatus
    <3>. QED
      BY <3>2, <3>3
  <2>3. CASE SavePatch(w)
    BY <2>3 DEF SavePatch, OneByOne, Copied, Pc
  <2>4. CASE CommitItem(w)
    <3>1. req[w].pc = "item" /\ req[w].order = order
      BY <2>4 DEF CommitItem, OneByOne, Copied, Pc
    <3>2. req[w].bill \in Nat
      BY <2>0, <3>1, RequestFields
    <3>3. PICK ord : ord = [order EXCEPT !.total = req[w].bill]
      OBVIOUS
    <3>4. ord \in Order /\ ord.status = order.status
      BY <2>0, <3>2, <3>3 DEF Order
    <3>5. order' = ord \/ \E its : order' = SyncedRow(ord, order.status, its)
      BY <2>4, <3>1, <3>3, Zenon DEF CommitItem
    <3>. QED
      BY <2>0, <3>4, <3>5, SyncNeverCloses DEF Order
  <2>5. CASE CommitSubmit(w)
    <3>1. order' = SubmittedRow(order, order.status, items)
      BY <2>5 DEF CommitSubmit, OneByOne, Copied, Pc
    <3>. QED
      BY <2>0, <3>1, SyncNeverCloses DEF SubmittedRow, SubmittedStatus, Order, OrderStatus
  <2>6. CASE SyncKitchen(w)
    <3>1. order' = SyncedRow(order, order.status, items)
      BY <2>6 DEF SyncKitchen, OneByOne, Copied, Pc
    <3>. QED
      BY <2>0, <3>1, SyncNeverCloses DEF Order
  <2>7. CASE RecalculateKitchen(w)
    BY <2>0, <2>7 DEF RecalculateKitchen, Order
  <2>8. CASE \/ SaveKitchenItem(w) \/ SaveKitchenTicket(w) \/ RefusePayment(w) \/ ReleaseTable(w) \/ Crash(w)
             \/ \E p \in Payments, a \in Amounts : CreatePayment(w, p, a)
             \/ \E ok \in BOOLEAN : SaveCharge(w, ok)
             \/ \E ok \in BOOLEAN : SaveTerminalResult(w, ok)
    <3>1. order' = order
      BY <2>8 DEF SaveKitchenItem, SaveKitchenTicket, RefusePayment, ReleaseTable, Crash, CreatePayment,
           SaveCharge, SaveTerminalResult, Settle, rows
    <3>. QED
      BY <3>1
  <2>. QED
    BY <2>1, <2>2, <2>3, <2>4, <2>5, <2>6, <2>7, <2>8 DEF Next, Proceed, InTurn
<1>. QED
  BY <1>1, <1>2, <1>3, PTL DEF Spec, ClosedWhenCovered

(* While requests do not overlap, and the clients write no status but          *)
(* "cancelled", an order between requests is ready exactly when all of it is   *)
(* done (OrderTicketSyncService.sync, submit_order).                           *)
THEOREM ReadyFollows ==
  ASSUME NEW w, InTurn(w), PatchStatuses \subseteq {"cancelled"}
  PROVE  Spec => []ReadyMeansAllDone
<1>1. Init => OneByOne(w) /\ Prepared(w)
  BY OneByOneInit, PreparedInit
<1>2. OneByOne(w) /\ Prepared(w) /\ [Next]_vars => (OneByOne(w) /\ Prepared(w))'
  BY OneByOneStep, PreparedStep
<1>3. OneByOne(w) /\ Prepared(w) => ReadyMeansAllDone
  BY DEF Prepared, Finished, Ripe, ReadyMeansAllDone, Quiet, InTurn, Pc, Idle
<1>. QED
  BY <1>1, <1>2, <1>3, PTL DEF Spec

(* Under the same assumptions the tickets of an order that is no takeaway are  *)
(* those of its items once it has been submitted (OrderTicketSyncService.sync).*)
THEOREM TicketsFollow ==
  ASSUME NEW w, InTurn(w), PatchStatuses \subseteq {"cancelled"}, Channel # "takeaway"
  PROVE  Spec => []TicketsShowTheItems
<1>1. Init => OneByOne(w) /\ Prepared(w)
  BY OneByOneInit, PreparedInit
<1>2. OneByOne(w) /\ Prepared(w) /\ [Next]_vars => (OneByOne(w) /\ Prepared(w))'
  BY OneByOneStep, PreparedStep
<1>3. OneByOne(w) /\ Prepared(w) => TicketsShowTheItems
  BY DEF Prepared, Shown, InKitchen, TicketsShowTheItems, Quiet, InTurn, Pc, Idle
<1>. QED
  BY <1>1, <1>2, <1>3, PTL DEF Spec
-----------------------------------------------------------------------------
(***************************************************************************)
(* What is closed, while requests do not overlap                           *)
(***************************************************************************)

(* No client writes another status over it. *)
NoReopening == PatchStatuses \subseteq {"closed"}

LEMMA SyncLeavesClosed ==
  ASSUME NEW ord \in Order, ord.status = "closed", NEW its
  PROVE  SyncedRow(ord, "closed", its) = ord /\ SubmittedRow(ord, "closed", its) = ord
BY DEF SyncedRow, SyncSaves, SubmittedRow, SubmittedStatus

(* A closed order stays closed, whatever waiters, cooks and cashiers still do *)
(* to it, while requests do not overlap and no client writes another status   *)
(* (OrderTicketSyncService.sync, recalculate_totals).                         *)
THEOREM ClosedStays ==
  ASSUME NEW w, InTurn(w), NoReopening
  PROVE  Spec => [][order.status = "closed" => order'.status = "closed"]_vars
<1>1. Init => OneByOne(w)
  BY OneByOneInit
<1>2. OneByOne(w) /\ [Next]_vars => OneByOne(w)'
  BY OneByOneStep
<1>3. OneByOne(w) /\ [Next]_vars => [order.status = "closed" => order'.status = "closed"]_vars
  <2> SUFFICES ASSUME OneByOne(w), Next, order.status = "closed"
               PROVE  order'.status = "closed"
    OBVIOUS
  <2>0. order \in Order /\ w \in Workers /\ req[w] \in Request
    BY DEF OneByOne, TypeOK, InTurn
  <2>1. CASE Start(w)
    <3>1. UNCHANGED rows
      BY <2>1 DEF Start, AddItem, UpdateItem, DeleteItem, ReadForItem, ReadForSubmit, ReadForPatch,
           ReadForKitchenItem, ReadForKitchenTicket, ReadTerminalResult, BeginPayment, Mutable
    <3>. QED
      BY <3>1 DEF rows
  <2>2. CASE CompletePayment(w)
    <3>1. req[w].order.status = "closed"
      BY <2>2 DEF CompletePayment, OneByOne, Copied, Pc
    <3>2. order' = order \/ order' = [order EXCEPT !.status = "closed"]
      BY <2>2, <3>1 DEF CompletePayment
    <3>. QED
      BY <2>0, <3>2 DEF Order
  <2>3. CASE SavePatch(w)
    BY <2>3 DEF SavePatch, OneByOne, Copied, Pc, NoReopening
  <2>4. CASE CommitItem(w)
    <3>1. req[w].pc = "item" /\ req[w].order = order
      BY <2>4 DEF CommitItem, OneByOne, Copied, Pc
    <3>2. req[w].bill \in Nat
      BY <2>0, <3>1, RequestFields
    <3>3. PICK ord : ord = [order EXCEPT !.total = req[w].bill]
      OBVIOUS
    <3>4. ord \in Order /\ ord.status = "closed"
      BY <2>0, <3>2, <3>3 DEF Order
    <3>5. order' = ord \/ \E its : order' = SyncedRow(ord, "closed", its)
      BY <2>4, <3>1, <3>3, Zenon DEF CommitItem
    <3>. QED
      BY <3>4, <3>5, SyncLeavesClosed
  <2>5. CASE CommitSubmit(w)
    <3>1. order' = SubmittedRow(order, "closed", items)
      BY <2>5 DEF CommitSubmit, OneByOne, Copied, Pc
    <3>. QED
      BY <2>0, <3>1, SyncLeavesClosed
  <2>6. CASE SyncKitchen(w)
    <3>1. order' = SyncedRow(order, "closed", items)
      BY <2>6 DEF SyncKitchen, OneByOne, Copied, Pc
    <3>. QED
      BY <2>0, <3>1, SyncLeavesClosed
  <2>7. CASE RecalculateKitchen(w)
    BY <2>0, <2>7 DEF RecalculateKitchen, Order
  <2>8. CASE \/ SaveKitchenItem(w) \/ SaveKitchenTicket(w) \/ RefusePayment(w) \/ ReleaseTable(w) \/ Crash(w)
             \/ \E p \in Payments, a \in Amounts : CreatePayment(w, p, a)
             \/ \E ok \in BOOLEAN : SaveCharge(w, ok)
             \/ \E ok \in BOOLEAN : SaveTerminalResult(w, ok)
    <3>1. order' = order
      BY <2>8 DEF SaveKitchenItem, SaveKitchenTicket, RefusePayment, ReleaseTable, Crash, CreatePayment,
           SaveCharge, SaveTerminalResult, Settle, rows
    <3>. QED
      BY <3>1
  <2>. QED
    BY <2>1, <2>2, <2>3, <2>4, <2>5, <2>6, <2>7, <2>8 DEF Next, Proceed, InTurn
<1>. QED
  BY <1>1, <1>2, <1>3, PTL DEF Spec

(* Whoever is about to charge has found the order still to be paid. *)
StillToPay(w) == Pc(w) \in {"pay", "charge"} => order.status \in Mutable

LEMMA StillToPayStep ==
  ASSUME NEW w, InTurn(w), OneByOne(w), StillToPay(w), [Next]_vars
  PROVE  StillToPay(w)'
<1>0. order \in Order /\ w \in Workers /\ req \in [Workers -> Request]
  BY DEF OneByOne, TypeOK, InTurn
<1>1. ASSUME NEW flow \in Flows, BeginPayment(w, flow)
      PROVE  order'.status \in Mutable
  <2>1. \/ order' = order /\ order.status \in Mutable
        \/ order.status = "open" /\ order' = SubmittedRow(order, "open", items)
    BY <1>1 DEF BeginPayment
  <2>2. CASE order' = order /\ order.status \in Mutable
    BY <2>2
  <2>3. CASE order.status = "open" /\ order' = SubmittedRow(order, "open", items)
    BY <1>0, <2>3, SubmitShows DEF Mutable
  <2>. QED
    BY <2>1, <2>2, <2>3
<1>2. ASSUME NEW p \in Payments, NEW a \in Amounts, CreatePayment(w, p, a)
      PROVE  order'.status \in Mutable
  BY <1>2 DEF CreatePayment, StillToPay, Pc
<1>3. CASE UNCHANGED vars
  BY <1>3 DEF vars, rows, StillToPay, Pc
<1>4. \/ UNCHANGED vars
      \/ \E flow \in Flows : BeginPayment(w, flow)
      \/ \E p \in Payments, a \in Amounts : CreatePayment(w, p, a)
      \/ Pc(w)' \notin {"pay", "charge"}
  <2>1. CASE Start(w)
    <3>1. \/ \E flow \in Flows : BeginPayment(w, flow)
          \/ \E r : r.pc \notin {"pay", "charge"} /\ Serve(w, r)
      <4>1. ASSUME NEW i \in Items, NEW row \in Row, ReadForItem(w, i, row)
            PROVE  \E r : r.pc \notin {"pay", "charge"} /\ Serve(w, r)
        <5>1. PICK r : r = [pc |-> "item", order |-> order, item |-> i, row |-> row,
                            bill |-> Cost(BillOf([items EXCEPT ![i] = row]))]
          OBVIOUS
        <5>2. r.pc = "item" /\ Serve(w, r)
          BY <4>1, <5>1 DEF ReadForItem
        <5>. QED
          BY <5>2
      <4>2. NoRow \in Row
        BY ConstantsAssumption DEF NoRow, Row, ItemStatus
      <4>. QED
        BY <2>1, <4>1, <4>2 DEF Start, AddItem, UpdateItem, DeleteItem, ReadForSubmit, ReadForPatch,
             ReadForKitchenItem, ReadForKitchenTicket, ReadTerminalResult
    <3>. QED
      BY <1>0, <3>1 DEF Serve, Pc
  <2>2. CASE Proceed(w) \/ Crash(w)
    <3>1. \/ \E p \in Payments, a \in Amounts : CreatePayment(w, p, a)
          \/ Finish(w)
          \/ \E r : r.pc \notin {"pay", "charge"} /\ Continue(w, r)
      BY <2>2 DEF Proceed, CommitItem, CommitSubmit, SavePatch, SaveKitchenItem, RecalculateKitchen,
           SaveKitchenTicket, SyncKitchen, RefusePayment, SaveCharge, SaveTerminalResult, Settle,
           CompletePayment, ReleaseTable, Crash
    <3>. QED
      BY <1>0, <3>1 DEF Finish, Continue, Idle, Pc
  <2>. QED
    BY <2>1, <2>2 DEF Next, InTurn
<1>. QED
  BY <1>1, <1>2, <1>3, <1>4 DEF StillToPay

(* A closed order is not paid again, while charges do not overlap, and nobody *)
(* posts a terminal's result twice: "Closed orders cannot be paid again."     *)
(* (ensure_order_can_be_paid).  Two that overlap do it.                       *)
THEOREM PaidOnce ==
  ASSUME NEW w, InTurn(w), "terminal" \notin Flows
  PROVE  Spec => ClosedIsNotPaidAgain
<1>1. Init => OneByOne(w) /\ StillToPay(w)
  BY OneByOneInit DEF Init, InTurn, StillToPay, Pc, Idle
<1>2. OneByOne(w) /\ StillToPay(w) /\ [Next]_vars => OneByOne(w)' /\ StillToPay(w)'
  BY OneByOneStep, StillToPayStep
<1>3. OneByOne(w) /\ StillToPay(w) /\ ChargesCover /\ [Next]_vars
        => [\A p \in Payments : payments[p].status # "succeeded" /\ payments'[p].status = "succeeded"
                                  => order.status # "closed"]_vars
  <2> SUFFICES ASSUME OneByOne(w), StillToPay(w), ChargesCover, Next, NEW q \in Payments,
                      payments[q].status # "succeeded", payments'[q].status = "succeeded"
               PROVE  order.status # "closed"
    OBVIOUS
  <2>0. w \in Workers /\ TypeOK
    BY DEF OneByOne, InTurn
  <2>1. ASSUME NEW p \in Payments, NEW a \in Amounts, CreatePayment(w, p, a)
        PROVE  order.status # "closed"
    BY <2>1 DEF CreatePayment, StillToPay, Pc, Mutable
  <2>2. ASSUME NEW ok \in BOOLEAN, SaveCharge(w, ok)
        PROVE  order.status # "closed"
    BY <2>2 DEF SaveCharge, StillToPay, Pc, Mutable
  <2>3. ASSUME NEW ok \in BOOLEAN PROVE ~SaveTerminalResult(w, ok)
    BY <2>0 DEF SaveTerminalResult, ChargesCover
  <2>4. ASSUME Start(w) \/ Crash(w) PROVE UNCHANGED payments
    BY <2>4 DEF Start, AddItem, UpdateItem, DeleteItem, ReadForItem, ReadForSubmit, ReadForPatch,
         ReadForKitchenItem, ReadForKitchenTicket, BeginPayment, ReadTerminalResult, Crash, rows
  <2>5. ASSUME Proceed(w)
        PROVE  \/ UNCHANGED payments
               \/ \E p \in Payments, a \in Amounts : CreatePayment(w, p, a)
               \/ \E ok \in BOOLEAN : SaveCharge(w, ok) \/ SaveTerminalResult(w, ok)
    BY <2>5 DEF Proceed, CommitItem, CommitSubmit, SavePatch, SaveKitchenItem, RecalculateKitchen, SaveKitchenTicket,
         SyncKitchen, RefusePayment, CompletePayment, ReleaseTable, rows
  <2>. QED
    BY <2>1, <2>2, <2>3, <2>4, <2>5 DEF Next, InTurn
<1>. QED
  BY <1>1, <1>2, <1>3, Covering, PTL DEF Spec, ClosedIsNotPaidAgain
=============================================================================
