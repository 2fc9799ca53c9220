------------------------------- MODULE Marking -------------------------------
(***************************************************************************)
(* Marked products, from the scanner to the fiscal receipt.  Every piece   *)
(* of a marked product carries a code of its own, which is scanned onto an *)
(* item of an order before the order is paid, and goes onto the receipt as *)
(* the label of one piece.  What the guest pays is worked out from the     *)
(* quantities, the receipt from the labels: the two must agree.            *)
(*                                                                         *)
(* Scans and edits read, decide and write in one transaction, which the    *)
(* database lets overlap with others.  A charge lasts minutes, and nothing *)
(* keeps the order as it is while it lasts.                                *)
(***************************************************************************)
EXTENDS Integers, FiniteSets, FiniteSetsExt

CONSTANTS
  Workers,      \* server processes that serve requests
  Orders,       \* order rows
  Products,     \* catalogue items
  Marked,       \* those whose pieces carry codes,
  CashForbidden,\* and those that may not be sold for cash
  Codes,        \* codes that come under the scanner,
  ProductOf(_), \* and the product that each names
  Price(_),     \* what a piece of a product costs
  FeePercent,   \* the restaurant's service fee
  MaxItems,     \* bound: item rows, numbered in the order of their creation
  MaxQty,       \* bound: pieces of an item
  MaxEdits,     \* bound: fields that one request for an item sets, product, status or quantity
  Together,     \* bound: kinds of requests that are begun while another is being served
  AfterOverlap  \* bound: whether requests are begun once two have overlapped

Items  == 1..MaxItems
NewRow == 0

ASSUME ConstantsAssumption ==
  /\ Marked \subseteq Products /\ CashForbidden \subseteq Products
  /\ \A c \in Codes : ProductOf(c) \in Products
  /\ \A p \in Products : Price(p) \in Nat
  /\ FeePercent \in Nat /\ MaxItems \in Nat /\ MaxQty \in Nat \ {0} /\ MaxEdits \in Nat
  /\ AfterOverlap \in BOOLEAN

Methods == {"cash", "card"}
Reasons == {"none", "mixed_cash_allowed_items", "cash_forbidden_category"}

NoItem == [status |-> "none"]
\* price is the product's when the item was made; line_total is left out, since
\* every save makes it qty * price.
Item   == [status : {"live", "cancelled", "gone"}, order : Orders, product : Products,
           qty : 0..MaxQty, price : Nat]
Mark == [item : Items, code : Codes]

VARIABLES
  item,     \* the item rows of all orders
  marks,    \* the scanned codes, each on an item
  order,    \* status of each order, and what has been paid for it
  receipt,  \* the fiscal receipts of each order that were registered,
  missing,  \* and those that failed
  req,      \* the request each worker is serving
  overlap,  \* history: two requests that concern one order have overlapped
  loosened, \* history: pieces were taken off an item and their codes left on it
  unsure,   \* history: items whose codes no payment has vouched for
  late      \* history: an item of a closed order was cancelled or restored

vars == <<item, marks, order, receipt, missing, req, overlap, loosened, unsure, late>>

Receipt == [reason : Reasons, amount : Nat]

Idle == [pc |-> "idle"]

Request ==
  {Idle}
    \union [pc : {"scan"}, order : Orders, item : Items \union {NewRow}, code : Codes]
    \union [pc : {"remove"}, order : Orders, item : Items, qty : 0..MaxQty, marks : SUBSET Mark]
    \union [pc : {"save"}, order : Orders, item : Items \union {NewRow}, row : Item]
    \union [pc : {"delete"}, order : Orders, item : Items]
    \union [pc : {"charge"}, order : Orders, method : Methods, amount : Nat, fee : Nat]
    \union [pc : {"issue"}, order : Orders, method : Methods, fee : Nat, reasons : SUBSET Reasons]

TypeOK ==
  /\ item \in [Items -> Item \union {NoItem}]
  /\ marks \subseteq Mark
  /\ order \in [Orders -> [status : {"open", "closed"}, paid : Nat, method : Methods]]
  /\ receipt \in [Orders -> SUBSET Receipt]
  /\ missing \in [Orders -> SUBSET Reasons]
  /\ req \in [Workers -> Request]
  /\ overlap \in BOOLEAN /\ loosened \in BOOLEAN /\ late \in BOOLEAN /\ unsure \subseteq Items

Init ==
  /\ item = [i \in Items |-> NoItem]
  /\ marks = {}
  /\ order = [o \in Orders |-> [status |-> "open", paid |-> 0, method |-> "card"]]
  /\ receipt = [o \in Orders |-> {}]
  /\ missing = [o \in Orders |-> {}]
  /\ req = [w \in Workers |-> Idle]
  /\ overlap = FALSE /\ loosened = FALSE /\ late = FALSE /\ unsure = {}

-----------------------------------------------------------------------------
Exists(i)  == item[i].status \in {"live", "cancelled"}
ItemsOf(o) == {i \in Items : Exists(i) /\ item[i].order = o}
Live(o)    == {i \in ItemsOf(o) : item[i].status = "live"}
CodesOn(i) == {m.code : m \in {x \in marks : x.item = i}}
Scanned    == {m.code : m \in marks}

\* Quotients rounded half to even (Python's round) and half up (Decimal).
HalfEven(n, d) == LET q == n \div d
                      r == 2 * (n % d)
                  IN  IF r > d \/ (r = d /\ q % 2 = 1) THEN q + 1 ELSE q
HalfUp(n, d)   == (2 * n + d) \div (2 * d)

LineTotal(i)   == item[i].qty * item[i].price
Subtotal(S)    == MapThenSumSet(LineTotal, S)
ServiceFee(o)  == HalfEven(Subtotal(Live(o)) * FeePercent, 100)
Total(o)       == Subtotal(Live(o)) + ServiceFee(o)
Remaining(o)   == IF order[o].paid < Total(o) THEN Total(o) - order[o].paid ELSE 0

\* Mutant: no codes are asked for a cancelled item.
MissingUnlessCancelled(i) ==
  item[i].status = "live" /\ item[i].product \in Marked /\ Cardinality(CodesOn(i)) < item[i].qty

\* marking_status: codes that are missing, also those of cancelled items.  What
\* product a code was scanned for makes no difference to it.
Missing(i)     == item[i].product \in Marked /\ Cardinality(CodesOn(i)) < item[i].qty

Serve(w, r) ==
  /\ req[w] = Idle
  /\ overlap => AfterOverlap
  /\ (\E v \in Workers : req[v] # Idle) => r.pc \in Together
  /\ req' = [req EXCEPT ![w] = r]
  /\ overlap' = (overlap \/ \E v \in Workers \ {w} : req[v] # Idle /\ req[v].order = r.order)

Finish(w) == req' = [req EXCEPT ![w] = Idle] /\ UNCHANGED overlap

sales == <<order, receipt, missing>>
past  == <<loosened, unsure, late>>

\* What is written now was not there when the codes of the order were counted.
Counting(o) == order[o].status = "closed" \/ \E w \in Workers : req[w].pc = "charge" /\ req[w].order = o
Doubt(i, doubtful) == unsure' = unsure \union (IF doubtful THEN {i} ELSE {})

-----------------------------------------------------------------------------
(***************************************************************************)
(* Scanning a code onto an order: OrderMarkingScanService.scan.            *)
(***************************************************************************)
\* _find_missing_order_item: the oldest item that still lacks a code.
Lacking(o, p) == {i \in ItemsOf(o) : item[i].product = p /\ Cardinality(CodesOn(i)) < item[i].qty}
IsOldest(i, S) == i \in S /\ \A j \in S : i <= j
IsNewest(i, S) == i \in S /\ \A j \in S : j <= i

\* Mode "attach" needs an item that lacks a code, mode "add" makes one if none
\* does, and a mode of any other name always makes one.
ReadForScan(w, o, c, mode, i) ==
  LET lacking == Lacking(o, ProductOf(c))
  IN  /\ order[o].status = "open"
      /\ c \notin Scanned
      /\ Serve(w, [pc |-> "scan", order |-> o, item |-> i, code |-> c])
      /\ IF mode = "other" \/ lacking = {} THEN mode # "attach" /\ i = NewRow ELSE IsOldest(i, lacking)
      /\ UNCHANGED <<item, marks, sales, past>>

\* The row that is written: the one named, or the next new one.
IsRow(i, named) ==
  IF named = NewRow THEN item[i].status = "none" /\ \A j \in 1..(i - 1) : item[j].status # "none"
                    ELSE i = named

\* Mutant: no constraint keeps a code from being scanned twice.
CommitScanUnconstrained(w, i) ==
  /\ req[w].pc = "scan"
  /\ LET r == req[w]
         p == ProductOf(r.code)
     IN  /\ IsRow(i, r.item)
         /\ r.item # NewRow /\ p \in Marked => Exists(i)
         /\ item' = IF r.item # NewRow THEN item
                    ELSE [item EXCEPT ![i] = [status |-> "live", order |-> r.order, product |-> p,
                                              qty |-> 1, price |-> Price(p)]]
         /\ marks' = IF p \in Marked THEN marks \union {[item |-> i, code |-> r.code]} ELSE marks
         /\ Doubt(i, IF r.item = NewRow THEN Counting(r.order) ELSE item[i].product # p)
  /\ Finish(w)
  /\ UNCHANGED <<sales, loosened, late>>

\* The unique constraint on product and code, and the mark's reference to its
\* item, are checked by the database.
CommitScan(w, i) ==
  /\ req[w].pc = "scan"
  /\ LET r == req[w]
         p == ProductOf(r.code)
     IN  /\ IsRow(i, r.item)
         /\ r.item # NewRow /\ p \in Marked => Exists(i)
         /\ p \in Marked => r.code \notin Scanned
         /\ item' = IF r.item # NewRow THEN item
                    ELSE [item EXCEPT ![i] = [status |-> "live", order |-> r.order, product |-> p,
                                              qty |-> 1, price |-> Price(p)]]
         /\ marks' = IF p \in Marked THEN marks \union {[item |-> i, code |-> r.code]} ELSE marks
         /\ Doubt(i, IF r.item = NewRow THEN Counting(r.order) ELSE item[i].product # p)
  /\ Finish(w)
  /\ UNCHANGED <<sales, loosened, late>>

\* The transaction is rolled back.
AbortScan(w) ==
  /\ req[w].pc = "scan"
  /\ LET r == req[w]
     IN  /\ ProductOf(r.code) \in Marked
         /\ r.code \in Scanned \/ r.item \notin {i \in Items : Exists(i)} \union {NewRow}
  /\ Finish(w)
  /\ UNCHANGED <<item, marks, sales, past>>

\* Mode "remove": the item the code is on, or the newest one of its product.
ReadForRemove(w, o, c, i) ==
  LET on == {m \in marks : m.code = c /\ m.item \in ItemsOf(o)}
      of == {j \in Live(o) : item[j].product = ProductOf(c)}
  IN  /\ order[o].status = "open"
      /\ IF on # {} THEN i \in {m.item : m \in on} ELSE IsNewest(i, of)
      /\ Serve(w, [pc |-> "remove", order |-> o, item |-> i, qty |-> item[i].qty, marks |-> on])
      /\ UNCHANGED <<item, marks, sales, past>>

\* Mutant: the last piece is taken off instead of the item.
CommitRemoveBelowZero(w) ==
  /\ req[w].pc = "remove"
  /\ Exists(req[w].item)
  /\ item' = [item EXCEPT ![req[w].item].qty = req[w].qty - 1]
  /\ marks' = marks \ req[w].marks
  /\ Finish(w)
  /\ UNCHANGED <<sales, past>>

\* Deleting an item deletes its marks; of the row its number is not given again.
Deleted(i) == [item[i] EXCEPT !.status = "gone", !.qty = 0, !.price = 0]

CommitRemove(w) ==
  /\ req[w].pc = "remove"
  /\ LET r    == req[w]
         left == marks \ r.marks
     IN  IF r.qty > 1
         THEN /\ Exists(r.item)
              /\ item' = [item EXCEPT ![r.item].qty = r.qty - 1]
              /\ marks' = left
              /\ loosened' = (loosened \/ Cardinality({m \in left : m.item = r.item}) > r.qty - 1)
              /\ Doubt(r.item, Counting(r.order))
         ELSE /\ item' = [item EXCEPT ![r.item] = Deleted(r.item)]
              /\ marks' = {m \in left : m.item # r.item}
              /\ UNCHANGED <<loosened, unsure>>
  /\ Finish(w)
  /\ UNCHANGED <<sales, late>>

\* The row to be saved is gone.
AbortRemove(w) ==
  /\ req[w].pc = "remove"
  /\ req[w].qty > 1 /\ ~ Exists(req[w].item)
  /\ Finish(w)
  /\ UNCHANGED <<item, marks, sales, past>>

-----------------------------------------------------------------------------
(***************************************************************************)
(* The items as the waiter and the kitchen change them (OrderLifecycle has *)
(* what follows from it for the tickets and the total).                    *)
(***************************************************************************)
\* A request for an item sets the fields in which it differs from the default or
\* from the row.
Sets(p, st, q, row) ==
  Cardinality({p} \ {row.product}) + Cardinality({st} \ {row.status}) + Cardinality({q} \ {row.qty}) <= MaxEdits

ReadForAdd(w, o, p, st, q) ==
  LET default == [status |-> "live", order |-> o, product |-> p, qty |-> 1, price |-> Price(p)]
  IN  /\ order[o].status = "open"
      /\ Sets(p, st, q, default)
      /\ Serve(w, [pc |-> "save", order |-> o, item |-> NewRow,
                   row |-> [status |-> st, order |-> o, product |-> p, qty |-> q, price |-> Price(p)]])
      /\ UNCHANGED <<item, marks, sales, past>>

\* An item may be given another product: its price and its codes stay.
ReadForUpdate(w, i, p, st, q) ==
  /\ Exists(i)
  /\ order[item[i].order].status = "open"
  /\ Sets(p, st, q, item[i])
  /\ Serve(w, [pc |-> "save", order |-> item[i].order, item |-> i,
               row |-> [item[i] EXCEPT !.product = p, !.status = st, !.qty = q]])
  /\ UNCHANGED <<item, marks, sales, past>>

\* The serializer saves the whole row.
SaveItem(w, i) ==
  /\ req[w].pc = "save"
  /\ LET row == req[w].row
     IN  /\ IsRow(i, req[w].item)
         /\ item' = [item EXCEPT ![i] = row]
         /\ loosened' = (loosened \/ Cardinality(CodesOn(i)) > row.qty)
         /\ Doubt(i, Counting(row.order) \/ \E c \in CodesOn(i) : ProductOf(c) # row.product)
  /\ Finish(w)
  /\ UNCHANGED <<marks, sales, late>>

ReadForDelete(w, i) ==
  /\ Exists(i)
  /\ order[item[i].order].status = "open"
  /\ Serve(w, [pc |-> "delete", order |-> item[i].order, item |-> i])
  /\ UNCHANGED <<item, marks, sales, past>>

DeleteItem(w) ==
  /\ req[w].pc = "delete"
  /\ item' = [item EXCEPT ![req[w].item] = Deleted(req[w].item)]
  /\ marks' = {m \in marks : m.item # req[w].item}
  /\ Finish(w)
  /\ UNCHANGED <<sales, past>>

\* The kitchen may cancel an item and restore it, whatever the status of its
\* order (new, cooking and done are all "live").
KitchenSets(i, st) ==
  /\ Exists(i) /\ item[i].status # st
  /\ overlap => AfterOverlap
  /\ item' = [item EXCEPT ![i].status = st]
  /\ late' = (late \/ order[item[i].order].status = "closed")
  /\ overlap' = (overlap \/ \E w \in Workers : req[w] # Idle /\ req[w].order = item[i].order)
  /\ UNCHANGED <<marks, sales, req, loosened, unsure>>

-----------------------------------------------------------------------------
(***************************************************************************)
(* The payment: validate_order_markings, the charge, the receipts.         *)
(***************************************************************************)
\* The guest may pay more: what is kept of the sum is the part that was due.
BeginCharge(w, o, method) ==
  /\ order[o].status = "open"
  /\ \A i \in ItemsOf(o) : ~ Missing(i)
  /\ Serve(w, [pc |-> "charge", order |-> o, method |-> method,
               amount |-> Remaining(o), fee |-> ServiceFee(o)])
  /\ UNCHANGED <<item, marks, sales, past>>

ChargeFails(w) ==
  /\ req[w].pc = "charge"
  /\ Finish(w)
  /\ UNCHANGED <<item, marks, sales, past>>

\* The order is closed when its total is paid: the total that this request has
\* read, or, if the browser brings the answer of a terminal, the one in the row.
ChargeSucceeds(w, fromBrowser) ==
  /\ req[w].pc = "charge"
  /\ LET r    == req[w]
         paid == order[r.order].paid + r.amount
     IN  /\ fromBrowser => r.method = "card"
         /\ order' = [order EXCEPT ![r.order] =
              [status |-> IF fromBrowser /\ paid < Total(r.order) THEN @.status ELSE "closed",
               paid |-> paid, method |-> r.method]]
         /\ req' = [req EXCEPT ![w] = [pc |-> "issue", order |-> r.order, method |-> r.method,
                                       fee |-> IF fromBrowser THEN ServiceFee(r.order) ELSE r.fee,
                                       reasons |-> Reasons]]
  /\ UNCHANGED <<item, marks, receipt, missing, overlap, past>>

\* A labelled item is sold piece by piece, each for the rounded price of one.
UnitPrice(i)    == HalfUp(LineTotal(i), IF item[i].qty = 0 THEN 1 ELSE item[i].qty)
FiscalPrice(i)  == IF CodesOn(i) = {} THEN LineTotal(i) ELSE Cardinality(CodesOn(i)) * UnitPrice(i)
FiscalTotal(S)  == MapThenSumSet(FiscalPrice, S)
Part(S, fee, reason) == [reason |-> reason, amount |-> FiscalTotal(S) + fee]

\* Mutant: each part gets the whole service fee.
SplitFeeTwice(fee, normal, restricted) == <<fee, fee>>

SplitFee(fee, normal, restricted) ==
  IF Subtotal(normal \union restricted) = 0 THEN <<fee, 0>>
  ELSE LET n == HalfUp(fee * Subtotal(normal), Subtotal(normal \union restricted))
       IN  <<n, fee - n>>

\* _build_receipt_parts: what may not be sold for cash gets a receipt of its own.
Parts(o, method, fee) ==
  LET restricted == {i \in Live(o) : item[i].product \in CashForbidden}
      normal     == Live(o) \ restricted
      fees       == SplitFee(fee, normal, restricted)
  IN  IF Live(o) = {} THEN {}
      ELSE IF method = "card" \/ restricted = {} THEN {Part(Live(o), fee, "none")}
      ELSE IF normal = {} THEN {Part(restricted, fee, "cash_forbidden_category")}
      ELSE {Part(normal, fees[1], "mixed_cash_allowed_items"),
            Part(restricted, fees[2], "cash_forbidden_category")}

\* The items are read again, and each part is posted; any of them may fail.
IssueReceipts(w, failed) ==
  /\ req[w].pc = "issue"
  /\ LET r     == req[w]
         parts == {x \in Parts(r.order, r.method, r.fee) : x.reason \in r.reasons}
     IN  /\ failed \subseteq {x.reason : x \in parts}
         /\ receipt' = [receipt EXCEPT ![r.order] = @ \union {x \in parts : x.reason \notin failed}]
         /\ missing' = [missing EXCEPT ![r.order] = (@ \ {x.reason : x \in parts}) \union failed]
  /\ Finish(w)
  /\ UNCHANGED <<item, marks, order, past>>

\* The receipts that failed are tried again, from the order as it is now.
Retry(w, o) ==
  /\ missing[o] # {}
  /\ Serve(w, [pc |-> "issue", order |-> o, method |-> order[o].method,
               fee |-> ServiceFee(o), reasons |-> missing[o]])
  /\ UNCHANGED <<item, marks, sales, past>>

-----------------------------------------------------------------------------
ScanStep(w) ==
  \/ \E o \in Orders, c \in Codes, mode \in {"add", "attach", "other"}, i \in Items \union {NewRow} :
       ReadForScan(w, o, c, mode, i)
  \/ \E i \in Items : CommitScan(w, i)
  \/ AbortScan(w)
  \/ \E o \in Orders, c \in Codes, i \in Items : ReadForRemove(w, o, c, i)
  \/ CommitRemove(w) \/ AbortRemove(w)

Statuses == {"live", "cancelled"}

ItemStep(w) ==
  \/ \E o \in Orders, p \in Products, st \in Statuses, q \in 0..MaxQty : ReadForAdd(w, o, p, st, q)
  \/ \E i \in Items, p \in Products, st \in Statuses, q \in 0..MaxQty : ReadForUpdate(w, i, p, st, q)
  \/ \E i \in Items : SaveItem(w, i) \/ ReadForDelete(w, i)
  \/ DeleteItem(w)

SaleStep(w) ==
  \/ \E o \in Orders, method \in Methods : BeginCharge(w, o, method)
  \/ ChargeFails(w)
  \/ \E fromBrowser \in BOOLEAN : ChargeSucceeds(w, fromBrowser)
  \/ \E failed \in SUBSET Reasons : IssueReceipts(w, failed)
  \/ \E o \in Orders : Retry(w, o)

Next ==
  \/ \E w \in Workers : ScanStep(w) \/ ItemStep(w) \/ SaleStep(w)
  \/ \E i \in Items, st \in Statuses : KitchenSets(i, st)

Spec == Init /\ [][Next]_vars

-----------------------------------------------------------------------------
\* A code is on one item only, however scans overlap: the check before the scan
\* is a mere read ("This marking code has already been scanned."), and the
\* constraint on the rows holds what the check promises.
CodeOnce == \A x, y \in marks : x.code = y.code => x = y

OwnCodes(i) == {c \in CodesOn(i) : ProductOf(c) = item[i].product}

\* No piece of a marked product leaves without a code of that product ("Marked
\* products must be scanned before payment."): in a closed order every item that
\* was sold has as many as pieces, whatever requests overlapped and whatever the
\* kitchen cancelled or restored.  Two kinds of items are in doubt: those that
\* were written while their order was being charged or later, and those that got
\* a code of another product, as when their product is changed and codes stay.
ClosedIsMarked ==
  \A o \in Orders : order[o].status = "closed" =>
    \A i \in Live(o) \ unsure :
      item[i].product \in Marked => Cardinality(OwnCodes(i)) >= item[i].qty

\* The receipts of an order add up to what was paid, to the last unit of the rounded
\* and divided service fee, however many of them had to be sent again: unless
\* the order was changed during its payment, an item of it was cancelled or
\* restored afterwards, pieces were taken off and their codes left, or an item
\* with codes was given another product.
ReceiptsAddUp ==
  ~overlap /\ ~loosened /\ ~late /\ unsure = {} =>
    \A o \in Orders : receipt[o] # {} /\ missing[o] = {} =>
      MapThenSumSet(LAMBDA x : x.amount, receipt[o]) = order[o].paid
=============================================================================
