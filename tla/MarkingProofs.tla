--------------------------- MODULE MarkingProofs ---------------------------
(***************************************************************************)
(* Theorems about Marking, for any orders, products, codes, prices, fees   *)
(* and workers: no code is on two items, no piece of a marked product is   *)
(* sold without a code of its product, and the fiscal receipts of an order *)
(* add up to what was paid for it.                                         *)
(***************************************************************************)
EXTENDS Marking, FiniteSetTheorems, WellFoundedInduction, TLAPS

LEMMA CodeOnceStep == CodeOnce /\ [Next]_vars => CodeOnce'
<1> SUFFICES ASSUME CodeOnce, [Next]_vars
             PROVE  CodeOnce'
  OBVIOUS
<1>1. ASSUME marks' \subseteq marks
      PROVE  CodeOnce'
  BY <1>1 DEF CodeOnce
<1>2. ASSUME NEW w \in Workers, NEW i \in Items, CommitScan(w, i)
      PROVE  CodeOnce'
  <2> DEFINE c == req[w].code
             m == [item |-> i, code |-> c]
  <2>1. CASE marks' = marks
    BY <1>1, <2>1
  <2>2. CASE marks' = marks \union {m} /\ c \notin Scanned
    <3>1. m.code = c /\ \A x \in marks : x.code # c
      BY <2>2 DEF Scanned
    <3> HIDE DEF m
    <3> QED
      BY <2>2, <3>1 DEF CodeOnce
  <2> QED
    BY <1>2, <2>1, <2>2 DEF CommitScan
<1>3. ASSUME NEW w \in Workers, ScanStep(w)
      PROVE  CodeOnce'
  <2>1. CASE \E i \in Items : CommitScan(w, i)
    BY <1>2, <2>1
  <2>2. CASE ~ \E i \in Items : CommitScan(w, i)
    BY <1>1, <1>3, <2>2 DEF ScanStep, ReadForScan, AbortScan, ReadForRemove, CommitRemove, AbortRemove
  <2> QED
    BY <2>1, <2>2
<1>4. ASSUME NEW w \in Workers, ItemStep(w)
      PROVE  CodeOnce'
  BY <1>1, <1>4 DEF ItemStep, ReadForAdd, ReadForUpdate, SaveItem, ReadForDelete, DeleteItem
<1>5. ASSUME NEW w \in Workers, SaleStep(w)
      PROVE  CodeOnce'
  BY <1>1, <1>5 DEF SaleStep, BeginCharge, ChargeFails, ChargeSucceeds, IssueReceipts, Retry
<1>6. ASSUME NEW i \in Items, NEW st \in Statuses, KitchenSets(i, st)
      PROVE  CodeOnce'
  BY <1>1, <1>6 DEF KitchenSets
<1>7. CASE UNCHANGED vars
  BY <1>1, <1>7 DEF vars
<1> QED
  BY <1>3, <1>4, <1>5, <1>6, <1>7 DEF Next

\* No two items ever carry the same code, for any number of overlapping scans.
THEOREM CodesAreUnique == Spec => []CodeOnce
<1>1. Init => CodeOnce
  BY DEF Init, CodeOnce
<1> QED
  BY <1>1, CodeOnceStep, PTL DEF Spec

-----------------------------------------------------------------------------
(***************************************************************************)
(* Orders that are closed, or being charged, are complete.  As long as no  *)
(* two requests for one order overlap, nobody but the charge works on it.  *)
(***************************************************************************)
Belongs(i, o) == i \in Items /\ item[i] \in Item /\ item[i].order = o

Sound(r) ==
  /\ r.pc \in {"idle", "scan", "remove", "save", "delete", "charge", "issue"}
  /\ r.pc # "idle" => r.order \in Orders
  /\ r.pc \in {"remove", "delete"} => Belongs(r.item, r.order)
  /\ r.pc \in {"scan", "save"} => r.item = NewRow \/ Belongs(r.item, r.order)
  /\ r.pc = "scan" => r.code \in Codes
  /\ r.pc = "save" => r.row \in Item /\ r.row.order = r.order /\ r.row.status \in Statuses
  /\ r.pc = "remove" => r.qty \in 0..MaxQty /\ \A m \in r.marks : Belongs(m.item, r.order)

Typed ==
  /\ item \in [Items -> Item \union {NoItem}]
  /\ DOMAIN order = Orders /\ DOMAIN req = Workers
  /\ \A w \in Workers : Sound(req[w])

Complete(o) == \A i \in ItemsOf(o) : ~ Missing(i)

Alone ==
  /\ \A w, v \in Workers : w # v /\ req[w].pc # "idle" /\ req[v].pc # "idle" => req[w].order # req[v].order
  /\ \A w \in Workers : req[w].pc \notin {"idle", "issue"} => order[req[w].order].status = "open"
  /\ \A o \in Orders : order[o].status = "closed" => Complete(o)
  /\ \A w \in Workers : req[w].pc = "charge" => Complete(req[w].order)

Inv == Typed /\ (~overlap => Alone)

\* What became of item i in a request for order o: nothing, or it is one of that order.
Touched(i, o) ==
  \/ item'[i] = item[i] /\ CodesOn(i)' = CodesOn(i)
  \/ item'[i] \in Item /\ item'[i].order = o /\ (item[i] \in Item => item[i].order = o)

\* All that worker w writes is of the order of its request.
Touches(w) ==
  /\ item' \in [Items -> Item \union {NoItem}]
  /\ \A i \in Items : Touched(i, req[w].order)

LEMMA OthersComplete ==
  ASSUME NEW o \in Orders, NEW p \in Orders, o # p, \A i \in Items : Touched(i, o), Complete(p)
  PROVE  Complete(p)'
<1> SUFFICES ASSUME NEW i \in Items, Exists(i)', item'[i].order = p
             PROVE  ~ Missing(i)'
  BY DEF Complete, ItemsOf
<1>1. item'[i] = item[i] /\ CodesOn(i)' = CodesOn(i)
  BY DEF Touched
<1>2. i \in ItemsOf(p)
  BY <1>1 DEF ItemsOf, Exists
<1> QED
  BY <1>1, <1>2 DEF Complete, Missing

LEMMA Busy ==
  ASSUME Typed, NEW w \in Workers, req[w].pc # "idle"
  PROVE  req[w].order \in Orders
BY DEF Typed, Sound

\* What is known of a request does not depend on the codes, and of the items
\* only on whose they are.
LEMMA StillSound ==
  ASSUME NEW o \in Orders, \A i \in Items : Touched(i, o), NEW r, Sound(r)
  PROVE  Sound(r)'
<1>1. ASSUME NEW i, NEW p, Belongs(i, p)
      PROVE  Belongs(i, p)'
  BY <1>1 DEF Belongs, Touched
<1> QED
  BY <1>1 DEF Sound

\* The end of a request that wrote items or codes.
LEMMA Wrote ==
  ASSUME Inv, NEW w \in Workers, req[w].pc \in {"scan", "remove", "save", "delete"},
         Touches(w), req' = [req EXCEPT ![w] = Idle], UNCHANGED <<order, overlap>>
  PROVE  Inv'
<1> DEFINE o == req[w].order
<1>1. Typed /\ o \in Orders
  BY Busy DEF Inv
<1>2. DOMAIN req' = Workers /\ DOMAIN order' = Orders
  BY <1>1 DEF Typed
<1>3. req'[w].pc = "idle" /\ \A v \in Workers : v # w => req'[v] = req[v]
  BY <1>1 DEF Typed, Idle
<1> HIDE DEF o
<1>4. ASSUME NEW v \in Workers
      PROVE  Sound(req[v])'
  <2>1. CASE v = w
    BY <1>3, <2>1 DEF Sound
  <2>2. CASE v # w
    <3> DEFINE r == req[v]
    <3>1. Sound(r)
      BY <1>1 DEF Typed
    <3>2. \A i \in Items : Touched(i, o)
      BY DEF o, Touches
    <3>3. r' = r
      BY <1>3, <2>2
    <3> HIDE DEF r
    <3> QED
      BY <1>1, <3>1, <3>2, <3>3, StillSound DEF r
  <2> QED
    BY <2>1, <2>2
<1>5. Typed'
  BY <1>2, <1>4 DEF Typed, Touches
<1>6. ASSUME ~overlap
      PROVE  Alone'
  <2>1. Alone
    BY <1>6 DEF Inv
  <2>2. order[o].status = "open"
    BY <2>1 DEF Alone, o
  <2>3. \A v, u \in Workers : v # u /\ req'[v].pc # "idle" /\ req'[u].pc # "idle" => req'[v].order # req'[u].order
    BY <1>3, <2>1 DEF Alone
  <2>4. \A v \in Workers : req'[v].pc \notin {"idle", "issue"} => order'[req'[v].order].status = "open"
    BY <1>3, <2>1 DEF Alone
  <2>5. ASSUME NEW p \in Orders, p # o, Complete(p)
        PROVE  Complete(p)'
    BY <1>1, <2>5, OthersComplete DEF o, Touches
  <2>6. \A p \in Orders : order'[p].status = "closed" => Complete(p)'
    BY <2>1, <2>2, <2>5 DEF Alone
  <2>7. ASSUME NEW v \in Workers, req'[v].pc = "charge"
        PROVE  Complete(req[v].order)'
    <3> DEFINE p == req[v].order
    <3>1. v # w /\ p' = p /\ req[v].pc = "charge"
      BY <1>3, <2>7
    <3>2. p # o /\ p \in Orders /\ Complete(p)
      BY <1>1, <2>1, <3>1, Busy DEF Alone, o
    <3> HIDE DEF p
    <3> QED
      BY <2>5, <3>1, <3>2 DEF p
  <2> QED
    BY <2>3, <2>4, <2>6, <2>7 DEF Alone
<1> QED
  BY <1>5, <1>6 DEF Inv

\* A request is taken up, or ends without a change to the items.
LEMMA Turned ==
  ASSUME Inv, NEW w \in Workers, NEW r, Sound(r), req' = [req EXCEPT ![w] = r],
         UNCHANGED <<item, marks, order>>, overlap => overlap',
         r.pc \notin {"idle", "issue"} => order[r.order].status = "open",
         r.pc = "charge" => Complete(r.order),
         ~overlap' => \A v \in Workers \ {w} : req[v].pc # "idle" /\ r.pc # "idle" => req[v].order # r.order
  PROVE  Inv'
<1>1. Typed /\ DOMAIN req' = Workers
  BY DEF Inv, Typed
<1>2. req'[w] = r /\ \A v \in Workers : v # w => req'[v] = req[v]
  BY <1>1 DEF Typed
<1>3. \A o : Complete(o)' = Complete(o)
  BY DEF Complete, ItemsOf, Exists, Missing, CodesOn
<1>4. Typed'
  <2>1. \A q : Sound(q) => Sound(q)'
    BY DEF Sound, Belongs
  <2>2. ASSUME NEW v \in Workers
        PROVE  Sound(req[v])'
    <3>1. \E q : q = req'[v] /\ Sound(q)
      BY <1>1, <1>2 DEF Typed
    <3> QED
      BY <2>1, <3>1
  <2> QED
    BY <1>1, <2>2 DEF Typed
<1>5. ASSUME ~overlap'
      PROVE  Alone'
  <2>1. Alone
    BY <1>5 DEF Inv
  <2>2. \A v, u \in Workers : v # u /\ req'[v].pc # "idle" /\ req'[u].pc # "idle" => req'[v].order # req'[u].order
    BY <1>2, <1>5, <2>1 DEF Alone
  <2>3. \A v \in Workers : req'[v].pc \notin {"idle", "issue"} => order'[req'[v].order].status = "open"
    BY <1>2, <2>1 DEF Alone
  <2>4. \A p \in Orders : order'[p].status = "closed" => Complete(p)'
    BY <1>3, <2>1 DEF Alone
  <2>5. ASSUME NEW v \in Workers, req'[v].pc = "charge"
        PROVE  Complete(req[v].order)'
    <3>1. \E o : o = req'[v].order /\ Complete(o)
      BY <1>2, <2>1, <2>5 DEF Alone
    <3> QED
      BY <1>3, <3>1
  <2> QED
    BY <2>2, <2>3, <2>4, <2>5 DEF Alone
<1> QED
  BY <1>4, <1>5 DEF Inv

\* A worker that is idle takes up a request.
LEMMA Served ==
  ASSUME Inv, NEW w \in Workers, NEW r, Sound(r), Serve(w, r), r.pc # "idle",
         UNCHANGED <<item, marks, order>>,
         r.pc # "issue" => order[r.order].status = "open",
         r.pc = "charge" => Complete(r.order)
  PROVE  Inv'
<1>1. ~overlap' => \A v \in Workers \ {w} : req[v].pc # "idle" /\ r.pc # "idle" => req[v].order # r.order
  <2> DEFINE Met == \E v \in Workers \ {w} : req[v] # Idle /\ req[v].order = r.order
  <2>1. ~overlap' => ~Met
    BY Zenon DEF Serve
  <2>2. \A v \in Workers : req[v].pc # "idle" => req[v] # Idle
    BY DEF Idle
  <2> QED
    BY <2>1, <2>2
<1>2. req' = [req EXCEPT ![w] = r] /\ (overlap => overlap')
  BY DEF Serve
<1> QED
  BY <1>1, <1>2, Turned

LEMMA Finished ==
  ASSUME Inv, NEW w \in Workers, Finish(w), UNCHANGED <<item, marks, order>>
  PROVE  Inv'
<1>1. Sound(Idle) /\ Idle.pc = "idle"
  BY DEF Sound, Idle
<1>2. req' = [req EXCEPT ![w] = Idle] /\ overlap' = overlap
  BY DEF Finish
<1> QED
  BY <1>1, <1>2, Turned

-----------------------------------------------------------------------------
\* The steps that take a request up.
LEMMA Owned ==
  ASSUME Typed, NEW i \in Items, Exists(i)
  PROVE  item[i] \in Item /\ Belongs(i, item[i].order) /\ item[i].order \in Orders
<1>1. item[i] \in Item \union {NoItem} /\ item[i] # NoItem
  BY DEF Typed, Exists, NoItem
<1> QED
  BY <1>1 DEF Belongs, Item

LEMMA ScanIsRead ==
  ASSUME Inv, NEW w \in Workers, NEW o \in Orders, NEW c \in Codes, NEW mode, NEW i \in Items \union {NewRow},
         ReadForScan(w, o, c, mode, i)
  PROVE  Inv'
<1> DEFINE r == [pc |-> "scan", order |-> o, item |-> i, code |-> c]
<1>1. i = NewRow \/ Belongs(i, o)
  <2>1. CASE mode = "other" \/ Lacking(o, ProductOf(c)) = {}
    BY <2>1 DEF ReadForScan
  <2>2. CASE ~ (mode = "other" \/ Lacking(o, ProductOf(c)) = {})
    <3>1. i \in Items /\ Exists(i) /\ item[i].order = o
      BY <2>2 DEF ReadForScan, IsOldest, Lacking, ItemsOf
    <3> QED
      BY <3>1, Owned DEF Inv
  <2> QED
    BY <2>1, <2>2
<1>2. Sound(r) /\ r.pc = "scan" /\ r.order = o
  BY <1>1 DEF Sound
<1>3. Serve(w, r) /\ order[o].status = "open" /\ UNCHANGED <<item, marks, order>>
  BY DEF ReadForScan, sales
<1> HIDE DEF r
<1> QED
  BY <1>2, <1>3, Served

LEMMA RemoveIsRead ==
  ASSUME Inv, NEW w \in Workers, NEW o \in Orders, NEW c \in Codes, NEW i \in Items, ReadForRemove(w, o, c, i)
  PROVE  Inv'
<1> DEFINE on == {m \in marks : m.code = c /\ m.item \in ItemsOf(o)}
           r  == [pc |-> "remove", order |-> o, item |-> i, qty |-> item[i].qty, marks |-> on]
<1>1. \A j \in ItemsOf(o) : Belongs(j, o) /\ item[j] \in Item
  BY Owned DEF Inv, ItemsOf
<1>2. i \in ItemsOf(o)
  BY DEF ReadForRemove, IsNewest, Live
<1>3. \A m \in on : Belongs(m.item, o)
  BY <1>1
<1>4. item[i].qty \in 0..MaxQty
  BY <1>1, <1>2 DEF Item
<1>5. Serve(w, r) /\ order[o].status = "open" /\ UNCHANGED <<item, marks, order>>
  BY DEF ReadForRemove, sales
<1> HIDE DEF on
<1>6. Sound(r) /\ r.pc = "remove" /\ r.order = o
  BY <1>1, <1>2, <1>3, <1>4 DEF Sound
<1> HIDE DEF r
<1> QED
  BY <1>5, <1>6, Served

LEMMA AddIsRead ==
  ASSUME Inv, NEW w \in Workers, NEW o \in Orders, NEW p \in Products,
         NEW st \in Statuses, NEW q \in 0..MaxQty, ReadForAdd(w, o, p, st, q)
  PROVE  Inv'
<1> DEFINE row == [status |-> st, order |-> o, product |-> p, qty |-> q, price |-> Price(p)]
           r   == [pc |-> "save", order |-> o, item |-> NewRow, row |-> row]
<1>1. row \in Item /\ row.order = o /\ row.status \in Statuses
  BY ConstantsAssumption DEF Item, Statuses
<1>2. Serve(w, r) /\ order[o].status = "open" /\ UNCHANGED <<item, marks, order>>
  BY DEF ReadForAdd, sales
<1> HIDE DEF row
<1>3. Sound(r) /\ r.pc = "save" /\ r.order = o
  BY <1>1 DEF Sound
<1> HIDE DEF r
<1> QED
  BY <1>2, <1>3, Served

LEMMA UpdateIsRead ==
  ASSUME Inv, NEW w \in Workers, NEW i \in Items, NEW p \in Products,
         NEW st \in Statuses, NEW q \in 0..MaxQty, ReadForUpdate(w, i, p, st, q)
  PROVE  Inv'
<1> DEFINE o   == item[i].order
           row == [item[i] EXCEPT !.product = p, !.status = st, !.qty = q]
           r   == [pc |-> "save", order |-> o, item |-> i, row |-> row]
<1>1. item[i] \in Item /\ Belongs(i, o) /\ o \in Orders
  BY Owned DEF Inv, ReadForUpdate
<1>2. row \in Item /\ row.order = o /\ row.status \in Statuses
  BY <1>1 DEF Item, Statuses
<1>3. Serve(w, r) /\ order[o].status = "open" /\ UNCHANGED <<item, marks, order>>
  BY DEF ReadForUpdate, sales
<1> HIDE DEF row, o
<1>4. Sound(r) /\ r.pc = "save" /\ r.order = o
  BY <1>1, <1>2 DEF Sound
<1> HIDE DEF r
<1> QED
  BY <1>3, <1>4, Served

LEMMA DeleteIsRead ==
  ASSUME Inv, NEW w \in Workers, NEW i \in Items, ReadForDelete(w, i)
  PROVE  Inv'
<1> DEFINE o == item[i].order
           r == [pc |-> "delete", order |-> o, item |-> i]
<1>1. Belongs(i, o) /\ o \in Orders
  BY Owned DEF Inv, ReadForDelete
<1>2. Serve(w, r) /\ order[o].status = "open" /\ UNCHANGED <<item, marks, order>>
  BY DEF ReadForDelete, sales
<1> HIDE DEF o
<1>3. Sound(r) /\ r.pc = "delete" /\ r.order = o
  BY <1>1 DEF Sound
<1> HIDE DEF r
<1> QED
  BY <1>2, <1>3, Served

\* The charge begins only with every code in place.
LEMMA ChargeIsBegun ==
  ASSUME Inv, NEW w \in Workers, NEW o \in Orders, NEW method, BeginCharge(w, o, method)
  PROVE  Inv'
<1> DEFINE r == [pc |-> "charge", order |-> o, method |-> method, amount |-> Remaining(o), fee |-> ServiceFee(o)]
<1>1. Sound(r) /\ r.pc = "charge" /\ r.order = o
  BY DEF Sound
<1>2. Serve(w, r) /\ order[o].status = "open" /\ UNCHANGED <<item, marks, order>>
  BY DEF BeginCharge, sales
<1>3. Complete(o)
  BY DEF BeginCharge, Complete
<1> HIDE DEF r
<1> QED
  BY <1>1, <1>2, <1>3, Served

LEMMA Retried ==
  ASSUME Inv, NEW w \in Workers, NEW o \in Orders, Retry(w, o)
  PROVE  Inv'
<1> DEFINE r == [pc |-> "issue", order |-> o, method |-> order[o].method,
                 fee |-> ServiceFee(o), reasons |-> missing[o]]
<1>1. Sound(r) /\ r.pc = "issue" /\ r.order = o
  BY DEF Sound
<1>2. Serve(w, r) /\ UNCHANGED <<item, marks, order>>
  BY DEF Retry, sales
<1> HIDE DEF r
<1> QED
  BY <1>1, <1>2, Served

-----------------------------------------------------------------------------
\* The steps that end a request.
LEMMA ScanTouches ==
  ASSUME Inv, NEW w \in Workers, NEW i \in Items, CommitScan(w, i)
  PROVE  Touches(w)
<1> DEFINE o   == req[w].order
           p   == ProductOf(req[w].code)
           row == [status |-> "live", order |-> o, product |-> p, qty |-> 1, price |-> Price(p)]
<1>1. req[w].pc = "scan" /\ Typed /\ Sound(req[w]) /\ o \in Orders
  BY Busy DEF CommitScan, Inv, Typed
<1>3. \A j \in Items : j # i => CodesOn(j)' = CodesOn(j)
  BY DEF CommitScan, CodesOn
<1>4. row \in Item /\ row.order = o
  BY <1>1, ConstantsAssumption DEF Item, Sound
<1> HIDE DEF row
<1>5. /\ item' \in [Items -> Item \union {NoItem}]
      /\ \A j \in Items : Touched(j, o)
  <2>1. CASE req[w].item = NewRow
    <3>1. item[i] \notin Item /\ item' = [item EXCEPT ![i] = row]
      BY <2>1 DEF CommitScan, IsRow, Item, row
    <3> QED
      BY <1>1, <1>3, <1>4, <3>1 DEF Typed, Touched
  <2>2. CASE req[w].item # NewRow
    <3>1. req[w].item = i /\ item' = item
      BY <2>2 DEF CommitScan, IsRow
    <3>2. item[i] \in Item /\ item[i].order = o
      BY <1>1, <2>2, <3>1 DEF Sound, Belongs
    <3> QED
      BY <1>1, <1>3, <3>1, <3>2 DEF Typed, Touched
  <2> QED
    BY <2>1, <2>2
<1> QED
  BY <1>5 DEF Touches

LEMMA DeletedIsItem ==
  ASSUME NEW i, item[i] \in Item
  PROVE  Deleted(i) \in Item /\ Deleted(i).order = item[i].order /\ Deleted(i).status = "gone"
<1>1. PICK row \in Item : row = item[i]
  OBVIOUS
<1>2. Deleted(i) = [status |-> "gone", order |-> row.order, product |-> row.product, qty |-> 0, price |-> 0]
  <2>1. PICK st, o, p, q, c : row = [status |-> st, order |-> o, product |-> p, qty |-> q, price |-> c]
    BY DEF Item
  <2>2. Deleted(i) = [[status |-> st, order |-> o, product |-> p, qty |-> q, price |-> c]
                         EXCEPT !.status = "gone", !.qty = 0, !.price = 0]
    BY <1>1, <2>1 DEF Deleted
  <2> QED
    BY <2>1, <2>2
<1>3. 0 \in 0..MaxQty
  BY ConstantsAssumption
<1>4. row.order \in Orders /\ row.product \in Products
  BY DEF Item
<1> QED
  BY <1>1, <1>2, <1>3, <1>4 DEF Item

LEMMA RemovalTouches ==
  ASSUME Inv, NEW w \in Workers, CommitRemove(w)
  PROVE  Touches(w)
<1> DEFINE r == req[w]
           o == r.order
           i == r.item
<1>1. r.pc = "remove" /\ Typed /\ Sound(r) /\ o \in Orders
  BY Busy DEF CommitRemove, Inv, Typed
<1>3. i \in Items /\ item[i] \in Item /\ item[i].order = o /\ r.qty \in 0..MaxQty
  BY <1>1 DEF Sound, Belongs
<1>4. ASSUME NEW j \in Items, j # i, ~ (item[j] \in Item /\ item[j].order = o)
      PROVE  CodesOn(j)' = CodesOn(j)
  <2>1. \A m \in r.marks : m.item # j
    BY <1>1, <1>4 DEF Sound, Belongs
  <2>2. \A m \in marks : m.item = j => m \in marks'
    BY <1>4, <2>1 DEF CommitRemove
  <2>3. marks' \subseteq marks
    BY DEF CommitRemove
  <2> QED
    BY <2>2, <2>3 DEF CodesOn
<1>5. PICK row \in Item : item' = [item EXCEPT ![i] = row] /\ row.order = o
  <2>1. CASE r.qty > 1
    <3>1. [item[i] EXCEPT !.qty = r.qty - 1] \in Item /\ [item[i] EXCEPT !.qty = r.qty - 1].order = o
      BY <1>3, <2>1, ConstantsAssumption DEF Item
    <3>2. item' = [item EXCEPT ![i] = [item[i] EXCEPT !.qty = r.qty - 1]]
      BY <2>1 DEF CommitRemove
    <3> QED
      BY <3>1, <3>2
  <2>2. CASE ~ (r.qty > 1)
    <3>1. Deleted(i) \in Item /\ Deleted(i).order = o
      BY <1>3, DeletedIsItem
    <3>2. item' = [item EXCEPT ![i] = Deleted(i)]
      BY <2>2 DEF CommitRemove
    <3> QED
      BY <3>1, <3>2
  <2> QED
    BY <2>1, <2>2
<1> HIDE DEF i
<1>6. item' \in [Items -> Item \union {NoItem}]
  BY <1>1, <1>3, <1>5 DEF Typed
<1>7. \A j \in Items : Touched(j, o)
  BY <1>1, <1>3, <1>4, <1>5 DEF Typed, Touched
<1> QED
  BY <1>6, <1>7 DEF Touches

LEMMA SaveTouches ==
  ASSUME Inv, NEW w \in Workers, NEW i \in Items, SaveItem(w, i)
  PROVE  Touches(w)
<1> DEFINE o   == req[w].order
           row == req[w].row
<1>1. req[w].pc = "save" /\ Typed /\ Sound(req[w])
  BY DEF SaveItem, Inv, Typed
<1>3. item' = [item EXCEPT ![i] = row] /\ row \in Item /\ row.order = o
  BY <1>1 DEF SaveItem, Sound
<1>4. item[i] \in Item => item[i].order = o
  BY <1>1 DEF SaveItem, IsRow, Item, Sound, Belongs
<1>5. \A j \in Items : CodesOn(j)' = CodesOn(j)
  BY DEF SaveItem, CodesOn
<1> HIDE DEF row
<1>6. item' \in [Items -> Item \union {NoItem}] /\ \A j \in Items : Touched(j, o)
  BY <1>1, <1>3, <1>4, <1>5 DEF Typed, Touched
<1> QED
  BY <1>6 DEF Touches

LEMMA DeletionTouches ==
  ASSUME Inv, NEW w \in Workers, DeleteItem(w)
  PROVE  Touches(w)
<1> DEFINE o   == req[w].order
           i   == req[w].item
           row == Deleted(i)
<1>1. req[w].pc = "delete" /\ Typed /\ Sound(req[w])
  BY DEF DeleteItem, Inv, Typed
<1>3. i \in Items /\ item[i] \in Item /\ item[i].order = o
  BY <1>1 DEF Sound, Belongs
<1>4. row \in Item /\ row.order = o
  BY <1>3, DeletedIsItem
<1>5. item' = [item EXCEPT ![i] = row] /\ \A j \in Items : j # i => CodesOn(j)' = CodesOn(j)
  BY DEF DeleteItem, CodesOn
<1> HIDE DEF i, row
<1>6. item' \in [Items -> Item \union {NoItem}] /\ \A j \in Items : Touched(j, o)
  BY <1>1, <1>3, <1>4, <1>5 DEF Typed, Touched
<1> QED
  BY <1>6 DEF Touches

Writes(w) ==
  \/ \E i \in Items : CommitScan(w, i) \/ SaveItem(w, i)
  \/ CommitRemove(w) \/ DeleteItem(w)

LEMMA WritesTouch ==
  ASSUME Inv, NEW w \in Workers, Writes(w)
  PROVE  /\ Touches(w) /\ req[w].pc \in {"scan", "remove", "save", "delete"}
         /\ req' = [req EXCEPT ![w] = Idle]
         /\ UNCHANGED <<order, receipt, missing, overlap>>
<1>1. Touches(w)
  BY ScanTouches, RemovalTouches, SaveTouches, DeletionTouches DEF Writes
<1>2. /\ req[w].pc \in {"scan", "remove", "save", "delete"}
      /\ req' = [req EXCEPT ![w] = Idle]
      /\ UNCHANGED <<order, receipt, missing, overlap>>
  BY DEF Writes, CommitScan, CommitRemove, SaveItem, DeleteItem, Finish, sales
<1> QED
  BY <1>1, <1>2

\* The charge pays the order, complete as it was found, and may close it.
LEMMA ChargeIsMade ==
  ASSUME Inv, NEW w \in Workers, NEW fromBrowser \in BOOLEAN, ChargeSucceeds(w, fromBrowser)
  PROVE  Inv'
<1> DEFINE o == req[w].order
           f == [pc |-> "issue", order |-> o, method |-> req[w].method,
                 fee |-> IF fromBrowser THEN ServiceFee(o) ELSE req[w].fee, reasons |-> Reasons]
           paid == order[o].paid + req[w].amount
           g == [status |-> IF fromBrowser /\ paid < Total(o) THEN order[o].status ELSE "closed",
                 paid |-> paid, method |-> req[w].method]
<1>1. /\ req' = [req EXCEPT ![w] = f] /\ f.pc = "issue" /\ f.order = o
      /\ order' = [order EXCEPT ![o] = g]
  BY DEF ChargeSucceeds
<1> HIDE DEF f, g
<1>2. Typed /\ req[w].pc = "charge" /\ o \in Orders /\ UNCHANGED <<item, marks, overlap>>
  BY Busy DEF ChargeSucceeds, Inv
<1>3. DOMAIN req' = Workers /\ DOMAIN order' = Orders
  BY <1>1, <1>2 DEF Typed
<1>4. req'[w] = f /\ order'[o] = g
  BY <1>1, <1>2 DEF Typed
<1>5. /\ \A v \in Workers : v # w => req'[v] = req[v]
      /\ \A p \in Orders : p # o => order'[p] = order[p]
  BY <1>1, <1>2 DEF Typed
<1>6. \A p : Complete(p)' = Complete(p)
  BY <1>2 DEF Complete, ItemsOf, Exists, Missing, CodesOn
<1> HIDE DEF o
<1>7. Typed'
  <2>1. \A q : Sound(q) => Sound(q)'
    BY <1>2 DEF Sound, Belongs
  <2>2. Sound(f)
    BY <1>1, <1>2 DEF Sound
  <2>3. ASSUME NEW v \in Workers
        PROVE  Sound(req[v])'
    <3>1. \E q : q = req'[v] /\ Sound(q)
      BY <1>2, <1>4, <1>5, <2>2 DEF Typed
    <3> QED
      BY <2>1, <3>1
  <2>4. item' \in [Items -> Item \union {NoItem}]
    BY <1>2 DEF Typed
  <2> QED
    BY <1>3, <2>3, <2>4 DEF Typed
<1>8. ASSUME ~overlap
      PROVE  Alone'
  <2>1. Alone
    BY <1>8 DEF Inv
  <2>2. \A v, u \in Workers : v # u /\ req'[v].pc # "idle" /\ req'[u].pc # "idle" => req'[v].order # req'[u].order
    BY <1>1, <1>2, <1>4, <1>5, <2>1 DEF Alone, o
  <2>3. ASSUME NEW v \in Workers, req'[v].pc \notin {"idle", "issue"}
        PROVE  order'[req'[v].order].status = "open"
    <3>1. v # w /\ req'[v] = req[v]
      BY <1>1, <1>4, <1>5, <2>3
    <3>2. req[v].order # o /\ req[v].order \in Orders /\ order[req[v].order].status = "open"
      BY <1>2, <2>1, <2>3, <3>1, Busy DEF Alone, o
    <3> QED
      BY <1>5, <3>1, <3>2
  <2>4. ASSUME NEW p \in Orders, order'[p].status = "closed"
        PROVE  Complete(p)'
    <3>1. Complete(p)
      BY <1>2, <1>5, <2>1, <2>4 DEF Alone, o
    <3> QED
      BY <1>6, <3>1
  <2>5. ASSUME NEW v \in Workers, req'[v].pc = "charge"
        PROVE  Complete(req[v].order)'
    <3>1. \E p : p = req'[v].order /\ Complete(p)
      BY <1>1, <1>4, <1>5, <2>1, <2>5 DEF Alone
    <3> QED
      BY <1>6, <3>1
  <2> QED
    BY <2>2, <2>3, <2>4, <2>5 DEF Alone
<1> QED
  BY <1>2, <1>7, <1>8 DEF Inv

\* An item that is cancelled or restored lacks as many codes as before.
LEMMA KitchenHasSet ==
  ASSUME Inv, NEW i \in Items, NEW st \in Statuses, KitchenSets(i, st)
  PROVE  Inv'
<1>1. Typed /\ item[i] \in Item
  BY Owned DEF Inv, KitchenSets, Exists
<1> DEFINE row == [item[i] EXCEPT !.status = st]
<1>2. /\ row \in Item /\ item' = [item EXCEPT ![i] = row]
      /\ row.order = item[i].order /\ row.product = item[i].product
      /\ row.qty = item[i].qty /\ row.status = st
  BY <1>1 DEF KitchenSets, Item, Statuses
<1> HIDE DEF row
<1>3. UNCHANGED <<marks, order, req>> /\ (~overlap' => ~overlap)
  BY Zenon DEF KitchenSets, sales
<1>4. item' \in [Items -> Item \union {NoItem}]
  BY <1>1, <1>2 DEF Typed
<1>5. \A q : Sound(q) => Sound(q)'
  <2>1. \A j, p : Belongs(j, p) => Belongs(j, p)'
    BY <1>1, <1>2 DEF Belongs, Typed
  <2> QED
    BY <2>1 DEF Sound
<1>6. Typed'
  BY <1>1, <1>3, <1>4, <1>5 DEF Typed
<1>7. \A p : Complete(p) => Complete(p)'
  <2>1. \A j \in Items : CodesOn(j)' = CodesOn(j)
    BY <1>3 DEF CodesOn
  <2>2. \A j \in Items : Missing(j)' = Missing(j)
    BY <1>1, <1>2, <2>1 DEF Typed, Missing
  <2>3. \A p : ItemsOf(p)' = ItemsOf(p)
    BY <1>1, <1>2 DEF Typed, ItemsOf, Exists, KitchenSets, Statuses
  <2> QED
    BY <2>2, <2>3 DEF Complete, ItemsOf
<1>8. Alone => Alone'
  BY <1>3, <1>7 DEF Alone
<1> QED
  BY <1>3, <1>6, <1>8 DEF Inv

-----------------------------------------------------------------------------
LEMMA InvStep == Inv /\ [Next]_vars => Inv'
<1> SUFFICES ASSUME Inv, [Next]_vars
             PROVE  Inv'
  OBVIOUS
<1>1. ASSUME NEW w \in Workers, ScanStep(w)
      PROVE  Inv'
  <2>1. CASE AbortScan(w)
    BY <2>1, Finished DEF AbortScan, sales
  <2>2. CASE AbortRemove(w)
    BY <2>2, Finished DEF AbortRemove, sales
  <2>3. CASE Writes(w)
    BY <2>3, WritesTouch, Wrote
  <2> QED
    BY <1>1, <2>1, <2>2, <2>3, ScanIsRead, RemoveIsRead DEF ScanStep, Writes
<1>2. ASSUME NEW w \in Workers, ItemStep(w)
      PROVE  Inv'
  <2>1. CASE Writes(w)
    BY <2>1, WritesTouch, Wrote
  <2> QED
    BY <1>2, <2>1, AddIsRead, UpdateIsRead, DeleteIsRead DEF ItemStep, Writes
<1>3. ASSUME NEW w \in Workers, SaleStep(w)
      PROVE  Inv'
  <2>1. CASE ChargeFails(w)
    BY <2>1, Finished DEF ChargeFails, sales
  <2>2. ASSUME NEW failed, IssueReceipts(w, failed)
        PROVE  Inv'
    BY <2>2, Finished DEF IssueReceipts
  <2> QED
    BY <1>3, <2>1, <2>2, ChargeIsBegun, ChargeIsMade, Retried DEF SaleStep
<1>4. CASE UNCHANGED vars
  <2>1. \A q : Sound(q) => Sound(q)'
    BY <1>4 DEF vars, Sound, Belongs
  <2>2. \A p : Complete(p) => Complete(p)'
    BY <1>4 DEF vars, Complete, ItemsOf, Exists, Missing, CodesOn
  <2>3. Typed => Typed'
    BY <1>4, <2>1 DEF vars, Typed
  <2>4. Alone => Alone'
    BY <1>4, <2>2 DEF vars, Alone
  <2> QED
    BY <1>4, <2>3, <2>4 DEF vars, Inv
<1> QED
  BY <1>1, <1>2, <1>3, <1>4, KitchenHasSet DEF Next

-----------------------------------------------------------------------------
(***************************************************************************)
(* Sums over finite sets.  A property of all finite sets is proved by the  *)
(* least counterexample: a set that has it not, while its proper subsets   *)
(* have.                                                                   *)
(***************************************************************************)
LEMMA Minimal ==
  ASSUME NEW S, IsFiniteSet(S), NEW C \in SUBSET (SUBSET S), C # {}
  PROVE  \E s \in C : \A u \in C : u \subseteq s => u = s
<1>1. C \subseteq FiniteSubsetsOf(S)
  BY FS_Subset DEF FiniteSubsetsOf
<1>2. \E s \in C : \A u \in C : ~ (<<u, s>> \in StrictSubsetOrdering(S))
  BY <1>1, FS_StrictSubsetOrderingWellFounded, WFMin
<1> QED
  BY <1>2 DEF StrictSubsetOrdering

\* The sums of the subsets of S, one element after the other, as MapThenSumSet
\* works them out.
Adds(it, f, S) ==
  it = [s \in SUBSET S |-> IF s = {} THEN 0 ELSE LET x == CHOOSE x \in s : TRUE IN f[x] + it[s \ {x}]]

SumOf(f, S) == (CHOOSE it : Adds(it, f, S))[S]

\* The element that is added last.
Last(s) == CHOOSE x \in s : TRUE

LEMMA AddsAll ==
  ASSUME NEW S, NEW f, NEW it
  PROVE  Adds(it, f, S) <=>
           /\ it = [s \in SUBSET S |-> it[s]]
           /\ it[{}] = 0
           /\ \A s \in SUBSET S : s # {} => it[s] = f[Last(s)] + it[s \ {Last(s)}]
<1>1. ASSUME Adds(it, f, S)
      PROVE  /\ it = [s \in SUBSET S |-> it[s]]
             /\ it[{}] = 0
             /\ \A s \in SUBSET S : s # {} => it[s] = f[Last(s)] + it[s \ {Last(s)}]
  BY <1>1 DEF Adds, Last
<1>2. ASSUME /\ it = [s \in SUBSET S |-> it[s]]
             /\ it[{}] = 0
             /\ \A s \in SUBSET S : s # {} => it[s] = f[Last(s)] + it[s \ {Last(s)}]
      PROVE  Adds(it, f, S)
  BY <1>2 DEF Adds, Last
<1> QED
  BY <1>1, <1>2

LEMMA LastIn ==
  ASSUME NEW s, s # {}
  PROVE  Last(s) \in s
  BY DEF Last

\* Where the recursion holds for the proper subsets of s, it holds for s.
Recurs(f, s) == SumOf(f, s) = IF s = {} THEN 0 ELSE f[Last(s)] + SumOf(f, s \ {Last(s)})

LEMMA Agree ==
  ASSUME NEW S, IsFiniteSet(S), NEW f, NEW it, Adds(it, f, S),
         NEW D \in SUBSET (SUBSET S), \A s \in D : \A u \in SUBSET s : u \in D, \A u \in D : Recurs(f, u)
  PROVE  \A u \in D : it[u] = SumOf(f, u)
<1>1. SUFFICES ASSUME {u \in D : it[u] # SumOf(f, u)} # {}
               PROVE  FALSE
  OBVIOUS
<1>2. PICK s \in D : it[s] # SumOf(f, s) /\ \A u \in D : u \subseteq s /\ it[u] # SumOf(f, u) => u = s
  <2>1. PICK C : C = {u \in D : it[u] # SumOf(f, u)}
    OBVIOUS
  <2>2. C \in SUBSET (SUBSET S) /\ C # {}
    BY <1>1, <2>1
  <2>3. \E s \in C : \A u \in C : u \subseteq s => u = s
    BY <2>2, Minimal
  <2> QED
    BY <2>1, <2>3
<1>3. s \in SUBSET S /\ s # {}
  BY <1>2, AddsAll DEF Recurs
<1>4. Last(s) \in s
  BY <1>3, LastIn
<1>5. it[s] = f[Last(s)] + it[s \ {Last(s)}]
  BY <1>3, AddsAll
<1>6. SumOf(f, s) = f[Last(s)] + SumOf(f, s \ {Last(s)})
  BY <1>2, <1>3 DEF Recurs
<1>7. s \ {Last(s)} \in D /\ s \ {Last(s)} # s
  BY <1>2, <1>4
<1>8. it[s \ {Last(s)}] = SumOf(f, s \ {Last(s)})
  BY <1>2, <1>7
<1> QED
  BY <1>2, <1>5, <1>6, <1>8

LEMMA SumRecurs ==
  ASSUME NEW S, IsFiniteSet(S), NEW f
  PROVE  \A s \in SUBSET S : Recurs(f, s)
<1>1. SUFFICES ASSUME {s \in SUBSET S : ~ Recurs(f, s)} # {}
               PROVE  FALSE
  OBVIOUS
<1>2. PICK s \in SUBSET S : ~ Recurs(f, s) /\ \A u \in SUBSET s : u # s => Recurs(f, u)
  <2>1. PICK C : C = {u \in SUBSET S : ~ Recurs(f, u)}
    OBVIOUS
  <2>2. C \in SUBSET (SUBSET S) /\ C # {}
    BY <1>1, <2>1
  <2>3. PICK s \in C : \A u \in C : u \subseteq s => u = s
    BY <2>2, Minimal
  <2>4. s \in SUBSET S /\ ~ Recurs(f, s)
    BY <2>1
  <2>5. \A u \in SUBSET s : u # s => Recurs(f, u)
    BY <2>1, <2>3, <2>4
  <2> QED
    BY <2>4, <2>5
<1>3. IsFiniteSet(s)
  BY <1>2, FS_Subset
<1>4. PICK D : D = (SUBSET s) \ {s}
  OBVIOUS
<1>5. D \in SUBSET (SUBSET s) /\ (\A v \in D : \A u \in SUBSET v : u \in D) /\ \A u \in D : Recurs(f, u)
  BY <1>2, <1>4
<1>6. PICK it : it = [u \in SUBSET s |-> IF u = {} THEN 0
                                        ELSE IF u = s THEN f[Last(s)] + SumOf(f, s \ {Last(s)}) ELSE SumOf(f, u)]
  OBVIOUS
<1>7. Adds(it, f, s)
  <2>1. it = [u \in SUBSET s |-> it[u]] /\ it[{}] = 0
    BY <1>6
  <2>2. ASSUME NEW u \in SUBSET s, u # {}
        PROVE  it[u] = f[Last(u)] + it[u \ {Last(u)}]
    <3>1. Last(u) \in u /\ u \ {Last(u)} \in D
      BY <1>4, <2>2, LastIn
    <3>2. it[u \ {Last(u)}] = SumOf(f, u \ {Last(u)})
      <4>1. CASE u \ {Last(u)} = {}
        BY <1>5, <1>6, <3>1, <4>1 DEF Recurs
      <4>2. CASE u \ {Last(u)} # {}
        BY <1>4, <1>6, <3>1, <4>2
      <4> QED
        BY <4>1, <4>2
    <3>3. CASE u = s
      BY <1>6, <2>2, <3>2, <3>3
    <3>4. CASE u # s
      <4>1. it[u] = SumOf(f, u)
        BY <1>6, <2>2, <3>4
      <4>2. SumOf(f, u) = f[Last(u)] + SumOf(f, u \ {Last(u)})
        BY <1>2, <2>2, <3>4 DEF Recurs
      <4> QED
        BY <3>2, <4>1, <4>2
    <3> QED
      BY <3>3, <3>4
  <2> QED
    BY <2>1, <2>2, AddsAll
<1>8. PICK h : h = (CHOOSE x : Adds(x, f, s))
  OBVIOUS
<1>9. Adds(h, f, s) /\ h[s] = SumOf(f, s)
  BY <1>7, <1>8 DEF SumOf
<1>10. CASE s = {}
  <2>1. h[s] = 0
    BY <1>9, <1>10, AddsAll
  <2> QED
    BY <1>2, <1>9, <1>10, <2>1 DEF Recurs
<1>11. CASE s # {}
  <2>1. Last(s) \in s /\ s \ {Last(s)} \in D
    BY <1>4, <1>11, LastIn
  <2>2. h[s \ {Last(s)}] = SumOf(f, s \ {Last(s)})
    <3>1. PICK u : u = s \ {Last(s)}
      OBVIOUS
    <3>2. u \in D
      BY <2>1, <3>1
    <3>3. h[u] = SumOf(f, u)
      BY <1>3, <1>5, <1>9, <3>2, Agree
    <3> QED
      BY <3>1, <3>3
  <2>3. h[s] = f[Last(s)] + h[s \ {Last(s)}]
    BY <1>9, <1>11, AddsAll
  <2> QED
    BY <1>2, <1>9, <1>11, <2>2, <2>3 DEF Recurs
<1> QED
  BY <1>10, <1>11

\* What a sum is.
LEMMA SumStep ==
  ASSUME NEW S, IsFiniteSet(S), NEW f
  PROVE  /\ SumOf(f, {}) = 0
         /\ S # {} => SumOf(f, S) = f[Last(S)] + SumOf(f, S \ {Last(S)})
<1>1. Recurs(f, S) /\ Recurs(f, {})
  BY SumRecurs
<1> QED
  BY <1>1 DEF Recurs

\* Sums can be had.
LEMMA SumAdds ==
  ASSUME NEW S, IsFiniteSet(S), NEW f
  PROVE  \E it : Adds(it, f, S)
<1>1. PICK it : it = [s \in SUBSET S |-> SumOf(f, s)]
  OBVIOUS
<1>2. \A s \in SUBSET S : Recurs(f, s)
  BY SumRecurs
<1>3. it = [s \in SUBSET S |-> it[s]]
  BY <1>1
<1>4. it[{}] = 0
  BY <1>1, <1>2 DEF Recurs
<1>5. ASSUME NEW s \in SUBSET S, s # {}
      PROVE  it[s] = f[Last(s)] + it[s \ {Last(s)}]
  <2>1. s \ {Last(s)} \in SUBSET S
    OBVIOUS
  <2> QED
    BY <1>1, <1>2, <1>5, <2>1 DEF Recurs
<1> QED
  BY <1>3, <1>4, <1>5, AddsAll

\* Whatever function adds, it gives the sum.
LEMMA SumUnique ==
  ASSUME NEW S, IsFiniteSet(S), NEW f, NEW it, Adds(it, f, S)
  PROVE  it[S] = SumOf(f, S)
<1>1. PICK D : D = SUBSET S
  OBVIOUS
<1>2. D \in SUBSET (SUBSET S) /\ (\A v \in D : \A u \in SUBSET v : u \in D) /\ \A u \in D : Recurs(f, u)
  BY <1>1, SumRecurs
<1>3. S \in D
  BY <1>1
<1> QED
  BY <1>2, <1>3, Agree

LEMMA SumSame ==
  ASSUME NEW S, IsFiniteSet(S), NEW f, NEW g, \A x \in S : f[x] = g[x]
  PROVE  SumOf(f, S) = SumOf(g, S)
<1>1. SUFFICES ASSUME {s \in SUBSET S : SumOf(f, s) # SumOf(g, s)} # {}
               PROVE  FALSE
  OBVIOUS
<1>2. PICK s \in SUBSET S : SumOf(f, s) # SumOf(g, s) /\ \A u \in SUBSET s : u # s => SumOf(f, u) = SumOf(g, u)
  <2>1. PICK C : C = {s \in SUBSET S : SumOf(f, s) # SumOf(g, s)}
    OBVIOUS
  <2>2. C \in SUBSET (SUBSET S) /\ C # {}
    BY <1>1, <2>1
  <2>3. PICK s \in C : \A u \in C : u \subseteq s => u = s
    BY <2>2, Minimal
  <2>4. s \in SUBSET S /\ SumOf(f, s) # SumOf(g, s)
    BY <2>1
  <2>5. \A u \in SUBSET s : u # s => SumOf(f, u) = SumOf(g, u)
    BY <2>1, <2>3, <2>4
  <2> QED
    BY <2>4, <2>5
<1>3. IsFiniteSet(s)
  BY <1>2, FS_Subset
<1>4. s # {}
  BY <1>2, <1>3, SumStep
<1>5. Last(s) \in s
  BY <1>4, LastIn
<1>6. SumOf(f, s \ {Last(s)}) = SumOf(g, s \ {Last(s)}) /\ f[Last(s)] = g[Last(s)]
  BY <1>2, <1>5
<1>7. SumOf(f, s) = f[Last(s)] + SumOf(f, s \ {Last(s)})
  BY <1>3, <1>4, SumStep
<1>8. SumOf(g, s) = g[Last(s)] + SumOf(g, s \ {Last(s)})
  BY <1>3, <1>4, SumStep
<1> QED
  BY <1>2, <1>6, <1>7, <1>8

\* Where the terms are in a set that addition does not leave, so are the sums.
LEMMA SumIn ==
  ASSUME NEW S, IsFiniteSet(S), NEW f, NEW K, 0 \in K, \A m, n \in K : m + n \in K,
         \A x \in S : f[x] \in K
  PROVE  SumOf(f, S) \in K
<1>1. SUFFICES ASSUME {s \in SUBSET S : SumOf(f, s) \notin K} # {}
               PROVE  FALSE
  OBVIOUS
<1>2. PICK s \in SUBSET S : SumOf(f, s) \notin K /\ \A u \in SUBSET s : u # s => SumOf(f, u) \in K
  <2>1. PICK C : C = {s \in SUBSET S : SumOf(f, s) \notin K}
    OBVIOUS
  <2>2. C \in SUBSET (SUBSET S) /\ C # {}
    BY <1>1, <2>1
  <2>3. PICK s \in C : \A u \in C : u \subseteq s => u = s
    BY <2>2, Minimal
  <2>4. s \in SUBSET S /\ SumOf(f, s) \notin K
    BY <2>1
  <2>5. \A u \in SUBSET s : u # s => SumOf(f, u) \in K
    BY <2>1, <2>3, <2>4
  <2> QED
    BY <2>4, <2>5
<1>3. IsFiniteSet(s)
  BY <1>2, FS_Subset
<1>4. s # {}
  <2>1. SumOf(f, {}) = 0
    BY <1>3, SumStep
  <2> QED
    BY <1>2, <2>1
<1>5. Last(s) \in s
  BY <1>4, LastIn
<1>6. SumOf(f, s \ {Last(s)}) \in K /\ f[Last(s)] \in K
  BY <1>2, <1>5
<1>7. SumOf(f, s) = f[Last(s)] + SumOf(f, s \ {Last(s)})
  BY <1>3, <1>4, SumStep
<1> QED
  BY <1>2, <1>6, <1>7

LEMMA SumNat ==
  ASSUME NEW S, IsFiniteSet(S), NEW f, \A x \in S : f[x] \in Nat
  PROVE  SumOf(f, S) \in Nat
<1>1. 0 \in Nat /\ \A m, n \in Nat : m + n \in Nat
  OBVIOUS
<1> QED
  BY <1>1, SumIn

LEMMA SumInt ==
  ASSUME NEW S, IsFiniteSet(S), NEW f, \A x \in S : f[x] \in Int
  PROVE  SumOf(f, S) \in Int
<1>1. 0 \in Int /\ \A m, n \in Int : m + n \in Int
  OBVIOUS
<1> QED
  BY <1>1, SumIn

\* A sum without one of its terms.
LEMMA SumTake ==
  ASSUME NEW S, IsFiniteSet(S), NEW f, \A x \in S : f[x] \in Int, NEW x \in S
  PROVE  SumOf(f, S) \in Int /\ SumOf(f, S \ {x}) \in Int /\ SumOf(f, S) = f[x] + SumOf(f, S \ {x})
<1>1. \A s \in SUBSET S : SumOf(f, s) \in Int
  BY SumInt, FS_Subset
<1>2. SUFFICES ASSUME {s \in SUBSET S : \E y \in s : SumOf(f, s) # f[y] + SumOf(f, s \ {y})} # {}
               PROVE  FALSE
  <2>1. S \in SUBSET S /\ S \ {x} \in SUBSET S
    OBVIOUS
  <2>2. SumOf(f, S) \in Int /\ SumOf(f, S \ {x}) \in Int
    BY <1>1, <2>1
  <2> QED
    BY <2>1, <2>2
<1>3. PICK s \in SUBSET S : /\ \E y \in s : SumOf(f, s) # f[y] + SumOf(f, s \ {y})
                            /\ \A u \in SUBSET s : u # s => \A y \in u : SumOf(f, u) = f[y] + SumOf(f, u \ {y})
  <2>1. PICK C : C = {s \in SUBSET S : \E y \in s : SumOf(f, s) # f[y] + SumOf(f, s \ {y})}
    OBVIOUS
  <2>2. C \in SUBSET (SUBSET S) /\ C # {}
    BY <1>2, <2>1
  <2>3. PICK s \in C : \A u \in C : u \subseteq s => u = s
    BY <2>2, Minimal
  <2>4. s \in SUBSET S /\ \E y \in s : SumOf(f, s) # f[y] + SumOf(f, s \ {y})
    BY <2>1
  <2>5. \A u \in SUBSET s : u # s => \A y \in u : SumOf(f, u) = f[y] + SumOf(f, u \ {y})
    BY <2>1, <2>3, <2>4
  <2> QED
    BY <2>4, <2>5
<1>4. PICK y \in s : SumOf(f, s) # f[y] + SumOf(f, s \ {y})
  BY <1>3
<1>5. PICK z \in s : z = Last(s)
  BY <1>4, LastIn
<1>6. IsFiniteSet(s)
  BY <1>3, FS_Subset
<1>7. SumOf(f, s) = f[z] + SumOf(f, s \ {z})
  BY <1>4, <1>5, <1>6, SumStep
<1>8. y # z
  BY <1>4, <1>7
<1>9. s \ {z} # s /\ y \in s \ {z} /\ s \ {y} # s /\ z \in s \ {y}
  BY <1>8
<1>10. SumOf(f, s \ {z}) = f[y] + SumOf(f, (s \ {z}) \ {y})
  BY <1>3, <1>9
<1>11. SumOf(f, s \ {y}) = f[z] + SumOf(f, (s \ {y}) \ {z})
  BY <1>3, <1>9
<1>12. (s \ {z}) \ {y} = (s \ {y}) \ {z}
  OBVIOUS
<1>13. SumOf(f, (s \ {z}) \ {y}) \in Int /\ f[y] \in Int /\ f[z] \in Int
  BY <1>1, <1>3
<1>14. PICK rest \in Int : rest = SumOf(f, (s \ {z}) \ {y})
  BY <1>13
<1>15. SumOf(f, s) = f[z] + (f[y] + rest) /\ SumOf(f, s \ {y}) = f[z] + rest
  BY <1>7, <1>10, <1>11, <1>12, <1>14
<1>16. f[z] + (f[y] + rest) = f[y] + (f[z] + rest)
  BY <1>13, <1>14
<1> QED
  BY <1>4, <1>15, <1>16

\* A sum of two disjoint parts.
LEMMA SumParts ==
  ASSUME NEW S, IsFiniteSet(S), NEW T, IsFiniteSet(T), S \intersect T = {},
         NEW f, \A x \in S \union T : f[x] \in Int
  PROVE  SumOf(f, S \union T) = SumOf(f, S) + SumOf(f, T)
<1>1. IsFiniteSet(S \union T)
  BY FS_Union
<1>2. \A s \in SUBSET (S \union T) : SumOf(f, s) \in Int
  BY <1>1, SumInt, FS_Subset
<1>3. SUFFICES ASSUME {u \in SUBSET T : SumOf(f, S \union u) # SumOf(f, S) + SumOf(f, u)} # {}
               PROVE  FALSE
  <2>1. T \in SUBSET T
    OBVIOUS
  <2> QED
    BY <2>1
<1>4. PICK u \in SUBSET T : /\ SumOf(f, S \union u) # SumOf(f, S) + SumOf(f, u)
                            /\ \A v \in SUBSET u : v # u => SumOf(f, S \union v) = SumOf(f, S) + SumOf(f, v)
  <2>1. PICK C : C = {u \in SUBSET T : SumOf(f, S \union u) # SumOf(f, S) + SumOf(f, u)}
    OBVIOUS
  <2>2. C \in SUBSET (SUBSET T) /\ C # {}
    BY <1>3, <2>1
  <2>3. PICK u \in C : \A v \in C : v \subseteq u => v = u
    BY <2>2, Minimal
  <2>4. u \in SUBSET T /\ SumOf(f, S \union u) # SumOf(f, S) + SumOf(f, u)
    BY <2>1
  <2>5. \A v \in SUBSET u : v # u => SumOf(f, S \union v) = SumOf(f, S) + SumOf(f, v)
    BY <2>1, <2>3, <2>4
  <2> QED
    BY <2>4, <2>5
<1>5. IsFiniteSet(u) /\ IsFiniteSet(S \union u) /\ u \subseteq S \union T /\ S \union u \subseteq S \union T
  BY <1>1, FS_Subset
<1>6. SumOf(f, S) \in Int /\ SumOf(f, u) \in Int /\ SumOf(f, S \union u) \in Int
  BY <1>2, <1>5
<1>7. u # {}
  <2>1. SUFFICES ASSUME u = {}
                 PROVE  FALSE
    OBVIOUS
  <2>2. SumOf(f, u) = 0 /\ S \union u = S
    BY <1>5, <2>1, SumStep
  <2>3. SumOf(f, S) + 0 = SumOf(f, S)
    BY <1>6
  <2> QED
    BY <1>4, <2>2, <2>3
<1>8. PICK x \in u : TRUE
  BY <1>7
<1>9. PICK v : v = u \ {x}
  OBVIOUS
<1>10. SumOf(f, u) = f[x] + SumOf(f, v) /\ SumOf(f, v) \in Int /\ f[x] \in Int
  BY <1>5, <1>9, SumTake
<1>11. x \in S \union u /\ (S \union u) \ {x} = S \union v
  BY <1>8, <1>9
<1>12. SumOf(f, S \union u) = f[x] + SumOf(f, S \union v)
  BY <1>5, <1>11, SumTake
<1>13. SumOf(f, S \union v) = SumOf(f, S) + SumOf(f, v)
  BY <1>4, <1>8, <1>9
<1> QED
  BY <1>4, <1>6, <1>10, <1>12, <1>13

LEMMA SumOfOne ==
  ASSUME NEW f, NEW a, f[a] \in Int
  PROVE  SumOf(f, {a}) = f[a]
<1>1. IsFiniteSet({a})
  BY FS_Singleton
<1>2. SumOf(f, {a} \ {a}) \in Int /\ SumOf(f, {a}) = f[a] + SumOf(f, {a} \ {a})
  BY <1>1, SumTake
<1>3. SumOf(f, {}) = 0
  BY <1>1, SumStep
<1>4. {a} \ {a} = {}
  OBVIOUS
<1> QED
  BY <1>2, <1>3, <1>4

LEMMA SumOfTwo ==
  ASSUME NEW f, NEW a, NEW b, a # b, f[a] \in Int, f[b] \in Int
  PROVE  SumOf(f, {a, b}) = f[a] + f[b]
<1>1. {a, b} = {a} \union {b} /\ {a} \intersect {b} = {}
  OBVIOUS
<1>2. IsFiniteSet({a}) /\ IsFiniteSet({b})
  BY FS_Singleton
<1>3. SumOf(f, {a} \union {b}) = SumOf(f, {a}) + SumOf(f, {b})
  BY <1>1, <1>2, SumParts
<1> QED
  BY <1>1, <1>3, SumOfOne

-----------------------------------------------------------------------------
(***************************************************************************)
(* Quotients, and their rounding.                                          *)
(***************************************************************************)
LEMMA Quotient ==
  ASSUME NEW a \in Nat, NEW b \in Nat \ {0}
  PROVE  /\ a \div b \in Nat /\ a % b \in Nat
         /\ a = b * (a \div b) + (a % b) /\ a % b < b
OBVIOUS

LEMMA QuotientIs ==
  ASSUME NEW a \in Nat, NEW b \in Nat \ {0}, NEW k \in Nat, b * k <= a, a < b * k + b
  PROVE  a \div b = k
<1>1. PICK q \in Nat, r \in Nat : q = a \div b /\ a = b * q + r /\ r < b
  BY Quotient
<1>2. ASSUME q >= k + 1
      PROVE  FALSE
  <2>1. b * q >= b * (k + 1)
    BY <1>2
  <2> QED BY <1>1, <2>1
<1>3. ASSUME k >= q + 1
      PROVE  FALSE
  <2>1. b * k >= b * (q + 1)
    BY <1>3
  <2> QED BY <1>1, <2>1
<1> QED BY <1>1, <1>2, <1>3

LEMMA HalfUpNat ==
  ASSUME NEW n \in Nat, NEW d \in Nat \ {0}
  PROVE  HalfUp(n, d) \in Nat
<1>1. 2 * n + d \in Nat /\ 2 * d \in Nat \ {0}
  OBVIOUS
<1> QED BY <1>1, Quotient DEF HalfUp

LEMMA HalfEvenNat ==
  ASSUME NEW n \in Nat
  PROVE  HalfEven(n, 100) \in Nat
<1>1. n \div 100 \in Nat
  OBVIOUS
<1> QED BY <1>1 DEF HalfEven

LEMMA WholeUnits ==
  ASSUME NEW q \in Nat \ {0}, NEW p \in Nat
  PROVE  HalfUp(q * p, q) = p
<1>1. PICK n \in Nat : n = q * p
  OBVIOUS
<1>2. (2 * q) * p = 2 * n
  BY <1>1
<1>3. PICK a \in Nat, b \in Nat \ {0} : a = 2 * n + q /\ b = 2 * q
  OBVIOUS
<1>4. a \div b = p
  BY <1>2, <1>3, QuotientIs
<1> QED
  BY <1>1, <1>3, <1>4 DEF HalfUp

LEMMA ShareAtMost ==
  ASSUME NEW fee \in Nat, NEW m \in Nat, NEW n \in Nat \ {0}, m <= n
  PROVE  HalfUp(fee * m, n) \in 0..fee
<1>1. PICK x \in Nat, y \in Nat : x = fee * m /\ y = fee * n
  OBVIOUS
<1>2. x <= y
  BY <1>1
<1>3. PICK a \in Nat, b \in Nat \ {0} : a = 2 * x + n /\ b = 2 * n
  OBVIOUS
<1>4. PICK q \in Nat, r \in Nat : q = a \div b /\ a = b * q + r
  BY Quotient
<1>5. ASSUME q >= fee + 1
      PROVE  FALSE
  <2>1. b * q >= b * (fee + 1)
    BY <1>5
  <2>2. b * (fee + 1) = 2 * y + 2 * n
    BY <1>1, <1>3
  <2> QED BY <1>2, <1>3, <1>4, <2>1, <2>2
<1> QED
  BY <1>1, <1>3, <1>4, <1>5 DEF HalfUp

-----------------------------------------------------------------------------
\* The sums of the model, as sums of functions.
Lines(S)   == [i \in S |-> LineTotal(i)]
Labels(S)  == [i \in S |-> FiscalPrice(i)]
Amounts(R) == [x \in R |-> x.amount]

LinesAddUp   == \A S : IsFiniteSet(S) => Subtotal(S) = SumOf(Lines(S), S)
LabelsAddUp  == \A S : IsFiniteSet(S) => FiscalTotal(S) = SumOf(Labels(S), S)
AmountsAddUp == \A R : IsFiniteSet(R) => MapThenSumSet(LAMBDA x : x.amount, R) = SumOf(Amounts(R), R)

LEMMA LinesAdd == LinesAddUp
<1> SUFFICES ASSUME NEW S, IsFiniteSet(S)
             PROVE  MapThenSumSet(LineTotal, S) = SumOf(Lines(S), S)
  BY DEF LinesAddUp, Subtotal
<1> DEFINE P(it) == it = [s \in SUBSET S |-> IF s = {} THEN 0 ELSE LET x == CHOOSE x \in s : TRUE IN LineTotal(x) + it[s \ {x}]]
<1>1. MapThenSumSet(LineTotal, S) = (CHOOSE it : P(it))[S]
  BY DEF MapThenSumSet, MapThenFoldSet
<1>2. ASSUME NEW it
      PROVE  P(it) <=> Adds(it, Lines(S), S)
  <2>1. \A s \in SUBSET S : s # {} => Last(s) \in S
    BY LastIn
  <2>2. \A s \in SUBSET S : s # {} => Lines(S)[Last(s)] = LineTotal(Last(s))
    BY <2>1 DEF Lines
  <2>3. [s \in SUBSET S |-> IF s = {} THEN 0 ELSE LET x == CHOOSE x \in s : TRUE IN Lines(S)[x] + it[s \ {x}]]
        = [s \in SUBSET S |-> IF s = {} THEN 0 ELSE LET x == CHOOSE x \in s : TRUE IN LineTotal(x) + it[s \ {x}]]
    BY <2>2 DEF Last
  <2> QED
    BY <2>3 DEF Adds
<1> HIDE DEF P
<1>3. \E it : P(it)
  BY <1>2, SumAdds
<1>4. P(CHOOSE it : P(it))
  BY <1>3
<1> QED
  BY <1>1, <1>2, <1>4, SumUnique

LEMMA LabelsAdd == LabelsAddUp
<1> SUFFICES ASSUME NEW S, IsFiniteSet(S)
             PROVE  MapThenSumSet(FiscalPrice, S) = SumOf(Labels(S), S)
  BY DEF LabelsAddUp, FiscalTotal
<1> DEFINE P(it) == it = [s \in SUBSET S |-> IF s = {} THEN 0 ELSE LET x == CHOOSE x \in s : TRUE IN FiscalPrice(x) + it[s \ {x}]]
<1>1. MapThenSumSet(FiscalPrice, S) = (CHOOSE it : P(it))[S]
  BY DEF MapThenSumSet, MapThenFoldSet
<1>2. ASSUME NEW it
      PROVE  P(it) <=> Adds(it, Labels(S), S)
  <2>1. \A s \in SUBSET S : s # {} => Last(s) \in S
    BY LastIn
  <2>2. \A s \in SUBSET S : s # {} => Labels(S)[Last(s)] = FiscalPrice(Last(s))
    BY <2>1 DEF Labels
  <2>3. [s \in SUBSET S |-> IF s = {} THEN 0 ELSE LET x == CHOOSE x \in s : TRUE IN Labels(S)[x] + it[s \ {x}]]
        = [s \in SUBSET S |-> IF s = {} THEN 0 ELSE LET x == CHOOSE x \in s : TRUE IN FiscalPrice(x) + it[s \ {x}]]
    BY <2>2 DEF Last
  <2> QED
    BY <2>3 DEF Adds
<1> HIDE DEF P
<1>3. \E it : P(it)
  BY <1>2, SumAdds
<1>4. P(CHOOSE it : P(it))
  BY <1>3
<1> QED
  BY <1>1, <1>2, <1>4, SumUnique

LEMMA AmountsAdd == AmountsAddUp
<1> SUFFICES ASSUME NEW S, IsFiniteSet(S)
             PROVE  MapThenSumSet(LAMBDA x : x.amount, S) = SumOf(Amounts(S), S)
  BY DEF AmountsAddUp
<1> DEFINE P(it) == it = [s \in SUBSET S |-> IF s = {} THEN 0 ELSE LET x == CHOOSE x \in s : TRUE IN x.amount + it[s \ {x}]]
<1>1. MapThenSumSet(LAMBDA x : x.amount, S) = (CHOOSE it : P(it))[S]
  BY DEF MapThenSumSet, MapThenFoldSet
<1>2. ASSUME NEW it
      PROVE  P(it) <=> Adds(it, Amounts(S), S)
  <2>1. \A s \in SUBSET S : s # {} => Last(s) \in S
    BY LastIn
  <2>2. \A s \in SUBSET S : s # {} => Amounts(S)[Last(s)] = Last(s).amount
    BY <2>1 DEF Amounts
  <2>3. [s \in SUBSET S |-> IF s = {} THEN 0 ELSE LET x == CHOOSE x \in s : TRUE IN Amounts(S)[x] + it[s \ {x}]]
        = [s \in SUBSET S |-> IF s = {} THEN 0 ELSE LET x == CHOOSE x \in s : TRUE IN x.amount + it[s \ {x}]]
    BY <2>2 DEF Last
  <2> QED
    BY <2>3 DEF Adds
<1> HIDE DEF P
<1>3. \E it : P(it)
  BY <1>2, SumAdds
<1>4. P(CHOOSE it : P(it))
  BY <1>3
<1> QED
  BY <1>1, <1>2, <1>4, SumUnique

LEMMA SumsLater == LinesAddUp' /\ LabelsAddUp'
BY LinesAdd, LabelsAdd, PTL

-----------------------------------------------------------------------------
(***************************************************************************)
(* Types.  All sums are of items that exist, and the codes are finitely    *)
(* many, so that they can be counted.                                      *)
(***************************************************************************)
\* A set of items whose rows exist.
Real(S) == S \subseteq Items /\ \A i \in S : item[i] \in Item

LEMMA RealIsFinite ==
  ASSUME NEW S, Real(S)
  PROVE  IsFiniteSet(S)
<1>1. IsFiniteSet(Items)
  BY FS_Interval, ConstantsAssumption DEF Items
<1> QED
  BY <1>1, FS_Subset DEF Real

LEMMA LineIsNat ==
  ASSUME NEW i, item[i] \in Item
  PROVE  LineTotal(i) \in Nat /\ item[i].qty \in Nat /\ item[i].price \in Nat
<1>1. item[i].qty \in Nat /\ item[i].price \in Nat
  BY ConstantsAssumption DEF Item
<1>2. PICK q \in Nat, p \in Nat : q = item[i].qty /\ p = item[i].price
  BY <1>1
<1>3. LineTotal(i) = q * p
  BY <1>2 DEF LineTotal
<1>4. q * p \in Nat
  OBVIOUS
<1> QED
  BY <1>1, <1>3, <1>4

LEMMA SubtotalIsNat ==
  ASSUME NEW S, Real(S)
  PROVE  Subtotal(S) \in Nat
<1>1. \A i \in S : Lines(S)[i] \in Nat
  BY LineIsNat DEF Lines, Real
<1>2. SumOf(Lines(S), S) \in Nat
  BY <1>1, SumNat, RealIsFinite
<1> QED
  BY <1>2, LinesAdd, RealIsFinite DEF LinesAddUp

\* Marks are no fewer than the codes on them.
LEMMA CodesOfMarks ==
  ASSUME NEW M, IsFiniteSet(M)
  PROVE  /\ IsFiniteSet({m.code : m \in M})
         /\ Cardinality({m.code : m \in M}) <= Cardinality(M)
<1>1. PICK C : C = {m.code : m \in M}
  OBVIOUS
<1>2. [m \in M |-> m.code] \in Surjection(M, C)
  BY <1>1 DEF Surjection
<1> QED
  BY <1>1, <1>2, FS_Surjection

LEMMA CodesAreFinite ==
  ASSUME IsFiniteSet(marks), NEW i
  PROVE  /\ IsFiniteSet(CodesOn(i)) /\ Cardinality(CodesOn(i)) \in Nat
         /\ Cardinality(CodesOn(i)) <= Cardinality({m \in marks : m.item = i})
<1>1. PICK M : M = {x \in marks : x.item = i}
  OBVIOUS
<1>2. IsFiniteSet(M)
  BY <1>1, FS_Subset
<1>3. CodesOn(i) = {m.code : m \in M}
  BY <1>1 DEF CodesOn
<1> QED
  BY <1>1, <1>2, <1>3, CodesOfMarks, FS_CardinalityType

LEMMA FiscalPriceIsNat ==
  ASSUME IsFiniteSet(marks), NEW i, item[i] \in Item
  PROVE  FiscalPrice(i) \in Nat
<1>1. UnitPrice(i) \in Nat
  <2>1. PICK n \in Nat, d \in Nat \ {0} : n = LineTotal(i) /\ d = IF item[i].qty = 0 THEN 1 ELSE item[i].qty
    BY LineIsNat
  <2> QED
    BY <2>1, HalfUpNat DEF UnitPrice
<1>2. PICK n \in Nat, u \in Nat : n = Cardinality(CodesOn(i)) /\ u = UnitPrice(i)
  BY <1>1, CodesAreFinite
<1>3. n * u \in Nat
  OBVIOUS
<1> QED
  BY <1>2, <1>3, LineIsNat DEF FiscalPrice

LEMMA FiscalTotalIsNat ==
  ASSUME IsFiniteSet(marks), NEW S, Real(S)
  PROVE  FiscalTotal(S) \in Nat
<1>1. \A i \in S : Labels(S)[i] \in Nat
  BY FiscalPriceIsNat DEF Labels, Real
<1>2. SumOf(Labels(S), S) \in Nat
  BY <1>1, SumNat, RealIsFinite
<1> QED
  BY <1>2, LabelsAdd, RealIsFinite DEF LabelsAddUp

LEMMA LiveIsReal ==
  ASSUME Typed, NEW o
  PROVE  \A S \in SUBSET Live(o) : Real(S)
<1>1. \A i \in Items : Exists(i) => item[i] \in Item
  BY Owned
<1> QED
  BY <1>1 DEF Live, ItemsOf, Real

LEMMA TotalIsNat ==
  ASSUME Typed, NEW o
  PROVE  Subtotal(Live(o)) \in Nat /\ ServiceFee(o) \in Nat /\ Total(o) \in Nat
<1>1. Subtotal(Live(o)) \in Nat
  BY LiveIsReal, SubtotalIsNat
<1>2. PICK n \in Nat, p \in Nat : n = Subtotal(Live(o)) /\ p = FeePercent
  BY <1>1, ConstantsAssumption
<1>3. n * p \in Nat
  OBVIOUS
<1>4. ServiceFee(o) \in Nat
  BY <1>2, <1>3, HalfEvenNat DEF ServiceFee
<1> QED
  BY <1>1, <1>4 DEF Total

\* A whole is the sum of two parts of it.
LEMMA SubtotalParts ==
  ASSUME NEW A, NEW B, Real(A), Real(B), A \intersect B = {}
  PROVE  Subtotal(A \union B) = Subtotal(A) + Subtotal(B)
<1>1. Real(A \union B)
  BY DEF Real
<1>2. \A i \in A \union B : Lines(A \union B)[i] \in Int
  BY <1>1, LineIsNat DEF Lines, Real
<1>3. SumOf(Lines(A \union B), A \union B) = SumOf(Lines(A \union B), A) + SumOf(Lines(A \union B), B)
  BY <1>2, RealIsFinite, SumParts
<1>4. SumOf(Lines(A \union B), A) = SumOf(Lines(A), A) /\ SumOf(Lines(A \union B), B) = SumOf(Lines(B), B)
  <2>1. \A i \in A : Lines(A \union B)[i] = Lines(A)[i]
    BY DEF Lines
  <2>2. \A i \in B : Lines(A \union B)[i] = Lines(B)[i]
    BY DEF Lines
  <2> QED
    BY <2>1, <2>2, RealIsFinite, SumSame
<1> QED
  BY <1>1, <1>3, <1>4, LinesAdd, RealIsFinite DEF LinesAddUp

\* The two shares of the fee are natural numbers, and add up to it.
LEMMA FeeIsSplit ==
  ASSUME NEW fee \in Nat, NEW A, NEW B, Real(A), Real(B), A \intersect B = {}
  PROVE  /\ SplitFee(fee, A, B)[1] \in Nat /\ SplitFee(fee, A, B)[2] \in Nat
         /\ SplitFee(fee, A, B)[1] + SplitFee(fee, A, B)[2] = fee
<1>1. Real(A \union B)
  BY DEF Real
<1>2. Subtotal(A \union B) = Subtotal(A) + Subtotal(B)
  BY SubtotalParts
<1>3. PICK m \in Nat, n \in Nat : m = Subtotal(A) /\ n = Subtotal(A \union B) /\ m <= n
  BY <1>1, <1>2, SubtotalIsNat
<1>4. CASE n = 0
  BY <1>3, <1>4 DEF SplitFee
<1>5. CASE n # 0
  <2>1. PICK k \in 0..fee : k = HalfUp(fee * m, n)
    BY <1>3, <1>5, ShareAtMost
  <2>2. SplitFee(fee, A, B) = <<k, fee - k>>
    BY <1>3, <1>5, <2>1 DEF SplitFee
  <2> QED
    BY <2>1, <2>2
<1> QED
  BY <1>4, <1>5

LEMMA PartIsReceipt ==
  ASSUME IsFiniteSet(marks), NEW S, Real(S), NEW fee \in Nat, NEW reason \in Reasons
  PROVE  Part(S, fee, reason) \in Receipt
BY FiscalTotalIsNat DEF Part, Receipt

LEMMA PartsAreReceipts ==
  ASSUME Typed, IsFiniteSet(marks), NEW o, NEW method, NEW fee \in Nat
  PROVE  Parts(o, method, fee) \subseteq Receipt
<1> DEFINE restricted == {i \in Live(o) : item[i].product \in CashForbidden}
           normal     == Live(o) \ restricted
           fees       == SplitFee(fee, normal, restricted)
<1>1. Real(Live(o)) /\ Real(restricted) /\ Real(normal)
  BY LiveIsReal
<1>2. fees[1] \in Nat /\ fees[2] \in Nat
  BY <1>1, FeeIsSplit
<1>3. Parts(o, method, fee) \subseteq {Part(Live(o), fee, "none"), Part(restricted, fee, "cash_forbidden_category"),
         Part(normal, fees[1], "mixed_cash_allowed_items"), Part(restricted, fees[2], "cash_forbidden_category")}
  BY DEF Parts
<1> HIDE DEF restricted, normal, fees
<1>4. /\ Part(Live(o), fee, "none") \in Receipt
      /\ Part(restricted, fee, "cash_forbidden_category") \in Receipt
      /\ Part(normal, fees[1], "mixed_cash_allowed_items") \in Receipt
      /\ Part(restricted, fees[2], "cash_forbidden_category") \in Receipt
  BY <1>1, <1>2, PartIsReceipt DEF Reasons
<1> QED
  BY <1>3, <1>4

Counted == TypeOK /\ IsFiniteSet(marks)

\* What most steps leave alone.
SameSales == marks' = marks /\ order' = order /\ receipt' = receipt /\ missing' = missing

LEMMA StillCounted ==
  ASSUME Counted, Inv', SameSales, req' \in [Workers -> Request],
         overlap' \in BOOLEAN, loosened' \in BOOLEAN, late' \in BOOLEAN, unsure' = unsure
  PROVE  Counted'
<1>1. item' \in [Items -> Item \union {NoItem}]
  BY DEF Inv, Typed
<1> QED
  BY <1>1 DEF Counted, TypeOK, SameSales

LEMMA CountedServe ==
  ASSUME Counted, Inv', NEW w \in Workers, NEW r \in Request, Serve(w, r), SameSales, past' = past
  PROVE  Counted'
<1>1. overlap' \in BOOLEAN
  BY Zenon DEF Serve
<1>2. req' \in [Workers -> Request]
  BY DEF Serve, Counted, TypeOK
<1> QED
  BY <1>1, <1>2, StillCounted DEF Counted, TypeOK, past

Reads(w) ==
  \/ \E o \in Orders, c \in Codes, mode \in {"add", "attach", "other"}, i \in Items \union {NewRow} :
       ReadForScan(w, o, c, mode, i)
  \/ \E o \in Orders, c \in Codes, i \in Items : ReadForRemove(w, o, c, i)
  \/ \E o \in Orders, p \in Products, st \in Statuses, q \in 0..MaxQty : ReadForAdd(w, o, p, st, q)
  \/ \E i \in Items, p \in Products, st \in Statuses, q \in 0..MaxQty : ReadForUpdate(w, i, p, st, q)
  \/ \E i \in Items : ReadForDelete(w, i)

LEMMA CountedRead ==
  ASSUME Inv, Counted, Inv', NEW w \in Workers, Reads(w)
  PROVE  Counted'
<1>1. ASSUME NEW o \in Orders, NEW c \in Codes, NEW mode, NEW i \in Items \union {NewRow},
             ReadForScan(w, o, c, mode, i)
      PROVE  Counted'
  <2> DEFINE r == [pc |-> "scan", order |-> o, item |-> i, code |-> c]
  <2>1. r \in Request
    BY DEF Request
  <2>2. Serve(w, r) /\ SameSales /\ past' = past
    BY <1>1 DEF ReadForScan, SameSales, sales
  <2> HIDE DEF r
  <2> QED
    BY <2>1, <2>2, CountedServe
<1>2. ASSUME NEW o \in Orders, NEW c \in Codes, NEW i \in Items, ReadForRemove(w, o, c, i)
      PROVE  Counted'
  <2> DEFINE on == {m \in marks : m.code = c /\ m.item \in ItemsOf(o)}
             r  == [pc |-> "remove", order |-> o, item |-> i, qty |-> item[i].qty, marks |-> on]
  <2>1. on \in SUBSET Mark
    BY DEF Counted, TypeOK
  <2>2. item[i].qty \in 0..MaxQty
    <3>1. i \in ItemsOf(o)
      BY <1>2 DEF ReadForRemove, IsNewest, Live
    <3>2. item[i] \in Item
      BY <3>1, Owned DEF Inv, ItemsOf
    <3> QED
      BY <3>2 DEF Item
  <2>3. Serve(w, r) /\ SameSales /\ past' = past
    BY <1>2 DEF ReadForRemove, SameSales, sales
  <2> HIDE DEF on
  <2>4. r \in Request
    BY <2>1, <2>2 DEF Request
  <2> HIDE DEF r
  <2> QED
    BY <2>3, <2>4, CountedServe
<1>3. ASSUME NEW o \in Orders, NEW p \in Products, NEW st \in Statuses, NEW q \in 0..MaxQty,
             ReadForAdd(w, o, p, st, q)
      PROVE  Counted'
  <2> DEFINE row == [status |-> st, order |-> o, product |-> p, qty |-> q, price |-> Price(p)]
             r   == [pc |-> "save", order |-> o, item |-> NewRow, row |-> row]
  <2>1. row \in Item
    BY ConstantsAssumption DEF Item, Statuses
  <2>2. Serve(w, r) /\ SameSales /\ past' = past
    BY <1>3 DEF ReadForAdd, SameSales, sales
  <2> HIDE DEF row
  <2>3. r \in Request
    BY <2>1 DEF Request
  <2> HIDE DEF r
  <2> QED
    BY <2>2, <2>3, CountedServe
<1>4. ASSUME NEW i \in Items, NEW p \in Products, NEW st \in Statuses, NEW q \in 0..MaxQty,
             ReadForUpdate(w, i, p, st, q)
      PROVE  Counted'
  <2> DEFINE row == [item[i] EXCEPT !.product = p, !.status = st, !.qty = q]
             r   == [pc |-> "save", order |-> item[i].order, item |-> i, row |-> row]
  <2>1. item[i] \in Item /\ item[i].order \in Orders
    BY <1>4, Owned DEF Inv, ReadForUpdate
  <2>2. row \in Item
    BY <2>1 DEF Item, Statuses
  <2>3. Serve(w, r) /\ SameSales /\ past' = past
    BY <1>4 DEF ReadForUpdate, SameSales, sales
  <2> HIDE DEF row
  <2>4. r \in Request
    BY <2>1, <2>2 DEF Request
  <2> HIDE DEF r
  <2> QED
    BY <2>3, <2>4, CountedServe
<1>5. ASSUME NEW i \in Items, ReadForDelete(w, i)
      PROVE  Counted'
  <2> DEFINE r == [pc |-> "delete", order |-> item[i].order, item |-> i]
  <2>1. item[i].order \in Orders
    BY <1>5, Owned DEF Inv, ReadForDelete
  <2>2. r \in Request
    BY <2>1 DEF Request
  <2>3. Serve(w, r) /\ SameSales /\ past' = past
    BY <1>5 DEF ReadForDelete, SameSales, sales
  <2> HIDE DEF r
  <2> QED
    BY <2>2, <2>3, CountedServe
<1> QED
  BY <1>1, <1>2, <1>3, <1>4, <1>5 DEF Reads

\* The database keeps finitely many marks, of items and codes.
LEMMA CountedWrite ==
  ASSUME Inv, Counted, Inv', NEW w \in Workers, Writes(w)
  PROVE  Counted'
<1>1. item' \in [Items -> Item \union {NoItem}]
  BY DEF Inv, Typed
<1>2. /\ req' = [req EXCEPT ![w] = Idle] /\ order' = order
      /\ receipt' = receipt /\ missing' = missing /\ overlap' = overlap
  BY WritesTouch
<1>3. marks' \subseteq Mark /\ IsFiniteSet(marks')
  <2>1. ASSUME marks' \subseteq marks
        PROVE  marks' \subseteq Mark /\ IsFiniteSet(marks')
    BY <2>1, FS_Subset DEF Counted, TypeOK
  <2>2. ASSUME NEW i \in Items, CommitScan(w, i)
        PROVE  marks' \subseteq Mark /\ IsFiniteSet(marks')
    <3> DEFINE m == [item |-> i, code |-> req[w].code]
    <3>1. m \in Mark
      BY <2>2 DEF CommitScan, Inv, Typed, Sound, Mark
    <3>2. marks' = marks \/ marks' = marks \union {m}
      BY <2>2 DEF CommitScan
    <3> HIDE DEF m
    <3> QED
      BY <3>1, <3>2, FS_AddElement DEF Counted, TypeOK
  <2> QED
    BY <2>1, <2>2 DEF Writes, SaveItem, CommitRemove, DeleteItem
<1>4. loosened' \in BOOLEAN /\ late' \in BOOLEAN
  <2>1. late' = late
    BY DEF Writes, CommitScan, SaveItem, CommitRemove, DeleteItem, past
  <2>2. ASSUME NEW i \in Items, SaveItem(w, i)
        PROVE  loosened' \in BOOLEAN
    BY <2>2, Zenon DEF SaveItem
  <2>3. ASSUME CommitRemove(w)
        PROVE  loosened' \in BOOLEAN
    <3>1. CASE req[w].qty > 1
      BY <2>3, <3>1, Zenon DEF CommitRemove
    <3>2. CASE ~ (req[w].qty > 1)
      <4>1. loosened' = loosened
        BY <2>3, <3>2 DEF CommitRemove
      <4> QED
        BY <4>1 DEF Counted, TypeOK
    <3> QED
      BY <3>1, <3>2
  <2>4. ASSUME NEW i \in Items, CommitScan(w, i)
        PROVE  loosened' = loosened
    BY <2>4 DEF CommitScan
  <2>5. DeleteItem(w) => loosened' = loosened
    BY DEF DeleteItem, past
  <2> QED
    BY <2>1, <2>2, <2>3, <2>4, <2>5 DEF Writes, Counted, TypeOK
<1>5. req' \in [Workers -> Request]
  BY <1>2 DEF Counted, TypeOK, Request
<1>6. unsure' \subseteq Items
  <2>1. unsure \subseteq Items
    BY DEF Counted, TypeOK
  <2>2. ASSUME NEW i \in Items, CommitScan(w, i) \/ SaveItem(w, i)
        PROVE  unsure' \subseteq Items
    BY <2>1, <2>2 DEF CommitScan, SaveItem, Doubt
  <2>3. ASSUME CommitRemove(w)
        PROVE  unsure' \subseteq Items
    <3>1. req[w].item \in Items
      BY <2>3 DEF CommitRemove, Inv, Typed, Sound, Belongs
    <3> QED
      BY <2>1, <2>3, <3>1 DEF CommitRemove, Doubt
  <2>4. DeleteItem(w) => unsure' = unsure
    BY DEF DeleteItem, past
  <2> QED
    BY <2>1, <2>2, <2>3, <2>4 DEF Writes
<1> QED
  BY <1>1, <1>2, <1>3, <1>4, <1>5, <1>6 DEF Counted, TypeOK

LEMMA CountedFinish ==
  ASSUME Counted, Inv', NEW w \in Workers, Finish(w), SameSales, past' = past
  PROVE  Counted'
<1>1. req' \in [Workers -> Request] /\ overlap' = overlap
  BY DEF Finish, Counted, TypeOK, Request
<1> QED
  BY <1>1, StillCounted DEF Counted, TypeOK, past

LEMMA CountedSale ==
  ASSUME Inv, Counted, Inv', NEW w \in Workers, SaleStep(w)
  PROVE  Counted'
<1>1. ASSUME NEW o \in Orders, NEW method \in Methods, BeginCharge(w, o, method)
      PROVE  Counted'
  <2> DEFINE r == [pc |-> "charge", order |-> o, method |-> method, amount |-> Remaining(o), fee |-> ServiceFee(o)]
  <2>1. Remaining(o) \in Nat /\ ServiceFee(o) \in Nat
    <3>1. Total(o) \in Nat /\ ServiceFee(o) \in Nat
      BY TotalIsNat DEF Inv
    <3>2. order[o].paid \in Nat
      BY DEF Counted, TypeOK
    <3> QED
      BY <3>1, <3>2 DEF Remaining
  <2>2. r \in Request
    BY <2>1 DEF Request
  <2>3. Serve(w, r) /\ SameSales /\ past' = past
    BY <1>1 DEF BeginCharge, SameSales, sales
  <2> HIDE DEF r
  <2> QED
    BY <2>2, <2>3, CountedServe
<1>2. ASSUME NEW o \in Orders, Retry(w, o)
      PROVE  Counted'
  <2> DEFINE r == [pc |-> "issue", order |-> o, method |-> order[o].method,
                   fee |-> ServiceFee(o), reasons |-> missing[o]]
  <2>1. ServiceFee(o) \in Nat /\ order[o].method \in Methods /\ missing[o] \in SUBSET Reasons
    BY TotalIsNat DEF Inv, Counted, TypeOK
  <2>2. r \in Request
    BY <2>1 DEF Request
  <2>3. Serve(w, r) /\ SameSales /\ past' = past
    BY <1>2 DEF Retry, SameSales, sales
  <2> HIDE DEF r
  <2> QED
    BY <2>2, <2>3, CountedServe
<1>3. CASE ChargeFails(w)
  BY <1>3, CountedFinish DEF ChargeFails, SameSales, sales
<1>4. ASSUME NEW fromBrowser \in BOOLEAN, ChargeSucceeds(w, fromBrowser)
      PROVE  Counted'
  <2>1. req[w] \in Request /\ req[w].pc = "charge"
    BY <1>4 DEF ChargeSucceeds, Counted, TypeOK
  <2>2. req[w].order \in Orders /\ req[w].method \in Methods /\ req[w].amount \in Nat /\ req[w].fee \in Nat
    BY <2>1 DEF Request, Idle
  <2>3. PICK o \in Orders : o = req[w].order
    BY <2>2
  <2>4. order[o].paid \in Nat /\ order[o].status \in {"open", "closed"}
    BY DEF Counted, TypeOK
  <2>5. PICK paid \in Nat, fee \in Nat :
          paid = order[o].paid + req[w].amount /\ fee = IF fromBrowser THEN ServiceFee(o) ELSE req[w].fee
    <3>1. order[o].paid + req[w].amount \in Nat
      BY <2>2, <2>4
    <3>2. ServiceFee(o) \in Nat
      BY TotalIsNat DEF Inv
    <3>3. (IF fromBrowser THEN ServiceFee(o) ELSE req[w].fee) \in Nat
      BY <2>2, <3>2
    <3> QED
      BY <3>1, <3>3
  <2>6. PICK r : r = [pc |-> "issue", order |-> o, method |-> req[w].method, fee |-> fee, reasons |-> Reasons]
    OBVIOUS
  <2>7. PICK x : x = [status |-> IF fromBrowser /\ paid < Total(o) THEN order[o].status ELSE "closed",
                      paid |-> paid, method |-> req[w].method]
    OBVIOUS
  <2>8. r \in Request
    BY <2>2, <2>6 DEF Request
  <2>9. x \in [status : {"open", "closed"}, paid : Nat, method : Methods]
    BY <2>2, <2>4, <2>5, <2>7
  <2>10. req' = [req EXCEPT ![w] = r] /\ order' = [order EXCEPT ![o] = x]
    BY <1>4, <2>3, <2>5, <2>6, <2>7 DEF ChargeSucceeds
  <2>11. req' \in [Workers -> Request]
    BY <2>8, <2>10 DEF Counted, TypeOK
  <2>12. order' \in [Orders -> [status : {"open", "closed"}, paid : Nat, method : Methods]]
    BY <2>9, <2>10 DEF Counted, TypeOK
  <2>13. item' \in [Items -> Item \union {NoItem}]
    BY DEF Inv, Typed
  <2>14. /\ marks' = marks /\ receipt' = receipt /\ missing' = missing
         /\ overlap' = overlap /\ past' = past
    BY <1>4 DEF ChargeSucceeds
  <2> QED
    BY <2>11, <2>12, <2>13, <2>14 DEF Counted, TypeOK, past
<1>5. ASSUME NEW failed \in SUBSET Reasons, IssueReceipts(w, failed)
      PROVE  Counted'
  <2>1. req[w] \in Request /\ req[w].pc = "issue"
    BY <1>5 DEF IssueReceipts, Counted, TypeOK
  <2>2. req[w].order \in Orders /\ req[w].fee \in Nat
    BY <2>1 DEF Request, Idle
  <2>3. PICK o \in Orders : o = req[w].order
    BY <2>2
  <2>4. PICK parts : parts = {x \in Parts(o, req[w].method, req[w].fee) : x.reason \in req[w].reasons}
    OBVIOUS
  <2>5. parts \subseteq Receipt
    BY <2>2, <2>4, PartsAreReceipts DEF Counted, Inv
  <2>6. /\ receipt' = [receipt EXCEPT ![o] = @ \union {x \in parts : x.reason \notin failed}]
        /\ missing' = [missing EXCEPT ![o] = (@ \ {x.reason : x \in parts}) \union failed]
    BY <1>5, <2>3, <2>4 DEF IssueReceipts
  <2>7. receipt' \in [Orders -> SUBSET Receipt]
    BY <2>5, <2>6 DEF Counted, TypeOK
  <2>8. missing' \in [Orders -> SUBSET Reasons]
    BY <2>6 DEF Counted, TypeOK
  <2>9. req' \in [Workers -> Request] /\ overlap' = overlap
    BY <1>5 DEF IssueReceipts, Finish, Counted, TypeOK, Request
  <2>10. item' \in [Items -> Item \union {NoItem}]
    BY DEF Inv, Typed
  <2>11. marks' = marks /\ order' = order /\ past' = past
    BY <1>5 DEF IssueReceipts
  <2> QED
    BY <2>7, <2>8, <2>9, <2>10, <2>11 DEF Counted, TypeOK, past
<1> QED
  BY <1>1, <1>2, <1>3, <1>4, <1>5 DEF SaleStep

LEMMA CountedStep == Inv /\ Counted /\ [Next]_vars => Counted'
<1> SUFFICES ASSUME Inv, Counted, [Next]_vars
             PROVE  Counted'
  OBVIOUS
<1>1. Inv'
  BY InvStep
<1>2. ASSUME NEW w \in Workers, ScanStep(w)
      PROVE  Counted'
  <2>1. CASE AbortScan(w) \/ AbortRemove(w)
    BY <1>1, <2>1, CountedFinish DEF AbortScan, AbortRemove, SameSales, sales
  <2>2. CASE Writes(w)
    BY <1>1, <2>2, CountedWrite
  <2> QED
    BY <1>1, <1>2, <2>1, <2>2, CountedRead DEF ScanStep, Reads, Writes
<1>3. ASSUME NEW w \in Workers, ItemStep(w)
      PROVE  Counted'
  <2>1. CASE Writes(w)
    BY <1>1, <2>1, CountedWrite
  <2> QED
    BY <1>1, <1>3, <2>1, CountedRead DEF ItemStep, Reads, Writes
<1>4. ASSUME NEW w \in Workers, SaleStep(w)
      PROVE  Counted'
  BY <1>1, <1>4, CountedSale
<1>5. ASSUME NEW i \in Items, NEW st \in Statuses, KitchenSets(i, st)
      PROVE  Counted'
  <2>1. overlap' \in BOOLEAN /\ late' \in BOOLEAN
    BY <1>5, Zenon DEF KitchenSets
  <2>2. SameSales /\ req' = req /\ loosened' = loosened /\ unsure' = unsure
    BY <1>5 DEF KitchenSets, SameSales, sales
  <2> QED
    BY <1>1, <2>1, <2>2, StillCounted DEF Counted, TypeOK
<1>6. CASE UNCHANGED vars
  BY <1>6 DEF vars, Counted, TypeOK
<1> QED
  BY <1>2, <1>3, <1>4, <1>5, <1>6 DEF Next

LEMMA InvInit == Init => Inv /\ Counted
<1>1. Init => Typed
  BY DEF Init, Typed, Sound, Idle
<1>2. Init => Alone
  BY DEF Init, Alone, Idle
<1>3. Init => TypeOK
  <2>1. SUFFICES ASSUME Init
                 PROVE  TypeOK
    OBVIOUS
  <2>2. item \in [Items -> Item \union {NoItem}] /\ marks \subseteq Mark
    BY <2>1 DEF Init
  <2>3. order \in [Orders -> [status : {"open", "closed"}, paid : Nat, method : Methods]]
    BY <2>1 DEF Init, Methods
  <2>4. receipt \in [Orders -> SUBSET Receipt] /\ missing \in [Orders -> SUBSET Reasons]
    BY <2>1 DEF Init
  <2>5. req \in [Workers -> Request]
    BY <2>1 DEF Init, Request
  <2>6. overlap \in BOOLEAN /\ loosened \in BOOLEAN /\ late \in BOOLEAN /\ unsure \subseteq Items
    BY <2>1 DEF Init
  <2> QED
    BY <2>2, <2>3, <2>4, <2>5, <2>6 DEF TypeOK
<1>4. Init => IsFiniteSet(marks)
  BY FS_EmptySet DEF Init
<1> QED
  BY <1>1, <1>2, <1>3, <1>4 DEF Inv, Counted

\* Items, codes, bills, receipts and requests stay well typed; in particular no
\* share of the service fee is ever negative, however it is rounded.
THEOREM MarkingTyping == Spec => []TypeOK
<1>1. Counted => TypeOK
  BY DEF Counted
<1> QED
  BY <1>1, InvInit, InvStep, CountedStep, PTL DEF Spec

-----------------------------------------------------------------------------
(***************************************************************************)
(* Codes of the items that no history variable holds in doubt.             *)
(***************************************************************************)
\* Codes are on rows that exist,
Held == \A i \in Items : CodesOn(i) # {} => Exists(i)

\* those on an item that is not in doubt are of its product,
Proper == \A i \in Items \ unsure : \A c \in CodesOn(i) : ProductOf(c) = item[i].product

\* and none is missing there once the order has been checked for its payment.
Checked == \A o \in Orders : Counting(o) => \A i \in ItemsOf(o) \ unsure : ~ Missing(i)

\* What a request to remove has found is on the item it has chosen.
RemovesOwn == \A w \in Workers : req[w].pc = "remove" => \A m \in req[w].marks : m.item = req[w].item

Vouched == Held /\ Proper /\ Checked /\ RemovesOwn

SameItem(j) == item'[j] = item[j] /\ CodesOn(j)' = CodesOn(j)

\* A step that leaves items and codes alone, and checks what it charges.
LEMMA VouchedTurn ==
  ASSUME Vouched, item' = item, marks' = marks, unsure' = unsure,
         \A o \in Orders : Counting(o)' => Counting(o) \/ \A i \in ItemsOf(o) : ~ Missing(i),
         RemovesOwn'
  PROVE  Vouched'
<1>1. \A i : CodesOn(i)' = CodesOn(i)
  BY DEF CodesOn
<1>2. \A i : Exists(i)' = Exists(i) /\ Missing(i)' = Missing(i)
  BY <1>1 DEF Exists, Missing
<1>3. \A o : ItemsOf(o)' = ItemsOf(o)
  BY <1>2 DEF ItemsOf
<1>4. Held' /\ Proper'
  BY <1>1, <1>2 DEF Vouched, Held, Proper
<1>5. Checked'
  BY <1>2, <1>3 DEF Vouched, Checked
<1> QED
  BY <1>4, <1>5 DEF Vouched

\* A step that writes one item and its codes.
LEMMA VouchedWrite ==
  ASSUME Vouched, Inv, NEW w \in Workers, req' = [req EXCEPT ![w] = Idle], order' = order,
         unsure \subseteq unsure', NEW i \in Items, \A j \in Items \ {i} : SameItem(j),
         CodesOn(i)' # {} => Exists(i)',
         i \notin unsure' => \A c \in CodesOn(i)' : ProductOf(c) = item'[i].product,
         i \notin unsure' /\ Exists(i)' /\ Counting(item'[i].order) => ~ Missing(i)'
  PROVE  Vouched'
<1>1. req'[w].pc = "idle" /\ \A v \in Workers : v # w => req'[v] = req[v]
  BY DEF Inv, Typed, Idle
<1>2. \A o : Counting(o)' => Counting(o)
  BY <1>1 DEF Counting
<1>3. \A j \in Items \ {i} : Exists(j)' = Exists(j) /\ Missing(j)' = Missing(j)
  BY DEF SameItem, Exists, Missing
<1>4. Held'
  BY <1>3 DEF Vouched, Held, SameItem
<1>5. Proper'
  BY DEF Vouched, Proper, SameItem
<1>6. Checked'
  <2> SUFFICES ASSUME NEW o \in Orders, Counting(o)', NEW j \in Items, Exists(j)', item'[j].order = o, j \notin unsure'
               PROVE  ~ Missing(j)'
    BY DEF Checked, ItemsOf
  <2>1. Counting(o)
    BY <1>2
  <2>2. CASE j = i
    BY <2>1, <2>2
  <2>3. CASE j # i
    <3>1. j \in ItemsOf(o) \ unsure
      BY <1>3, <2>3 DEF ItemsOf, SameItem
    <3>2. ~ Missing(j)
      BY <2>1, <3>1 DEF Vouched, Checked
    <3> QED
      BY <1>3, <2>3, <3>2
  <2> QED
    BY <2>2, <2>3
<1>7. RemovesOwn'
  <2>1. \A v \in Workers : req'[v].pc = "remove" => req'[v] = req[v]
    BY <1>1
  <2> QED
    BY <2>1 DEF Vouched, RemovesOwn
<1> QED
  BY <1>4, <1>5, <1>6, <1>7 DEF Vouched

LEMMA ScanVouches ==
  ASSUME Vouched, Inv, Counted, Counted', NEW w \in Workers, NEW i \in Items, CommitScan(w, i)
  PROVE  Vouched'
<1> DEFINE o == req[w].order
           c == req[w].code
           p == ProductOf(c)
           m == [item |-> i, code |-> c]
<1>1. /\ req' = [req EXCEPT ![w] = Idle] /\ order' = order
      /\ IsRow(i, req[w].item)
      /\ unsure' = unsure \union (IF (IF req[w].item = NewRow THEN Counting(o) ELSE item[i].product # p) THEN {i} ELSE {})
  BY DEF CommitScan, Finish, sales, Doubt
<1>2. marks' = IF p \in Marked THEN marks \union {m} ELSE marks
  BY DEF CommitScan
<1>3. CodesOn(i)' = IF p \in Marked THEN CodesOn(i) \union {c} ELSE CodesOn(i)
  <2>1. m.item = i /\ m.code = c
    OBVIOUS
  <2> HIDE DEF m, c, p
  <2>2. CASE p \in Marked
    BY <1>2, <2>1, <2>2 DEF CodesOn
  <2>3. CASE p \notin Marked
    BY <1>2, <2>3 DEF CodesOn
  <2> QED
    BY <2>2, <2>3
<1>4. \A j \in Items \ {i} : CodesOn(j)' = CodesOn(j)
  BY <1>2 DEF CodesOn
<1>5. DOMAIN item = Items
  BY DEF Inv, Typed
<1>6. CASE req[w].item = NewRow
  <2>1. PICK row : row = [status |-> "live", order |-> o, product |-> p, qty |-> 1, price |-> Price(p)]
    OBVIOUS
  <2>2. item' = [item EXCEPT ![i] = row] /\ item[i].status = "none"
    BY <1>1, <1>6, <2>1 DEF CommitScan, IsRow
  <2>3. item'[i] = row /\ \A j \in Items \ {i} : item'[j] = item[j]
    BY <1>5, <2>2
  <2>4. CodesOn(i) = {}
    BY <2>2 DEF Vouched, Held, Exists
  <2>5. Exists(i)' /\ item'[i].product = p /\ item'[i].order = o
    BY <2>1, <2>3 DEF Exists
  <2>6. \A j \in Items \ {i} : SameItem(j)
    BY <1>4, <2>3 DEF SameItem
  <2>7. i \notin unsure' => ~ Counting(o)
    BY <1>1, <1>6
  <2>8. \A d \in CodesOn(i)' : ProductOf(d) = p
    BY <1>3, <2>4
  <2> HIDE DEF o, c, p, m
  <2> QED
    BY <1>1, <2>5, <2>6, <2>7, <2>8, VouchedWrite
<1>7. CASE req[w].item # NewRow
  <2>1. item' = item /\ (p \in Marked => Exists(i))
    BY <1>1, <1>7 DEF CommitScan
  <2>2. \A j \in Items \ {i} : SameItem(j)
    BY <1>4, <2>1 DEF SameItem
  <2>3. CodesOn(i)' # {} => Exists(i)'
    BY <1>3, <2>1 DEF Vouched, Held, Exists
  <2>4. i \notin unsure' => \A d \in CodesOn(i)' : ProductOf(d) = item'[i].product
    BY <1>1, <1>3, <1>7, <2>1 DEF Vouched, Proper
  <2>5. i \notin unsure' /\ Exists(i)' /\ Counting(item'[i].order) => ~ Missing(i)'
    <3> SUFFICES ASSUME i \notin unsure', Exists(i)', Counting(item[i].order)
                 PROVE  ~ Missing(i)'
      BY <2>1
    <3>1. i \notin unsure /\ i \in ItemsOf(item[i].order) /\ item[i] \in Item /\ item[i].order \in Orders
      BY <1>1, <2>1, Owned DEF ItemsOf, Exists, Inv
    <3>2. ~ Missing(i)
      BY <3>1 DEF Vouched, Checked
    <3>3. PICK a \in Nat, b \in Nat, q \in Nat :
            a = Cardinality(CodesOn(i)) /\ b = Cardinality(CodesOn(i)') /\ q = item[i].qty /\ a <= b
      <4>1. IsFiniteSet(CodesOn(i)) /\ IsFiniteSet(CodesOn(i)')
        <5>1. IsFiniteSet(CodesOn(i))
          BY CodesAreFinite DEF Counted
        <5> QED
          BY <1>3, <5>1, FS_AddElement
      <4>2. CodesOn(i) \subseteq CodesOn(i)'
        BY <1>3
      <4>3. item[i].qty \in Nat
        BY <3>1, LineIsNat
      <4> QED
        BY <4>1, <4>2, <4>3, FS_CardinalityType, FS_Subset
    <3>4. Cardinality(CodesOn(i))' = b
      BY <3>3
    <3> QED
      BY <2>1, <3>2, <3>3, <3>4 DEF Missing
  <2> HIDE DEF o, c, p, m
  <2> QED
    BY <1>1, <2>2, <2>3, <2>4, <2>5, VouchedWrite
<1> QED
  BY <1>6, <1>7

LEMMA RemovalVouches ==
  ASSUME Vouched, Inv, NEW w \in Workers, CommitRemove(w)
  PROVE  Vouched'
<1> DEFINE r == req[w]
<1>1. /\ req' = [req EXCEPT ![w] = Idle] /\ order' = order /\ r.pc = "remove"
  BY DEF CommitRemove, Finish, sales
<1>2. PICK i \in Items : i = r.item /\ item[i] \in Item /\ item[i].order = r.order
  BY <1>1 DEF Inv, Typed, Sound, Belongs
<1>3. \A m \in r.marks : m.item = i
  BY <1>1, <1>2 DEF Vouched, RemovesOwn
<1>4. \A j \in Items \ {i} : CodesOn(j)' = CodesOn(j)
  <2>1. marks' \subseteq marks /\ \A m \in marks : m.item # i => m \in marks'
    BY <1>2, <1>3 DEF CommitRemove
  <2> QED
    BY <2>1 DEF CodesOn
<1>5. CodesOn(i)' \subseteq CodesOn(i)
  BY DEF CommitRemove, CodesOn
<1>6. DOMAIN item = Items
  BY DEF Inv, Typed
<1>7. CASE r.qty > 1
  <2>1. item' = [item EXCEPT ![i] = [item[i] EXCEPT !.qty = r.qty - 1]]
    BY <1>2, <1>7 DEF CommitRemove
  <2>2. PICK row : row = [item[i] EXCEPT !.qty = r.qty - 1]
    OBVIOUS
  <2>3. row.status = item[i].status /\ row.product = item[i].product /\ row.order = r.order
    BY <1>2, <2>2 DEF Item
  <2>4. item'[i] = row /\ \A j \in Items \ {i} : item'[j] = item[j]
    BY <1>6, <2>1, <2>2
  <2>5. Exists(i) /\ unsure' = unsure \union (IF Counting(r.order) THEN {i} ELSE {})
    BY <1>2, <1>7 DEF CommitRemove, Doubt
  <2>6. \A j \in Items \ {i} : SameItem(j)
    BY <1>4, <2>4 DEF SameItem
  <2>7. Exists(i)'
    BY <2>3, <2>4, <2>5 DEF Exists
  <2>8. i \notin unsure' => \A c \in CodesOn(i)' : ProductOf(c) = item'[i].product
    BY <1>5, <2>3, <2>4, <2>5 DEF Vouched, Proper
  <2>9. i \notin unsure' => ~ Counting(item'[i].order)
    BY <2>3, <2>4, <2>5
  <2>10. unsure \subseteq unsure'
    BY <2>5
  <2> HIDE DEF r
  <2> QED
    BY <1>1, <2>6, <2>7, <2>8, <2>9, <2>10, VouchedWrite
<1>8. CASE ~ (r.qty > 1)
  <2>1. item' = [item EXCEPT ![i] = Deleted(i)] /\ unsure' = unsure
    BY <1>2, <1>8 DEF CommitRemove
  <2>2. Deleted(i).status = "gone"
    BY <1>2, DeletedIsItem
  <2>3. item'[i] = Deleted(i) /\ \A j \in Items \ {i} : item'[j] = item[j]
    BY <1>6, <2>1
  <2>4. ~ Exists(i)'
    BY <2>2, <2>3 DEF Exists
  <2>5. CodesOn(i)' = {}
    BY <1>2, <1>8 DEF CommitRemove, CodesOn
  <2>6. \A j \in Items \ {i} : SameItem(j)
    BY <1>4, <2>3 DEF SameItem
  <2> HIDE DEF r
  <2> QED
    BY <1>1, <2>1, <2>4, <2>5, <2>6, VouchedWrite
<1> QED
  BY <1>7, <1>8

LEMMA SaveVouches ==
  ASSUME Vouched, Inv, NEW w \in Workers, NEW i \in Items, SaveItem(w, i)
  PROVE  Vouched'
<1>1. PICK row : row = req[w].row
  OBVIOUS
<1>2. /\ req' = [req EXCEPT ![w] = Idle] /\ order' = order /\ marks' = marks
      /\ item' = [item EXCEPT ![i] = row] /\ req[w].pc = "save"
  BY <1>1 DEF SaveItem, Finish, sales
<1>3. unsure' = unsure \union (IF Counting(row.order) \/ \E c \in CodesOn(i) : ProductOf(c) # row.product THEN {i} ELSE {})
  BY <1>1 DEF SaveItem, Doubt
<1>4. row.status \in Statuses
  BY <1>1, <1>2 DEF Inv, Typed, Sound
<1>5. \A j : CodesOn(j)' = CodesOn(j)
  BY <1>2 DEF CodesOn
<1>6. item'[i] = row /\ \A j \in Items \ {i} : item'[j] = item[j]
  BY <1>2 DEF Inv, Typed
<1>7. Exists(i)'
  BY <1>4, <1>6 DEF Exists, Statuses
<1>8. \A j \in Items \ {i} : SameItem(j)
  BY <1>5, <1>6 DEF SameItem
<1>9. i \notin unsure' => \A c \in CodesOn(i)' : ProductOf(c) = item'[i].product
  BY <1>3, <1>5, <1>6
<1>10. i \notin unsure' => ~ Counting(item'[i].order)
  BY <1>3, <1>6
<1>11. unsure \subseteq unsure'
  BY <1>3
<1> QED
  BY <1>2, <1>7, <1>8, <1>9, <1>10, <1>11, VouchedWrite

LEMMA DeletionVouches ==
  ASSUME Vouched, Inv, NEW w \in Workers, DeleteItem(w)
  PROVE  Vouched'
<1>1. req[w].pc = "delete" /\ req' = [req EXCEPT ![w] = Idle] /\ order' = order /\ unsure' = unsure
  BY DEF DeleteItem, Finish, sales, past
<1>2. PICK i \in Items : i = req[w].item /\ item[i] \in Item
  BY <1>1 DEF Inv, Typed, Sound, Belongs
<1>3. item' = [item EXCEPT ![i] = Deleted(i)] /\ marks' = {m \in marks : m.item # i}
  BY <1>2 DEF DeleteItem
<1>4. CodesOn(i)' = {} /\ \A j \in Items \ {i} : CodesOn(j)' = CodesOn(j)
  BY <1>3 DEF CodesOn
<1>5. item'[i] = Deleted(i) /\ \A j \in Items \ {i} : item'[j] = item[j]
  BY <1>3 DEF Inv, Typed
<1>6. ~ Exists(i)'
  BY <1>2, <1>5, DeletedIsItem DEF Exists
<1>7. \A j \in Items \ {i} : SameItem(j)
  BY <1>4, <1>5 DEF SameItem
<1> QED
  BY <1>1, <1>4, <1>6, <1>7, VouchedWrite

\* The kitchen sets what codes do not depend on.
LEMMA KitchenVouches ==
  ASSUME Vouched, Inv, NEW i \in Items, NEW st \in Statuses, KitchenSets(i, st)
  PROVE  Vouched'
<1>1. item[i] \in Item /\ item' = [item EXCEPT ![i].status = st]
  BY Owned DEF Inv, KitchenSets
<1>2. UNCHANGED <<marks, order, req, unsure>>
  BY DEF KitchenSets, sales
<1>3. PICK row : row = [item[i] EXCEPT !.status = st]
  OBVIOUS
<1>4. row.status = st /\ row.product = item[i].product /\ row.qty = item[i].qty /\ row.order = item[i].order
  BY <1>1, <1>3 DEF Item
<1>5. item'[i] = row /\ \A j \in Items \ {i} : item'[j] = item[j]
  BY <1>1, <1>3 DEF Inv, Typed
<1>6. \A j \in Items : /\ Exists(j)' = Exists(j) /\ item'[j].product = item[j].product
                       /\ item'[j].qty = item[j].qty /\ item'[j].order = item[j].order
  BY <1>4, <1>5 DEF Exists, KitchenSets, Statuses
<1>7. \A j : CodesOn(j)' = CodesOn(j)
  BY <1>2 DEF CodesOn
<1>8. \A o : Counting(o)' = Counting(o)
  BY <1>2 DEF Counting
<1>9. \A j \in Items : Missing(j)' = Missing(j)
  BY <1>6, <1>7 DEF Missing
<1>10. Held' /\ Proper'
  BY <1>2, <1>6, <1>7 DEF Vouched, Held, Proper
<1>11. Checked'
  BY <1>2, <1>6, <1>8, <1>9 DEF Vouched, Checked, ItemsOf
<1>12. RemovesOwn'
  BY <1>2 DEF Vouched, RemovesOwn
<1> QED
  BY <1>10, <1>11, <1>12 DEF Vouched

\* A request that is taken up, other than a charge, or that ends.
LEMMA VouchedServe ==
  ASSUME Vouched, Inv, NEW w \in Workers, NEW r, req' = [req EXCEPT ![w] = r], item' = item, marks' = marks,
         order' = order, unsure' = unsure, r.pc = "charge" => \A i \in ItemsOf(r.order) : ~ Missing(i),
         r.pc = "remove" => \A m \in r.marks : m.item = r.item
  PROVE  Vouched'
<1>1. req'[w] = r /\ \A v \in Workers : v # w => req'[v] = req[v]
  BY DEF Inv, Typed
<1>2. \A o \in Orders : Counting(o)' => Counting(o) \/ \A i \in ItemsOf(o) : ~ Missing(i)
  BY <1>1 DEF Counting
<1>3. RemovesOwn'
  BY <1>1 DEF Vouched, RemovesOwn
<1> QED
  BY <1>2, <1>3, VouchedTurn

LEMMA RemovesFound ==
  ASSUME CodeOnce, Vouched, Inv, NEW w \in Workers, NEW o \in Orders, NEW c \in Codes, NEW i \in Items,
         ReadForRemove(w, o, c, i)
  PROVE  Vouched'
<1>1. PICK on : on = {m \in marks : m.code = c /\ m.item \in ItemsOf(o)}
  OBVIOUS
<1>2. on # {} => i \in {m.item : m \in on}
  BY <1>1 DEF ReadForRemove
<1>3. \A m \in on : m.item = i
  BY <1>1, <1>2 DEF CodeOnce
<1>4. PICK r : r = [pc |-> "remove", order |-> o, item |-> i, qty |-> item[i].qty, marks |-> on]
  OBVIOUS
<1>5. /\ req' = [req EXCEPT ![w] = r] /\ item' = item /\ marks' = marks
      /\ order' = order /\ unsure' = unsure
  BY <1>1, <1>4 DEF ReadForRemove, Serve, sales, past
<1>6. r.pc = "remove" /\ r.item = i /\ r.marks = on
  BY <1>4
<1> QED
  BY <1>3, <1>5, <1>6, VouchedServe

LEMMA ReadVouches ==
  ASSUME CodeOnce, Vouched, Inv, NEW w \in Workers, Reads(w)
  PROVE  Vouched'
<1>1. CASE \E o \in Orders, c \in Codes, i \in Items : ReadForRemove(w, o, c, i)
  BY <1>1, RemovesFound
<1>2. CASE ~ \E o \in Orders, c \in Codes, i \in Items : ReadForRemove(w, o, c, i)
  <2>1. \E r : r.pc \in {"scan", "save", "delete"} /\ Serve(w, r) /\ UNCHANGED <<item, marks, sales, past>>
    BY <1>2 DEF Reads, ReadForScan, ReadForAdd, ReadForUpdate, ReadForDelete
  <2> QED
    BY <2>1, VouchedServe DEF Serve, sales, past
<1> QED
  BY <1>1, <1>2

LEMMA ChargeVouches ==
  ASSUME Vouched, Inv, NEW w \in Workers, NEW fromBrowser \in BOOLEAN, ChargeSucceeds(w, fromBrowser)
  PROVE  Vouched'
<1>1. req[w].pc = "charge" /\ item' = item /\ marks' = marks /\ unsure' = unsure
  BY DEF ChargeSucceeds, past
<1>2. PICK r, x : req' = [req EXCEPT ![w] = r] /\ r.pc = "issue" /\ order' = [order EXCEPT ![req[w].order] = x]
  BY DEF ChargeSucceeds
<1>3. req'[w] = r /\ \A v \in Workers : v # w => req'[v] = req[v]
  BY <1>2 DEF Inv, Typed
<1>4. \A o \in Orders : o # req[w].order => order'[o] = order[o]
  BY <1>2 DEF Inv, Typed
<1>5. \A o \in Orders : Counting(o)' => Counting(o)
  BY <1>1, <1>2, <1>3, <1>4 DEF Counting
<1>6. RemovesOwn'
  BY <1>2, <1>3 DEF Vouched, RemovesOwn
<1> QED
  BY <1>1, <1>5, <1>6, VouchedTurn

LEMMA SaleVouches ==
  ASSUME Vouched, Inv, NEW w \in Workers, SaleStep(w)
  PROVE  Vouched'
<1>1. ASSUME NEW o \in Orders, NEW method \in Methods, BeginCharge(w, o, method)
      PROVE  Vouched'
  <2>1. PICK r : r = [pc |-> "charge", order |-> o, method |-> method, amount |-> Remaining(o), fee |-> ServiceFee(o)]
    OBVIOUS
  <2>2. /\ req' = [req EXCEPT ![w] = r] /\ item' = item /\ marks' = marks
        /\ order' = order /\ unsure' = unsure
    BY <1>1, <2>1 DEF BeginCharge, Serve, sales, past
  <2>3. r.pc = "charge" /\ r.order = o
    BY <2>1
  <2>4. \A i \in ItemsOf(r.order) : ~ Missing(i)
    BY <1>1, <2>3 DEF BeginCharge
  <2> QED
    BY <2>2, <2>3, <2>4, VouchedServe
<1>2. ASSUME NEW o \in Orders, Retry(w, o)
      PROVE  Vouched'
  <2>1. \E r : r.pc = "issue" /\ Serve(w, r) /\ UNCHANGED <<item, marks, sales, past>>
    BY <1>2 DEF Retry
  <2> QED
    BY <2>1, VouchedServe DEF Serve, sales, past
<1>3. CASE ChargeFails(w) \/ \E failed \in SUBSET Reasons : IssueReceipts(w, failed)
  <2>1. req' = [req EXCEPT ![w] = Idle] /\ UNCHANGED <<item, marks, order, unsure>>
    BY <1>3 DEF ChargeFails, IssueReceipts, Finish, sales, past
  <2>2. Idle.pc = "idle"
    BY DEF Idle
  <2> QED
    BY <2>1, <2>2, VouchedServe
<1> QED
  BY <1>1, <1>2, <1>3, ChargeVouches DEF SaleStep

LEMMA VouchedStep == CodeOnce /\ Vouched /\ Inv /\ Counted /\ Counted' /\ [Next]_vars => Vouched'
<1> SUFFICES ASSUME CodeOnce, Vouched, Inv, Counted, Counted', [Next]_vars
             PROVE  Vouched'
  OBVIOUS
<1>1. ASSUME NEW w \in Workers, AbortScan(w) \/ AbortRemove(w)
      PROVE  Vouched'
  <2>1. req' = [req EXCEPT ![w] = Idle] /\ UNCHANGED <<item, marks, order, unsure>>
    BY <1>1 DEF AbortScan, AbortRemove, Finish, sales, past
  <2>2. Idle.pc = "idle"
    BY DEF Idle
  <2> QED
    BY <2>1, <2>2, VouchedServe
<1>2. ASSUME NEW w \in Workers, Writes(w)
      PROVE  Vouched'
  BY <1>2, ScanVouches, RemovalVouches, SaveVouches, DeletionVouches DEF Writes
<1>3. ASSUME NEW w \in Workers, ScanStep(w) \/ ItemStep(w)
      PROVE  Reads(w) \/ Writes(w) \/ AbortScan(w) \/ AbortRemove(w)
  BY <1>3 DEF ScanStep, ItemStep, Reads, Writes
<1>4. CASE UNCHANGED vars
  <2>1. \A o \in Orders : Counting(o)' => Counting(o)
    BY <1>4 DEF vars, Counting
  <2>2. RemovesOwn'
    BY <1>4 DEF vars, Vouched, RemovesOwn
  <2> QED
    BY <1>4, <2>1, <2>2, VouchedTurn DEF vars
<1> QED
  BY <1>1, <1>2, <1>3, <1>4, ReadVouches, SaleVouches, KitchenVouches DEF Next

LEMMA VouchedInit == Init => Vouched
<1>1. Init => Held /\ Proper
  BY DEF Init, Held, Proper, CodesOn
<1>2. Init => Checked
  BY DEF Init, Checked, ItemsOf, Exists, NoItem
<1>3. Init => RemovesOwn
  BY DEF Init, RemovesOwn, Idle
<1> QED
  BY <1>1, <1>2, <1>3 DEF Vouched

\* Every piece of a marked product in a closed order has a code of that product,
\* whatever was scanned, removed, edited, cancelled or restored before, and
\* whatever overlapped: but for the items that were written since the charge
\* began, and those with a code of another product.
THEOREM SoldWithCodes == Spec => []ClosedIsMarked
<1>1. Init => CodeOnce
  BY DEF Init, CodeOnce
<1>2. Vouched /\ Inv /\ Counted => ClosedIsMarked
  <2> SUFFICES ASSUME Vouched, Inv, Counted, NEW o \in Orders, order[o].status = "closed",
                      NEW i \in Live(o) \ unsure, item[i].product \in Marked
               PROVE  Cardinality(OwnCodes(i)) >= item[i].qty
    BY DEF ClosedIsMarked
  <2>1. i \in ItemsOf(o) /\ i \in Items /\ Exists(i)
    BY DEF Live, ItemsOf
  <2>2. ~ Missing(i)
    BY <2>1 DEF Vouched, Checked, Counting
  <2>3. OwnCodes(i) = CodesOn(i)
    BY <2>1 DEF OwnCodes, Vouched, Proper
  <2>4. Cardinality(CodesOn(i)) \in Nat /\ item[i].qty \in Nat
    BY <2>1, CodesAreFinite, LineIsNat, Owned DEF Counted, Inv
  <2> QED
    BY <2>2, <2>3, <2>4 DEF Missing
<1> QED
  BY <1>1, <1>2, VouchedInit, InvInit, InvStep, CountedStep, CodeOnceStep, VouchedStep, PTL DEF Spec

-----------------------------------------------------------------------------
(***************************************************************************)
(* What is known of the codes, the requests and the receipts as long as no *)
(* order has been disturbed.                                               *)
(***************************************************************************)
Undisturbed == ~overlap /\ ~loosened /\ ~late /\ unsure = {}

\* The codes on an item are no more than its pieces, which are to have codes.
Coded(i) ==
  CodesOn(i) # {} => Exists(i) /\ item[i].product \in Marked /\ Cardinality(CodesOn(i)) <= item[i].qty

Due(o)       == Parts(o, order[o].method, ServiceFee(o))
Unsettled(o) == receipt[o] = {} /\ missing[o] = {}

\* A closed order has the receipts that are due, but for those that are missing.
Settled(o) ==
  /\ order[o].status = "open" => Unsettled(o) /\ order[o].paid = 0
  /\ order[o].status = "closed" =>
       /\ order[o].paid = Total(o)
       /\ \/ Unsettled(o)
          \/ /\ missing[o] \subseteq {x.reason : x \in Due(o)}
             /\ receipt[o] = {x \in Due(o) : x.reason \notin missing[o]}

\* What a request has read and worked out is still so.
Figured(r) ==
  /\ r.pc = "scan" /\ r.item # NewRow =>
       /\ Exists(r.item) /\ item[r.item].product = ProductOf(r.code)
       /\ Cardinality(CodesOn(r.item)) < item[r.item].qty
  /\ r.pc = "charge" => r.amount = Total(r.order) /\ r.fee = ServiceFee(r.order)
  /\ r.pc = "issue" =>
       /\ order[r.order].status = "closed"
       /\ r.method = order[r.order].method /\ r.fee = ServiceFee(r.order)
       /\ \/ r.reasons = missing[r.order]
          \/ r.reasons = Reasons /\ Unsettled(r.order)

Orderly ==
  /\ \A i \in Items : Coded(i)
  /\ \A w \in Workers : Figured(req[w])
  /\ \A o \in Orders : Settled(o)

\* The items of an order, and their codes, stay as they are.
Kept(o) == Live(o)' = Live(o) /\ \A i \in Live(o) : item'[i] = item[i] /\ CodesOn(i)' = CodesOn(i)

LEMMA SubtotalKept ==
  ASSUME Typed, NEW o, Kept(o), NEW S \in SUBSET Live(o)
  PROVE  Subtotal(S)' = Subtotal(S) /\ FiscalTotal(S)' = FiscalTotal(S)
<1>1. \A i \in S : LineTotal(i)' = LineTotal(i)
  BY DEF Kept, LineTotal
<1>2. \A i \in S : FiscalPrice(i)' = FiscalPrice(i)
  BY <1>1 DEF Kept, FiscalPrice, UnitPrice
<1>3. Lines(S)' = Lines(S)
  BY <1>1 DEF Lines
<1>4. Labels(S)' = Labels(S)
  BY <1>2 DEF Labels
<1>5. IsFiniteSet(S)
  BY LiveIsReal, RealIsFinite
<1>6. Subtotal(S)' = SumOf(Lines(S)', S) /\ Subtotal(S) = SumOf(Lines(S), S)
  BY <1>5, SumsLater, LinesAdd DEF LinesAddUp
<1>7. FiscalTotal(S)' = SumOf(Labels(S)', S) /\ FiscalTotal(S) = SumOf(Labels(S), S)
  BY <1>5, SumsLater, LabelsAdd DEF LabelsAddUp
<1> QED
  BY <1>3, <1>4, <1>6, <1>7

LEMMA TotalKept ==
  ASSUME Typed, NEW o, Kept(o)
  PROVE  Total(o)' = Total(o) /\ ServiceFee(o)' = ServiceFee(o)
<1>1. PICK L : L = Live(o)
  OBVIOUS
<1>2. Live(o)' = L /\ Subtotal(L)' = Subtotal(L)
  BY <1>1, SubtotalKept DEF Kept
<1>3. ServiceFee(o) = HalfEven(Subtotal(L) * FeePercent, 100)
  BY <1>1 DEF ServiceFee
<1>4. ServiceFee(o)' = HalfEven(Subtotal(L)' * FeePercent, 100)
  BY <1>2 DEF ServiceFee
<1>5. Total(o) = Subtotal(L) + ServiceFee(o)
  BY <1>1 DEF Total
<1>6. Total(o)' = Subtotal(L)' + ServiceFee(o)'
  BY <1>2 DEF Total
<1> QED
  BY <1>2, <1>3, <1>4, <1>5, <1>6

\* Receipts of the same items are the same.
LEMMA DueKept ==
  ASSUME Typed, NEW o, Kept(o), order'[o] = order[o]
  PROVE  Due(o)' = Due(o)
<1>1. PICK L, R, N, m, f : /\ L = Live(o) /\ R = {i \in L : item[i].product \in CashForbidden}
                           /\ N = L \ R /\ m = order[o].method /\ f = ServiceFee(o)
  OBVIOUS
<1>2. Live(o)' = L /\ order'[o].method = m /\ ServiceFee(o)' = f
  BY <1>1, TotalKept DEF Kept
<1>3. {i \in L : item'[i].product \in CashForbidden} = R
  BY <1>1 DEF Kept
<1>4. PICK n : n = SplitFee(f, N, R)
  OBVIOUS
<1>5. SplitFee(f, N, R)' = n
  <2>1. N \union R \subseteq L /\ N \subseteq L
    BY <1>1
  <2>2. Subtotal(N)' = Subtotal(N) /\ Subtotal(N \union R)' = Subtotal(N \union R)
    BY <1>1, <2>1, SubtotalKept
  <2> QED
    BY <1>4, <2>2 DEF SplitFee
<1>6. PICK b, c, d, e : /\ b = Part(L, f, "none") /\ c = Part(R, f, "cash_forbidden_category")
                        /\ d = Part(N, n[1], "mixed_cash_allowed_items") /\ e = Part(R, n[2], "cash_forbidden_category")
  OBVIOUS
<1>7. /\ Part(L, f, "none")' = b /\ Part(R, f, "cash_forbidden_category")' = c
      /\ Part(N, n[1], "mixed_cash_allowed_items")' = d /\ Part(R, n[2], "cash_forbidden_category")' = e
  <2>1. FiscalTotal(L)' = FiscalTotal(L) /\ FiscalTotal(N)' = FiscalTotal(N) /\ FiscalTotal(R)' = FiscalTotal(R)
    BY <1>1, SubtotalKept
  <2> QED
    BY <1>6, <2>1 DEF Part
<1>8. Due(o) = IF L = {} THEN {} ELSE IF m = "card" \/ R = {} THEN {b} ELSE IF N = {} THEN {c} ELSE {d, e}
  BY <1>1, <1>4, <1>6 DEF Due, Parts
<1>9. Due(o)' = IF L = {} THEN {} ELSE IF m = "card" \/ R = {} THEN {b} ELSE IF N = {} THEN {c} ELSE {d, e}
  BY <1>1, <1>2, <1>3, <1>5, <1>7 DEF Due, Parts
<1> QED
  BY <1>8, <1>9

LEMMA OthersKept ==
  ASSUME Typed, NEW o, NEW p, o # p, \A i \in Items : Touched(i, o)
  PROVE  Kept(p)
<1>1. \A i \in Items : Exists(i) => item[i] \in Item
  BY Owned
<1>2. ASSUME NEW i \in Live(p)
      PROVE  item'[i] = item[i] /\ CodesOn(i)' = CodesOn(i)
  BY <1>1 DEF Touched, Live, ItemsOf
<1>3. ASSUME NEW i \in Items, item'[i].order = p
      PROVE  item'[i] = item[i]
  BY <1>3 DEF Touched
<1>4. Live(p)' = Live(p)
  BY <1>2, <1>3 DEF Live, ItemsOf, Exists
<1> QED
  BY <1>2, <1>4 DEF Kept

LEMMA SettledKept ==
  ASSUME Typed, NEW o, Kept(o), order'[o] = order[o], receipt'[o] = receipt[o], missing'[o] = missing[o], Settled(o)
  PROVE  Settled(o)'
<1>1. Total(o)' = Total(o) /\ Due(o)' = Due(o)
  BY TotalKept, DueKept
<1> QED
  BY <1>1 DEF Settled, Unsettled

\* A step that leaves the rows alone.
SameRows == item' = item /\ SameSales

LEMMA NothingNew ==
  ASSUME Typed, item' = item, marks' = marks
  PROVE  /\ \A i : CodesOn(i)' = CodesOn(i) /\ (Coded(i) => Coded(i)')
         /\ \A o : Kept(o)
<1>1. \A i : CodesOn(i)' = CodesOn(i)
  BY DEF CodesOn
<1>2. \A i : Coded(i) => Coded(i)'
  BY <1>1 DEF Coded, Exists
<1>3. \A o : Kept(o)
  BY <1>1 DEF Kept, Live, ItemsOf, Exists
<1> QED
  BY <1>1, <1>2, <1>3

LEMMA FiguredKept ==
  ASSUME Typed, item' = item, marks' = marks, NEW r, Figured(r),
         r.pc = "issue" => /\ order'[r.order] = order[r.order] /\ receipt'[r.order] = receipt[r.order]
                           /\ missing'[r.order] = missing[r.order]
  PROVE  Figured(r)'
<1>1. /\ CodesOn(r.item)' = CodesOn(r.item) /\ Kept(r.order)
  BY NothingNew
<1>2. Total(r.order)' = Total(r.order) /\ ServiceFee(r.order)' = ServiceFee(r.order)
  BY <1>1, TotalKept
<1> QED
  BY <1>1, <1>2 DEF Figured, Exists, Unsettled

LEMMA OrderlyTurn ==
  ASSUME Inv, Orderly, \A v \in Workers : \E q : q = req'[v] /\ Figured(q), SameRows
  PROVE  Orderly'
<1>1. Typed
  BY DEF Inv
<1>2. item' = item /\ marks' = marks /\ order' = order /\ receipt' = receipt /\ missing' = missing
  BY DEF SameRows, SameSales
<1>3. \A i \in Items : Coded(i)'
  BY <1>1, <1>2, NothingNew DEF Orderly
<1>4. ASSUME NEW v \in Workers
      PROVE  Figured(req[v])'
  <2>1. PICK q : q = req'[v] /\ Figured(q)
    OBVIOUS
  <2>2. Figured(q)'
    BY <1>1, <1>2, <2>1, FiguredKept
  <2> QED
    BY <2>1, <2>2
<1>5. \A o \in Orders : Settled(o)'
  BY <1>1, <1>2, NothingNew, SettledKept DEF Orderly
<1> QED
  BY <1>3, <1>4, <1>5 DEF Orderly

LEMMA OrderlyServe ==
  ASSUME Inv, Orderly, NEW w \in Workers, NEW r, Figured(r), req' = [req EXCEPT ![w] = r], SameRows
  PROVE  Orderly'
<1>1. ASSUME NEW v \in Workers
      PROVE  \E q : q = req'[v] /\ Figured(q)
  BY DEF Orderly, Inv, Typed
<1> QED
  BY <1>1, OrderlyTurn

LEMMA FiguredIdle == Figured(Idle)
BY DEF Figured, Idle

LEMMA OrderlyFinish ==
  ASSUME Inv, Orderly, NEW w \in Workers, Finish(w), SameRows
  PROVE  Orderly'
BY FiguredIdle, OrderlyServe DEF Finish

\* A step that writes items of one open order on which nobody else is at work.
LEMMA OrderlyWrite ==
  ASSUME Inv, Orderly, NEW o \in Orders, \A i \in Items : Touched(i, o), order[o].status = "open",
         order' = order, receipt' = receipt, missing' = missing,
         \A v \in Workers : req'[v] = Idle \/ (req'[v] = req[v] /\ req[v].order # o),
         \A i \in Items : Coded(i)'
  PROVE  Orderly'
<1>1. Typed
  BY DEF Inv
<1>2. ASSUME NEW v \in Workers
      PROVE  Figured(req[v])'
  <2>1. PICK q : q = req'[v]
    OBVIOUS
  <2>2. CASE q = Idle
    <3>1. Figured(q)'
      BY <2>2 DEF Figured, Idle
    <3> QED
      BY <2>1, <3>1
  <2>3. CASE q # Idle
    <3>1. q = req[v] /\ q.order # o /\ Figured(q) /\ Sound(q)
      BY <1>1, <2>1, <2>3 DEF Orderly, Typed
    <3>2. Kept(q.order)
      BY <1>1, <3>1, OthersKept
    <3>3. Total(q.order)' = Total(q.order) /\ ServiceFee(q.order)' = ServiceFee(q.order)
      BY <1>1, <3>2, TotalKept
    <3>4. ASSUME Belongs(q.item, q.order)
          PROVE  item'[q.item] = item[q.item] /\ CodesOn(q.item)' = CodesOn(q.item)
      BY <3>1, <3>4 DEF Belongs, Touched
    <3>5. q.pc = "scan" /\ q.item # NewRow => Belongs(q.item, q.order)
      BY <3>1 DEF Sound
    <3>6. Figured(q)'
      BY <3>1, <3>3, <3>4, <3>5 DEF Figured, Exists, Unsettled
    <3> QED
      BY <2>1, <3>6
  <2> QED
    BY <2>2, <2>3
<1>3. ASSUME NEW p \in Orders
      PROVE  Settled(p)'
  <2>1. CASE p = o
    BY <2>1 DEF Orderly, Settled, Unsettled
  <2>2. CASE p # o
    BY <1>1, <2>2, OthersKept, SettledKept DEF Orderly
  <2> QED
    BY <2>1, <2>2
<1> QED
  BY <1>2, <1>3 DEF Orderly

LEMMA FewerCodes ==
  ASSUME Typed, IsFiniteSet(marks), NEW i \in Items, Coded(i), item'[i] = item[i], CodesOn(i)' \subseteq CodesOn(i)
  PROVE  Coded(i)'
<1>1. PICK C, D : C = CodesOn(i) /\ D = CodesOn(i)' /\ D \subseteq C
  OBVIOUS
<1>2. IsFiniteSet(C) /\ Cardinality(C) \in Nat
  BY <1>1, CodesAreFinite
<1>3. Cardinality(D) <= Cardinality(C) /\ Cardinality(D) \in Nat
  BY <1>1, <1>2, FS_Subset, FS_CardinalityType
<1>4. CASE D = {}
  BY <1>1, <1>4 DEF Coded
<1>5. CASE D # {}
  <2>1. Exists(i) /\ item[i].product \in Marked /\ Cardinality(C) <= item[i].qty
    BY <1>1, <1>5 DEF Coded
  <2>2. item[i].qty \in Nat
    BY <2>1, Owned, LineIsNat
  <2>3. Cardinality(D) <= item[i].qty
    BY <1>2, <1>3, <2>1, <2>2
  <2> QED
    BY <1>1, <2>1, <2>3 DEF Coded, Exists
<1> QED
  BY <1>4, <1>5

\* No write puts more codes on an item than it has pieces.
LEMMA OneMore ==
  ASSUME NEW i, NEW c, marks' = marks \union {[item |-> i, code |-> c]}
  PROVE  CodesOn(i)' = CodesOn(i) \union {c}
<1>1. PICK m : m = [item |-> i, code |-> c]
  OBVIOUS
<1>2. m.item = i /\ m.code = c /\ marks' = marks \union {m}
  BY <1>1
<1> QED
  BY <1>2 DEF CodesOn

LEMMA ScanCoded ==
  ASSUME Inv, Counted, Orderly, NEW w \in Workers, NEW i \in Items, CommitScan(w, i)
  PROVE  \A j \in Items : Coded(j)'
<1> DEFINE r == req[w]
           p == ProductOf(r.code)
<1>0. PICK c : c = r.code
  OBVIOUS
<1>1. Typed /\ IsFiniteSet(marks) /\ r.pc = "scan" /\ Figured(r) /\ \A j \in Items : Coded(j)
  BY DEF Inv, Counted, Orderly, CommitScan
<1>2. ASSUME NEW j \in Items, j # i
      PROVE  Coded(j)'
  <2>1. item'[j] = item[j] /\ CodesOn(j)' = CodesOn(j)
    BY <1>1, <1>2 DEF CommitScan, CodesOn, Typed
  <2> QED
    BY <1>1, <2>1, FewerCodes
<1>3. CASE r.item = NewRow
  <2>1. item[i].status = "none" /\ CodesOn(i) = {}
    BY <1>1, <1>3 DEF CommitScan, IsRow, Coded, Exists
  <2>2. item'[i].status = "live" /\ item'[i].product = p /\ item'[i].qty = 1
    BY <1>1, <1>3 DEF CommitScan, Typed
  <2>3. CASE p \in Marked
    <3>1. CodesOn(i)' = {c}
      <4>1. marks' = marks \union {[item |-> i, code |-> c]}
        BY <1>0, <2>3 DEF CommitScan
      <4> QED
        BY <2>1, <4>1, OneMore
    <3>2. Cardinality(CodesOn(i)') = 1
      BY <3>1, FS_Singleton
    <3>3. Coded(i)'
      BY <2>2, <2>3, <3>2 DEF Coded, Exists
    <3> QED
      BY <1>2, <3>3
  <2>4. CASE p \notin Marked
    <3>1. CodesOn(i)' = {}
      BY <2>1, <2>4 DEF CommitScan, CodesOn
    <3>2. Coded(i)'
      BY <3>1 DEF Coded
    <3> QED
      BY <1>2, <3>2
  <2> QED
    BY <2>3, <2>4
<1>4. CASE r.item # NewRow
  <2>1. i = r.item /\ item' = item
    BY <1>4 DEF CommitScan, IsRow
  <2>2. Exists(i) /\ item[i].product = p /\ Cardinality(CodesOn(i)) < item[i].qty
    BY <1>1, <1>4, <2>1 DEF Figured
  <2>3. CASE p \in Marked
    <3>1. CodesOn(i)' = CodesOn(i) \union {c}
      <4>1. marks' = marks \union {[item |-> i, code |-> c]}
        BY <1>0, <2>3 DEF CommitScan
      <4> QED
        BY <4>1, OneMore
    <3>2. PICK C, n, q : C = CodesOn(i) /\ n = Cardinality(C) /\ q = item[i].qty
      OBVIOUS
    <3>3. IsFiniteSet(C) /\ n \in Nat /\ q \in Nat /\ n < q
      BY <1>1, <2>2, <3>2, CodesAreFinite, Owned, LineIsNat
    <3>4. Cardinality(C \union {c}) <= n + 1
      <4>1. Cardinality(C \union {c}) = IF c \in C THEN n ELSE n + 1
        BY <3>2, <3>3, FS_AddElement
      <4> QED
        BY <3>3, <4>1
    <3>5. Cardinality(C \union {c}) \in Nat
      BY <3>3, FS_AddElement, FS_CardinalityType
    <3>6. Cardinality(CodesOn(i)') <= q
      BY <3>1, <3>2, <3>3, <3>4, <3>5
    <3>7. item'[i] = item[i] /\ q = item[i].qty
      BY <2>1, <3>2
    <3>8. Coded(i)'
      BY <2>2, <2>3, <3>6, <3>7 DEF Coded, Exists
    <3> QED
      BY <1>2, <3>8
  <2>4. CASE p \notin Marked
    <3>1. CodesOn(i)' = CodesOn(i)
      BY <2>4 DEF CommitScan, CodesOn
    <3> QED
      BY <1>1, <1>2, <2>1, <3>1, FewerCodes
  <2> QED
    BY <2>3, <2>4
<1> QED
  BY <1>3, <1>4

LEMMA SaveCoded ==
  ASSUME Inv, Counted, Vouched, Orderly, unsure = {}, unsure' = {}, ~ loosened',
         NEW w \in Workers, NEW i \in Items, SaveItem(w, i)
  PROVE  \A j \in Items : Coded(j)'
<1> DEFINE row == req[w].row
<1>1. Typed /\ IsFiniteSet(marks) /\ req[w].pc = "save" /\ \A j \in Items : Coded(j)
  BY DEF Inv, Counted, Orderly, SaveItem
<1>2. row \in Item /\ row.status \in Statuses
  BY <1>1 DEF Typed, Sound
<1>3. \A j : CodesOn(j)' = CodesOn(j)
  BY DEF SaveItem, CodesOn
<1>4. item'[i] = row /\ \A j \in Items : j # i => item'[j] = item[j]
  BY <1>1 DEF SaveItem, Typed
<1>5. Cardinality(CodesOn(i)) <= row.qty
  <2>1. loosened' = (loosened \/ Cardinality(CodesOn(i)) > row.qty)
    BY DEF SaveItem
  <2>2. Cardinality(CodesOn(i)) \in Nat /\ row.qty \in Nat
    <3>1. Cardinality(CodesOn(i)) \in Nat
      BY <1>1, CodesAreFinite
    <3>2. row.qty \in 0..MaxQty
      BY <1>2 DEF Item
    <3>3. row.qty \in Nat
      BY <3>2
    <3> QED
      BY <3>1, <3>3
  <2>3. ~ (Cardinality(CodesOn(i)) > row.qty)
    BY <2>1, Zenon
  <2> QED
    BY <2>2, <2>3
<1>6. CodesOn(i) # {} => row.product \in Marked
  <2>1. SUFFICES ASSUME NEW c \in CodesOn(i)
                 PROVE  row.product \in Marked
    OBVIOUS
  <2>2. ProductOf(c) = row.product
    BY DEF SaveItem, Doubt
  <2>3. ProductOf(c) = item[i].product
    BY DEF Vouched, Proper
  <2> QED
    BY <1>1, <2>2, <2>3 DEF Coded
<1> HIDE DEF row
<1>7. Coded(i)'
  BY <1>2, <1>3, <1>4, <1>5, <1>6 DEF Coded, Exists, Statuses
<1>8. \A j \in Items : j # i => Coded(j)'
  BY <1>1, <1>3, <1>4, FewerCodes
<1> QED
  BY <1>7, <1>8

LEMMA RemovalCoded ==
  ASSUME Inv, Counted, Orderly, NEW w \in Workers, CommitRemove(w) \/ DeleteItem(w), ~ loosened'
  PROVE  \A j \in Items : Coded(j)'
<1>0. PICK i : i = req[w].item
  OBVIOUS
<1>1. Typed /\ IsFiniteSet(marks) /\ \A j \in Items : Coded(j)
  BY DEF Inv, Counted, Orderly
<1>2. marks' \subseteq marks
  BY DEF CommitRemove, DeleteItem
<1>3. \A j : CodesOn(j)' \subseteq CodesOn(j)
  BY <1>2 DEF CodesOn
<1>4. ASSUME NEW j \in Items, j # i
      PROVE  Coded(j)'
  <2>1. item'[j] = item[j]
    BY <1>0, <1>1, <1>4 DEF CommitRemove, DeleteItem, Typed
  <2> QED
    BY <1>1, <1>3, <2>1, FewerCodes
<1>5. i \in Items /\ item[i] \in Item
  BY <1>0, <1>1 DEF CommitRemove, DeleteItem, Typed, Sound, Belongs
<1>6. CASE \A m \in marks' : m.item # i
  <2>1. CodesOn(i)' = {}
    BY <1>6 DEF CodesOn
  <2>2. Coded(i)'
    BY <2>1 DEF Coded
  <2> QED
    BY <1>4, <2>2
<1>7. CASE CommitRemove(w) /\ req[w].qty > 1
  <2>1. PICK M : M = {m \in marks' : m.item = i}
    OBVIOUS
  <2>2. IsFiniteSet(M)
    BY <1>1, <1>2, <2>1, FS_Subset
  <2>3. CodesOn(i)' = {m.code : m \in M}
    BY <2>1 DEF CodesOn
  <2>4. PICK n, q, c : n = Cardinality(M) /\ q = req[w].qty - 1 /\ c = Cardinality({m.code : m \in M})
    OBVIOUS
  <2>5. n \in Nat /\ q \in Int /\ c \in Nat /\ c <= n
    BY <1>1, <1>7, <2>2, <2>4, CodesOfMarks, FS_CardinalityType DEF CommitRemove, Typed, Sound
  <2>6. ~ (n > q)
    <3>1. marks' = marks \ req[w].marks
      BY <1>7 DEF CommitRemove
    <3>2. M = {m \in marks \ req[w].marks : m.item = req[w].item}
      BY <1>0, <2>1, <3>1
    <3>3. loosened' = (loosened \/ Cardinality({m \in marks \ req[w].marks : m.item = req[w].item}) > req[w].qty - 1)
      BY <1>7 DEF CommitRemove
    <3>4. loosened' = (loosened \/ n > q)
      BY <2>4, <3>2, <3>3
    <3> QED
      BY <3>4, Zenon
  <2>7. item'[i].qty = q /\ item'[i].status = item[i].status /\ item'[i].product = item[i].product
    BY <1>0, <1>1, <1>5, <1>7, <2>4 DEF CommitRemove, Typed, Item
  <2>8. Exists(i)
    BY <1>0, <1>7 DEF CommitRemove
  <2>9. CodesOn(i)' # {} => item[i].product \in Marked
    BY <1>1, <1>3, <1>5 DEF Coded
  <2>10. Cardinality(CodesOn(i)') <= q
    BY <2>3, <2>4, <2>5, <2>6
  <2>11. Coded(i)'
    BY <2>7, <2>8, <2>9, <2>10 DEF Coded, Exists
  <2> QED
    BY <1>4, <2>11
<1>8. DeleteItem(w) \/ ~ (req[w].qty > 1) => \A m \in marks' : m.item # i
  BY <1>0 DEF CommitRemove, DeleteItem
<1> QED
  BY <1>6, <1>7, <1>8

\* A step that ends undisturbed began so.
LEMMA StaysUndisturbed ==
  ASSUME [Next]_vars, Undisturbed'
  PROVE  Undisturbed
<1>1. ASSUME loosened => loosened', late => late', overlap => overlap', unsure \subseteq unsure'
      PROVE  Undisturbed
  <2>1. unsure = {}
    BY <1>1 DEF Undisturbed
  <2> QED
    BY <1>1, <2>1, Zenon DEF Undisturbed
<1>2. CASE UNCHANGED vars
  BY <1>1, <1>2 DEF vars
<1>3. ASSUME NEW i \in Items, NEW st \in Statuses, KitchenSets(i, st)
      PROVE  Undisturbed
  <2>1. unsure' = unsure
    BY <1>3 DEF KitchenSets
  <2>2. (loosened => loosened') /\ (late => late') /\ (overlap => overlap')
    BY <1>3, Zenon DEF KitchenSets
  <2> QED
    BY <1>1, <2>1, <2>2
<1>4. ASSUME NEW w \in Workers, ScanStep(w) \/ ItemStep(w) \/ SaleStep(w)
      PROVE  Undisturbed
  <2>1. late' = late
    BY <1>4 DEF ScanStep, ItemStep, SaleStep, ReadForScan, CommitScan, AbortScan, ReadForRemove,
       CommitRemove, AbortRemove, ReadForAdd, ReadForUpdate, SaveItem, ReadForDelete, DeleteItem,
       BeginCharge, ChargeFails, ChargeSucceeds, IssueReceipts, Retry, past
  <2>2. overlap => overlap'
    <3>1. ASSUME NEW r, Serve(w, r)
          PROVE  overlap => overlap'
      BY <3>1, Zenon DEF Serve
    <3>2. ASSUME Finish(w)
          PROVE  overlap => overlap'
      BY <3>2 DEF Finish
    <3>3. ASSUME NEW fromBrowser \in BOOLEAN, ChargeSucceeds(w, fromBrowser)
          PROVE  overlap => overlap'
      BY <3>3 DEF ChargeSucceeds
    <3> QED
      BY <1>4, <3>1, <3>2, <3>3 DEF ScanStep, ItemStep, SaleStep, ReadForScan, CommitScan, AbortScan, ReadForRemove,
         CommitRemove, AbortRemove, ReadForAdd, ReadForUpdate, SaveItem, ReadForDelete, DeleteItem,
         BeginCharge, ChargeFails, IssueReceipts, Retry
  <2>3. loosened => loosened'
    <3>1. ASSUME NEW i \in Items, SaveItem(w, i)
          PROVE  loosened => loosened'
      BY <3>1, Zenon DEF SaveItem
    <3>2. ASSUME CommitRemove(w)
          PROVE  loosened => loosened'
      <4>1. CASE req[w].qty > 1
        BY <3>2, <4>1, Zenon DEF CommitRemove
      <4>2. CASE ~ (req[w].qty > 1)
        BY <3>2, <4>2 DEF CommitRemove
      <4> QED
        BY <4>1, <4>2
    <3> QED
      BY <1>4, <3>1, <3>2 DEF ScanStep, ItemStep, SaleStep, ReadForScan, CommitScan, AbortScan, ReadForRemove,
         AbortRemove, ReadForAdd, ReadForUpdate, ReadForDelete, DeleteItem,
         BeginCharge, ChargeFails, ChargeSucceeds, IssueReceipts, Retry, past
  <2>4. unsure \subseteq unsure'
    BY <1>4 DEF ScanStep, ItemStep, SaleStep, ReadForScan, CommitScan, AbortScan, ReadForRemove,
       CommitRemove, AbortRemove, ReadForAdd, ReadForUpdate, SaveItem, ReadForDelete, DeleteItem,
       BeginCharge, ChargeFails, ChargeSucceeds, IssueReceipts, Retry, past, Doubt
  <2> QED
    BY <1>1, <2>1, <2>2, <2>3, <2>4
<1> QED
  BY <1>2, <1>3, <1>4 DEF Next

\* What a request works out when it is taken up is so.
LEMMA OrderlyRead ==
  ASSUME Inv, Orderly, NEW w \in Workers,
         Reads(w) \/ \E o \in Orders, method \in Methods : BeginCharge(w, o, method)
  PROVE  Orderly'
<1>1. ASSUME NEW r, Figured(r), Serve(w, r), SameRows
      PROVE  Orderly'
  BY <1>1, OrderlyServe DEF Serve
<1>2. ASSUME NEW o \in Orders, NEW c \in Codes, NEW mode, NEW i \in Items \union {NewRow},
             ReadForScan(w, o, c, mode, i)
      PROVE  Orderly'
  <2> DEFINE r == [pc |-> "scan", order |-> o, item |-> i, code |-> c]
  <2>1. Figured(r)
    BY <1>2 DEF Figured, ReadForScan, IsOldest, Lacking, ItemsOf
  <2>2. Serve(w, r) /\ SameRows
    BY <1>2 DEF ReadForScan, SameRows, SameSales, sales
  <2> HIDE DEF r
  <2> QED
    BY <1>1, <2>1, <2>2
<1>3. ASSUME NEW o \in Orders, NEW c \in Codes, NEW i \in Items, ReadForRemove(w, o, c, i)
      PROVE  Orderly'
  <2> DEFINE r == [pc |-> "remove", order |-> o, item |-> i, qty |-> item[i].qty,
                   marks |-> {m \in marks : m.code = c /\ m.item \in ItemsOf(o)}]
  <2>1. Figured(r)
    BY DEF Figured
  <2>2. Serve(w, r) /\ SameRows
    BY <1>3 DEF ReadForRemove, SameRows, SameSales, sales
  <2> HIDE DEF r
  <2> QED
    BY <1>1, <2>1, <2>2
<1>4. ASSUME NEW o \in Orders, NEW p \in Products, NEW st \in Statuses, NEW q \in 0..MaxQty,
             ReadForAdd(w, o, p, st, q)
      PROVE  Orderly'
  <2> DEFINE r == [pc |-> "save", order |-> o, item |-> NewRow,
                   row |-> [status |-> st, order |-> o, product |-> p, qty |-> q, price |-> Price(p)]]
  <2>1. Figured(r)
    BY DEF Figured
  <2>2. Serve(w, r) /\ SameRows
    BY <1>4 DEF ReadForAdd, SameRows, SameSales, sales
  <2> HIDE DEF r
  <2> QED
    BY <1>1, <2>1, <2>2
<1>5. ASSUME NEW i \in Items, NEW p \in Products, NEW st \in Statuses, NEW q \in 0..MaxQty,
             ReadForUpdate(w, i, p, st, q)
      PROVE  Orderly'
  <2> DEFINE r == [pc |-> "save", order |-> item[i].order, item |-> i,
                   row |-> [item[i] EXCEPT !.product = p, !.status = st, !.qty = q]]
  <2>1. Figured(r)
    BY DEF Figured
  <2>2. Serve(w, r) /\ SameRows
    BY <1>5 DEF ReadForUpdate, SameRows, SameSales, sales
  <2> HIDE DEF r
  <2> QED
    BY <1>1, <2>1, <2>2
<1>6. ASSUME NEW i \in Items, ReadForDelete(w, i)
      PROVE  Orderly'
  <2> DEFINE r == [pc |-> "delete", order |-> item[i].order, item |-> i]
  <2>1. Figured(r)
    BY DEF Figured
  <2>2. Serve(w, r) /\ SameRows
    BY <1>6 DEF ReadForDelete, SameRows, SameSales, sales
  <2> HIDE DEF r
  <2> QED
    BY <1>1, <2>1, <2>2
<1>7. ASSUME NEW o \in Orders, NEW method \in Methods, BeginCharge(w, o, method)
      PROVE  Orderly'
  <2> DEFINE r == [pc |-> "charge", order |-> o, method |-> method, amount |-> Remaining(o), fee |-> ServiceFee(o)]
  <2>1. Figured(r)
    <3>1. order[o].paid = 0
      BY <1>7 DEF BeginCharge, Orderly, Settled
    <3>2. Total(o) \in Nat
      BY TotalIsNat DEF Inv
    <3>3. Remaining(o) = Total(o)
      BY <3>1, <3>2 DEF Remaining
    <3> QED
      BY <3>3 DEF Figured
  <2>2. Serve(w, r) /\ SameRows
    BY <1>7 DEF BeginCharge, SameRows, SameSales, sales
  <2> HIDE DEF r
  <2> QED
    BY <1>1, <2>1, <2>2
<1> QED
  BY <1>2, <1>3, <1>4, <1>5, <1>6, <1>7 DEF Reads

LEMMA WrittenOrderly ==
  ASSUME Inv, Counted, Vouched, Orderly, Undisturbed, Undisturbed', NEW w \in Workers, Writes(w)
  PROVE  Orderly'
<1>1. PICK o : o = req[w].order
  OBVIOUS
<1>2. /\ Touches(w) /\ req[w].pc \in {"scan", "remove", "save", "delete"}
      /\ req' = [req EXCEPT ![w] = Idle]
      /\ order' = order /\ receipt' = receipt /\ missing' = missing
  BY WritesTouch
<1>3. Typed /\ Alone /\ ~ loosened' /\ unsure = {} /\ unsure' = {}
  BY DEF Inv, Undisturbed
<1>4. o \in Orders /\ order[o].status = "open"
  BY <1>1, <1>2, <1>3, Busy DEF Alone
<1>5. \A i \in Items : Touched(i, o)
  BY <1>1, <1>2 DEF Touches
<1>6. \A v \in Workers : req'[v] = Idle \/ (req'[v] = req[v] /\ req[v].order # o)
  <2>1. ASSUME NEW v \in Workers, v # w, req[v].pc = "idle"
        PROVE  req[v] = Idle
    BY <2>1 DEF Counted, TypeOK, Request, Idle
  <2>2. ASSUME NEW v \in Workers, v # w
        PROVE  req'[v] = req[v]
    BY <1>2, <1>3, <2>2 DEF Typed
  <2>3. req'[w] = Idle
    BY <1>2, <1>3 DEF Typed
  <2> QED
    BY <1>1, <1>2, <1>3, <2>1, <2>2, <2>3 DEF Alone
<1>7. \A i \in Items : Coded(i)'
  BY <1>3, ScanCoded, SaveCoded, RemovalCoded DEF Writes
<1> QED
  BY <1>2, <1>4, <1>5, <1>6, <1>7, OrderlyWrite

LEMMA KitchenOrderly ==
  ASSUME Inv, Counted, Orderly, Undisturbed', NEW i \in Items, NEW st \in Statuses, KitchenSets(i, st)
  PROVE  Orderly'
<1>1. Typed /\ IsFiniteSet(marks) /\ item[i] \in Item
  BY Owned DEF Inv, KitchenSets, Exists, Counted
<1>2. PICK o \in Orders : o = item[i].order
  BY <1>1 DEF Item
<1>3. order' = order /\ receipt' = receipt /\ missing' = missing /\ req' = req /\ marks' = marks
  BY DEF KitchenSets, sales
<1>4. /\ item'[i].order = o /\ item'[i].product = item[i].product /\ item'[i].qty = item[i].qty
      /\ item'[i].status = st /\ item'[i] \in Item
  BY <1>1, <1>2 DEF KitchenSets, Typed, Item, Statuses
<1>5. \A j \in Items : j # i => item'[j] = item[j]
  BY <1>1 DEF KitchenSets, Typed
<1>6. \A j : CodesOn(j)' = CodesOn(j)
  BY <1>3 DEF CodesOn
<1>7. \A j \in Items : Touched(j, o)
  BY <1>2, <1>4, <1>5, <1>6 DEF Touched
<1>8. order[o].status = "open"
  <2>1. late' = (late \/ order[o].status = "closed")
    BY <1>2 DEF KitchenSets
  <2>2. order[o].status # "closed"
    BY <2>1, Zenon DEF Undisturbed
  <2> QED
    BY <2>2 DEF Counted, TypeOK
<1>9. \A v \in Workers : req'[v] = Idle \/ (req'[v] = req[v] /\ req[v].order # o)
  <2>1. overlap' = (overlap \/ \E v \in Workers : req[v] # Idle /\ req[v].order = o)
    BY <1>2 DEF KitchenSets
  <2>2. \A v \in Workers : req[v] = Idle \/ req[v].order # o
    BY <2>1, Zenon DEF Undisturbed
  <2> QED
    BY <1>3, <2>2
<1>10. \A j \in Items : Coded(j)'
  <2>1. Coded(i)'
    <3>1. Coded(i)
      BY DEF Orderly
    <3> QED
      BY <1>4, <1>6, <3>1 DEF Coded, Exists, Statuses
  <2>2. \A j \in Items : j # i => Coded(j)'
    BY <1>1, <1>5, <1>6, FewerCodes DEF Orderly
  <2> QED
    BY <2>1, <2>2
<1> QED
  BY <1>3, <1>7, <1>8, <1>9, <1>10, OrderlyWrite

\* The charge closes the order, paid to the total that was worked out; nor does
\* the browser find that something is left to pay.
LEMMA ChargedOrderly ==
  ASSUME Inv, Counted, Orderly, Undisturbed, NEW w \in Workers, NEW fromBrowser \in BOOLEAN,
         ChargeSucceeds(w, fromBrowser)
  PROVE  Orderly'
<1>0. PICK o, fee, paid : /\ o = req[w].order /\ fee = (IF fromBrowser THEN ServiceFee(o) ELSE req[w].fee)
                          /\ paid = order[o].paid + req[w].amount
  OBVIOUS
<1>1. PICK r, x : /\ r = [pc |-> "issue", order |-> o, method |-> req[w].method, fee |-> fee, reasons |-> Reasons]
                  /\ x = [status |-> IF fromBrowser /\ paid < Total(o) THEN order[o].status ELSE "closed",
                          paid |-> paid, method |-> req[w].method]
  OBVIOUS
<1>2. /\ req[w].pc = "charge" /\ req' = [req EXCEPT ![w] = r] /\ order' = [order EXCEPT ![o] = x]
      /\ item' = item /\ marks' = marks /\ receipt' = receipt /\ missing' = missing
  BY <1>0, <1>1 DEF ChargeSucceeds
<1>3. Typed /\ Alone /\ DOMAIN req = Workers /\ DOMAIN order = Orders
  BY DEF Inv, Undisturbed, Typed
<1>4. o \in Orders /\ order[o].status = "open"
  BY <1>0, <1>2, <1>3, Busy DEF Alone
<1>5. order'[o] = x /\ \A p \in Orders : p # o => order'[p] = order[p]
  BY <1>2, <1>3, <1>4
<1>6. Unsettled(o) /\ paid = Total(o) /\ fee = ServiceFee(o) /\ x.status = "closed"
  <2>1. Unsettled(o) /\ order[o].paid = 0 /\ req[w].amount = Total(o) /\ req[w].fee = ServiceFee(o)
    BY <1>0, <1>2, <1>4 DEF Orderly, Settled, Figured
  <2>2. Total(o) \in Nat
    BY <1>3, TotalIsNat
  <2>3. paid = Total(o) /\ ~ (paid < Total(o))
    BY <1>0, <2>1, <2>2
  <2>4. fee = ServiceFee(o)
    BY <1>0, <2>1
  <2> QED
    BY <1>1, <2>1, <2>3, <2>4
<1>7. \A p : Kept(p)
  BY <1>2, <1>3, NothingNew
<1>8. Total(o)' = Total(o) /\ ServiceFee(o)' = ServiceFee(o)
  BY <1>3, <1>7, TotalKept
<1>9. Unsettled(o)'
  BY <1>2, <1>6 DEF Unsettled
<1>10. \A i \in Items : Coded(i)'
  BY <1>2, <1>3, NothingNew DEF Orderly
<1>11. ASSUME NEW v \in Workers
       PROVE  Figured(req[v])'
  <2>1. PICK q : q = req'[v]
    OBVIOUS
  <2>2. CASE v = w
    <3>1. q = r
      BY <1>2, <1>3, <2>1, <2>2
    <3>2. /\ r.pc = "issue" /\ r.order = o /\ r.method = req[w].method
          /\ r.fee = fee /\ r.reasons = Reasons
      BY <1>1
    <3>3. order'[o].status = "closed" /\ order'[o].method = req[w].method
      BY <1>1, <1>5, <1>6
    <3>4. Figured(r)'
      BY <1>6, <1>8, <1>9, <3>2, <3>3 DEF Figured
    <3> QED
      BY <2>1, <3>1, <3>4
  <2>3. CASE v # w
    <3>1. q = req[v] /\ Figured(q) /\ Sound(q)
      BY <1>2, <1>3, <2>1, <2>3 DEF Orderly, Typed
    <3>2. q.pc = "issue" => q.order \in Orders /\ q.order # o
      BY <1>0, <1>2, <1>3, <2>3, <3>1 DEF Alone, Sound
    <3>3. q.pc = "issue" => /\ order'[q.order] = order[q.order] /\ receipt'[q.order] = receipt[q.order]
                            /\ missing'[q.order] = missing[q.order]
      BY <1>2, <1>5, <3>2
    <3>4. Figured(q)'
      BY <1>2, <1>3, <3>1, <3>3, FiguredKept
    <3> QED
      BY <2>1, <3>4
  <2> QED
    BY <2>2, <2>3
<1>12. ASSUME NEW p \in Orders
       PROVE  Settled(p)'
  <2>1. CASE p = o
    <3>1. order'[o].status = "closed" /\ order'[o].paid = Total(o)'
      BY <1>1, <1>5, <1>6, <1>8
    <3>2. Settled(o)'
      BY <1>9, <3>1 DEF Settled
    <3> QED
      BY <2>1, <3>2
  <2>2. CASE p # o
    BY <1>2, <1>3, <1>5, <1>7, <2>2, SettledKept DEF Orderly
  <2> QED
    BY <2>1, <2>2
<1> QED
  BY <1>10, <1>11, <1>12 DEF Orderly

LEMMA PartReasons ==
  ASSUME NEW o, NEW x \in Due(o)
  PROVE  x.reason \in Reasons
BY DEF Due, Parts, Part, Reasons

\* A post or a retry leaves exactly what failed missing.
LEMMA IssuedOrderly ==
  ASSUME Inv, Counted, Orderly, Undisturbed, NEW w \in Workers, NEW failed \in SUBSET Reasons,
         IssueReceipts(w, failed)
  PROVE  Orderly'
<1>1. PICK o, P, parts, R : /\ o = req[w].order /\ P = Due(o) /\ R = req[w].reasons
                            /\ parts = {x \in P : x.reason \in R}
  <2>1. PICK o, R : o = req[w].order /\ R = req[w].reasons
    OBVIOUS
  <2>2. PICK P, parts : P = Due(o) /\ parts = {x \in P : x.reason \in R}
    OBVIOUS
  <2> QED
    BY <2>1, <2>2
<1>2. Typed /\ Alone /\ req[w].pc = "issue" /\ DOMAIN req = Workers
  BY DEF Inv, Undisturbed, Typed, IssueReceipts
<1>3. o \in Orders
  BY <1>1, <1>2, Busy
<1>4. /\ order[o].status = "closed"
      /\ req[w].method = order[o].method /\ req[w].fee = ServiceFee(o)
      /\ R = missing[o] \/ (R = Reasons /\ Unsettled(o))
  BY <1>1, <1>2 DEF Orderly, Figured
<1>5. Parts(req[w].order, req[w].method, req[w].fee) = P
  BY <1>1, <1>4 DEF Due
<1>6. /\ failed \subseteq {x.reason : x \in parts}
      /\ receipt' = [receipt EXCEPT ![o] = @ \union {x \in parts : x.reason \notin failed}]
      /\ missing' = [missing EXCEPT ![o] = (@ \ {x.reason : x \in parts}) \union failed]
      /\ item' = item /\ marks' = marks /\ order' = order /\ req' = [req EXCEPT ![w] = Idle]
  BY <1>1, <1>5 DEF IssueReceipts, Finish
<1>7. \A p : Kept(p)
  BY <1>2, <1>6, NothingNew
<1>8. Total(o)' = Total(o) /\ Due(o)' = P
  BY <1>1, <1>2, <1>6, <1>7, TotalKept, DueKept
<1>9. /\ receipt'[o] = receipt[o] \union {x \in parts : x.reason \notin failed}
      /\ missing'[o] = (missing[o] \ {x.reason : x \in parts}) \union failed
      /\ \A p \in Orders : p # o => receipt'[p] = receipt[p] /\ missing'[p] = missing[p]
  BY <1>3, <1>6 DEF Counted, TypeOK
<1>10. \A i \in Items : Coded(i)'
  BY <1>2, <1>6, NothingNew DEF Orderly
<1>11. ASSUME NEW v \in Workers
       PROVE  Figured(req[v])'
  <2>1. PICK q : q = req'[v]
    OBVIOUS
  <2>2. CASE v = w
    <3>1. q = Idle
      BY <1>2, <1>6, <2>1, <2>2
    <3>2. Figured(Idle)'
      BY DEF Figured, Idle
    <3> QED
      BY <2>1, <3>1, <3>2
  <2>3. CASE v # w
    <3>1. q = req[v] /\ Figured(q) /\ Sound(q)
      BY <1>2, <1>6, <2>1, <2>3 DEF Orderly, Typed
    <3>2. q.pc = "issue" => q.order \in Orders /\ q.order # o
      BY <1>1, <1>2, <2>3, <3>1 DEF Alone, Sound
    <3>3. q.pc = "issue" => /\ order'[q.order] = order[q.order] /\ receipt'[q.order] = receipt[q.order]
                            /\ missing'[q.order] = missing[q.order]
      BY <1>6, <1>9, <3>2
    <3>4. Figured(q)'
      BY <1>2, <1>6, <3>1, <3>3, FiguredKept
    <3> QED
      BY <2>1, <3>4
  <2> QED
    BY <2>2, <2>3
<1>12. Settled(o)'
  <2>1. order'[o].status = "closed" /\ order'[o].paid = Total(o)'
    BY <1>3, <1>4, <1>6, <1>8 DEF Orderly, Settled
  <2>2. \A x \in P : x.reason \in Reasons
    BY <1>1, PartReasons
  <2>3. PICK A, B, C, D : A = receipt[o] /\ B = missing[o] /\ C = receipt'[o] /\ D = missing'[o]
    OBVIOUS
  <2>4. (A = {} /\ B = {}) \/ (B \subseteq {x.reason : x \in P} /\ A = {x \in P : x.reason \notin B})
    BY <1>1, <1>3, <1>4, <2>3 DEF Orderly, Settled, Unsettled
  <2>5. C = A \union {x \in parts : x.reason \notin failed} /\ D = (B \ {x.reason : x \in parts}) \union failed
    BY <1>9, <2>3
  <2>6. (C = {} /\ D = {}) \/ (D \subseteq {x.reason : x \in P} /\ C = {x \in P : x.reason \notin D})
    <3>1. CASE R = Reasons /\ A = {} /\ B = {}
      <4>1. parts = P
        BY <1>1, <2>2, <3>1
      <4>2. D = failed /\ C = {x \in P : x.reason \notin failed}
        BY <2>5, <3>1, <4>1
      <4> QED
        BY <1>6, <4>1, <4>2
    <3>2. CASE R = B /\ A = {} /\ B = {}
      <4>1. parts = {}
        BY <1>1, <3>2
      <4> QED
        BY <1>6, <2>5, <3>2, <4>1
    <3>3. CASE R = B /\ B \subseteq {x.reason : x \in P} /\ A = {x \in P : x.reason \notin B}
      <4>1. {x.reason : x \in parts} = B
        BY <1>1, <3>3
      <4>2. D = failed /\ failed \subseteq B
        BY <1>6, <2>5, <4>1
      <4>3. C = {x \in P : x.reason \notin failed}
        BY <1>1, <2>5, <3>3, <4>2
      <4> QED
        BY <3>3, <4>2, <4>3
    <3> QED
      BY <1>4, <2>3, <2>4, <3>1, <3>2, <3>3 DEF Unsettled
  <2> QED
    BY <1>8, <2>1, <2>3, <2>6 DEF Settled, Unsettled
<1>13. ASSUME NEW p \in Orders, p # o
       PROVE  Settled(p)'
  BY <1>2, <1>6, <1>7, <1>9, <1>13, SettledKept DEF Orderly
<1>14. \A p \in Orders : Settled(p)'
  BY <1>12, <1>13
<1> QED
  BY <1>10, <1>11, <1>14 DEF Orderly

LEMMA RetriedOrderly ==
  ASSUME Inv, Counted, Orderly, NEW w \in Workers, NEW o \in Orders, Retry(w, o)
  PROVE  Orderly'
<1> DEFINE r == [pc |-> "issue", order |-> o, method |-> order[o].method,
                 fee |-> ServiceFee(o), reasons |-> missing[o]]
<1>1. order[o].status = "closed"
  BY DEF Retry, Orderly, Settled, Unsettled, Counted, TypeOK
<1>2. Figured(r)
  BY <1>1 DEF Figured
<1>3. Serve(w, r) /\ SameRows
  BY DEF Retry, SameRows, SameSales, sales
<1> HIDE DEF r
<1> QED
  BY <1>2, <1>3, OrderlyServe DEF Serve

ReceiptsInv == CodeOnce /\ Inv /\ Counted /\ Vouched /\ (Undisturbed => Orderly)

LEMMA ReceiptsStep == ReceiptsInv /\ [Next]_vars => ReceiptsInv'
<1> SUFFICES ASSUME ReceiptsInv, [Next]_vars, Undisturbed'
             PROVE  Orderly'
  BY CodeOnceStep, InvStep, CountedStep, VouchedStep DEF ReceiptsInv
<1>1. Inv /\ Counted /\ Vouched /\ Orderly /\ Undisturbed
  BY StaysUndisturbed DEF ReceiptsInv
<1>2. ASSUME NEW w \in Workers, Writes(w)
      PROVE  Orderly'
  BY <1>1, <1>2, WrittenOrderly
<1>3. ASSUME NEW w \in Workers, ScanStep(w)
      PROVE  Orderly'
  <2>1. CASE AbortScan(w) \/ AbortRemove(w)
    BY <1>1, <2>1, OrderlyFinish DEF AbortScan, AbortRemove, SameRows, SameSales, sales
  <2> QED
    BY <1>1, <1>2, <1>3, <2>1, OrderlyRead DEF ScanStep, Reads, Writes
<1>4. ASSUME NEW w \in Workers, ItemStep(w)
      PROVE  Orderly'
  BY <1>1, <1>2, <1>4, OrderlyRead DEF ItemStep, Reads, Writes
<1>5. ASSUME NEW w \in Workers, SaleStep(w)
      PROVE  Orderly'
  <2>1. CASE ChargeFails(w)
    BY <1>1, <2>1, OrderlyFinish DEF ChargeFails, SameRows, SameSales, sales
  <2> QED
    BY <1>1, <1>5, <2>1, OrderlyRead, ChargedOrderly, IssuedOrderly, RetriedOrderly DEF SaleStep
<1>6. ASSUME NEW i \in Items, NEW st \in Statuses, KitchenSets(i, st)
      PROVE  Orderly'
  BY <1>1, <1>6, KitchenOrderly
<1>7. CASE UNCHANGED vars
  <2>1. item' = item /\ marks' = marks /\ order' = order /\ receipt' = receipt /\ missing' = missing /\ req' = req
    BY <1>7 DEF vars
  <2> QED
    BY <1>1, <2>1, OrderlyTurn DEF Orderly, SameRows, SameSales
<1> QED
  BY <1>3, <1>4, <1>5, <1>6, <1>7 DEF Next

\* An item with all its codes is sold piece by piece for what it costs.
LEMMA LabelledPrice ==
  ASSUME IsFiniteSet(marks), NEW i, item[i] \in Item, Coded(i), ~ Missing(i)
  PROVE  FiscalPrice(i) = LineTotal(i)
<1>1. CASE CodesOn(i) = {}
  BY <1>1 DEF FiscalPrice
<1>2. CASE CodesOn(i) # {}
  <2>1. PICK n, q, p : n = Cardinality(CodesOn(i)) /\ q = item[i].qty /\ p = item[i].price
    OBVIOUS
  <2>2. n \in Nat \ {0} /\ q \in Nat /\ p \in Nat
    <3>1. n \in Nat /\ q \in Nat /\ p \in Nat
      BY <2>1, LineIsNat, CodesAreFinite
    <3>2. n # 0
      BY <1>2, <2>1, CodesAreFinite, FS_EmptySet
    <3> QED
      BY <3>1, <3>2
  <2>3. n = q
    BY <1>2, <2>1, <2>2 DEF Coded, Missing
  <2>4. LineTotal(i) = q * p
    BY <2>1 DEF LineTotal
  <2>5. UnitPrice(i) = p
    <3>1. UnitPrice(i) = HalfUp(q * p, q)
      BY <2>1, <2>2, <2>3, <2>4 DEF UnitPrice
    <3> QED
      BY <2>2, <2>3, <3>1, WholeUnits
  <2> QED
    BY <1>2, <2>1, <2>3, <2>4, <2>5 DEF FiscalPrice
<1> QED
  BY <1>1, <1>2

LEMMA LabelledTotal ==
  ASSUME Inv, Counted, Orderly, NEW o, Complete(o), NEW S \in SUBSET Live(o)
  PROVE  FiscalTotal(S) = Subtotal(S) /\ Subtotal(S) \in Nat
<1>1. Real(S) /\ IsFiniteSet(S)
  BY LiveIsReal, RealIsFinite DEF Inv
<1>2. \A i \in S : Labels(S)[i] = Lines(S)[i]
  <2>1. ASSUME NEW i \in S
        PROVE  FiscalPrice(i) = LineTotal(i)
    <3>1. Coded(i) /\ item[i] \in Item /\ ~ Missing(i)
      BY <1>1 DEF Orderly, Real, Complete, Live
    <3> QED
      BY <3>1, LabelledPrice DEF Counted
  <2> QED
    BY <2>1 DEF Labels, Lines
<1>3. SumOf(Labels(S), S) = SumOf(Lines(S), S)
  BY <1>1, <1>2, SumSame
<1> QED
  BY <1>1, <1>3, SubtotalIsNat, LinesAdd, LabelsAdd DEF LinesAddUp, LabelsAddUp

\* The receipts that are due for a complete order add up to its total.
LEMMA DueAddsUp ==
  ASSUME Inv, Counted, Orderly, NEW o \in Orders, Complete(o), Due(o) # {}
  PROVE  MapThenSumSet(LAMBDA x : x.amount, Due(o)) = Total(o)
<1>1. PICK L, R, N, f : /\ L = Live(o) /\ R = {i \in L : item[i].product \in CashForbidden}
                        /\ N = L \ R /\ f = ServiceFee(o)
  OBVIOUS
<1>2. /\ R \in SUBSET Live(o) /\ N \in SUBSET Live(o) /\ L \in SUBSET Live(o)
      /\ Real(R) /\ Real(N) /\ N \intersect R = {} /\ N \union R = L
  BY <1>1, LiveIsReal DEF Inv
<1>3. PICK l, m, n : l = Subtotal(L) /\ m = Subtotal(R) /\ n = Subtotal(N)
  OBVIOUS
<1>4. /\ l \in Nat /\ m \in Nat /\ n \in Nat
      /\ FiscalTotal(L) = l /\ FiscalTotal(R) = m /\ FiscalTotal(N) = n
  BY <1>2, <1>3, LabelledTotal
<1>5. l = n + m
  BY <1>2, <1>3, SubtotalParts
<1>6. f \in Nat /\ Total(o) = l + f
  BY <1>1, <1>3, TotalIsNat DEF Inv, Total
<1>7. PICK g, h : g = SplitFee(f, N, R)[1] /\ h = SplitFee(f, N, R)[2]
  OBVIOUS
<1>8. g \in Nat /\ h \in Nat /\ g + h = f
  BY <1>2, <1>6, <1>7, FeeIsSplit
<1>9. PICK a, b, c, d : /\ a = Part(L, f, "none") /\ b = Part(R, f, "cash_forbidden_category")
                        /\ c = Part(N, g, "mixed_cash_allowed_items") /\ d = Part(R, h, "cash_forbidden_category")
  OBVIOUS
<1>10. a.amount = l + f /\ b.amount = m + f /\ c.amount = n + g /\ d.amount = m + h /\ c # d
  <2>1. c.reason = "mixed_cash_allowed_items" /\ d.reason = "cash_forbidden_category"
    BY <1>9 DEF Part
  <2> QED
    BY <1>4, <1>9, <2>1 DEF Part
<1>11. \/ Due(o) = {a} \/ (N = {} /\ Due(o) = {b}) \/ Due(o) = {c, d}
  BY <1>1, <1>7, <1>9 DEF Due, Parts
<1>12. ASSUME NEW x, x.amount = Total(o), Due(o) = {x}
       PROVE  MapThenSumSet(LAMBDA y : y.amount, Due(o)) = Total(o)
  <2>1. IsFiniteSet({x}) /\ Amounts({x})[x] = Total(o) /\ Total(o) \in Int
    <3>1. IsFiniteSet({x})
      BY FS_Singleton
    <3>2. Amounts({x})[x] = Total(o)
      BY <1>12 DEF Amounts
    <3>3. Total(o) \in Int
      BY <1>4, <1>6
    <3> QED
      BY <3>1, <3>2, <3>3
  <2>2. SumOf(Amounts({x}), {x}) = Total(o)
    BY <2>1, SumOfOne
  <2> QED
    BY <1>12, <2>1, <2>2, AmountsAdd DEF AmountsAddUp
<1>13. CASE Due(o) = {a}
  BY <1>6, <1>10, <1>12, <1>13
<1>14. CASE N = {} /\ Due(o) = {b}
  <2>1. L = R
    BY <1>2, <1>14
  <2> QED
    BY <1>3, <1>6, <1>10, <1>12, <1>14, <2>1
<1>15. CASE Due(o) = {c, d}
  <2>1. IsFiniteSet({c, d})
    <3>1. IsFiniteSet({c}) /\ {c, d} = {c} \union {d}
      BY FS_Singleton
    <3> QED
      BY <3>1, FS_AddElement
  <2>2. PICK F : F = Amounts({c, d})
    OBVIOUS
  <2>3. SumOf(F, {c, d}) = F[c] + F[d] /\ F[c] = n + g /\ F[d] = m + h
    <3>1. F[c] = n + g /\ F[d] = m + h
      BY <1>10, <2>2 DEF Amounts
    <3>2. F[c] \in Int /\ F[d] \in Int
      BY <1>4, <1>8, <3>1
    <3>3. SumOf(F, {c, d}) = F[c] + F[d]
      BY <1>10, <3>2, SumOfTwo
    <3> QED
      BY <3>1, <3>3
  <2>4. (n + g) + (m + h) = Total(o)
    BY <1>4, <1>5, <1>6, <1>8
  <2> QED
    BY <1>15, <2>1, <2>2, <2>3, <2>4, AmountsAdd DEF AmountsAddUp
<1> QED
  BY <1>11, <1>13, <1>14, <1>15

\* The receipts of an order add up to what its guest was charged, for any
\* items, prices, fees and failures, until the order is disturbed.
THEOREM ReceiptsMatchBill == Spec => []ReceiptsAddUp
<1>1. Init => ReceiptsInv
  <2>1. Init => Orderly
    BY FiguredIdle DEF Init, Orderly, Coded, CodesOn, Settled, Unsettled
  <2>2. Init => CodeOnce
    BY DEF Init, CodeOnce
  <2> QED
    BY <2>1, <2>2, InvInit, VouchedInit DEF ReceiptsInv
<1>2. ReceiptsInv => ReceiptsAddUp
  <2>1. SUFFICES ASSUME ReceiptsInv, Undisturbed, NEW o \in Orders, receipt[o] # {}, missing[o] = {}
                 PROVE  MapThenSumSet(LAMBDA x : x.amount, receipt[o]) = order[o].paid
    BY DEF ReceiptsAddUp, Undisturbed
  <2>2. Inv /\ Alone /\ Counted /\ Orderly
    BY <2>1 DEF ReceiptsInv, Undisturbed, Inv
  <2>3. order[o].status = "closed"
    BY <2>1, <2>2 DEF Orderly, Settled, Unsettled, Counted, TypeOK
  <2>4. Complete(o)
    BY <2>2, <2>3 DEF Alone
  <2>5. order[o].paid = Total(o) /\ receipt[o] = Due(o)
    BY <2>1, <2>2, <2>3 DEF Orderly, Settled, Unsettled
  <2> QED
    BY <2>1, <2>2, <2>4, <2>5, DueAddsUp
<1> QED
  BY <1>1, <1>2, ReceiptsStep, PTL DEF Spec
=============================================================================
