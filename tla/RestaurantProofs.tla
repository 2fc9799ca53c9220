--------------------------- MODULE RestaurantProofs ---------------------------
(***************************************************************************)
(* Theorems about the rows of a restaurant that its waiters write at the   *)
(* same time, for any number of requests: the numbers of its orders        *)
(* (OrderNumbers), whose lock makes them run from 1 to the counter until   *)
(* the counter is put back, and its tables (Floor), where nothing is       *)
(* locked and what holds does so while requests for a table do not         *)
(* overlap.                                                                *)
(***************************************************************************)
EXTENDS OrderNumbers, Floor, TLAPS

(***************************************************************************)
(* The numbers of the orders.                                              *)
(***************************************************************************)
LEMMA NumbersTypedInit == NumbersInit => NumbersTypeOK
<1> SUFFICES ASSUME NumbersInit
             PROVE  NumbersTypeOK
  OBVIOUS
<1>1. last \in Nat /\ number \in [Creators -> Nat] /\ taken \in [Creators -> Nat]
  BY DEF NumbersInit
<1>2. pc \in [Creators -> {"asked", "numbered", "made", "failed"}]
  BY DEF NumbersInit
<1>3. copy \in [Editors -> [loaded : BOOLEAN, last : Nat]]
  BY DEF NumbersInit, NoCopy
<1>4. lock \in Creators \union {Nobody} /\ restored \in BOOLEAN
  BY DEF NumbersInit
<1> QED
  BY <1>1, <1>2, <1>3, <1>4 DEF NumbersTypeOK

LEMMA NumbersTypedStep == NumbersTypeOK /\ [NumbersNext]_numbersVars => NumbersTypeOK'
<1> SUFFICES ASSUME NumbersTypeOK, [NumbersNext]_numbersVars
             PROVE  NumbersTypeOK'
  OBVIOUS
<1> USE DEF NumbersTypeOK
<1>1. ASSUME NEW c \in Creators, Take(c)
      PROVE  NumbersTypeOK'
  BY <1>1 DEF Take
<1>2. ASSUME NEW c \in Creators, Commit(c)
      PROVE  NumbersTypeOK'
  BY <1>2 DEF Commit
<1>3. ASSUME NEW c \in Creators, Abort(c)
      PROVE  NumbersTypeOK'
  BY <1>3 DEF Abort
<1>4. ASSUME NEW c \in Creators, Retry(c)
      PROVE  NumbersTypeOK'
  BY <1>4 DEF Retry
<1>5. ASSUME NEW e \in Editors, Load(e)
      PROVE  NumbersTypeOK'
  BY <1>5 DEF Load
<1>6. ASSUME NEW e \in Editors, Save(e)
      PROVE  NumbersTypeOK'
  <2>1. restored' \in BOOLEAN
    BY <1>6 DEF Save
  <2> QED
    BY <2>1, <1>6 DEF Save, NoCopy
<1>7. CASE UNCHANGED numbersVars
  BY <1>7 DEF numbersVars
<1> QED
  BY <1>1, <1>2, <1>3, <1>4, <1>5, <1>6, <1>7 DEF NumbersNext

\* Every value of the counter, the numbers and the copies is of its type.
THEOREM NumbersTyping == NumbersSpec => []NumbersTypeOK
  BY NumbersTypedInit, NumbersTypedStep, PTL DEF NumbersSpec

-----------------------------------------------------------------------------
\* Two orders never have the same number, whoever saves the restaurant's row:
\* the constraint on the table sees to it when the counter was set back.
THEOREM NumbersDiffer == NumbersSpec => []DistinctNumbers
<1>1. NumbersInit => DistinctNumbers
  BY DEF NumbersInit, DistinctNumbers
<1>2. NumbersTypeOK /\ DistinctNumbers /\ [NumbersNext]_numbersVars => DistinctNumbers'
  <2> SUFFICES ASSUME NumbersTypeOK, DistinctNumbers, [NumbersNext]_numbersVars
               PROVE  DistinctNumbers'
    OBVIOUS
  <2>1. ASSUME NEW c \in Creators, Commit(c)
        PROVE  DistinctNumbers'
    <3>1. /\ number' = [number EXCEPT ![c] = taken[c]]
          /\ \A d \in Creators : number[d] # taken[c]
      BY <2>1 DEF Commit, IsUsed
    <3> QED
      BY <3>1 DEF DistinctNumbers, NumbersTypeOK
  <2>2. CASE UNCHANGED number
    BY <2>2 DEF DistinctNumbers
  <2> QED
    BY <2>1, <2>2 DEF NumbersNext, numbersVars, Take, Abort, Retry, Load, Save
<1> QED
  BY <1>1, <1>2, NumbersTyping, PTL DEF NumbersSpec

-----------------------------------------------------------------------------
\* Until the counter is put back the numbers of the orders are those from 1 to the
\* counter; and who has got a number holds the lock, has no order yet, and has got
\* the number that follows the counter.
Counted ==
  /\ ~restored => {number[c] : c \in Creators} \ {0} = 1..last
  /\ \A c \in Creators : pc[c] = "numbered" => lock = c /\ taken[c] = last + 1
  /\ \A c \in Creators : pc[c] # "made" => number[c] = 0

LEMMA CountedInit == NumbersInit => Counted
<1> SUFFICES ASSUME NumbersInit
             PROVE  Counted
  OBVIOUS
<1>1. {number[c] : c \in Creators} \ {0} = 1..last
  BY DEF NumbersInit
<1> QED
  BY <1>1 DEF NumbersInit, Counted

LEMMA CountedStep == NumbersTypeOK /\ Counted /\ [NumbersNext]_numbersVars => Counted'
<1> SUFFICES ASSUME NumbersTypeOK, Counted, [NumbersNext]_numbersVars
             PROVE  Counted'
  OBVIOUS
<1>1. ASSUME NEW c \in Creators, Commit(c)
      PROVE  Counted'
  <2>1. /\ pc[c] = "numbered"
        /\ number' = [number EXCEPT ![c] = taken[c]]
        /\ last' = taken[c]
        /\ lock' = Nobody
        /\ pc' = [pc EXCEPT ![c] = "made"]
        /\ taken' = taken
        /\ restored' = restored
    BY <1>1 DEF Commit
  <2>2. taken[c] = last + 1 /\ number[c] = 0 /\ lock = c
    BY <2>1 DEF Counted
  <2>3. {number'[d] : d \in Creators} \ {0}
          = ({number[d] : d \in Creators} \ {0}) \union {last + 1}
    BY <2>1, <2>2 DEF NumbersTypeOK
  <2>4. 1..(last + 1) = (1..last) \union {last + 1}
    BY DEF NumbersTypeOK
  <2>5. ~restored' => {number'[d] : d \in Creators} \ {0} = 1..last'
    BY <2>1, <2>2, <2>3, <2>4 DEF Counted
  <2>6. \A d \in Creators : pc'[d] # "numbered"
    BY <2>1, <2>2 DEF Counted, NumbersTypeOK
  <2>7. \A d \in Creators : pc'[d] # "made" => number'[d] = 0
    BY <2>1 DEF Counted, NumbersTypeOK
  <2> QED
    BY <2>5, <2>6, <2>7 DEF Counted
<1>2. ASSUME NEW c \in Creators, Take(c)
      PROVE  Counted'
  BY <1>2, CreatorsAssumption DEF Take, Counted, NumbersTypeOK
<1>3. ASSUME NEW c \in Creators, Abort(c)
      PROVE  Counted'
  BY <1>3 DEF Abort, Counted, NumbersTypeOK
<1>4. ASSUME NEW c \in Creators, Retry(c)
      PROVE  Counted'
  BY <1>4 DEF Retry, Counted, NumbersTypeOK
<1>5. ASSUME NEW e \in Editors, Load(e)
      PROVE  Counted'
  BY <1>5 DEF Load, Counted
\* A save waits for the lock, so that nobody has got a number yet.
<1>6. ASSUME NEW e \in Editors, Save(e)
      PROVE  Counted'
  <2>1. \A c \in Creators : pc[c] # "numbered"
    BY <1>6, CreatorsAssumption DEF Save, Counted
  <2>2. ~restored' => ~restored /\ last' = last
    BY <1>6 DEF Save
  <2> QED
    BY <1>6, <2>1, <2>2 DEF Save, Counted
<1>7. CASE UNCHANGED numbersVars
  BY <1>7 DEF numbersVars, Counted
<1> QED
  BY <1>1, <1>2, <1>3, <1>4, <1>5, <1>6, <1>7 DEF NumbersNext

LEMMA Invariance == NumbersSpec => [](NumbersTypeOK /\ Counted)
<1>1. NumbersTypeOK /\ Counted /\ [NumbersNext]_numbersVars => (NumbersTypeOK /\ Counted)'
  BY NumbersTypedStep, CountedStep
<1>2. NumbersInit => NumbersTypeOK /\ Counted
  BY NumbersTypedInit, CountedInit
<1> QED
  BY <1>1, <1>2, PTL DEF NumbersSpec

\* Until the counter is put back a creation never gets the number of an order, and
\* the constraint on the table never fails it.
THEOREM Fresh == NumbersSpec => []FreshNumber
<1>1. NumbersTypeOK /\ Counted => FreshNumber
  <2> SUFFICES ASSUME NumbersTypeOK, Counted, ~restored,
                      NEW c \in Creators, pc[c] = "numbered",
                      NEW d \in Creators, number[d] = taken[c]
               PROVE  FALSE
    BY DEF FreshNumber, IsUsed
  <2>1. number[d] = last + 1
    BY DEF Counted
  <2>2. number[d] \in 1..last
    BY <2>1 DEF Counted, NumbersTypeOK
  <2> QED
    BY <2>1, <2>2 DEF NumbersTypeOK
<1> QED
  BY <1>1, Invariance, PTL

\* Orders are numbered as Numbering promises: never alike, and one after the other
\* until the counter is put back.
THEOREM Implements == NumbersSpec => IsNumbering
<1>1. NumbersInit => Promise!Init
  BY DEF NumbersInit, Promise!Init
<1>2. NumbersTypeOK /\ Counted /\ [NumbersNext]_numbersVars => [Promise!Next]_<<number, restored>>
  <2> SUFFICES ASSUME NumbersTypeOK, Counted, [NumbersNext]_numbersVars, <<number, restored>>' # <<number, restored>>
               PROVE  Promise!Next
    OBVIOUS
  <2>1. ASSUME NEW c \in Creators, Commit(c)
        PROVE  Promise!Next
    <3>1. /\ number[c] = 0
          /\ taken[c] = last + 1
          /\ number' = [number EXCEPT ![c] = taken[c]]
          /\ taken[c] \notin Promise!Numbers
          /\ restored' = restored
      BY <2>1 DEF Commit, Counted, IsUsed, Promise!Numbers
    <3>2. number'[c] = last + 1
      BY <3>1 DEF NumbersTypeOK
    <3>3. ~restored => Promise!Numbers \ {0} = 1..(number'[c] - 1)
      BY <3>2 DEF Counted, Promise!Numbers, NumbersTypeOK
    <3> QED
      BY <3>1, <3>2, <3>3 DEF Promise!Next, Promise!Give
  <2>2. ASSUME NEW e \in Editors, Save(e)
        PROVE  Promise!Next
    <3>1. number' = number /\ restored' # restored
      BY <2>2 DEF Save
    <3>2. restored' = TRUE
      BY <2>2, <3>1 DEF Save, NumbersTypeOK
    <3> QED
      BY <3>1, <3>2 DEF Promise!Next, Promise!Restore
  <2> QED
    BY <2>1, <2>2 DEF NumbersNext, numbersVars, Take, Abort, Retry, Load
<1> QED
  BY <1>1, <1>2, Invariance, PTL DEF NumbersSpec, IsNumbering, Promise!Spec

-----------------------------------------------------------------------------
(***************************************************************************)
(* The rows refer to one another: the foreign keys of the database.        *)
(***************************************************************************)
Rooted ==
  /\ \A s \in Sessions : Placed(s) => session[s].table \in Tables /\ Exists(session[s].table)
  /\ \A s \in Sessions : session[s].status = "none" => session[s].table = NoTable
  /\ \A o \in Orders : order[o].session # NoSession => Placed(order[o].session)
  /\ \A o \in Orders : order[o].status = "none" => order[o].session = NoSession

(***************************************************************************)
(* What a request that overlaps with none knows of the rows in its scope.  *)
(***************************************************************************)
Honest == ~edited /\ ~doubled

Knows(r) ==
  /\ r.pc = "createSession" => r.scope = {r.table} /\ ActiveAt(r.table) = {}
  /\ r.pc = "occupy" => r.scope = {r.table} /\ ActiveAt(r.table) # {}
  /\ r.pc = "reserve" => r.scope = {r.table} /\ (Honest => ActiveAt(r.table) = {})
  /\ r.pc = "moveSession" => /\ r.scope = {r.from, r.to} /\ ActiveAt(r.to) = {}
                             /\ Active(r.session) /\ session[r.session].table = r.from
  /\ r.pc = "leaveTable" => /\ r.scope = {r.from, r.to} /\ r.from # r.to /\ Exists(r.from)
                            /\ ActiveAt(r.from) = {} /\ ActiveAt(r.to) # {}
  /\ r.pc = "takeTable" => r.scope = {r.from, r.to} /\ ActiveAt(r.to) # {}
  /\ r.pc = "merge" => /\ Active(r.session) /\ Active(r.source) /\ r.session # r.source
                       /\ session[r.source].table = r.from
                       /\ r.scope = {session[r.session].table, r.from}
  /\ r.pc = "createOrder" => /\ Active(r.session) /\ Unpaid(r.session) = {}
                             /\ r.scope = {session[r.session].table}
  /\ r.pc \in {"closeOrder", "cancel"} =>
       /\ order[r.order].session = r.session /\ order[r.order].status # "none"
       /\ r.session # NoSession => order[r.order].status = "active"
       /\ r.scope = {TableOf(r.session)} \ {NoTable}
  /\ r.pc = "closeOrder" => r.table = TableOf(r.session)
  /\ r.pc = "closeSession" => /\ r.session # NoSession /\ Placed(r.session)
                              /\ session[r.session].table = r.table /\ r.scope = {r.table}
                              /\ Honest => Active(r.session) /\ Unpaid(r.session) = {}
  /\ r.pc = "freeTable" => r.scope = {r.table} /\ (Honest => ActiveAt(r.table) = {})
  /\ r.pc = "editSession" => /\ Placed(r.session) /\ session[r.session].table \in r.scope
                             /\ r.table \in r.scope /\ ActiveAt(r.table) \subseteq {r.session}
  /\ r.pc = "saveTables" =>
       /\ \A t \in Tables : r.layout[t] # "none" => t \in r.scope
       /\ Honest => \A t \in Tables : r.layout[t] \in {"none", "gone", "new", table[t]}

(* The tables whose status a request has still to write. *)
Due(r) == CASE r.pc \in {"occupy", "freeTable"} -> {r.table}
            [] r.pc = "leaveTable" -> {r.from, r.to}
            [] r.pc = "takeTable" -> {r.to}
            [] OTHER -> {}

Apart == \A v, w \in Workers : v # w => req[v].scope \intersect req[w].scope = {}

One(t) == \A x, y \in ActiveAt(t) : x = y

Shows(t) == table[t] = "occupied" <=> ActiveAt(t) # {}

(* An order to be paid is of guests that sit there, and no guests have two. *)
Seated == \A o \in Orders : order[o].status = "active" /\ order[o].session # NoSession => Active(order[o].session)

Single == \A s \in Sessions : \A o, p \in Unpaid(s) : o = p

Orderly ==
  /\ Apart
  /\ \A w \in Workers : Knows(req[w])
  /\ \A t \in Tables : One(t)
  /\ Honest => /\ \A t \in Tables : (\A w \in Workers : t \notin Due(req[w])) => Shows(t)
               /\ Seated
               /\ Single

Inv == TypeOK /\ Rooted /\ (~overlap => Orderly)
-----------------------------------------------------------------------------
(* The fields of a request, by its place. *)
LEMMA RequestFields ==
  ASSUME NEW r \in Request
  PROVE  /\ r.scope \subseteq Tables
         /\ r.pc \in {"createSession", "occupy", "reserve", "editSession"} => r.table \in Tables
         /\ r.pc \in {"moveSession", "leaveTable", "takeTable"} => r.session \in Sessions /\ r.from \in Tables /\ r.to \in Tables
         /\ r.pc = "merge" => r.session \in Sessions /\ r.source \in Sessions /\ r.from \in Tables
         /\ r.pc \in {"createOrder", "editSession"} => r.session \in Sessions
         /\ r.pc \in {"closeOrder", "closeSession", "freeTable", "cancel"} =>
              r.order \in Orders /\ r.session \in Sessions \union {NoSession}
         /\ r.pc \in {"closeOrder", "closeSession", "freeTable"} => r.table \in Tables \union {NoTable}
         /\ r.pc = "editSession" => r.status \in EditStatus
         /\ r.pc = "saveTables" => r.layout \in [Tables -> TableStatus \union {"new"}]
  BY DEF Request, Idle

(* The places a request goes on to. *)
LEMMA NextPlace ==
  ASSUME NEW r \in Request, NEW place,
         \/ r.pc = "createSession" /\ place = "occupy"
         \/ r.pc = "moveSession" /\ place = "leaveTable"
         \/ r.pc = "leaveTable" /\ place = "takeTable"
         \/ r.pc = "closeOrder" /\ place = "closeSession"
         \/ r.pc = "closeSession" /\ place = "freeTable"
  PROVE  [r EXCEPT !.pc = place] \in Request
<1>1. CASE r.pc = "createSession" /\ place = "occupy"
  <2>1. r \in [pc : {"createSession", "occupy", "reserve"}, table : Tables, scope : SUBSET Tables]
    BY <1>1 DEF Request, Idle
  <2>. QED
    BY <1>1, <2>1 DEF Request
<1>2. CASE r.pc \in {"moveSession", "leaveTable"} /\ place \in {"leaveTable", "takeTable"}
  <2>1. r \in [pc : {"moveSession", "leaveTable", "takeTable"}, session : Sessions,
               from : Tables, to : Tables, scope : SUBSET Tables]
    BY <1>2 DEF Request, Idle
  <2>. QED
    BY <1>2, <2>1 DEF Request
<1>3. CASE r.pc \in {"closeOrder", "closeSession"} /\ place \in {"closeSession", "freeTable"}
  <2>1. r \in [pc : {"closeOrder", "closeSession", "freeTable"}, order : Orders,
               session : Sessions \union {NoSession}, table : Tables \union {NoTable}, scope : SUBSET Tables]
    BY <1>3 DEF Request, Idle
  <2>. QED
    BY <1>3, <2>1 DEF Request
<1>. QED
  BY <1>1, <1>2, <1>3

LEMMA SessionFields ==
  ASSUME TypeOK
  PROVE  /\ \A s \in Sessions : /\ session[s].status \in SeatedStatus \union {"none", "closed", "merged", "deleted"}
                                /\ session[s].table \in Tables \union {NoTable}
         /\ \A o \in Orders : /\ order[o].status \in {"none", "active", "done"}
                              /\ order[o].session \in Sessions \union {NoSession}
  BY DEF TypeOK, Session, Order

-----------------------------------------------------------------------------
(* Types and references, whatever overlaps. *)
Sane == TypeOK /\ Rooted

LEMMA SaneInit == Init => Sane
<1> SUFFICES ASSUME Init
             PROVE  Sane
  OBVIOUS
<1>1. table \in [Tables -> TableStatus]
  BY DEF Init, TableStatus
<1>2. session \in [Sessions -> Session] /\ order \in [Orders -> Order]
  BY DEF Init, Session, Order
<1>3. req \in [Workers -> Request] /\ overlap \in BOOLEAN /\ edited \in BOOLEAN /\ doubled \in BOOLEAN
  BY DEF Init, Request
<1>4. Rooted
  BY DEF Init, Rooted, Placed
<1>. QED
  BY <1>1, <1>2, <1>3, <1>4 DEF Sane, TypeOK

(* A request is begun. *)
LEMMA SaneServe ==
  ASSUME Sane, NEW w \in Workers, NEW r \in Request, Serve(w, r), UNCHANGED rows,
         edited' \in BOOLEAN, doubled' \in BOOLEAN
  PROVE  Sane'
<1>1. req' \in [Workers -> Request]
  BY DEF Sane, TypeOK, Serve
<1>2. overlap' \in BOOLEAN
  BY DEF Sane, TypeOK, Serve
<1>3. table' = table /\ session' = session /\ order' = order
  BY DEF rows
<1>4. TypeOK'
  BY <1>1, <1>2, <1>3 DEF Sane, TypeOK
<1>5. Rooted'
  BY <1>3 DEF Sane, Rooted, Placed, Exists
<1>. QED
  BY <1>4, <1>5 DEF Sane

(* A request goes on or ends. *)
LEMMA SaneWrite ==
  ASSUME Sane, NEW w \in Workers,
         Finish(w) \/ \E place : Continue(w, place) /\ [req[w] EXCEPT !.pc = place] \in Request,
         table' \in [Tables -> TableStatus], session' \in [Sessions -> Session], order' \in [Orders -> Order]
  PROVE  TypeOK'
<1>1. CASE Finish(w)
  <2>1. Idle \in Request
    BY DEF Request
  <2>. QED
    BY <1>1, <2>1 DEF Sane, TypeOK, Finish
<1>2. ASSUME NEW place, Continue(w, place), [req[w] EXCEPT !.pc = place] \in Request
      PROVE  TypeOK'
  BY <1>2 DEF Sane, TypeOK, Continue
<1>. QED
  BY <1>1, <1>2

(* A step that writes only statuses of tables that exist, none of them "gone". *)
LEMMA SaneTables ==
  ASSUME Sane, NEW t \in Tables, Exists(t), NEW st \in {"available", "occupied", "reserved"},
         table' = [table EXCEPT ![t] = st], UNCHANGED <<session, order>>
  PROVE  table' \in [Tables -> TableStatus] /\ session' \in [Sessions -> Session]
         /\ order' \in [Orders -> Order] /\ Rooted'
<1>1. table' \in [Tables -> TableStatus]
  BY DEF Sane, TypeOK, TableStatus
<1>2. \A x \in Tables : Exists(x) => Exists(x)'
  BY DEF Sane, TypeOK, Exists
<1>3. Rooted'
  BY <1>2 DEF Sane, Rooted, Placed
<1>. QED
  BY <1>1, <1>3 DEF Sane, TypeOK

LEMMA SaneStep == Sane /\ [Next]_vars => Sane'
<1> SUFFICES ASSUME Sane, [Next]_vars
             PROVE  Sane'
  OBVIOUS
<1>0. TypeOK /\ Rooted
  BY DEF Sane
<1>a. \A s \in Sessions : Placed(s) => session[s].table \in Tables /\ Exists(session[s].table)
  BY <1>0 DEF Rooted
<1>b. \A s \in Sessions : Active(s) => Placed(s)
  BY DEF Active, Placed, SeatedStatus
<1>c. edited \in BOOLEAN /\ doubled \in BOOLEAN
  BY <1>0 DEF TypeOK
<1>d. \A o \in Orders : order[o].session # NoSession => order[o].session \in Sessions
  BY <1>0, SessionFields
<1>1. ASSUME NEW w \in Workers, NEW t \in Tables, ReadForOpen(w, t) \/ ReadForReserve(w, t)
      PROVE  Sane'
  <2>1. PICK r \in Request : Serve(w, r)
    <3>1. /\ [pc |-> "createSession", table |-> t, scope |-> {t}] \in Request
          /\ [pc |-> "reserve", table |-> t, scope |-> {t}] \in Request
      BY DEF Request
    <3>. QED
      BY <1>1, <3>1 DEF ReadForOpen, ReadForReserve
  <2>. QED
    BY <1>1, <1>c, <2>1, SaneServe DEF ReadForOpen, ReadForReserve
<1>2. ASSUME NEW w \in Workers, NEW s \in Sessions, NEW t \in Tables, ReadForMove(w, s, t)
      PROVE  Sane'
  <2>1. session[s].table \in Tables
    BY <1>2, <1>a, <1>b DEF ReadForMove
  <2>2. [pc |-> "moveSession", session |-> s, from |-> session[s].table, to |-> t,
         scope |-> {session[s].table, t}] \in Request
    BY <2>1 DEF Request
  <2>. QED
    BY <1>2, <1>c, <2>2, SaneServe DEF ReadForMove
<1>3. ASSUME NEW w \in Workers, NEW target \in Sessions, NEW source \in Sessions, ReadForMerge(w, target, source)
      PROVE  Sane'
  <2>1. session[target].table \in Tables /\ session[source].table \in Tables
    BY <1>3, <1>a, <1>b DEF ReadForMerge
  <2>2. [pc |-> "merge", session |-> target, source |-> source, from |-> session[source].table,
         scope |-> {session[target].table, session[source].table}] \in Request
    BY <2>1 DEF Request
  <2>. QED
    BY <1>3, <1>c, <2>2, SaneServe DEF ReadForMerge
<1>4. ASSUME NEW w \in Workers, NEW s \in Sessions, ReadForOrder(w, s)
      PROVE  Sane'
  <2>1. session[s].table \in Tables
    BY <1>4, <1>a, <1>b DEF ReadForOrder, AcceptsNewOrder
  <2>2. [pc |-> "createOrder", session |-> s, scope |-> {session[s].table}] \in Request
    BY <2>1 DEF Request
  <2>. QED
    BY <1>4, <1>c, <2>2, SaneServe DEF ReadForOrder
<1>5. ASSUME NEW w \in Workers, NEW o \in Orders, ReadForCancel(w, o) \/ ReadForPayment(w, o)
      PROVE  Sane'
  <2>1. order[o].session \in Sessions \union {NoSession}
    BY <1>0, SessionFields
  <2>2. TableOf(order[o].session) \in Tables \union {NoTable}
    BY <1>0, SessionFields DEF TableOf
  <2>3. {TableOf(order[o].session)} \ {NoTable} \in SUBSET Tables
    BY <2>2
  <2>4. [pc |-> "cancel", order |-> o, session |-> order[o].session,
         scope |-> {TableOf(order[o].session)} \ {NoTable}] \in Request
    BY <2>1, <2>3 DEF Request
  <2>5. [pc |-> "closeOrder", order |-> o, session |-> order[o].session, table |-> TableOf(order[o].session),
         scope |-> {TableOf(order[o].session)} \ {NoTable}] \in Request
    BY <2>1, <2>2, <2>3 DEF Request
  <2>. QED
    BY <1>5, <1>c, <2>4, <2>5, SaneServe DEF ReadForCancel, ReadForPayment
<1>6. ASSUME NEW w \in Workers, NEW s \in Sessions, NEW st \in EditStatus, NEW t \in Tables, ReadForEdit(w, s, st, t)
      PROVE  Sane'
  <2>1. session[s].table \in Tables
    BY <1>6, <1>a DEF ReadForEdit
  <2>2. [pc |-> "editSession", session |-> s, status |-> st, table |-> t,
         scope |-> {session[s].table, t}] \in Request
    BY <2>1 DEF Request
  <2>. QED
    BY <1>6, <1>c, <2>2, SaneServe DEF ReadForEdit
<1>7. ASSUME NEW w \in Workers, NEW t \in Tables, NEW st \in FormStatus, ReadForm(w, t, st)
      PROVE  Sane'
  <2>1. [x \in Tables |-> IF x = t THEN st ELSE "none"] \in [Tables -> TableStatus \union {"new"}]
    BY ConstantsAssumption DEF TableStatus
  <2>2. [pc |-> "saveTables", scope |-> {t},
         layout |-> [x \in Tables |-> IF x = t THEN st ELSE "none"]] \in Request
    BY <2>1 DEF Request
  <2>3. edited' \in BOOLEAN
    BY <1>7, <1>c DEF ReadForm
  <2>. QED
    BY <1>7, <1>c, <2>2, <2>3, SaneServe DEF ReadForm, rows
<1>8. ASSUME NEW w \in Workers, NEW deleted \in SUBSET Tables, NEW added \in SUBSET Tables, ReadLayout(w, deleted, added)
      PROVE  Sane'
  <2> DEFINE layout == [t \in Tables |-> IF t \in deleted THEN "gone"
                                         ELSE IF t \in added THEN "new"
                                         ELSE IF Exists(t) THEN table[t] ELSE "none"]
  <2>1. layout \in [Tables -> TableStatus \union {"new"}]
    BY <1>0 DEF TypeOK, TableStatus
  <2>2. [pc |-> "saveTables", scope |-> Tables, layout |-> layout] \in Request
    BY <2>1 DEF Request
  <2>. QED
    BY <1>8, <1>c, <2>2, SaneServe DEF ReadLayout
<1>9. ASSUME NEW w \in Workers, NEW s \in Sessions, CreateSession(w, s)
      PROVE  Sane'
  <2>1. req[w] \in Request /\ req[w].pc = "createSession" /\ req[w].table \in Tables
    BY <1>0, <1>9, RequestFields DEF CreateSession, TypeOK
  <2>2. session' \in [Sessions -> Session]
    BY <1>0, <1>9, <2>1 DEF CreateSession, TypeOK, Session, SeatedStatus
  <2>3. [req[w] EXCEPT !.pc = "occupy"] \in Request
    BY <2>1, NextPlace
  <2>4. TypeOK'
    BY <1>0, <1>9, <2>2, <2>3, SaneWrite DEF CreateSession, TypeOK
  <2>5. Rooted'
    BY <1>0, <1>9, <2>1 DEF CreateSession, TypeOK, Rooted, Placed, Exists
  <2>. QED
    BY <2>4, <2>5 DEF Sane
<1>10. ASSUME NEW w \in Workers, NEW t \in Tables, Exists(t), NEW st \in {"available", "occupied", "reserved"},
              table' = [table EXCEPT ![t] = st], UNCHANGED <<session, order>>,
              Finish(w) \/ (req[w].pc = "leaveTable" /\ Continue(w, "takeTable"))
                        \/ (req[w].pc = "closeSession" /\ Continue(w, "freeTable"))
       PROVE  Sane'
  <2>1. req[w] \in Request
    BY <1>0 DEF TypeOK
  <2>2. Finish(w) \/ \E place : Continue(w, place) /\ [req[w] EXCEPT !.pc = place] \in Request
    BY <1>10, <2>1, NextPlace
  <2>. QED
    BY <1>10, <2>2, SaneTables, SaneWrite DEF Sane
<1>11. ASSUME NEW w \in Workers, OccupyTable(w) \/ Reserve(w) \/ TakeTable(w) \/ LeaveTable(w)
       PROVE  Sane'
  <2>1. req[w] \in Request
    BY <1>0 DEF TypeOK
  <2>2. CASE OccupyTable(w)
    BY <1>10, <2>1, <2>2, RequestFields DEF OccupyTable
  <2>3. CASE Reserve(w)
    BY <1>10, <2>1, <2>3, RequestFields DEF Reserve
  <2>4. CASE TakeTable(w)
    BY <1>10, <2>1, <2>4, RequestFields DEF TakeTable
  <2>5. CASE LeaveTable(w)
    BY <1>10, <2>1, <2>5, RequestFields DEF LeaveTable
  <2>. QED
    BY <1>11, <2>2, <2>3, <2>4, <2>5
<1>12. ASSUME NEW w \in Workers, MoveSession(w)
       PROVE  Sane'
  <2>1. req[w] \in Request /\ req[w].pc = "moveSession" /\ req[w].to \in Tables /\ req[w].session \in Sessions
    BY <1>0, <1>12, RequestFields DEF MoveSession, TypeOK
  <2>2. /\ session' \in [Sessions -> Session]
        /\ \A s \in Sessions : session'[s].status = session[s].status
        /\ \A s \in Sessions : s # req[w].session => session'[s].table = session[s].table
        /\ session'[req[w].session].table = req[w].to
    BY <1>0, <1>12, <2>1 DEF MoveSession, TypeOK, Session
  <2>3. [req[w] EXCEPT !.pc = "leaveTable"] \in Request
    BY <2>1, NextPlace
  <2>4. TypeOK'
    BY <1>0, <1>12, <2>2, <2>3, SaneWrite DEF MoveSession, TypeOK
  <2>5. table' = table /\ order' = order /\ Exists(req[w].to) /\ Placed(req[w].session)
    BY <1>12 DEF MoveSession
  <2>6. Rooted'
    <3>1. \A s \in Sessions : Placed(s)' <=> Placed(s)
      BY <2>2 DEF Placed
    <3>2. \A s \in Sessions : Placed(s) => session'[s].table \in Tables /\ Exists(session[s].table)'
      <4>1. SUFFICES ASSUME NEW s \in Sessions, Placed(s)
                     PROVE  session'[s].table \in Tables /\ Exists(session[s].table)'
        OBVIOUS
      <4>2. CASE s = req[w].session
        BY <2>1, <2>2, <2>5, <4>2 DEF Exists
      <4>3. CASE s # req[w].session
        BY <1>a, <2>2, <2>5, <4>1, <4>3 DEF Exists
      <4>. QED
        BY <4>2, <4>3
    <3>3. \A s \in Sessions : session'[s].status = "none" => session'[s].table = NoTable
      BY <1>0, <2>2, <2>5 DEF Rooted, Placed
    <3>. QED
      BY <1>0, <1>d, <2>5, <3>1, <3>2, <3>3 DEF Rooted
  <2>. QED
    BY <2>4, <2>6 DEF Sane
<1>13. ASSUME NEW w \in Workers, CommitMerge(w)
       PROVE  Sane'
  <2>1. PICK r \in Request : r = req[w]
    BY <1>0 DEF TypeOK
  <2>2. /\ r.pc = "merge" /\ r.session \in Sessions /\ r.source \in Sessions /\ r.from \in Tables
        /\ Placed(r.session) /\ Placed(r.source) /\ Exists(r.from)
    BY <1>13, <2>1, RequestFields DEF CommitMerge
  <2>3. /\ order' \in [Orders -> Order]
        /\ \A o \in Orders : order'[o].status = order[o].status
        /\ \A o \in Orders : order'[o].session = IF order[o].session = r.source THEN r.session ELSE order[o].session
    BY <1>0, <1>13, <2>1, <2>2 DEF CommitMerge, TypeOK, Order
  <2>4. /\ session' \in [Sessions -> Session]
        /\ \A s \in Sessions : session'[s].table = session[s].table
        /\ \A s \in Sessions : session'[s].status = IF s = r.source THEN "merged" ELSE session[s].status
    BY <1>0, <1>13, <2>1, <2>2 DEF CommitMerge, TypeOK, Session
  <2>5. table' = [table EXCEPT ![r.from] = "available"]
    BY <1>13, <2>1 DEF CommitMerge
  <2>6. table' \in [Tables -> TableStatus] /\ (\A x \in Tables : Exists(x) => Exists(x)')
    BY <1>0, <2>2, <2>5 DEF TypeOK, Exists, TableStatus
  <2>7. /\ req' \in [Workers -> Request] /\ overlap' = overlap /\ edited' = edited
        /\ doubled' \in BOOLEAN
    BY <1>0, <1>13, <1>c DEF CommitMerge, TypeOK, Request
  <2>8. TypeOK'
    BY <1>0, <2>3, <2>4, <2>6, <2>7 DEF TypeOK
  <2>9. Rooted'
    <3>1. \A s \in Sessions : Placed(s)' <=> Placed(s)
      BY <2>2, <2>4 DEF Placed
    <3>2. \A s \in Sessions : Placed(s) => session'[s].table \in Tables /\ Exists(session[s].table)'
      BY <1>a, <2>4, <2>6 DEF Exists
    <3>3. \A s \in Sessions : session'[s].status = "none" => session'[s].table = NoTable
      BY <1>0, <2>4 DEF Rooted
    <3>4. \A o \in Orders : order'[o].session # NoSession => order'[o].session \in Sessions /\ Placed(order'[o].session)
      BY <1>0, <1>d, <2>2, <2>3 DEF Rooted
    <3>5. \A o \in Orders : order'[o].status = "none" => order'[o].session = NoSession
      BY <1>0, <2>2, <2>3, ConstantsAssumption DEF Rooted
    <3>. QED
      BY <3>1, <3>2, <3>3, <3>4, <3>5 DEF Rooted
  <2>. QED
    BY <2>8, <2>9 DEF Sane
<1>14. ASSUME NEW w \in Workers, NEW o \in Orders, CreateOrder(w, o)
       PROVE  Sane'
  <2>1. req[w] \in Request /\ req[w].pc = "createOrder" /\ req[w].session \in Sessions
    BY <1>0, <1>14, RequestFields DEF CreateOrder, TypeOK
  <2>2. order' \in [Orders -> Order]
    BY <1>0, <1>14, <2>1 DEF CreateOrder, TypeOK, Order
  <2>3. TypeOK'
    BY <1>0, <1>14, <2>2, SaneWrite DEF CreateOrder, TypeOK
  <2>4. Rooted'
    BY <1>0, <1>14, <2>1 DEF CreateOrder, TypeOK, Rooted, Placed, Exists
  <2>. QED
    BY <2>3, <2>4 DEF Sane
<1>15. ASSUME NEW w \in Workers, Cancel(w)
       PROVE  Sane'
  <2>1. req[w] \in Request /\ req[w].pc = "cancel" /\ req[w].order \in Orders /\ req[w].session \in Sessions \union {NoSession}
    BY <1>0, <1>15, RequestFields DEF Cancel, TypeOK
  <2>2. order' \in [Orders -> Order]
    BY <1>0, <1>15, <2>1 DEF Cancel, TypeOK, Order
  <2>3. TypeOK'
    BY <1>0, <1>15, <2>2, SaneWrite DEF Cancel, TypeOK
  <2>4. Rooted'
    BY <1>0, <1>15, <2>1 DEF Cancel, TypeOK, Rooted, Placed, Exists
  <2>. QED
    BY <2>3, <2>4 DEF Sane
<1>16. ASSUME NEW w \in Workers, UNCHANGED rows, Finish(w)
       PROVE  Sane'
  <2>1. table' = table /\ session' = session /\ order' = order
    BY <1>16 DEF rows
  <2>2. TypeOK'
    BY <1>0, <1>16, <2>1, SaneWrite DEF TypeOK
  <2>. QED
    BY <1>0, <2>1, <2>2 DEF Sane, Rooted, Placed, Exists
<1>17. ASSUME NEW w \in Workers, CloseOrder(w)
       PROVE  Sane'
  <2>1. req[w] \in Request /\ req[w].pc = "closeOrder" /\ req[w].order \in Orders
    BY <1>0, <1>17, RequestFields DEF CloseOrder, TypeOK
  <2>2. /\ order' \in [Orders -> Order]
        /\ \A o \in Orders : order'[o].session = order[o].session
        /\ \A o \in Orders : order'[o].status \in {"done", order[o].status}
    BY <1>0, <1>17, <2>1 DEF CloseOrder, TypeOK, Order
  <2>3. Finish(w) \/ \E place : Continue(w, place) /\ [req[w] EXCEPT !.pc = place] \in Request
    BY <1>17, <2>1, NextPlace DEF CloseOrder
  <2>4. TypeOK'
    BY <1>0, <1>17, <2>2, <2>3, SaneWrite DEF CloseOrder, TypeOK
  <2>5. Rooted'
    BY <1>0, <1>17, <2>2 DEF CloseOrder, Rooted, Placed, Exists
  <2>. QED
    BY <2>4, <2>5 DEF Sane
<1>18. ASSUME NEW w \in Workers, CloseSession(w)
       PROVE  Sane'
  <2>1. req[w] \in Request /\ req[w].pc = "closeSession" /\ req[w].session \in Sessions \union {NoSession}
    BY <1>0, <1>18, RequestFields DEF CloseSession, TypeOK
  <2>2. /\ session' \in [Sessions -> Session]
        /\ \A s \in Sessions : session'[s].table = session[s].table
        /\ \A s \in Sessions : session'[s].status = session[s].status
                               \/ (s = req[w].session /\ session'[s].status = "closed")
    BY <1>0, <1>18, <2>1 DEF CloseSession, TypeOK, Session
  <2>3. [req[w] EXCEPT !.pc = "freeTable"] \in Request
    BY <2>1, NextPlace
  <2>4. TypeOK'
    BY <1>0, <1>18, <2>2, <2>3, SaneWrite DEF CloseSession, TypeOK
  <2>5. \A s \in Sessions : Placed(s)' <=> Placed(s)
    BY <1>18, <2>2 DEF CloseSession, Placed
  <2>6. Rooted'
    BY <1>0, <1>18, <2>1, <2>2, <2>5, SessionFields, ConstantsAssumption DEF CloseSession, Rooted, Exists, Placed
  <2>. QED
    BY <2>4, <2>6 DEF Sane
<1>19. ASSUME NEW w \in Workers, FreeTable(w)
       PROVE  Sane'
  <2>1. req[w] \in Request /\ req[w].pc = "freeTable" /\ req[w].table \in Tables \union {NoTable}
    BY <1>0, <1>19, RequestFields DEF FreeTable, TypeOK
  <2>2. CASE req[w].table \in Tables
    BY <1>10, <1>19, <2>2 DEF FreeTable
  <2>3. CASE req[w].table = NoTable
    <3>1. table' = table
      BY <1>0, <1>19, <2>3, ConstantsAssumption DEF FreeTable, TypeOK
    <3>. QED
      BY <1>16, <1>19, <3>1 DEF FreeTable, rows
  <2>. QED
    BY <2>1, <2>2, <2>3
<1>20. ASSUME NEW w \in Workers, SaveEdit(w)
       PROVE  Sane'
  <2>1. PICK r \in Request : r = req[w]
    BY <1>0 DEF TypeOK
  <2>2. r.pc = "editSession" /\ r.session \in Sessions /\ r.table \in Tables /\ r.status \in EditStatus /\ Exists(r.table)
    BY <1>20, <2>1, RequestFields DEF SaveEdit
  <2>3. session' = [session EXCEPT ![r.session] = [status |-> r.status, table |-> r.table]]
    BY <1>20, <2>1 DEF SaveEdit
  <2>4. r.status \in SeatedStatus \union {"closed", "merged"}
    BY <2>2, ConstantsAssumption
  <2>5. session' \in [Sessions -> Session]
    BY <1>0, <2>2, <2>3, <2>4 DEF TypeOK, Session
  <2>6. /\ req' \in [Workers -> Request] /\ overlap' = overlap /\ edited' = TRUE /\ doubled' = doubled
        /\ table' = table /\ order' = order
    BY <1>0, <1>20 DEF SaveEdit, TypeOK, Request
  <2>7. TypeOK'
    BY <1>0, <2>5, <2>6 DEF TypeOK
  <2>8. Rooted'
    <3>1. \A s \in Sessions : IF s = r.session THEN session'[s].table = r.table /\ session'[s].status = r.status
                                               ELSE session'[s] = session[s]
      BY <1>0, <2>2, <2>3 DEF TypeOK
    <3>2. r.status \notin {"none", "deleted"}
      BY <2>4 DEF SeatedStatus
    <3>3. \A o \in Orders : order[o].session \in Sessions \union {NoSession}
      BY <1>0, SessionFields
    <3>. QED
      BY <1>0, <2>2, <2>6, <3>1, <3>2, <3>3 DEF Rooted, Placed, Exists
  <2>. QED
    BY <2>7, <2>8 DEF Sane
<1>21. ASSUME NEW w \in Workers, SaveTables(w)
       PROVE  Sane'
  <2>1. PICK r \in Request : r = req[w]
    BY <1>0 DEF TypeOK
  <2>2. r.pc = "saveTables" /\ r.layout \in [Tables -> TableStatus \union {"new"}]
    BY <1>21, <2>1, RequestFields DEF SaveTables
  <2>3. PICK lost : lost = {s \in Sessions : Placed(s) /\ r.layout[session[s].table] = "gone"}
    OBVIOUS
  <2>4. /\ table' = [t \in Tables |-> CASE r.layout[t] = "none" -> table[t]
                                        [] r.layout[t] = "new"  -> "available"
                                        [] OTHER                -> r.layout[t]]
        /\ session' = [s \in Sessions |-> IF s \in lost THEN [session[s] EXCEPT !.status = "deleted"]
                                          ELSE session[s]]
        /\ order' = [o \in Orders |-> IF order[o].session \in lost
                                      THEN [order[o] EXCEPT !.session = NoSession] ELSE order[o]]
        /\ Finish(w)
    BY <1>21, <2>1, <2>3 DEF SaveTables
  <2>5. \A t \in Tables : /\ r.layout[t] = "none" => table'[t] = table[t]
                          /\ r.layout[t] = "new" => table'[t] = "available"
                          /\ r.layout[t] \notin {"none", "new"} => table'[t] = r.layout[t]
    BY <2>4
  <2>6. table' \in [Tables -> TableStatus]
    <3>1. \A t \in Tables : table'[t] \in TableStatus
      BY <1>0, <2>2, <2>5 DEF TypeOK, TableStatus
    <3>. QED
      BY <2>4, <3>1
  <2>7. session' \in [Sessions -> Session] /\ order' \in [Orders -> Order]
    BY <1>0, <2>4 DEF TypeOK, Session, Order
  <2>8. TypeOK'
    BY <2>4, <2>6, <2>7, SaneWrite
  <2>9. \A s \in Sessions : /\ session'[s].table = session[s].table
                            /\ session'[s].status = IF s \in lost THEN "deleted" ELSE session[s].status
    BY <1>0, <2>4 DEF TypeOK, Session
  <2>10. \A o \in Orders : /\ order'[o].status = order[o].status
                           /\ order'[o].session = IF order[o].session \in lost THEN NoSession ELSE order[o].session
    BY <1>0, <2>4 DEF TypeOK, Order
  <2>11. \A s \in Sessions : Placed(s)' <=> Placed(s) /\ s \notin lost
    BY <2>9 DEF Placed
  <2>12. \A s \in Sessions : Placed(s) /\ s \notin lost => session[s].table \in Tables /\ Exists(session[s].table)'
    <3>1. SUFFICES ASSUME NEW s \in Sessions, Placed(s), s \notin lost
                   PROVE  session[s].table \in Tables /\ Exists(session[s].table)'
      OBVIOUS
    <3>2. PICK t \in Tables : t = session[s].table /\ Exists(t)
      BY <1>a, <3>1
    <3>3. r.layout[t] # "gone"
      BY <2>3, <3>1, <3>2
    <3>4. table'[t] \notin {"none", "gone"}
      BY <2>2, <2>5, <3>2, <3>3 DEF Exists
    <3>5. Exists(t)'
      BY <3>4 DEF Exists
    <3>. QED
      BY <2>9, <3>2, <3>4 DEF Exists
  <2>13. \A o \in Orders : order[o].session \in Sessions \union {NoSession}
    BY <1>0, SessionFields
  <2>14. \A s \in Sessions : s \in lost => session[s].status # "none"
    BY <2>3 DEF Placed
  <2>. QED
    BY <1>0, <2>8, <2>9, <2>10, <2>11, <2>12, <2>13, <2>14 DEF Sane, Rooted
<1>22. CASE UNCHANGED vars
  <2>1. table' = table /\ session' = session /\ order' = order /\ req' = req /\ overlap' = overlap
        /\ edited' = edited /\ doubled' = doubled
    BY <1>22 DEF vars
  <2>. QED
    BY <1>0, <2>1 DEF Sane, TypeOK, Rooted, Placed, Exists
<1>23. ASSUME NEW w \in Workers, SessionStep(w)
       PROVE  Sane'
  BY <1>23, <1>1, <1>2, <1>3, <1>9, <1>11, <1>12, <1>13 DEF SessionStep
<1>24. ASSUME NEW w \in Workers, OrderStep(w)
       PROVE  Sane'
  BY <1>24, <1>4, <1>5, <1>14, <1>15, <1>16, <1>17, <1>18, <1>19 DEF OrderStep, PaymentFails
<1>25. ASSUME NEW w \in Workers, EditStep(w)
       PROVE  Sane'
  BY <1>25, <1>6, <1>7, <1>8, <1>20, <1>21 DEF EditStep
<1>26. ASSUME NEW w \in Workers, Fail(w)
       PROVE  Sane'
  BY <1>26, <1>16 DEF Fail
<1>. QED
  BY <1>22, <1>23, <1>24, <1>25, <1>26 DEF Next

(* The tables, sessions, orders and requests of the floor stay well typed,   *)
(* for any number of them and any overlap (sales.DiningTable, TableSession). *)
THEOREM FloorTyping == Spec => []TypeOK
<1>1. Sane => TypeOK
  BY DEF Sane
<1>. QED
  BY <1>1, SaneInit, SaneStep, PTL DEF Spec

-----------------------------------------------------------------------------
(***************************************************************************)
(* What a step may touch: the tables of S, the sessions placed at them and *)
(* the orders of these sessions, and rows that nobody refers to yet.       *)
(***************************************************************************)
Within(S) ==
  /\ \A t \in Tables \ S : table'[t] = table[t]
  /\ \A s \in Sessions : session'[s] # session[s] =>
       /\ session[s].table \in S \/ session[s].status = "none"
       /\ session'[s].table \in S
  /\ \A o \in Orders : order'[o] # order[o] =>
       /\ TableOf(order[o].session) \in S \union {NoTable}
       /\ TableOf(order[o].session)' \in S \union {NoTable}
       /\ order[o].status # "none" /\ order[o].session = NoSession =>
            order'[o].status # "none" /\ order'[o].session = NoSession

(* Nothing changes at the other tables. *)
LEMMA Elsewhere ==
  ASSUME TypeOK, Rooted, NEW S \in SUBSET Tables, Within(S)
  PROVE  /\ \A t \in Tables \ S : ActiveAt(t)' = ActiveAt(t)
         /\ \A s \in Sessions : session[s].table \in Tables \ S =>
              session'[s] = session[s] /\ Unpaid(s)' = Unpaid(s)
<1>1. \A s \in Sessions : session[s].table \in Tables \ S => session'[s] = session[s]
  BY ConstantsAssumption DEF Within, Rooted
<1>2. \A s \in Sessions : session'[s].table \in Tables \ S => session'[s] = session[s]
  BY DEF Within
<1>3. \A t \in Tables \ S : ActiveAt(t)' = ActiveAt(t)
  BY <1>1, <1>2 DEF ActiveAt, Active
<1>4. ASSUME NEW s \in Sessions, session[s].table \in Tables \ S
      PROVE  Unpaid(s)' = Unpaid(s)
  <2>1. session'[s] = session[s] /\ session[s].table \notin S \union {NoTable}
    BY <1>1, <1>4, ConstantsAssumption
  <2>2. ASSUME NEW o \in Orders, order[o].session = s \/ order'[o].session = s
        PROVE  order'[o] = order[o]
    BY <2>1, <2>2 DEF Within, TableOf
  <2>. QED
    BY <2>2 DEF Unpaid
<1>. QED
  BY <1>1, <1>3, <1>4

(* What another request knows is not disturbed. *)
LEMMA Kept ==
  ASSUME TypeOK, Rooted, NEW S \in SUBSET Tables, Within(S), Honest' => Honest,
         NEW k \in Request, k.scope \intersect S = {}, Knows(k)
  PROVE  Knows(k)'
<1>1. k.scope \subseteq Tables \ S
  BY RequestFields
<1>2. \A t \in k.scope : ActiveAt(t)' = ActiveAt(t) /\ table'[t] = table[t]
  BY <1>1, Elsewhere DEF Within
<1>3. \A s \in Sessions : session[s].table \in k.scope =>
        /\ session'[s] = session[s] /\ Unpaid(s)' = Unpaid(s)
        /\ Active(s)' <=> Active(s)
        /\ Placed(s)' <=> Placed(s)
  BY <1>1, Elsewhere DEF Active, Placed
<1>4. CASE k.pc \in {"createSession", "occupy", "reserve"}
  BY <1>2, <1>4 DEF Knows
<1>5. CASE k.pc = "moveSession"
  <2>1. k.session \in Sessions /\ k.to \in k.scope /\ session[k.session].table \in k.scope
    BY <1>5, RequestFields DEF Knows
  <2>. QED
    BY <1>2, <1>3, <1>5, <2>1 DEF Knows
<1>6. CASE k.pc \in {"leaveTable", "takeTable"}
  <2>1. k.from \in k.scope /\ k.to \in k.scope
    BY <1>6 DEF Knows
  <2>. QED
    BY <1>2, <1>6, <2>1 DEF Knows, Exists
<1>7. CASE k.pc = "merge"
  <2>1. k.session \in Sessions /\ k.source \in Sessions
    BY <1>7, RequestFields
  <2>2. session[k.session].table \in k.scope /\ session[k.source].table \in k.scope
    BY <1>7 DEF Knows
  <2>. QED
    BY <1>3, <1>7, <2>1, <2>2 DEF Knows
<1>8. CASE k.pc = "createOrder"
  <2>1. k.session \in Sessions /\ session[k.session].table \in k.scope
    BY <1>8, RequestFields DEF Knows
  <2>. QED
    BY <1>3, <1>8, <2>1 DEF Knows
<1>9. CASE k.pc \in {"closeOrder", "cancel"}
  <2>1. k.order \in Orders /\ k.session \in Sessions \union {NoSession}
    BY <1>9, RequestFields
  <2>2. /\ order[k.order].session = k.session /\ order[k.order].status # "none"
        /\ k.session # NoSession => order[k.order].status = "active"
        /\ k.scope = {TableOf(k.session)} \ {NoTable}
        /\ k.pc = "closeOrder" => k.table = TableOf(k.session)
    BY <1>9 DEF Knows
  <2>3. CASE k.session = NoSession
    <3>1. order'[k.order].session = NoSession /\ order'[k.order].status # "none"
      BY <2>1, <2>2, <2>3 DEF Within
    <3>2. TableOf(k.session)' = TableOf(k.session)
      BY <2>3, ConstantsAssumption DEF TableOf
    <3>. QED
      BY <1>9, <2>2, <2>3, <3>1, <3>2 DEF Knows
  <2>4. CASE k.session \in Sessions
    <3>1. TableOf(k.session) = session[k.session].table /\ session[k.session].table \in Tables
      BY <2>1, <2>2, <2>4, ConstantsAssumption DEF Rooted, TableOf
    <3>2. TableOf(k.session) \in k.scope
      BY <2>2, <3>1, ConstantsAssumption
    <3>3. order'[k.order] = order[k.order]
      BY <1>1, <2>1, <2>2, <3>1, <3>2, ConstantsAssumption DEF Within
    <3>4. TableOf(k.session)' = TableOf(k.session)
      BY <1>3, <2>4, <3>1, <3>2 DEF TableOf
    <3>. QED
      BY <1>9, <2>2, <3>3, <3>4 DEF Knows
  <2>. QED
    BY <2>1, <2>3, <2>4
<1>10. CASE k.pc = "closeSession"
  <2>1. k.session \in Sessions /\ session[k.session].table \in k.scope
    BY <1>10, RequestFields DEF Knows
  <2>. QED
    BY <1>3, <1>10, <2>1 DEF Knows
<1>11. CASE k.pc = "freeTable"
  BY <1>2, <1>11 DEF Knows
<1>12. CASE k.pc = "editSession"
  <2>1. k.session \in Sessions /\ session[k.session].table \in k.scope /\ k.table \in k.scope
    BY <1>12, RequestFields DEF Knows
  <2>. QED
    BY <1>2, <1>3, <1>12, <2>1 DEF Knows
<1>13. CASE k.pc = "saveTables"
  BY <1>2, <1>13 DEF Knows
<1>14. CASE k.pc = "idle"
  BY <1>14 DEF Knows
<1>. QED
  BY <1>4, <1>5, <1>6, <1>7, <1>8, <1>9, <1>10, <1>11, <1>12, <1>13, <1>14 DEF Request, Idle

(* A request owes statuses to tables of its scope only. *)
LEMMA DueInScope ==
  ASSUME NEW r, Knows(r)
  PROVE  Due(r) \subseteq r.scope
  BY DEF Due, Knows

(* What a request has in its scope, no other owes anything to. *)
LEMMA Showing ==
  ASSUME TypeOK, Orderly, Honest, NEW w \in Workers, NEW t \in Tables, t \in req[w].scope \ Due(req[w])
  PROVE  Shows(t)
<1>1. ASSUME NEW v \in Workers
      PROVE  t \notin Due(req[v])
  <2>1. CASE v = w
    BY <2>1
  <2>2. CASE v # w
    <3>1. Due(req[v]) \subseteq req[v].scope
      BY DueInScope DEF Orderly
    <3>2. req[v].scope \intersect req[w].scope = {}
      BY <2>2 DEF Orderly, Apart
    <3>. QED
      BY <3>1, <3>2
  <2>. QED
    BY <2>1, <2>2
<1>. QED
  BY <1>1 DEF Orderly

(* A step of a request within its scope. *)
LEMMA Stepped ==
  ASSUME TypeOK, Rooted, Orderly, NEW w \in Workers, NEW k \in Request, k = req[w],
         NEW r, req' = [req EXCEPT ![w] = r], r.scope \subseteq k.scope,
         Within(k.scope), Honest' => Honest, Knows(r)',
         \A t \in k.scope : One(t)',
         Honest' => /\ \A t \in k.scope \ Due(r) : Shows(t)'
                    /\ Seated'
                    /\ Single'
  PROVE  Orderly'
<1>1. k.scope \in SUBSET Tables
  BY RequestFields
<1>2. req'[w] = r /\ \A v \in Workers \ {w} : req'[v] = req[v]
  BY DEF TypeOK
<1>3. \A v \in Workers \ {w} : req[v].scope \intersect k.scope = {}
  BY DEF Orderly, Apart
<1>4. Apart'
  BY <1>2, <1>3 DEF Orderly, Apart
<1>5. ASSUME NEW v \in Workers
      PROVE  Knows(req[v])'
  <2>1. CASE v = w
    BY <1>2, <2>1
  <2>2. CASE v # w
    <3>1. PICK q \in Request : q = req[v]
      BY DEF TypeOK
    <3>2. Knows(q) /\ q.scope \intersect k.scope = {}
      BY <1>3, <2>2, <3>1 DEF Orderly
    <3>3. Knows(q)'
      BY <1>1, <3>2, Kept
    <3>4. req'[v] = q
      BY <1>2, <2>2, <3>1
    <3>. QED
      BY <3>3, <3>4
  <2>. QED
    BY <2>1, <2>2
<1>6. \A t \in Tables \ k.scope : ActiveAt(t)' = ActiveAt(t) /\ table'[t] = table[t]
  BY <1>1, Elsewhere DEF Within
<1>7. \A t \in Tables : One(t)'
  BY <1>6 DEF Orderly, One
<1>8. ASSUME Honest', NEW t \in Tables, \A v \in Workers : t \notin Due(req[v])'
      PROVE  Shows(t)'
  <2>1. t \notin Due(r)
    BY <1>2, <1>8 DEF Due
  <2>2. CASE t \in k.scope
    BY <1>8, <2>1, <2>2
  <2>3. CASE t \notin k.scope
    <3>1. Due(k) \subseteq k.scope
      BY DueInScope DEF Orderly
    <3>2. \A v \in Workers : t \notin Due(req[v])
      BY <1>2, <1>8, <2>3, <3>1 DEF Due
    <3>3. Shows(t)
      BY <1>8, <3>2 DEF Orderly
    <3>. QED
      BY <1>6, <2>3, <3>3 DEF Shows
  <2>. QED
    BY <2>2, <2>3
<1>. QED
  BY <1>4, <1>5, <1>7, <1>8 DEF Orderly

(* A request is begun while no other concerns a table of its scope. *)
LEMMA Begun ==
  ASSUME TypeOK, Rooted, Orderly, NEW w \in Workers, NEW r \in Request, Serve(w, r), UNCHANGED rows,
         ~overlap', Due(r) = {}, Honest' => Honest, Knows(r)'
  PROVE  Orderly'
<1>1. req' = [req EXCEPT ![w] = r] /\ req[w] = Idle
  BY DEF Serve
<1>2. req'[w] = r /\ \A v \in Workers \ {w} : req'[v] = req[v]
  BY <1>1 DEF TypeOK
<1>3. \A v \in Workers \ {w} : req[v].scope \intersect r.scope = {}
  BY DEF Serve
<1>4. Apart'
  BY <1>2, <1>3 DEF Orderly, Apart
<1>5. table' = table /\ session' = session /\ order' = order
  BY DEF rows
<1>6. Within({})
  BY <1>5 DEF Within
<1>7. ASSUME NEW v \in Workers
      PROVE  Knows(req[v])'
  <2>1. CASE v = w
    BY <1>2, <2>1
  <2>2. CASE v # w
    <3>1. PICK q \in Request : q = req[v]
      BY DEF TypeOK
    <3>2. Knows(q) /\ q.scope \intersect {} = {}
      BY <3>1 DEF Orderly
    <3>3. Knows(q)'
      BY <1>6, <3>2, Kept
    <3>4. req'[v] = q
      BY <1>2, <2>2, <3>1
    <3>. QED
      BY <3>3, <3>4
  <2>. QED
    BY <2>1, <2>2
<1>8. \A t \in Tables : ActiveAt(t)' = ActiveAt(t)
  BY <1>5 DEF ActiveAt, Active
<1>9. \A t \in Tables : One(t)'
  BY <1>8 DEF Orderly, One
<1>10. ASSUME Honest', NEW t \in Tables, \A v \in Workers : t \notin Due(req[v])'
       PROVE  Shows(t)'
  <2>1. \A v \in Workers : t \notin Due(req[v])
    BY <1>1, <1>2, <1>10 DEF Due, Idle
  <2>. QED
    BY <1>5, <1>8, <1>10, <2>1 DEF Orderly, Shows
<1>11. Honest' => Seated' /\ Single'
  BY <1>5 DEF Orderly, Seated, Single, Active, Unpaid
<1>. QED
  BY <1>4, <1>7, <1>9, <1>10, <1>11 DEF Orderly
-----------------------------------------------------------------------------
(* Requests are begun. *)
LEMMA OrderlyRead ==
  ASSUME TypeOK, Rooted, Orderly, ~overlap', NEW w \in Workers,
         \/ \E t \in Tables : ReadForOpen(w, t) \/ ReadForReserve(w, t)
         \/ \E s \in Sessions, t \in Tables : ReadForMove(w, s, t)
         \/ \E target, source \in Sessions : ReadForMerge(w, target, source)
         \/ \E s \in Sessions : ReadForOrder(w, s)
         \/ \E o \in Orders : ReadForCancel(w, o) \/ ReadForPayment(w, o)
  PROVE  Orderly'
<1>a. \A s \in Sessions : Active(s) => session[s].table \in Tables
  BY DEF Rooted, Active, Placed, SeatedStatus
<1>b. ASSUME NEW r \in Request, Serve(w, r), UNCHANGED <<rows, edited, doubled>>, Due(r) = {}, Knows(r)
      PROVE  Orderly'
  <2>1. Honest' <=> Honest
    BY <1>b DEF Honest
  <2>2. Knows(r)'
    BY <1>b, <2>1 DEF rows, Knows, ActiveAt, Active, Unpaid, Placed, TableOf, Exists
  <2>. QED
    BY <1>b, <2>1, <2>2, Begun
<1>1. ASSUME NEW t \in Tables, ReadForOpen(w, t)
      PROVE  Orderly'
  <2>1. PICK r : r = [pc |-> "createSession", table |-> t, scope |-> {t}]
    OBVIOUS
  <2>2. r \in Request
    BY <2>1 DEF Request
  <2>3. ActiveAt(t) = {}
    BY <1>1, ConstantsAssumption DEF ReadForOpen, FreeFor, ActiveAt
  <2>4. Due(r) = {} /\ Knows(r)
    BY <2>1, <2>3 DEF Due, Knows
  <2>. QED
    BY <1>1, <1>b, <2>1, <2>2, <2>4 DEF ReadForOpen
<1>2. ASSUME NEW t \in Tables, ReadForReserve(w, t)
      PROVE  Orderly'
  <2>1. PICK r : r = [pc |-> "reserve", table |-> t, scope |-> {t}]
    OBVIOUS
  <2>2. r \in Request
    BY <2>1 DEF Request
  <2>3. ASSUME Honest
        PROVE  ActiveAt(t) = {}
    <3>1. Serve(w, r) /\ table[t] = "available"
      BY <1>2, <2>1 DEF ReadForReserve
    <3>2. Due(req[w]) = {}
      BY <3>1 DEF Serve, Due, Idle
    <3>3. ASSUME NEW v \in Workers
          PROVE  t \notin Due(req[v])
      <4>1. CASE v = w
        BY <3>2, <4>1
      <4>2. CASE v # w
        <5>1. Due(req[v]) \subseteq req[v].scope
          BY DueInScope DEF Orderly
        <5>2. req[v].scope \intersect {t} = {}
          BY <2>1, <3>1, <4>2 DEF Serve
        <5>. QED
          BY <5>1, <5>2
      <4>. QED
        BY <4>1, <4>2
    <3>. QED
      BY <2>3, <3>1, <3>3 DEF Orderly, Shows
  <2>4. Due(r) = {} /\ Knows(r)
    BY <2>1, <2>3 DEF Due, Knows
  <2>. QED
    BY <1>2, <1>b, <2>1, <2>2, <2>4 DEF ReadForReserve
<1>3. ASSUME NEW s \in Sessions, NEW t \in Tables, ReadForMove(w, s, t)
      PROVE  Orderly'
  <2>1. PICK r : r = [pc |-> "moveSession", session |-> s, from |-> session[s].table, to |-> t,
                      scope |-> {session[s].table, t}]
    OBVIOUS
  <2>2. r \in Request
    BY <1>3, <1>a, <2>1 DEF ReadForMove, Request
  <2>3. Due(r) = {} /\ Knows(r)
    BY <1>3, <2>1 DEF ReadForMove, Due, Knows
  <2>. QED
    BY <1>3, <1>b, <2>1, <2>2, <2>3 DEF ReadForMove
<1>4. ASSUME NEW target \in Sessions, NEW source \in Sessions, ReadForMerge(w, target, source)
      PROVE  Orderly'
  <2>1. PICK r : r = [pc |-> "merge", session |-> target, source |-> source, from |-> session[source].table,
                      scope |-> {session[target].table, session[source].table}]
    OBVIOUS
  <2>2. r \in Request
    BY <1>4, <1>a, <2>1 DEF ReadForMerge, Request
  <2>3. Due(r) = {} /\ Knows(r)
    BY <1>4, <2>1 DEF ReadForMerge, Due, Knows
  <2>. QED
    BY <1>4, <1>b, <2>1, <2>2, <2>3 DEF ReadForMerge
<1>5. ASSUME NEW s \in Sessions, ReadForOrder(w, s)
      PROVE  Orderly'
  <2>1. PICK r : r = [pc |-> "createOrder", session |-> s, scope |-> {session[s].table}]
    OBVIOUS
  <2>2. r \in Request
    BY <1>5, <1>a, <2>1 DEF ReadForOrder, AcceptsNewOrder, Request
  <2>3. Due(r) = {} /\ Knows(r)
    BY <1>5, <2>1 DEF ReadForOrder, AcceptsNewOrder, Due, Knows
  <2>. QED
    BY <1>5, <1>b, <2>1, <2>2, <2>3 DEF ReadForOrder
<1>6. ASSUME NEW o \in Orders, ReadForCancel(w, o) \/ ReadForPayment(w, o)
      PROVE  Orderly'
  <2>1. order[o].session \in Sessions \union {NoSession} /\ TableOf(order[o].session) \in Tables \union {NoTable}
    BY SessionFields DEF TableOf
  <2>2. PICK c : c = [pc |-> "cancel", order |-> o, session |-> order[o].session,
                      scope |-> {TableOf(order[o].session)} \ {NoTable}]
    OBVIOUS
  <2>3. PICK p : p = [pc |-> "closeOrder", order |-> o, session |-> order[o].session,
                      table |-> TableOf(order[o].session), scope |-> {TableOf(order[o].session)} \ {NoTable}]
    OBVIOUS
  <2>4. {TableOf(order[o].session)} \ {NoTable} \in SUBSET Tables
    BY <2>1
  <2>5. c \in Request
    BY <2>1, <2>2, <2>4 DEF Request
  <2>6. p \in Request
    BY <2>1, <2>3, <2>4 DEF Request
  <2>7. order[o].status = "active"
    BY <1>6 DEF ReadForCancel, ReadForPayment
  <2>8. Due(c) = {} /\ Knows(c)
    BY <2>2, <2>7 DEF Due, Knows
  <2>9. Due(p) = {} /\ Knows(p)
    BY <2>3, <2>7 DEF Due, Knows
  <2>10. UNCHANGED <<rows, edited, doubled>>
    BY <1>6 DEF ReadForCancel, ReadForPayment
  <2>11. CASE ReadForCancel(w, o)
    BY <2>2, <2>5, <2>8, <2>10, <2>11, <1>b DEF ReadForCancel
  <2>12. CASE ReadForPayment(w, o)
    <3>1. Serve(w, p)
      BY <2>3, <2>12 DEF ReadForPayment
    <3>. QED
      BY <2>6, <2>9, <2>10, <3>1, <1>b
  <2>. QED
    BY <1>6, <2>11, <2>12
<1>. QED
  BY <1>1, <1>2, <1>3, <1>4, <1>5, <1>6

(* Edits are begun. *)
LEMMA OrderlyReadEdit ==
  ASSUME TypeOK, Rooted, Orderly, ~overlap', NEW w \in Workers,
         \/ \E s \in Sessions, st \in EditStatus, t \in Tables : ReadForEdit(w, s, st, t)
         \/ \E t \in Tables, st \in FormStatus : ReadForm(w, t, st)
         \/ \E deleted, added \in SUBSET Tables : ReadLayout(w, deleted, added)
  PROVE  Orderly'
<1>1. ASSUME NEW s \in Sessions, NEW st \in EditStatus, NEW t \in Tables, ReadForEdit(w, s, st, t)
      PROVE  Orderly'
  <2>1. PICK r : r = [pc |-> "editSession", session |-> s, status |-> st, table |-> t,
                      scope |-> {session[s].table, t}]
    OBVIOUS
  <2>2. r \in Request
    BY <1>1, <2>1 DEF ReadForEdit, Request, Rooted
  <2>3. Due(r) = {}
    BY <2>1 DEF Due
  <2>4. Serve(w, r) /\ UNCHANGED rows /\ (Honest' => Honest)
    BY <1>1, <2>1 DEF ReadForEdit, Honest
  <2>5. Knows(r)
    BY <1>1, <2>1 DEF ReadForEdit, FreeFor, Knows
  <2>6. Knows(r)'
    BY <2>1, <2>4, <2>5 DEF Knows, rows, ActiveAt, Active, Placed
  <2>. QED
    BY <2>2, <2>3, <2>4, <2>6, Begun
<1>2. ASSUME NEW t \in Tables, NEW st \in FormStatus, ReadForm(w, t, st)
      PROVE  Orderly'
  <2>1. PICK r : r = [pc |-> "saveTables", scope |-> {t},
                      layout |-> [x \in Tables |-> IF x = t THEN st ELSE "none"]]
    OBVIOUS
  <2>2. [x \in Tables |-> IF x = t THEN st ELSE "none"] \in [Tables -> TableStatus \union {"new"}]
    BY ConstantsAssumption DEF TableStatus
  <2>3. r \in Request
    BY <2>1, <2>2 DEF Request
  <2>4. Due(r) = {}
    BY <2>1 DEF Due
  <2>5. Serve(w, r) /\ UNCHANGED rows
    BY <1>2, <2>1 DEF ReadForm, rows
  <2>6. Honest' => Honest /\ st = table[t]
    BY <1>2 DEF ReadForm, Honest, TypeOK
  <2>7. /\ r.pc = "saveTables" /\ r.scope = {t} /\ r.layout[t] = st
        /\ \A x \in Tables \ {t} : r.layout[x] = "none"
    BY <2>1
  <2>8. Knows(r)'
    BY <2>5, <2>6, <2>7 DEF Knows, rows
  <2>. QED
    BY <2>3, <2>4, <2>5, <2>6, <2>8, Begun
<1>3. ASSUME NEW deleted \in SUBSET Tables, NEW added \in SUBSET Tables, ReadLayout(w, deleted, added)
      PROVE  Orderly'
  <2>1. PICK layout : layout = [t \in Tables |-> IF t \in deleted THEN "gone"
                                                 ELSE IF t \in added THEN "new"
                                                 ELSE IF Exists(t) THEN table[t] ELSE "none"]
    OBVIOUS
  <2>2. PICK r : r = [pc |-> "saveTables", scope |-> Tables, layout |-> layout]
    OBVIOUS
  <2>3. layout \in [Tables -> TableStatus \union {"new"}]
    BY <2>1 DEF TypeOK, TableStatus
  <2>4. r \in Request
    BY <2>2, <2>3 DEF Request
  <2>5. Due(r) = {}
    BY <2>2 DEF Due
  <2>6. Serve(w, r) /\ UNCHANGED rows /\ (Honest' => Honest)
    BY <1>3, <2>1, <2>2 DEF ReadLayout, Honest
  <2>7. \A t \in Tables : layout[t] \in {"none", "gone", "new", table[t]}
    BY <2>1
  <2>8. Knows(r)'
    BY <2>2, <2>6, <2>7 DEF Knows, rows
  <2>. QED
    BY <2>4, <2>5, <2>6, <2>8, Begun
<1>. QED
  BY <1>1, <1>2, <1>3

-----------------------------------------------------------------------------
(* A request ends, having written what it owed. *)
LEMMA Ended ==
  ASSUME TypeOK, Rooted, Orderly, NEW w \in Workers, NEW k \in Request, k = req[w],
         req' = [req EXCEPT ![w] = Idle], Within(k.scope), Honest' => Honest,
         \A t \in k.scope : One(t)',
         Honest' => /\ \A t \in k.scope : Shows(t)'
                    /\ Seated'
                    /\ Single'
  PROVE  Orderly'
<1>1. Knows(Idle)'
  BY DEF Knows, Idle
<1>2. Idle.scope \subseteq k.scope
  BY DEF Idle
<1>. QED
  BY <1>1, <1>2, Stepped

(* A status is written, of a table that its request concerns. *)
StatusOnly(S, t, st) ==
  /\ Within(S) /\ Honest' = Honest
  /\ \A x \in Tables : ActiveAt(x)' = ActiveAt(x) /\ One(x)'
  /\ \A x \in Tables \ {t} : Shows(x)' <=> Shows(x)
  /\ Shows(t)' <=> (st = "occupied" <=> ActiveAt(t) # {})
  /\ Honest' => Seated' /\ Single'

LEMMA TableWritten ==
  ASSUME TypeOK, Orderly, NEW S, NEW t \in Tables, t \in S, NEW st,
         table' = [table EXCEPT ![t] = st],
         session' = session, order' = order, edited' = edited, doubled' = doubled
  PROVE  StatusOnly(S, t, st)
<1>1. table'[t] = st /\ \A x \in Tables \ {t} : table'[x] = table[x]
  BY DEF TypeOK
<1>2. Within(S) /\ Honest' = Honest
  BY <1>1 DEF Within, Honest
<1>3. \A x \in Tables : ActiveAt(x)' = ActiveAt(x)
  BY DEF ActiveAt, Active
<1>4. \A x \in Tables : One(x)'
  BY <1>3 DEF Orderly, One
<1>5. \A x \in Tables \ {t} : Shows(x)' <=> Shows(x)
  BY <1>1, <1>3 DEF Shows
<1>6. Shows(t)' <=> (st = "occupied" <=> ActiveAt(t) # {})
  BY <1>1, <1>3 DEF Shows
<1>7. Honest' => Seated' /\ Single'
  BY <1>2 DEF Orderly, Seated, Single, Active, Unpaid
<1>. QED
  BY <1>2, <1>3, <1>4, <1>5, <1>6, <1>7 DEF StatusOnly

LEMMA OrderlyTable ==
  ASSUME TypeOK, Rooted, Orderly, NEW w \in Workers,
         OccupyTable(w) \/ TakeTable(w) \/ LeaveTable(w) \/ Reserve(w) \/ FreeTable(w)
  PROVE  Orderly'
<1>k. PICK k \in Request : k = req[w]
  BY DEF TypeOK
<1>s. k.scope \subseteq Tables /\ Knows(k)
  BY <1>k, RequestFields DEF Orderly
<1>d. Honest => \A t \in k.scope \ Due(k) : Shows(t)
  BY <1>k, <1>s, Showing
<1>1. CASE OccupyTable(w)
  <2>1. /\ k.pc = "occupy" /\ k.scope = {k.table} /\ ActiveAt(k.table) # {} /\ k.table \in Tables
        /\ table' = [table EXCEPT ![k.table] = "occupied"]
        /\ session' = session /\ order' = order /\ edited' = edited /\ doubled' = doubled
        /\ req' = [req EXCEPT ![w] = Idle]
    BY <1>1, <1>k, <1>s DEF OccupyTable, Knows, Finish
  <2>2. StatusOnly(k.scope, k.table, "occupied")
    BY <2>1, TableWritten
  <2>3. \A t \in k.scope : Shows(t)'
    BY <2>1, <2>2 DEF StatusOnly, Shows
  <2>. QED
    BY <1>k, <2>1, <2>3, <2>2, Ended DEF StatusOnly
<1>2. CASE TakeTable(w)
  <2>1. /\ k.pc = "takeTable" /\ k.scope = {k.from, k.to} /\ ActiveAt(k.to) # {} /\ k.to \in Tables
        /\ table' = [table EXCEPT ![k.to] = "occupied"]
        /\ session' = session /\ order' = order /\ edited' = edited /\ doubled' = doubled
        /\ req' = [req EXCEPT ![w] = Idle]
    BY <1>2, <1>k, <1>s DEF TakeTable, Knows, Finish
  <2>2. StatusOnly(k.scope, k.to, "occupied")
    BY <2>1, TableWritten
  <2>3. Due(k) = {k.to}
    BY <2>1 DEF Due
  <2>4. Shows(k.to)'
    BY <2>1, <2>2 DEF StatusOnly, Shows
  <2>5. Honest' => \A t \in k.scope : Shows(t)'
    BY <1>s, <1>d, <2>1, <2>3, <2>4, <2>2 DEF StatusOnly
  <2>. QED
    BY <1>k, <1>s, <2>1, <2>5, <2>2, Ended DEF StatusOnly
<1>3. CASE LeaveTable(w)
  <2>1. /\ k.pc = "leaveTable" /\ k.scope = {k.from, k.to} /\ k.from # k.to /\ ActiveAt(k.from) = {}
        /\ ActiveAt(k.to) # {} /\ k.to \in Tables /\ k.from \in Tables
        /\ table' = [table EXCEPT ![k.from] = "available"]
        /\ session' = session /\ order' = order /\ edited' = edited /\ doubled' = doubled
        /\ req' = [req EXCEPT ![w] = [k EXCEPT !.pc = "takeTable"]]
    BY <1>3, <1>k, <1>s DEF LeaveTable, Knows, Continue
  <2>2. StatusOnly(k.scope, k.from, "available")
    BY <2>1, TableWritten
  <2>3. PICK r : r = [k EXCEPT !.pc = "takeTable"]
    OBVIOUS
  <2>4. r \in Request
    BY <2>1, <2>3, NextPlace
  <2>5. r.pc = "takeTable" /\ r.scope = k.scope /\ r.from = k.from /\ r.to = k.to
    <3>1. k \in [pc : {"moveSession", "leaveTable", "takeTable"}, session : Sessions,
                 from : Tables, to : Tables, scope : SUBSET Tables]
      BY <2>1 DEF Request, Idle
    <3>. QED
      BY <2>3, <3>1
  <2>6. Knows(r)'
    BY <2>1, <2>5, <2>2 DEF StatusOnly, Knows
  <2>7. Shows(k.from)'
    BY <2>1, <2>2 DEF StatusOnly, Shows
  <2>8. \A t \in k.scope \ Due(r) : Shows(t)'
    BY <2>1, <2>5, <2>7 DEF Due
  <2>. QED
    BY <1>k, <1>s, <2>1, <2>3, <2>5, <2>6, <2>8, <2>2, Stepped DEF StatusOnly
<1>4. CASE Reserve(w)
  <2>1. /\ k.pc = "reserve" /\ k.scope = {k.table} /\ (Honest => ActiveAt(k.table) = {}) /\ k.table \in Tables
        /\ table' = [table EXCEPT ![k.table] = "reserved"]
        /\ session' = session /\ order' = order /\ edited' = edited /\ doubled' = doubled
        /\ req' = [req EXCEPT ![w] = Idle]
    BY <1>4, <1>k, <1>s DEF Reserve, Knows, Finish
  <2>2. StatusOnly(k.scope, k.table, "reserved")
    BY <2>1, TableWritten
  <2>3. Honest' => \A t \in k.scope : Shows(t)'
    BY <2>1, <2>2 DEF StatusOnly, Shows
  <2>. QED
    BY <1>k, <2>1, <2>3, <2>2, Ended DEF StatusOnly
<1>5. CASE FreeTable(w)
  <2>1. /\ k.pc = "freeTable" /\ k.scope = {k.table} /\ (Honest => ActiveAt(k.table) = {}) /\ k.table \in Tables
        /\ table' = [table EXCEPT ![k.table] = "available"]
        /\ session' = session /\ order' = order /\ edited' = edited /\ doubled' = doubled
        /\ req' = [req EXCEPT ![w] = Idle]
    BY <1>5, <1>k, <1>s DEF FreeTable, Knows, Finish
  <2>2. StatusOnly(k.scope, k.table, "available")
    BY <2>1, TableWritten
  <2>3. Honest' => \A t \in k.scope : Shows(t)'
    BY <2>1, <2>2 DEF StatusOnly, Shows
  <2>. QED
    BY <1>k, <2>1, <2>3, <2>2, Ended DEF StatusOnly
<1>. QED
  BY <1>1, <1>2, <1>3, <1>4, <1>5
-----------------------------------------------------------------------------
LEMMA OrderlyCreateSession ==
  ASSUME TypeOK, Rooted, Orderly, NEW w \in Workers, NEW s \in Sessions, CreateSession(w, s)
  PROVE  Orderly'
<1>1. PICK k \in Request : k = req[w]
  BY DEF TypeOK
<1>2. /\ k.pc = "createSession" /\ k.table \in Tables /\ k.scope = {k.table} /\ ActiveAt(k.table) = {}
      /\ session[s].status = "none"
      /\ session' = [session EXCEPT ![s] = [status |-> "open", table |-> k.table]]
      /\ table' = table /\ order' = order /\ edited' = edited /\ doubled' = doubled
      /\ req' = [req EXCEPT ![w] = [k EXCEPT !.pc = "occupy"]]
  BY <1>1, RequestFields DEF CreateSession, Continue, Orderly, Knows
<1>3. PICK r : r = [k EXCEPT !.pc = "occupy"]
  OBVIOUS
<1>4. r.pc = "occupy" /\ r.scope = k.scope /\ r.table = k.table
  <2>1. k \in [pc : {"createSession", "occupy", "reserve"}, table : Tables, scope : SUBSET Tables]
    BY <1>2 DEF Request, Idle
  <2>. QED
    BY <1>3, <2>1
<1>5. /\ session'[s].status = "open" /\ session'[s].table = k.table
      /\ \A x \in Sessions \ {s} : session'[x] = session[x]
  BY <1>2 DEF TypeOK
<1>6. Within(k.scope)
  BY <1>2, <1>5 DEF Within
<1>7. ActiveAt(k.table)' = {s}
  BY <1>2, <1>5 DEF ActiveAt, Active, SeatedStatus
<1>8. Knows(r)' /\ (\A t \in k.scope : One(t)') /\ k.scope \ Due(r) = {}
  BY <1>2, <1>4, <1>7 DEF Knows, One, Due
<1>9. \A o \in Orders : order[o].session # s
  BY <1>2, ConstantsAssumption DEF Rooted, Placed
<1>10. Honest' = Honest
  BY <1>2 DEF Honest
<1>11. Honest' => Seated'
  <2>1. \A o \in Orders : order[o].session # NoSession => order[o].session \in Sessions
    BY SessionFields
  <2>. QED
    BY <1>2, <1>5, <1>9, <1>10, <2>1 DEF Orderly, Seated, Active
<1>12. Honest' => Single'
  BY <1>2, <1>10 DEF Orderly, Single, Unpaid
<1>. QED
  BY <1>1, <1>2, <1>3, <1>4, <1>6, <1>8, <1>10, <1>11, <1>12, Stepped

LEMMA OrderlyMoveSession ==
  ASSUME TypeOK, Rooted, Orderly, NEW w \in Workers, MoveSession(w)
  PROVE  Orderly'
<1>1. PICK k \in Request : k = req[w]
  BY DEF TypeOK
<1>2. /\ k.pc = "moveSession" /\ k.session \in Sessions /\ k.from \in Tables /\ k.to \in Tables
      /\ k.scope = {k.from, k.to} /\ ActiveAt(k.to) = {}
      /\ Active(k.session) /\ session[k.session].table = k.from
      /\ session' = [session EXCEPT ![k.session].table = k.to]
      /\ table' = table /\ order' = order /\ edited' = edited /\ doubled' = doubled
      /\ req' = [req EXCEPT ![w] = [k EXCEPT !.pc = "leaveTable"]]
  BY <1>1, RequestFields DEF MoveSession, Continue, Orderly, Knows
<1>3. PICK r : r = [k EXCEPT !.pc = "leaveTable"]
  OBVIOUS
<1>4. r.pc = "leaveTable" /\ r.scope = k.scope /\ r.from = k.from /\ r.to = k.to
  <2>1. k \in [pc : {"moveSession", "leaveTable", "takeTable"}, session : Sessions,
               from : Tables, to : Tables, scope : SUBSET Tables]
    BY <1>2 DEF Request, Idle
  <2>. QED
    BY <1>3, <2>1
<1>5. /\ session'[k.session].table = k.to
      /\ \A x \in Sessions \ {k.session} : session'[x].table = session[x].table
      /\ \A x \in Sessions : session'[x].status = session[x].status
      /\ \A x \in Sessions \ {k.session} : session'[x] = session[x]
  BY <1>2 DEF TypeOK, Session
<1>6. Within(k.scope)
  BY <1>2, <1>5 DEF Within
<1>7. ActiveAt(k.to)' = {k.session}
  BY <1>2, <1>5 DEF ActiveAt, Active
<1>8. k.from # k.to
  BY <1>2 DEF ActiveAt
<1>9. ActiveAt(k.from)' = {}
  <2>1. ActiveAt(k.from) = {k.session}
    BY <1>2 DEF Orderly, One, ActiveAt
  <2>. QED
    BY <1>5, <1>8, <2>1 DEF ActiveAt, Active
<1>10. Exists(k.from)'
  BY <1>2 DEF Rooted, Exists, Placed, Active, SeatedStatus
<1>11. Knows(r)' /\ (\A t \in k.scope : One(t)') /\ k.scope \ Due(r) = {}
  BY <1>2, <1>4, <1>7, <1>8, <1>9, <1>10 DEF Knows, One, Due
<1>12. Honest' = Honest
  BY <1>2 DEF Honest
<1>13. Honest' => Seated'
  <2>1. \A o \in Orders : order[o].session # NoSession => order[o].session \in Sessions
    BY SessionFields
  <2>. QED
    BY <1>2, <1>5, <1>12, <2>1 DEF Orderly, Seated, Active
<1>14. Honest' => Single'
  BY <1>2, <1>12 DEF Orderly, Single, Unpaid
<1>. QED
  BY <1>1, <1>2, <1>3, <1>4, <1>6, <1>11, <1>12, <1>13, <1>14, Stepped

LEMMA OrderlyCommitMerge ==
  ASSUME TypeOK, Rooted, Orderly, NEW w \in Workers, CommitMerge(w)
  PROVE  Orderly'
<1>1. PICK k \in Request : k = req[w]
  BY DEF TypeOK
<1>2. /\ k.pc = "merge" /\ k.session \in Sessions /\ k.source \in Sessions /\ k.from \in Tables
      /\ Active(k.session) /\ Active(k.source) /\ k.session # k.source
      /\ session[k.source].table = k.from
      /\ k.scope = {session[k.session].table, k.from}
  BY <1>1, RequestFields DEF CommitMerge, Orderly, Knows
<1>3. /\ order' = [o \in Orders |-> IF order[o].session = k.source
                                    THEN [order[o] EXCEPT !.session = k.session] ELSE order[o]]
      /\ session' = [session EXCEPT ![k.source].status = "merged"]
      /\ table' = [table EXCEPT ![k.from] = "available"]
      /\ doubled' = (doubled \/ (Unpaid(k.session) # {} /\ Unpaid(k.source) # {}))
      /\ req' = [req EXCEPT ![w] = Idle] /\ edited' = edited
  BY <1>1 DEF CommitMerge
<1>4. /\ \A s \in Sessions : session'[s].table = session[s].table
      /\ \A s \in Sessions \ {k.source} : session'[s] = session[s]
      /\ session'[k.source].status = "merged"
  BY <1>2, <1>3 DEF TypeOK, Session
<1>5. /\ \A o \in Orders : order'[o].status = order[o].status
      /\ \A o \in Orders : order[o].session # k.source => order'[o] = order[o]
      /\ \A o \in Orders : order[o].session = k.source => order'[o].session = k.session
  BY <1>3 DEF TypeOK, Order
<1>6. table'[k.from] = "available" /\ \A t \in Tables \ {k.from} : table'[t] = table[t]
  BY <1>2, <1>3 DEF TypeOK
<1>7. Within(k.scope)
  <2>1. ASSUME NEW o \in Orders, order'[o] # order[o]
        PROVE  /\ TableOf(order[o].session) \in k.scope
               /\ TableOf(order[o].session)' \in k.scope
               /\ order[o].session # NoSession
    <3>1. order[o].session = k.source /\ order'[o].session = k.session
      BY <1>5, <2>1
    <3>. QED
      BY <1>2, <1>4, <3>1, ConstantsAssumption DEF TableOf
  <2>. QED
    BY <1>2, <1>4, <1>6, <2>1 DEF Within
<1>8. \A s \in Sessions : Active(s)' <=> Active(s) /\ s # k.source
  BY <1>2, <1>4 DEF Active, SeatedStatus
<1>9. \A t \in Tables : ActiveAt(t)' = ActiveAt(t) \ {k.source}
  BY <1>4, <1>8 DEF ActiveAt
<1>10. k.scope \subseteq Tables
  BY RequestFields
<1>11. \A t \in k.scope : One(t)'
  BY <1>9, <1>10 DEF Orderly, One
<1>12. Honest' => Honest
  BY <1>3 DEF Honest, TypeOK
<1>13. ASSUME Honest'
       PROVE  \A t \in k.scope : Shows(t)'
  <2>1. \A t \in k.scope : Shows(t)
    BY <1>1, <1>2, <1>10, <1>12, <1>13, Showing DEF Due
  <2>2. ActiveAt(k.from) = {k.source}
    BY <1>2 DEF Orderly, One, ActiveAt
  <2>3. Shows(k.from)'
    BY <1>2, <1>6, <1>9, <2>2 DEF Shows
  <2>4. \A t \in k.scope \ {k.from} : ActiveAt(t)' = ActiveAt(t)
    BY <1>2, <1>9, <1>10 DEF ActiveAt
  <2>. QED
    BY <1>6, <1>10, <2>1, <2>3, <2>4 DEF Shows
<1>14. ASSUME Honest'
       PROVE  Seated' /\ Single'
  <2>1. Seated /\ Single
    BY <1>12, <1>13, <1>14 DEF Orderly
  <2>2. \A o \in Orders : order[o].session # NoSession => order[o].session \in Sessions
    BY SessionFields
  <2>3. Seated'
    BY <1>2, <1>5, <1>8, <2>1, <2>2 DEF Seated
  <2>4. Unpaid(k.session) = {} \/ Unpaid(k.source) = {}
    BY <1>3, <1>14 DEF Honest
  <2>5. \A s \in Sessions : Unpaid(s)' = IF s = k.session THEN Unpaid(k.session) \union Unpaid(k.source)
                                         ELSE IF s = k.source THEN {} ELSE Unpaid(s)
    BY <1>2, <1>5 DEF Unpaid
  <2>6. Single'
    BY <1>2, <2>1, <2>4, <2>5 DEF Single
  <2>. QED
    BY <2>3, <2>6
<1>. QED
  BY <1>1, <1>3, <1>7, <1>11, <1>12, <1>13, <1>14, Ended

(* Only an order is written. *)
LEMMA OrderWritten ==
  ASSUME TypeOK, Orderly, NEW k \in Request, table' = table, session' = session
  PROVE  /\ \A t \in Tables : One(t)'
         /\ \A t \in Tables : Shows(t)' <=> Shows(t)
         /\ \A s \in Sessions : Active(s)' <=> Active(s)
         /\ k.scope \subseteq Tables
<1>1. \A t \in Tables : ActiveAt(t)' = ActiveAt(t)
  BY DEF ActiveAt, Active
<1>. QED
  BY <1>1, RequestFields DEF Orderly, One, Shows, Active

LEMMA OrderlyCreateOrder ==
  ASSUME TypeOK, Rooted, Orderly, NEW w \in Workers, NEW o \in Orders, CreateOrder(w, o)
  PROVE  Orderly'
<1>1. PICK k \in Request : k = req[w]
  BY DEF TypeOK
<1>2. /\ k.pc = "createOrder" /\ k.session \in Sessions /\ Active(k.session) /\ Unpaid(k.session) = {}
      /\ k.scope = {session[k.session].table} /\ order[o].status = "none"
      /\ order' = [order EXCEPT ![o] = [status |-> "active", session |-> k.session]]
      /\ table' = table /\ session' = session /\ edited' = edited /\ doubled' = doubled
      /\ req' = [req EXCEPT ![w] = Idle]
  BY <1>1, RequestFields DEF CreateOrder, Finish, Orderly, Knows
<1>3. /\ order'[o].status = "active" /\ order'[o].session = k.session
      /\ \A p \in Orders \ {o} : order'[p] = order[p]
  BY <1>2 DEF TypeOK
<1>4. Within(k.scope)
  <2>1. order[o].session = NoSession
    BY <1>2 DEF Rooted
  <2>2. TableOf(order[o].session) = NoTable /\ TableOf(order[o].session)' = session[k.session].table
    BY <1>2, <1>3, <2>1, ConstantsAssumption DEF TableOf
  <2>. QED
    BY <1>2, <1>3, <2>2 DEF Within
<1>5. Honest' = Honest
  BY <1>2 DEF Honest
<1>6. Honest' => \A t \in k.scope : Shows(t)'
  BY <1>1, <1>2, <1>5, Showing, OrderWritten DEF Due
<1>7. Honest' => Seated'
  <2>1. \A p \in Orders : order[p].session # NoSession => order[p].session \in Sessions
    BY SessionFields
  <2>. QED
    BY <1>2, <1>3, <1>5, <2>1, OrderWritten DEF Orderly, Seated
<1>8. ASSUME Honest'
      PROVE  Single'
  <2>1. Single
    BY <1>5, <1>8 DEF Orderly
  <2>2. \A s \in Sessions : Unpaid(s)' = IF s = k.session THEN {o} ELSE Unpaid(s)
    BY <1>2, <1>3, ConstantsAssumption DEF Unpaid
  <2>. QED
    BY <2>1, <2>2 DEF Single
<1>. QED
  BY <1>1, <1>2, <1>4, <1>5, <1>6, <1>7, <1>8, OrderWritten, Ended

LEMMA OrderlyOrderDone ==
  ASSUME TypeOK, Rooted, Orderly, NEW w \in Workers, Cancel(w) \/ CloseOrder(w)
  PROVE  Orderly'
<1>1. PICK k \in Request : k = req[w]
  BY DEF TypeOK
<1>2. /\ k.pc \in {"closeOrder", "cancel"} /\ k.order \in Orders /\ k.session \in Sessions \union {NoSession}
      /\ order[k.order].session = k.session /\ order[k.order].status # "none"
      /\ k.session # NoSession => order[k.order].status = "active"
      /\ k.scope = {TableOf(k.session)} \ {NoTable}
      /\ k.pc = "closeOrder" => k.table = TableOf(k.session)
      /\ table' = table /\ session' = session /\ edited' = edited /\ doubled' = doubled
  BY <1>1, RequestFields DEF Cancel, CloseOrder, Finish, Continue, Orderly, Knows
<1>3. /\ order'[k.order].status = "done" /\ order'[k.order].session = k.session
      /\ \A p \in Orders \ {k.order} : order'[p] = order[p]
  <2>1. CASE Cancel(w)
    <3>1. order' = [order EXCEPT ![k.order] = [status |-> "done", session |-> k.session]]
      BY <1>1, <2>1 DEF Cancel
    <3>. QED
      BY <1>2, <3>1 DEF TypeOK
  <2>2. CASE CloseOrder(w)
    <3>1. order' = [order EXCEPT ![k.order].status = "done"]
      BY <1>1, <2>2 DEF CloseOrder
    <3>. QED
      BY <1>2, <3>1 DEF TypeOK, Order
  <2>. QED
    BY <2>1, <2>2
<1>4. Within(k.scope)
  <2>1. TableOf(order[k.order].session) = TableOf(k.session) /\ TableOf(order[k.order].session)' = TableOf(k.session)
    BY <1>2, <1>3 DEF TableOf
  <2>2. TableOf(k.session) \in k.scope \union {NoTable}
    BY <1>2
  <2>. QED
    BY <1>2, <1>3, <2>1, <2>2 DEF Within
<1>5. Honest' = Honest
  BY <1>2 DEF Honest
<1>6. Honest' => \A t \in k.scope : Shows(t)'
  BY <1>1, <1>2, <1>5, Showing, OrderWritten DEF Due
<1>7. \A s \in Sessions : Unpaid(s)' = Unpaid(s) \ {k.order}
  BY <1>2, <1>3 DEF Unpaid
<1>8. Honest' => Seated' /\ Single'
  <2>1. \A p \in Orders : order[p].session # NoSession => order[p].session \in Sessions
    BY SessionFields
  <2>2. Honest' => Seated'
    BY <1>2, <1>3, <1>5, <2>1, OrderWritten DEF Orderly, Seated
  <2>. QED
    BY <1>5, <1>7, <2>2 DEF Orderly, Single
<1>9. CASE Cancel(w) \/ (CloseOrder(w) /\ k.session = NoSession)
  <2>1. req' = [req EXCEPT ![w] = Idle]
    BY <1>1, <1>9 DEF Cancel, CloseOrder, Finish
  <2>. QED
    BY <1>1, <1>2, <1>4, <1>5, <1>6, <1>8, <2>1, OrderWritten, Ended
<1>10. CASE CloseOrder(w) /\ k.session \in Sessions
  <2>1. k.pc = "closeOrder" /\ req' = [req EXCEPT ![w] = [k EXCEPT !.pc = "closeSession"]]
    BY <1>1, <1>10, ConstantsAssumption DEF CloseOrder, Continue
  <2>2. PICK r : r = [k EXCEPT !.pc = "closeSession"]
    OBVIOUS
  <2>3. r.pc = "closeSession" /\ r.scope = k.scope /\ r.session = k.session /\ r.table = k.table
    <3>1. k \in [pc : {"closeOrder", "closeSession", "freeTable"}, order : Orders,
                 session : Sessions \union {NoSession}, table : Tables \union {NoTable}, scope : SUBSET Tables]
      BY <2>1 DEF Request, Idle
    <3>. QED
      BY <2>2, <3>1
  <2>4. Placed(k.session) /\ session[k.session].table \in Tables /\ session[k.session].table = k.table
    BY <1>2, <1>10, <2>1, ConstantsAssumption DEF Rooted, TableOf
  <2>5. k.scope = {k.table}
    BY <1>2, <2>1, <2>4, ConstantsAssumption
  <2>6. ASSUME Honest
        PROVE  Active(k.session) /\ Unpaid(k.session)' = {}
    <3>1. k.order \in Unpaid(k.session)
      BY <1>2, <1>10, ConstantsAssumption DEF Unpaid
    <3>2. Unpaid(k.session) = {k.order}
      BY <1>10, <2>6, <3>1 DEF Orderly, Single
    <3>3. Active(k.session)
      BY <1>2, <1>10, <2>6, ConstantsAssumption DEF Orderly, Seated
    <3>. QED
      BY <1>7, <1>10, <3>2, <3>3
  <2>7. Knows(r)'
    BY <1>2, <1>5, <1>10, <2>3, <2>4, <2>5, <2>6, OrderWritten, ConstantsAssumption DEF Knows, Placed
  <2>. QED
    BY <1>1, <1>2, <1>4, <1>5, <1>6, <1>8, <2>1, <2>2, <2>3, <2>7, OrderWritten, Stepped
<1>. QED
  BY <1>2, <1>9, <1>10

LEMMA OrderlyCloseSession ==
  ASSUME TypeOK, Rooted, Orderly, NEW w \in Workers, CloseSession(w)
  PROVE  Orderly'
<1>1. PICK k \in Request : k = req[w]
  BY DEF TypeOK
<1>2. /\ k.pc = "closeSession" /\ k.session \in Sessions /\ Placed(k.session)
      /\ session[k.session].table = k.table /\ k.scope = {k.table}
      /\ Honest => Active(k.session) /\ Unpaid(k.session) = {}
      /\ session' = [session EXCEPT ![k.session].status = "closed"]
      /\ table' = table /\ order' = order /\ edited' = edited /\ doubled' = doubled
      /\ req' = [req EXCEPT ![w] = [k EXCEPT !.pc = "freeTable"]]
  BY <1>1, RequestFields DEF CloseSession, Continue, Orderly, Knows
<1>3. PICK r : r = [k EXCEPT !.pc = "freeTable"]
  OBVIOUS
<1>4. r.pc = "freeTable" /\ r.scope = k.scope /\ r.table = k.table
  <2>1. k \in [pc : {"closeOrder", "closeSession", "freeTable"}, order : Orders,
               session : Sessions \union {NoSession}, table : Tables \union {NoTable}, scope : SUBSET Tables]
    BY <1>2 DEF Request, Idle
  <2>. QED
    BY <1>3, <2>1
<1>5. /\ \A s \in Sessions : session'[s].table = session[s].table
      /\ \A s \in Sessions \ {k.session} : session'[s] = session[s]
      /\ session'[k.session].status = "closed"
  BY <1>2 DEF TypeOK, Session
<1>6. Within(k.scope)
  BY <1>2, <1>5 DEF Within
<1>7. \A s \in Sessions : Active(s)' <=> Active(s) /\ s # k.session
  BY <1>2, <1>5 DEF Active, SeatedStatus
<1>8. \A t \in Tables : ActiveAt(t)' = ActiveAt(t) \ {k.session}
  BY <1>5, <1>7 DEF ActiveAt
<1>9. Honest' = Honest /\ k.table \in Tables
  BY <1>2, RequestFields DEF Honest
<1>10. Honest => ActiveAt(k.table)' = {}
  BY <1>2, <1>8, <1>9 DEF Orderly, One, ActiveAt
<1>11. Knows(r)' /\ (\A t \in k.scope : One(t)') /\ k.scope \ Due(r) = {}
  <2>1. \A t \in k.scope : One(t)'
    BY <1>2, <1>8, <1>9 DEF Orderly, One
  <2>. QED
    BY <1>2, <1>4, <1>9, <1>10, <2>1 DEF Knows, Due
<1>12. Honest' => Seated' /\ Single'
  <2>1. \A p \in Orders : order[p].session # NoSession => order[p].session \in Sessions
    BY SessionFields
  <2>2. Honest' => Seated'
    BY <1>2, <1>7, <1>9, <2>1 DEF Orderly, Seated, Unpaid
  <2>3. \A s \in Sessions : Unpaid(s)' = Unpaid(s)
    BY <1>2 DEF Unpaid
  <2>. QED
    BY <1>9, <2>2, <2>3 DEF Orderly, Single
<1>. QED
  BY <1>1, <1>2, <1>3, <1>4, <1>6, <1>9, <1>11, <1>12, Stepped

LEMMA OrderlySaveEdit ==
  ASSUME TypeOK, Rooted, Orderly, NEW w \in Workers, SaveEdit(w)
  PROVE  Orderly'
<1>1. PICK k \in Request : k = req[w]
  BY DEF TypeOK
<1>2. /\ k.pc = "editSession" /\ k.session \in Sessions /\ k.table \in Tables
      /\ session[k.session].table \in k.scope /\ k.table \in k.scope /\ ActiveAt(k.table) \subseteq {k.session}
      /\ session' = [session EXCEPT ![k.session] = [status |-> k.status, table |-> k.table]]
      /\ table' = table /\ order' = order /\ edited' = TRUE
      /\ req' = [req EXCEPT ![w] = Idle]
  BY <1>1, RequestFields DEF SaveEdit, Orderly, Knows
<1>3. /\ session'[k.session].table = k.table
      /\ \A s \in Sessions \ {k.session} : session'[s] = session[s]
  BY <1>2 DEF TypeOK
<1>4. Within(k.scope)
  BY <1>2, <1>3 DEF Within
<1>5. ActiveAt(k.table)' \subseteq {k.session}
  BY <1>2, <1>3 DEF ActiveAt, Active
<1>6. \A t \in Tables \ {k.table} : ActiveAt(t)' \subseteq ActiveAt(t)
  BY <1>3 DEF ActiveAt, Active
<1>7. \A t \in k.scope : One(t)'
  <2>1. k.scope \subseteq Tables
    BY RequestFields
  <2>2. One(k.table)'
    BY <1>5 DEF One
  <2>3. \A t \in Tables \ {k.table} : One(t)'
    BY <1>6 DEF Orderly, One
  <2>. QED
    BY <2>1, <2>2, <2>3
<1>8. ~Honest'
  BY <1>2 DEF Honest
<1>. QED
  BY <1>1, <1>2, <1>4, <1>7, <1>8, Ended

LEMMA OrderlySaveTables ==
  ASSUME TypeOK, Rooted, Orderly, NEW w \in Workers, SaveTables(w)
  PROVE  Orderly'
<1>1. PICK k \in Request : k = req[w]
  BY DEF TypeOK
<1>2. PICK lost : lost = {s \in Sessions : Placed(s) /\ k.layout[session[s].table] = "gone"}
  OBVIOUS
<1>3. /\ k.pc = "saveTables" /\ k.scope \subseteq Tables
      /\ \A t \in Tables : k.layout[t] # "none" => t \in k.scope
      /\ Honest => \A t \in Tables : k.layout[t] \in {"none", "gone", "new", table[t]}
  BY <1>1, RequestFields DEF SaveTables, Orderly, Knows
<1>4. /\ Added(k.layout) \intersect {t \in Tables : Exists(t)} = {}
      /\ table' = [t \in Tables |-> CASE k.layout[t] = "none" -> table[t]
                                      [] k.layout[t] = "new"  -> "available"
                                      [] OTHER                -> k.layout[t]]
      /\ session' = [s \in Sessions |-> IF s \in lost THEN [session[s] EXCEPT !.status = "deleted"]
                                        ELSE session[s]]
      /\ order' = [o \in Orders |-> IF order[o].session \in lost
                                    THEN [order[o] EXCEPT !.session = NoSession] ELSE order[o]]
      /\ edited' = edited /\ doubled' = doubled
      /\ req' = [req EXCEPT ![w] = Idle]
  BY <1>1, <1>2 DEF SaveTables, Finish
<1>5. \A t \in Tables : /\ k.layout[t] = "none" => table'[t] = table[t]
                        /\ k.layout[t] = "new" => table'[t] = "available" /\ ~Exists(t)
                        /\ k.layout[t] \notin {"none", "new"} => table'[t] = k.layout[t]
  BY <1>4 DEF Added
<1>6. \A s \in Sessions : /\ session'[s].table = session[s].table
                          /\ s \in lost => session'[s].status = "deleted" /\ session[s].table \in k.scope
                          /\ s \notin lost => session'[s] = session[s]
  BY <1>2, <1>3, <1>4 DEF TypeOK, Session, Rooted
<1>7. \A o \in Orders : /\ order'[o].status = order[o].status
                        /\ order[o].session \in lost => order'[o].session = NoSession
                        /\ order[o].session \notin lost => order'[o] = order[o]
  BY <1>4 DEF TypeOK, Order
<1>8. Within(k.scope)
  <2>1. ASSUME NEW o \in Orders, order'[o] # order[o]
        PROVE  /\ TableOf(order[o].session) \in k.scope
               /\ TableOf(order[o].session)' = NoTable
               /\ order[o].session # NoSession
    <3>1. order[o].session \in lost /\ order'[o].session = NoSession
      BY <1>7, <2>1
    <3>2. order[o].session \in Sessions /\ session[order[o].session].table \in k.scope
      BY <1>2, <1>6, <3>1
    <3>. QED
      BY <3>1, <3>2, ConstantsAssumption DEF TableOf
  <2>2. \A t \in Tables \ k.scope : table'[t] = table[t]
    BY <1>3, <1>5
  <2>. QED
    BY <1>6, <2>1, <2>2 DEF Within
<1>9. \A s \in Sessions : Active(s)' <=> Active(s) /\ s \notin lost
  BY <1>6 DEF Active, SeatedStatus
<1>10. \A t \in Tables : ActiveAt(t)' = ActiveAt(t) \ lost
  BY <1>6, <1>9 DEF ActiveAt
<1>11. \A t \in k.scope : One(t)'
  BY <1>3, <1>10 DEF Orderly, One
<1>12. Honest' = Honest
  BY <1>4 DEF Honest
<1>13. ASSUME Honest', NEW t \in k.scope
       PROVE  Shows(t)'
  <2>1. Shows(t)
    BY <1>1, <1>3, <1>12, <1>13, Showing DEF Due
  <2>2. t \in Tables /\ k.layout[t] \in {"none", "gone", "new", table[t]}
    BY <1>3, <1>12, <1>13
  <2>3. CASE k.layout[t] = "gone"
    <3>1. \A s \in ActiveAt(t) : s \in lost
      BY <1>2, <2>3 DEF ActiveAt, Active, Placed, SeatedStatus
    <3>. QED
      BY <1>5, <1>10, <2>2, <2>3, <3>1 DEF Shows
  <2>4. CASE k.layout[t] = "new"
    <3>1. ActiveAt(t) = {}
      BY <1>5, <2>2, <2>4 DEF Rooted, ActiveAt, Active, Placed, SeatedStatus
    <3>. QED
      BY <1>5, <1>10, <2>2, <2>4, <3>1 DEF Shows
  <2>5. CASE k.layout[t] \notin {"gone", "new"}
    <3>1. ActiveAt(t)' = ActiveAt(t)
      BY <1>2, <1>10, <2>2, <2>5 DEF ActiveAt
    <3>2. table'[t] = table[t]
      BY <1>5, <2>2, <2>5
    <3>. QED
      BY <2>1, <3>1, <3>2 DEF Shows
  <2>. QED
    BY <2>3, <2>4, <2>5
<1>14. Honest' => Seated' /\ Single'
  <2>1. \A p \in Orders : order[p].session # NoSession => order[p].session \in Sessions
    BY SessionFields
  <2>2. Honest' => Seated'
    BY <1>7, <1>9, <1>12, <2>1 DEF Orderly, Seated
  <2>3. \A s \in Sessions : Unpaid(s)' \subseteq Unpaid(s)
    BY <1>7, ConstantsAssumption DEF Unpaid
  <2>. QED
    BY <1>12, <2>2, <2>3 DEF Orderly, Single
<1>. QED
  BY <1>1, <1>4, <1>8, <1>11, <1>12, <1>13, <1>14, Ended

(* A request that ends without writing: a payment that failed, or an error. *)
LEMMA OrderlyFail ==
  ASSUME TypeOK, Rooted, Orderly, NEW w \in Workers, PaymentFails(w) \/ Fail(w)
  PROVE  Orderly'
<1>1. PICK k \in Request : k = req[w]
  BY DEF TypeOK
<1>2. /\ table' = table /\ session' = session /\ order' = order /\ edited' = edited /\ doubled' = doubled
      /\ req' = [req EXCEPT ![w] = Idle]
  BY <1>1 DEF PaymentFails, Fail, Finish, rows
<1>3. Knows(k)
  BY <1>1 DEF Orderly
<1>4. Within(k.scope) /\ Honest' = Honest
  BY <1>2 DEF Within, Honest
<1>5. Honest => Seated' /\ Single'
  BY <1>2 DEF Orderly, Seated, Single, Active, Unpaid
<1>6. \A s \in Sessions : Active(s) => Exists(session[s].table)
  BY DEF Rooted, Active, Placed, SeatedStatus
<1>7. ASSUME Honest, NEW t \in k.scope
      PROVE  Shows(t)
  <2>1. CASE t \notin Due(k)
    BY <1>1, <1>7, <2>1, RequestFields, Showing
  <2>2. CASE t \in Due(k)
    <3>1. \/ k.pc = "freeTable" /\ t = k.table
          \/ k.pc \in {"occupy", "leaveTable", "takeTable"}
      BY <2>2 DEF Due
    <3>2. Fail(w) /\ \E x \in NeededTables(k) : ~Exists(x)
      BY <1>1, <3>1 DEF PaymentFails, Fail, NeededSessions
    <3>3. k.pc = "freeTable"
      <4>1. k.pc = "occupy" => Exists(k.table)
        BY <1>3, <1>6 DEF Knows, ActiveAt
      <4>2. k.pc = "leaveTable" => Exists(k.from)
        BY <1>3 DEF Knows
      <4>3. k.pc = "takeTable" => Exists(k.to)
        BY <1>3, <1>6 DEF Knows, ActiveAt
      <4>. QED
        BY <3>1, <3>2, <4>1, <4>2, <4>3 DEF NeededTables
    <3>4. t = k.table /\ ~Exists(t) /\ ActiveAt(t) = {}
      BY <1>3, <1>7, <3>2, <3>3 DEF NeededTables, Knows
    <3>. QED
      BY <3>4 DEF Shows, Exists
  <2>. QED
    BY <2>1, <2>2
<1>8. \A t \in Tables : One(t)' /\ (Shows(t)' <=> Shows(t))
  BY <1>1, <1>2, OrderWritten DEF Shows
<1>. QED
  BY <1>1, <1>2, <1>4, <1>5, <1>7, <1>8, RequestFields, Ended

-----------------------------------------------------------------------------
LEMMA InvInit == Init => Inv
<1> SUFFICES ASSUME Init
             PROVE  Inv
  OBVIOUS
<1>1. Sane
  BY SaneInit
<1>2. Apart
  BY DEF Init, Apart, Idle
<1>3. \A w \in Workers : Knows(req[w])
  BY DEF Init, Knows, Idle
<1>4. \A t \in Tables : ActiveAt(t) = {} /\ table[t] # "occupied"
  BY DEF Init, ActiveAt, Active, SeatedStatus
<1>5. \A s \in Sessions : Unpaid(s) = {}
  BY DEF Init, Unpaid
<1>6. Seated
  BY DEF Init, Seated
<1>. QED
  BY <1>1, <1>2, <1>3, <1>4, <1>5, <1>6 DEF Inv, Sane, Orderly, One, Shows, Single

(* That two requests have overlapped is never forgotten. *)
LEMMA Overlapped ==
  ASSUME [Next]_vars, overlap
  PROVE  overlap'
<1>1. ASSUME NEW w \in Workers, SessionStep(w)
      PROVE  overlap'
  <2>1. (\E r : Serve(w, r)) \/ overlap' = overlap
    BY <1>1 DEF SessionStep, ReadForOpen, ReadForReserve, CreateSession, OccupyTable, Reserve, ReadForMove,
                MoveSession, LeaveTable, TakeTable, ReadForMerge, CommitMerge, Continue, Finish
  <2>. QED
    BY <2>1 DEF Serve
<1>2. ASSUME NEW w \in Workers, OrderStep(w)
      PROVE  overlap'
  <2>1. (\E r : Serve(w, r)) \/ overlap' = overlap
    BY <1>2 DEF OrderStep, ReadForOrder, CreateOrder, ReadForCancel, ReadForPayment, Cancel, PaymentFails,
                CloseOrder, CloseSession, FreeTable, Continue, Finish
  <2>. QED
    BY <2>1 DEF Serve
<1>3. ASSUME NEW w \in Workers, EditStep(w) \/ Fail(w)
      PROVE  overlap'
  <2>1. (\E r : Serve(w, r)) \/ overlap' = overlap
    BY <1>3 DEF EditStep, Fail, ReadForEdit, SaveEdit, ReadForm, ReadLayout, SaveTables, Continue, Finish
  <2>. QED
    BY <2>1 DEF Serve
<1>. QED
  BY <1>1, <1>2, <1>3 DEF Next, vars

LEMMA InvStep == Inv /\ [Next]_vars => Inv'
<1> SUFFICES ASSUME Inv, [Next]_vars
             PROVE  Inv'
  OBVIOUS
<1>1. Sane'
  BY SaneStep DEF Inv, Sane
<1>2. TypeOK /\ Rooted
  BY DEF Inv
<1>3. ~overlap' => ~overlap
  BY Overlapped
<1>4. ASSUME ~overlap'
      PROVE  Orderly'
  <2>1. Orderly
    BY <1>3, <1>4 DEF Inv
  <2>2. ASSUME NEW w \in Workers, SessionStep(w)
        PROVE  Orderly'
    BY <1>2, <1>4, <2>1, <2>2, OrderlyRead, OrderlyCreateSession, OrderlyTable, OrderlyMoveSession, OrderlyCommitMerge
       DEF SessionStep
  <2>3. ASSUME NEW w \in Workers, OrderStep(w)
        PROVE  Orderly'
    BY <1>2, <1>4, <2>1, <2>3, OrderlyRead, OrderlyCreateOrder, OrderlyOrderDone, OrderlyFail, OrderlyCloseSession,
       OrderlyTable DEF OrderStep
  <2>4. ASSUME NEW w \in Workers, EditStep(w)
        PROVE  Orderly'
    BY <1>2, <1>4, <2>1, <2>4, OrderlyReadEdit, OrderlySaveEdit, OrderlySaveTables DEF EditStep
  <2>5. CASE UNCHANGED vars
    <3>1. /\ table' = table /\ session' = session /\ order' = order /\ req' = req
          /\ edited' = edited /\ doubled' = doubled
      BY <2>5 DEF vars
    <3>. QED
      BY <2>1, <3>1 DEF Orderly, Apart, Knows, One, Shows, Seated, Single, Honest, ActiveAt, Active, Unpaid,
                        Placed, Exists, TableOf, Due
  <2>. QED
    BY <1>2, <2>1, <2>2, <2>3, <2>4, <2>5, OrderlyFail DEF Next
<1>. QED
  BY <1>1, <1>4 DEF Inv, Sane

LEMMA FloorInvariant == Spec => []Inv
  BY InvInit, InvStep, PTL DEF Spec

(* Two parties are never seated at one table, in a restaurant of any size,   *)
(* as long as requests that concern the same table do not overlap            *)
(* (TableSessionSerializer.validate, move, merge, the hall constructor).     *)
THEOREM NoDoubleSeating == Spec => []OneSessionPerTable
<1>1. Inv => OneSessionPerTable
  BY DEF Inv, Orderly, One, OneSessionPerTable
<1>. QED
  BY <1>1, FloorInvariant, PTL

(* With the same proviso, and honest hands, the status column says            *)
(* "occupied" of exactly the tables where somebody sits.                      *)
THEOREM StatusTellsSeating == Spec => []TableShowsSession
<1>1. Inv => TableShowsSession
  <2> SUFFICES ASSUME Inv, ~overlap, ~edited, ~doubled, NEW t \in Tables, Quiet(t)
               PROVE  Shows(t)
    BY DEF TableShowsSession, Shows
  <2>1. \A w \in Workers : t \notin Due(req[w])
    BY DueInScope DEF Inv, Orderly, Quiet
  <2>. QED
    BY <2>1 DEF Inv, Orderly, Honest
<1>. QED
  BY <1>1, FloorInvariant, PTL

(* With the same proviso, who has an order to pay still sits at a table.      *)
THEOREM DebtorsAreSeated == Spec => []UnpaidOrderIsSeated
<1>1. Inv => UnpaidOrderIsSeated
  BY DEF Inv, Orderly, Seated, Honest, UnpaidOrderIsSeated
<1>. QED
  BY <1>1, FloorInvariant, PTL
-----------------------------------------------------------------------------
(***************************************************************************)
(* The floor keeps the promise of Seating.                                 *)
(***************************************************************************)
LEMMA SeatsAndBills ==
  ASSUME TypeOK, Rooted
  PROVE  SeatOf \in Seat!Seats /\ BillOf \in Seat!Bills
<1>1. \A s \in Sessions : Active(s) => session[s].table \in Tables
  BY DEF Rooted, Active, Placed, SeatedStatus
<1>2. \A s \in Sessions : Unpaid(s) \subseteq Orders
  BY DEF Unpaid
<1>. QED
  BY <1>1, <1>2 DEF SeatOf, BillOf, Seat!Seats, Seat!Bills

LEMMA SeatsAreTaken ==
  ASSUME TypeOK, Rooted
  PROVE  \A s \in Sessions : /\ SeatOf[s] # NoTable <=> Active(s)
                             /\ Active(s) => SeatOf[s] = session[s].table /\ SeatOf[s] \in Tables
                             /\ BillOf[s] = Unpaid(s)
<1>1. \A s \in Sessions : Active(s) => session[s].table \in Tables
  BY DEF Rooted, Active, Placed, SeatedStatus
<1>. QED
  BY <1>1, ConstantsAssumption DEF SeatOf, BillOf

LEMMA SeatedApart ==
  ASSUME TypeOK, Rooted, \A t \in Tables : One(t)
  PROVE  Seat!Alone
<1>1. ASSUME NEW s \in Sessions, NEW x \in Sessions, SeatOf[s] = SeatOf[x], SeatOf[s] # NoTable
      PROVE  s = x
  <2>1. PICK t \in Tables : t = SeatOf[s]
    BY <1>1, SeatsAreTaken
  <2>2. s \in ActiveAt(t) /\ x \in ActiveAt(t)
    BY <1>1, <2>1, SeatsAreTaken DEF ActiveAt
  <2>. QED
    BY <2>2 DEF One
<1>. QED
  BY <1>1 DEF Seat!Alone

LEMMA SeatStill ==
  ASSUME session' = session, order' = order
  PROVE  SeatOf' = SeatOf /\ BillOf' = BillOf
  BY DEF SeatOf, BillOf, Active, Unpaid

LEMMA SeatFlags ==
  ASSUME overlap' = overlap, edited' = edited, doubled' = doubled
  PROVE  Seat!flags' = Seat!flags
  BY DEF Seat!flags

(* Sessions that are opened, moved and closed. *)
LEMMA SitStep ==
  ASSUME TypeOK, Rooted, Rooted', TypeOK', NEW s \in Sessions, NEW t \in Tables, ActiveAt(t) = {},
         Active(s)', session'[s].table = t, \A x \in Sessions \ {s} : session'[x] = session[x],
         order' = order, Seat!flags' = Seat!flags
  PROVE  Seat!Sit(s, t)
<1>1. \A x \in Sessions : SeatOf[x] # t
  BY SeatsAreTaken, ConstantsAssumption DEF ActiveAt
<1>2. SeatOf' = [SeatOf EXCEPT ![s] = t]
  BY DEF SeatOf, Active
<1>3. BillOf' = BillOf
  BY DEF BillOf, Unpaid
<1>. QED
  BY <1>1, <1>2, <1>3 DEF Seat!Sit

LEMMA LeaveStep ==
  ASSUME TypeOK, Rooted, NEW s \in Sessions, Unpaid(s) = {},
         ~Active(s)', \A x \in Sessions \ {s} : session'[x] = session[x],
         order' = order, Seat!flags' = Seat!flags
  PROVE  Seat!Leave(s)
<1>1. BillOf[s] = {}
  BY SeatsAreTaken
<1>2. SeatOf' = [SeatOf EXCEPT ![s] = NoTable]
  BY DEF SeatOf, Active
<1>3. BillOf' = BillOf
  BY DEF BillOf, Unpaid
<1>. QED
  BY <1>1, <1>2, <1>3 DEF Seat!Leave

(* Orders that are made and that are done. *)
LEMMA OrderStepSeats ==
  ASSUME TypeOK, TypeOK', Rooted, NEW s \in Sessions, NEW o \in Orders, Active(s), Unpaid(s) = {},
         order[o].status = "none", order' = [order EXCEPT ![o] = [status |-> "active", session |-> s]],
         session' = session, Seat!flags' = Seat!flags
  PROVE  Seat!Order(s, o)
<1>1. SeatOf[s] # NoTable /\ BillOf[s] = {}
  BY SeatsAreTaken
<1>2. \A x \in Sessions : o \notin BillOf[x]
  BY DEF BillOf, Unpaid
<1>3. /\ order'[o].status = "active" /\ order'[o].session = s
      /\ \A p \in Orders \ {o} : order'[p] = order[p]
  BY DEF TypeOK
<1>4. \A x \in Sessions : Unpaid(x)' = IF x = s THEN {o} ELSE Unpaid(x)
  BY <1>3 DEF Unpaid
<1>5. BillOf' = [BillOf EXCEPT ![s] = {o}]
  BY <1>4 DEF BillOf
<1>6. SeatOf' = SeatOf
  BY DEF SeatOf, Active
<1>. QED
  BY <1>1, <1>2, <1>5, <1>6 DEF Seat!Order

LEMMA SettleStep ==
  ASSUME TypeOK, Rooted, NEW o \in Orders, order'[o].status = "done",
         order[o].session # NoSession => order[o].status = "active",
         \A p \in Orders \ {o} : order'[p] = order[p],
         session' = session, Seat!flags' = Seat!flags
  PROVE  (\E s \in Sessions : Seat!Settle(s, o)) \/ (SeatOf' = SeatOf /\ BillOf' = BillOf)
<1>1. SeatOf' = SeatOf
  BY DEF SeatOf, Active
<1>2. CASE order[o].session = NoSession
  <2>1. \A x \in Sessions : Unpaid(x)' = Unpaid(x)
    BY <1>2, ConstantsAssumption DEF Unpaid
  <2>. QED
    BY <1>1, <2>1 DEF BillOf
<1>3. CASE order[o].session # NoSession
  <2>1. PICK s \in Sessions : s = order[o].session
    BY <1>3 DEF TypeOK, Order
  <2>2. o \in Unpaid(s)
    BY <1>3, <2>1 DEF Unpaid
  <2>3. \A x \in Sessions : Unpaid(x)' = IF x = s THEN Unpaid(s) \ {o} ELSE Unpaid(x)
    BY <2>1 DEF Unpaid
  <2>4. BillOf' = [BillOf EXCEPT ![s] = BillOf[s] \ {o}]
    BY <2>3 DEF BillOf
  <2>5. o \in BillOf[s]
    BY <2>2 DEF BillOf
  <2>. QED
    BY <1>1, <2>4, <2>5 DEF Seat!Settle
<1>. QED
  BY <1>2, <1>3

(* A merge: one party joins another, and one of them at most has a bill. *)
LEMMA JoinStep ==
  ASSUME TypeOK, Rooted, Orderly, Honest', NEW w \in Workers, CommitMerge(w)
  PROVE  \E s, x \in Sessions : Seat!Join(s, x)
<1>1. PICK k \in Request : k = req[w]
  BY DEF TypeOK
<1>2. /\ k.session \in Sessions /\ k.source \in Sessions
      /\ Active(k.session) /\ Active(k.source) /\ k.session # k.source
  BY <1>1, RequestFields DEF CommitMerge, Orderly, Knows
<1>3. /\ order' = [o \in Orders |-> IF order[o].session = k.source
                                    THEN [order[o] EXCEPT !.session = k.session] ELSE order[o]]
      /\ session' = [session EXCEPT ![k.source].status = "merged"]
      /\ doubled' = (doubled \/ (Unpaid(k.session) # {} /\ Unpaid(k.source) # {}))
      /\ edited' = edited /\ overlap' = overlap
  BY <1>1 DEF CommitMerge
<1>4. Unpaid(k.session) = {} \/ Unpaid(k.source) = {}
  BY <1>3 DEF Honest
<1>5. /\ \A s \in Sessions \ {k.source} : session'[s] = session[s]
      /\ session'[k.source].status = "merged"
  BY <1>2, <1>3 DEF TypeOK, Session
<1>6. /\ \A o \in Orders : order'[o].status = order[o].status
      /\ \A o \in Orders : order[o].session # k.source => order'[o] = order[o]
      /\ \A o \in Orders : order[o].session = k.source => order'[o].session = k.session
  BY <1>3 DEF TypeOK, Order
<1>7. SeatOf' = [SeatOf EXCEPT ![k.source] = NoTable]
  BY <1>2, <1>5 DEF SeatOf, Active, SeatedStatus
<1>8. /\ \A x \in Sessions \ {k.session, k.source} : Unpaid(x)' = Unpaid(x)
      /\ Unpaid(k.session)' = Unpaid(k.session) \union Unpaid(k.source)
      /\ Unpaid(k.source)' = {}
  BY <1>2, <1>6 DEF Unpaid
<1>9. BillOf' = [BillOf EXCEPT ![k.session] = BillOf[k.session] \union BillOf[k.source], ![k.source] = {}]
  BY <1>2, <1>8 DEF BillOf
<1>10. Seat!flags' = Seat!flags
  <2>1. ~doubled'
    BY DEF Honest
  <2>2. ~doubled
    BY <1>3, <2>1
  <2>3. doubled \in BOOLEAN /\ doubled' \in BOOLEAN
    BY <1>3 DEF TypeOK
  <2>4. doubled' = doubled
    BY <2>1, <2>2, <2>3
  <2>. QED
    BY <1>3, <2>4, SeatFlags
<1>11. /\ SeatOf[k.session] # NoTable /\ SeatOf[k.source] # NoTable
       /\ BillOf[k.session] = {} \/ BillOf[k.source] = {}
  BY <1>2, <1>4, SeatsAreTaken
<1>12. Seat!Join(k.session, k.source)
  BY <1>2, <1>7, <1>9, <1>10, <1>11 DEF Seat!Join
<1>. QED
  BY <1>2, <1>12

(* Tables that are deleted take their parties with them, and what these had ordered. *)
LEMMA ClearStep ==
  ASSUME TypeOK, Rooted, Orderly, Honest, NEW w \in Workers, SaveTables(w)
  PROVE  \E gone \in SUBSET Tables : Seat!Clear(gone)
<1>1. PICK k \in Request : k = req[w]
  BY DEF TypeOK
<1>2. PICK lost : lost = {s \in Sessions : Placed(s) /\ k.layout[session[s].table] = "gone"}
  OBVIOUS
<1>3. PICK gone \in SUBSET Tables : gone = {t \in Tables : k.layout[t] = "gone"}
  OBVIOUS
<1>4. /\ session' = [s \in Sessions |-> IF s \in lost THEN [session[s] EXCEPT !.status = "deleted"]
                                        ELSE session[s]]
      /\ order' = [o \in Orders |-> IF order[o].session \in lost
                                    THEN [order[o] EXCEPT !.session = NoSession] ELSE order[o]]
      /\ edited' = edited /\ doubled' = doubled /\ overlap' = overlap
  BY <1>1, <1>2 DEF SaveTables, Finish
<1>5. \A s \in Sessions : /\ s \in lost => session'[s].status = "deleted"
                          /\ s \notin lost => session'[s] = session[s]
  BY <1>4 DEF TypeOK, Session
<1>6. \A o \in Orders : /\ order'[o].status = order[o].status
                        /\ order[o].session \in lost => order'[o].session = NoSession
                        /\ order[o].session \notin lost => order'[o] = order[o]
  BY <1>4 DEF TypeOK, Order
<1>7. \A s \in Sessions : Active(s) => (s \in lost <=> SeatOf[s] \in gone)
  BY <1>2, <1>3, SeatsAreTaken DEF Active, Placed, SeatedStatus
<1>8. \A s \in Sessions : ~Active(s) => SeatOf[s] = NoTable /\ SeatOf[s] \notin gone
  BY <1>3, SeatsAreTaken, ConstantsAssumption
<1>9. \A s \in Sessions : Active(s)' <=> Active(s) /\ s \notin lost
  BY <1>5 DEF Active, SeatedStatus
<1>10. SeatOf' = [s \in Sessions |-> IF SeatOf[s] \in gone THEN NoTable ELSE SeatOf[s]]
  <2>1. ASSUME NEW s \in Sessions
        PROVE  (IF Active(s) THEN session[s].table ELSE NoTable)'
                 = IF SeatOf[s] \in gone THEN NoTable ELSE SeatOf[s]
    <3>1. CASE Active(s) /\ s \notin lost
      BY <1>5, <1>7, <1>9, <3>1, SeatsAreTaken
    <3>2. CASE ~(Active(s) /\ s \notin lost)
      BY <1>7, <1>8, <1>9, <3>2
    <3>. QED
      BY <3>1, <3>2
  <2>. QED
    BY <2>1 DEF SeatOf
<1>11. \A s \in Sessions : Unpaid(s)' = IF SeatOf[s] \in gone THEN {} ELSE Unpaid(s)
  <2>1. ASSUME NEW s \in Sessions, s \in lost
        PROVE  Unpaid(s)' = {}
    BY <1>6, <2>1, ConstantsAssumption DEF Unpaid
  <2>2. ASSUME NEW s \in Sessions, s \notin lost
        PROVE  Unpaid(s)' = Unpaid(s)
    BY <1>6, <2>2, ConstantsAssumption DEF Unpaid
  <2>3. ASSUME NEW s \in Sessions, ~Active(s)
        PROVE  Unpaid(s) = {}
    BY <2>3, ConstantsAssumption DEF Unpaid, Orderly, Seated
  <2>4. ASSUME NEW s \in Sessions
        PROVE  Unpaid(s)' = IF SeatOf[s] \in gone THEN {} ELSE Unpaid(s)
    <3>1. CASE Active(s)
      BY <1>7, <2>1, <2>2, <3>1
    <3>2. CASE ~Active(s)
      BY <1>8, <2>1, <2>2, <2>3, <3>2
    <3>. QED
      BY <3>1, <3>2
  <2>. QED
    BY <2>4
<1>12. BillOf' = [s \in Sessions |-> IF SeatOf[s] \in gone THEN {} ELSE BillOf[s]]
  BY <1>11 DEF BillOf
<1>13. Seat!flags' = Seat!flags
  BY <1>4, SeatFlags
<1>14. Seat!Clear(gone)
  BY <1>10, <1>12, <1>13 DEF Seat!Clear
<1>. QED
  BY <1>14

(* What is careless stays so. *)
LEMMA StaysHonest ==
  ASSUME TypeOK, [Next]_vars, Honest'
  PROVE  Honest
<1>1. ASSUME NEW w \in Workers, SessionStep(w)
      PROVE  Honest
  <2>1. edited' = edited
    BY <1>1 DEF SessionStep, ReadForOpen, ReadForReserve, CreateSession, OccupyTable, Reserve, ReadForMove,
                MoveSession, LeaveTable, TakeTable, ReadForMerge, CommitMerge, Continue, Finish
  <2>2. CASE CommitMerge(w)
    <3>1. PICK both : doubled' = (doubled \/ both)
      BY <2>2 DEF CommitMerge
    <3>. QED
      BY <2>1, <3>1 DEF Honest
  <2>3. CASE ~CommitMerge(w)
    <3>1. doubled' = doubled
      BY <1>1, <2>3 DEF SessionStep, ReadForOpen, ReadForReserve, CreateSession, OccupyTable, Reserve, ReadForMove,
                        MoveSession, LeaveTable, TakeTable, ReadForMerge, Continue, Finish
    <3>. QED
      BY <2>1, <3>1 DEF Honest
  <2>. QED
    BY <2>2, <2>3
<1>2. ASSUME NEW w \in Workers, OrderStep(w)
      PROVE  Honest
  <2>1. edited' = edited /\ doubled' = doubled
    BY <1>2 DEF OrderStep, ReadForOrder, CreateOrder, ReadForCancel, ReadForPayment, Cancel, PaymentFails,
                CloseOrder, CloseSession, FreeTable, Continue, Finish
  <2>. QED
    BY <2>1 DEF Honest
<1>3. ASSUME NEW w \in Workers, EditStep(w) \/ Fail(w)
      PROVE  Honest
  <2>1. doubled' = doubled
    BY <1>3 DEF EditStep, Fail, ReadForEdit, SaveEdit, ReadForm, ReadLayout, SaveTables, Continue, Finish
  <2>2. (\E by : edited' = (edited \/ by)) \/ edited' = TRUE \/ edited' = edited
    BY <1>3 DEF EditStep, Fail, ReadForEdit, SaveEdit, ReadForm, ReadLayout, SaveTables, Continue, Finish
  <2>3. ~edited' /\ ~doubled'
    BY DEF Honest
  <2>4. ~doubled
    BY <2>1, <2>3
  <2>5. ~edited
    <3>1. CASE \E by : edited' = (edited \/ by)
      <4>1. PICK by : edited' = (edited \/ by)
        BY <3>1
      <4>. QED
        BY <2>3, <4>1
    <3>2. CASE edited' = TRUE \/ edited' = edited
      BY <2>3, <3>2
    <3>. QED
      BY <2>2, <3>1, <3>2
  <2>. QED
    BY <2>4, <2>5 DEF Honest
<1>4. CASE UNCHANGED vars
  BY <1>4 DEF vars, Honest
<1>. QED
  BY <1>1, <1>2, <1>3, <1>4 DEF Next

(* A step while nothing has gone wrong. *)
SeatStutter == SeatOf' = SeatOf /\ BillOf' = BillOf /\ Seat!flags' = Seat!flags

LEMMA ProperStep ==
  ASSUME Inv, Inv', [Next]_vars, ~overlap', Honest'
  PROVE  Seat!Next \/ SeatStutter
<1>1. TypeOK /\ Rooted /\ Orderly /\ ~overlap /\ Honest /\ TypeOK' /\ Rooted'
  BY Overlapped, StaysHonest DEF Inv
<1>2. overlap' = overlap /\ edited' = edited /\ doubled' = doubled
  BY <1>1 DEF Honest, TypeOK
<1>3. Seat!flags' = Seat!flags
  BY <1>2, SeatFlags
<1>4. ASSUME NEW w \in Workers, NEW s \in Sessions, CreateSession(w, s)
      PROVE  Seat!Next
  <2>1. PICK k \in Request : k = req[w]
    BY <1>1 DEF TypeOK
  <2>2. k.table \in Tables /\ ActiveAt(k.table) = {}
    BY <1>1, <1>4, <2>1, RequestFields DEF CreateSession, Orderly, Knows
  <2>3. /\ session' = [session EXCEPT ![s] = [status |-> "open", table |-> k.table]]
        /\ order' = order
    BY <1>4, <2>1 DEF CreateSession
  <2>4. /\ Active(s)' /\ session'[s].table = k.table
        /\ \A x \in Sessions \ {s} : session'[x] = session[x]
    BY <1>1, <2>3 DEF TypeOK, Active, SeatedStatus
  <2>5. Seat!Sit(s, k.table)
    BY <1>1, <1>3, <2>2, <2>3, <2>4, SitStep
  <2>. QED
    BY <2>2, <2>5 DEF Seat!Next
<1>5. ASSUME NEW w \in Workers, MoveSession(w)
      PROVE  Seat!Next
  <2>1. PICK k \in Request : k = req[w]
    BY <1>1 DEF TypeOK
  <2>2. k.session \in Sessions /\ k.to \in Tables /\ ActiveAt(k.to) = {} /\ Active(k.session)
    BY <1>1, <1>5, <2>1, RequestFields DEF MoveSession, Orderly, Knows
  <2>3. session' = [session EXCEPT ![k.session].table = k.to] /\ order' = order
    BY <1>5, <2>1 DEF MoveSession
  <2>4. /\ Active(k.session)' /\ session'[k.session].table = k.to
        /\ \A x \in Sessions \ {k.session} : session'[x] = session[x]
    BY <1>1, <2>2, <2>3 DEF TypeOK, Session, Active
  <2>5. Seat!Sit(k.session, k.to)
    BY <1>1, <1>3, <2>2, <2>3, <2>4, SitStep
  <2>. QED
    BY <2>2, <2>5 DEF Seat!Next
<1>6. ASSUME NEW w \in Workers, CommitMerge(w)
      PROVE  Seat!Next
  BY <1>1, <1>6, JoinStep DEF Seat!Next
<1>7. ASSUME NEW w \in Workers, NEW o \in Orders, CreateOrder(w, o)
      PROVE  Seat!Next
  <2>1. PICK k \in Request : k = req[w]
    BY <1>1 DEF TypeOK
  <2>2. k.session \in Sessions /\ Active(k.session) /\ Unpaid(k.session) = {}
    BY <1>1, <1>7, <2>1, RequestFields DEF CreateOrder, Orderly, Knows
  <2>3. /\ order[o].status = "none" /\ session' = session
        /\ order' = [order EXCEPT ![o] = [status |-> "active", session |-> k.session]]
    BY <1>7, <2>1 DEF CreateOrder
  <2>4. Seat!Order(k.session, o)
    BY <1>1, <1>3, <2>2, <2>3, OrderStepSeats
  <2>. QED
    BY <2>2, <2>4 DEF Seat!Next
<1>8. ASSUME NEW w \in Workers, Cancel(w) \/ CloseOrder(w)
      PROVE  Seat!Next \/ SeatStutter
  <2>1. PICK k \in Request : k = req[w]
    BY <1>1 DEF TypeOK
  <2>2. PICK o \in Orders : o = k.order
    BY <1>8, <2>1, RequestFields DEF Cancel, CloseOrder
  <2>3. order[o].session # NoSession => order[o].status = "active"
    BY <1>1, <1>8, <2>1, <2>2 DEF Cancel, CloseOrder, Orderly, Knows
  <2>4. order'[o].status = "done" /\ session' = session /\ \A p \in Orders \ {o} : order'[p] = order[p]
    <3>1. CASE Cancel(w)
      BY <1>1, <2>1, <2>2, <3>1 DEF Cancel, TypeOK
    <3>2. CASE CloseOrder(w)
      BY <1>1, <2>1, <2>2, <3>2 DEF CloseOrder, TypeOK, Order
    <3>. QED
      BY <1>8, <3>1, <3>2
  <2>5. (\E s \in Sessions : Seat!Settle(s, o)) \/ (SeatOf' = SeatOf /\ BillOf' = BillOf)
    BY <1>1, <1>3, <2>3, <2>4, SettleStep
  <2>. QED
    BY <1>3, <2>5 DEF Seat!Next, SeatStutter
<1>9. ASSUME NEW w \in Workers, CloseSession(w)
      PROVE  Seat!Next
  <2>1. PICK k \in Request : k = req[w]
    BY <1>1 DEF TypeOK
  <2>2. k.session \in Sessions /\ Unpaid(k.session) = {}
    BY <1>1, <1>9, <2>1, RequestFields DEF CloseSession, Orderly, Knows
  <2>3. session' = [session EXCEPT ![k.session].status = "closed"] /\ order' = order
    BY <1>9, <2>1 DEF CloseSession
  <2>4. ~Active(k.session)' /\ \A x \in Sessions \ {k.session} : session'[x] = session[x]
    BY <1>1, <2>2, <2>3 DEF TypeOK, Session, Active, SeatedStatus
  <2>5. Seat!Leave(k.session)
    BY <1>1, <1>3, <2>2, <2>3, <2>4, LeaveStep
  <2>. QED
    BY <2>2, <2>5 DEF Seat!Next
<1>10. ASSUME NEW w \in Workers, SaveTables(w)
       PROVE  Seat!Next
  BY <1>1, <1>10, ClearStep DEF Seat!Next
<1>11. ASSUME NEW w \in Workers, SaveEdit(w)
       PROVE  FALSE
  BY <1>11 DEF SaveEdit, Honest
<1>12. ASSUME session' = session, order' = order
       PROVE  SeatStutter
  BY <1>3, <1>12, SeatStill DEF SeatStutter
<1>13. ASSUME NEW w \in Workers, SessionStep(w)
       PROVE  Seat!Next \/ SeatStutter
  <2>1. \/ \E s \in Sessions : CreateSession(w, s)
        \/ MoveSession(w) \/ CommitMerge(w)
        \/ session' = session /\ order' = order
    BY <1>13 DEF SessionStep, ReadForOpen, ReadForReserve, OccupyTable, Reserve, ReadForMove,
                 LeaveTable, TakeTable, ReadForMerge, rows
  <2>. QED
    BY <1>4, <1>5, <1>6, <1>12, <2>1
<1>14. ASSUME NEW w \in Workers, OrderStep(w)
       PROVE  Seat!Next \/ SeatStutter
  <2>1. \/ \E o \in Orders : CreateOrder(w, o)
        \/ Cancel(w) \/ CloseOrder(w) \/ CloseSession(w)
        \/ session' = session /\ order' = order
    BY <1>14 DEF OrderStep, ReadForOrder, ReadForCancel, ReadForPayment, PaymentFails, FreeTable, rows
  <2>. QED
    BY <1>7, <1>8, <1>9, <1>12, <2>1
<1>15. ASSUME NEW w \in Workers, EditStep(w) \/ Fail(w)
       PROVE  Seat!Next \/ SeatStutter
  <2>1. SaveEdit(w) \/ SaveTables(w) \/ (session' = session /\ order' = order)
    BY <1>15 DEF EditStep, Fail, ReadForEdit, ReadForm, ReadLayout, rows
  <2>. QED
    BY <1>10, <1>11, <1>12, <2>1
<1>16. CASE UNCHANGED vars
  BY <1>12, <1>16 DEF vars
<1>. QED
  BY <1>13, <1>14, <1>15, <1>16 DEF Next

(* Who has been seated has its table to itself, and keeps it until it has     *)
(* paid, on a floor of any size: each save of TableSession, DiningTable and   *)
(* Order is a step of Seating, until requests overlap or rows are written by  *)
(* hand.                                                                      *)
THEOREM KeepsSeating == Spec => IsSeating
<1>1. Init => Seat!Init
  <2> SUFFICES ASSUME Init
               PROVE  Seat!Init
    OBVIOUS
  <2>1. \A s \in Sessions : ~Active(s) /\ Unpaid(s) = {}
    BY DEF Init, Active, SeatedStatus, Unpaid
  <2>2. SeatOf = [s \in Sessions |-> NoTable] /\ BillOf = [s \in Sessions |-> {}]
    BY <2>1 DEF SeatOf, BillOf
  <2>3. overlap = FALSE /\ (edited \/ doubled) = FALSE
    BY DEF Init
  <2>. QED
    BY <2>2, <2>3 DEF Seat!Init
<1>2. Inv /\ Inv' /\ [Next]_vars => [Seat!Next]_<<SeatOf, BillOf, overlap, edited \/ doubled>>
  <2> SUFFICES ASSUME Inv, Inv', [Next]_vars
               PROVE  Seat!Next \/ SeatStutter
    BY DEF SeatStutter, Seat!flags
  <2>1. SeatOf' \in Seat!Seats /\ BillOf' \in Seat!Bills
    <3>1. TypeOK' /\ Rooted'
      BY DEF Inv
    <3>2. (SeatOf \in Seat!Seats /\ BillOf \in Seat!Bills)'
      BY <3>1, SeatsAndBills, PTL
    <3>. QED
      BY <3>2 DEF Seat!Seats, Seat!Bills
  <2>2. overlap' \in BOOLEAN /\ edited' \in BOOLEAN /\ doubled' \in BOOLEAN /\ overlap \in BOOLEAN
    BY DEF Inv, TypeOK
  <2>3. CASE overlap'
    <3>1. overlap' = TRUE /\ (edited \/ doubled)' \in BOOLEAN
      BY <2>2, <2>3
    <3>2. Seat!Race
      BY <2>1, <3>1 DEF Seat!Race, Seat!Seats, Seat!Bills
    <3>. QED
      BY <3>2 DEF Seat!Next
  <2>4. CASE ~overlap' /\ ~Honest'
    <3>1. overlap' = overlap
      BY <2>2, <2>4, Overlapped
    <3>2. (edited \/ doubled)' = TRUE
      BY <2>4 DEF Honest
    <3>3. Seat!Alone'
      <4>1. TypeOK' /\ Rooted' /\ (\A t \in Tables : One(t))'
        BY <2>4 DEF Inv, Orderly
      <4>. QED
        BY <4>1, SeatedApart, PTL
    <3>4. Seat!BeCareless
      BY <2>1, <3>1, <3>2, <3>3 DEF Seat!BeCareless, Seat!Seats, Seat!Bills
    <3>. QED
      BY <3>4 DEF Seat!Next
  <2>. QED
    BY <2>3, <2>4, ProperStep
<1>. QED
  BY <1>1, <1>2, FloorInvariant, PTL DEF Spec, IsSeating, Seat!Spec
=============================================================================
