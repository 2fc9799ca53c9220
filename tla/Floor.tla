-------------------------------- MODULE Floor --------------------------------
(***************************************************************************)
(* The floor of a restaurant: dining tables, the sessions of the guests    *)
(* seated at them, and the orders of the sessions (module OrderLifecycle   *)
(* has one order in detail).  A session is opened, moved to another table, *)
(* merged into another session, and closed by the payment of its order; a  *)
(* table's status is a column of its own that every handler writes beside. *)
(*                                                                         *)
(* A handler reads in one step and writes in the following ones, one per   *)
(* save unless it runs in a transaction.                                   *)
(***************************************************************************)
CONSTANTS
  Workers,    \* server processes that serve requests
  Tables,     \* dining table rows of a hall
  Sessions,   \* table session rows
  Orders,     \* order rows
  NoTable,    \* the table of a session row that was never inserted
  NoSession,  \* the session of an order that has none
  FormStatus, \* bound: the statuses that somebody puts into a table's form,
  EditStatus, \* and into a session
  AfterOverlap \* bound: whether requests are begun once two have overlapped,
              \* which ends what the properties claim

SeatedStatus == {"open", "pending_payment"}

TableStatus == {"none", "available", "occupied", "reserved", "blocked", "gone"}

ASSUME ConstantsAssumption ==
  /\ NoTable \notin Tables /\ NoSession \notin Sessions
  /\ FormStatus \subseteq TableStatus \ {"none", "gone"}
  /\ EditStatus \subseteq SeatedStatus \union {"closed", "merged"}
  /\ AfterOverlap \in BOOLEAN

Session == [status : SeatedStatus \union {"none", "closed", "merged", "deleted"},
            table  : Tables \union {NoTable}]

Order == [status : {"none", "active", "done"}, session : Sessions \union {NoSession}]

VARIABLES
  table,     \* status of each table, "none" before and "gone" after its row exists
  session,   \* the session rows
  order,     \* the order rows, and the session each belongs to
  req,       \* the request each worker is serving
  overlap,   \* history: two requests that concern one table have overlapped
  edited,    \* history: a status, or a session's table, was put in by hand
  doubled    \* history: two sessions with an unpaid order each were merged

vars == <<table, session, order, req, overlap, edited, doubled>>

\* A request that is not idle has as "scope" the tables that it concerns.
Idle == [pc |-> "idle", scope |-> {}]

Request ==
  {Idle}
    \union [pc : {"createSession", "occupy", "reserve"}, table : Tables, scope : SUBSET Tables]
    \union [pc : {"moveSession", "leaveTable", "takeTable"}, session : Sessions,
            from : Tables, to : Tables, scope : SUBSET Tables]
    \union [pc : {"merge"}, session : Sessions, source : Sessions, from : Tables, scope : SUBSET Tables]
    \union [pc : {"createOrder"}, session : Sessions, scope : SUBSET Tables]
    \union [pc : {"closeOrder", "closeSession", "freeTable"}, order : Orders,
            session : Sessions \union {NoSession}, table : Tables \union {NoTable}, scope : SUBSET Tables]
    \union [pc : {"cancel"}, order : Orders, session : Sessions \union {NoSession}, scope : SUBSET Tables]
    \union [pc : {"editSession"}, session : Sessions, table : Tables,
            status : EditStatus, scope : SUBSET Tables]
    \union [pc : {"saveTables"}, layout : [Tables -> TableStatus \union {"new"}], scope : SUBSET Tables]

TypeOK ==
  /\ table \in [Tables -> TableStatus]
  /\ session \in [Sessions -> Session]
  /\ order \in [Orders -> Order]
  /\ req \in [Workers -> Request]
  /\ overlap \in BOOLEAN /\ edited \in BOOLEAN /\ doubled \in BOOLEAN

Init ==
  /\ table \in [Tables -> {"none", "available"}]
  /\ session = [s \in Sessions |-> [status |-> "none", table |-> NoTable]]
  /\ order = [o \in Orders |-> [status |-> "none", session |-> NoSession]]
  /\ req = [w \in Workers |-> Idle]
  /\ overlap = FALSE /\ edited = FALSE /\ doubled = FALSE

-----------------------------------------------------------------------------
Exists(t) == table[t] \notin {"none", "gone"}
Placed(s) == session[s].status \notin {"none", "deleted"}
Active(s) == session[s].status \in SeatedStatus

ActiveAt(t) == {s \in Sessions : Active(s) /\ session[s].table = t}
Unpaid(s)   == {o \in Orders : order[o].status = "active" /\ order[o].session = s}

TableOf(s) == IF s \in Sessions THEN session[s].table ELSE NoTable

Serve(w, r) ==
  /\ req[w] = Idle
  /\ overlap => AfterOverlap
  /\ req' = [req EXCEPT ![w] = r]
  /\ overlap' = (overlap \/ \E v \in Workers \ {w} : req[v].scope \intersect r.scope # {})

Continue(w, pc) == req' = [req EXCEPT ![w].pc = pc] /\ UNCHANGED <<overlap, edited, doubled>>
Finish(w)       == req' = [req EXCEPT ![w] = Idle]  /\ UNCHANGED <<overlap, edited, doubled>>

rows == <<table, session, order>>

-----------------------------------------------------------------------------
(***************************************************************************)
(* Opening a session: TableSessionSerializer validates, perform_create     *)
(* inserts the row and then occupies the table, whatever its status was.   *)
(***************************************************************************)
\* Mutant: a session that waits for its payment does not hold the table.
FreeOfOpen(t, s) == \A x \in Sessions \ {s} : ~ (session[x].status = "open" /\ session[x].table = t)

\* validate: no session but s itself is active at the table.
FreeFor(t, s) == ActiveAt(t) \ {s} = {}

ReadForOpen(w, t) ==
  /\ Exists(t)
  /\ FreeFor(t, NoSession)
  /\ Serve(w, [pc |-> "createSession", table |-> t, scope |-> {t}])
  /\ UNCHANGED <<rows, edited, doubled>>

CreateSession(w, s) ==
  /\ req[w].pc = "createSession"
  /\ Exists(req[w].table)
  /\ session[s].status = "none"
  /\ session' = [session EXCEPT ![s] = [status |-> "open", table |-> req[w].table]]
  /\ Continue(w, "occupy")
  /\ UNCHANGED <<table, order>>

OccupyTable(w) ==
  /\ req[w].pc = "occupy"
  /\ Exists(req[w].table)
  /\ table' = [table EXCEPT ![req[w].table] = "occupied"]
  /\ Finish(w)
  /\ UNCHANGED <<session, order>>

(***************************************************************************)
(* Moving a session: three saves.                                          *)
(***************************************************************************)
ReadForMove(w, s, t) ==
  /\ Active(s)
  /\ Exists(t)
  /\ ActiveAt(t) = {}
  /\ Serve(w, [pc |-> "moveSession", session |-> s, from |-> session[s].table, to |-> t,
               scope |-> {session[s].table, t}])
  /\ UNCHANGED <<rows, edited, doubled>>

\* The session's status is not among the fields that are written.
MoveSession(w) ==
  /\ req[w].pc = "moveSession"
  /\ Placed(req[w].session) /\ Exists(req[w].to)
  /\ session' = [session EXCEPT ![req[w].session].table = req[w].to]
  /\ Continue(w, "leaveTable")
  /\ UNCHANGED <<table, order>>

\* Mutant: the table the session leaves is forgotten.
LeaveTableUntouched(w) ==
  /\ req[w].pc = "leaveTable"
  /\ Exists(req[w].from)
  /\ Continue(w, "takeTable")
  /\ UNCHANGED rows

LeaveTable(w) ==
  /\ req[w].pc = "leaveTable"
  /\ Exists(req[w].from)
  /\ table' = [table EXCEPT ![req[w].from] = "available"]
  /\ Continue(w, "takeTable")
  /\ UNCHANGED <<session, order>>

TakeTable(w) ==
  /\ req[w].pc = "takeTable"
  /\ Exists(req[w].to)
  /\ table' = [table EXCEPT ![req[w].to] = "occupied"]
  /\ Finish(w)
  /\ UNCHANGED <<session, order>>

(***************************************************************************)
(* Merging a session into another, in a transaction.                       *)
(***************************************************************************)
ReadForMerge(w, target, source) ==
  /\ Active(target) /\ Active(source)
  /\ target # source
  /\ Serve(w, [pc |-> "merge", session |-> target, source |-> source, from |-> session[source].table,
               scope |-> {session[target].table, session[source].table}])
  /\ UNCHANGED <<rows, edited, doubled>>

\* Mutant: the orders stay with the session that is merged.
CommitMergeWithoutOrders(w) ==
  /\ req[w].pc = "merge"
  /\ LET r == req[w]
     IN  /\ Placed(r.session) /\ Placed(r.source) /\ Exists(r.from)
         /\ session' = [session EXCEPT ![r.source].status = "merged"]
         /\ table' = [table EXCEPT ![r.from] = "available"]
         /\ doubled' = (doubled \/ (Unpaid(r.session) # {} /\ Unpaid(r.source) # {}))
  /\ req' = [req EXCEPT ![w] = Idle]
  /\ UNCHANGED <<order, overlap, edited>>

\* The table that is freed is the one the session's row had when it was read.
CommitMerge(w) ==
  /\ req[w].pc = "merge"
  /\ LET r == req[w]
     IN  /\ Placed(r.session) /\ Placed(r.source) /\ Exists(r.from)
         /\ order' = [o \in Orders |-> IF order[o].session = r.source
                                       THEN [order[o] EXCEPT !.session = r.session] ELSE order[o]]
         /\ session' = [session EXCEPT ![r.source].status = "merged"]
         /\ table' = [table EXCEPT ![r.from] = "available"]
         /\ doubled' = (doubled \/ (Unpaid(r.session) # {} /\ Unpaid(r.source) # {}))
  /\ req' = [req EXCEPT ![w] = Idle]
  /\ UNCHANGED <<overlap, edited>>

(***************************************************************************)
(* Reserving a table.                                                      *)
(***************************************************************************)
ReadForReserve(w, t) ==
  /\ table[t] = "available"
  /\ Serve(w, [pc |-> "reserve", table |-> t, scope |-> {t}])
  /\ UNCHANGED <<rows, edited, doubled>>

Reserve(w) ==
  /\ req[w].pc = "reserve"
  /\ Exists(req[w].table)
  /\ table' = [table EXCEPT ![req[w].table] = "reserved"]
  /\ Finish(w)
  /\ UNCHANGED <<session, order>>

(***************************************************************************)
(* The orders of a session: created, cancelled, and paid for.              *)
(***************************************************************************)
\* Mutant: a session may have several orders to pay.
AcceptsAnyOrder(s) == Active(s)

\* ensure_session_accepts_new_order
AcceptsNewOrder(s) == Active(s) /\ Unpaid(s) = {}

ReadForOrder(w, s) ==
  /\ AcceptsNewOrder(s)
  /\ Serve(w, [pc |-> "createOrder", session |-> s, scope |-> {session[s].table}])
  /\ UNCHANGED <<rows, edited, doubled>>

CreateOrder(w, o) ==
  /\ req[w].pc = "createOrder"
  /\ Placed(req[w].session)
  /\ order[o].status = "none"
  /\ order' = [order EXCEPT ![o] = [status |-> "active", session |-> req[w].session]]
  /\ Finish(w)
  /\ UNCHANGED <<table, session>>

\* A PATCH that cancels the order saves the whole row, the session as it was
\* read included; the session stays open.
ReadForCancel(w, o) ==
  /\ order[o].status = "active"
  /\ Serve(w, [pc |-> "cancel", order |-> o, session |-> order[o].session,
               scope |-> {TableOf(order[o].session)} \ {NoTable}])
  /\ UNCHANGED <<rows, edited, doubled>>

Cancel(w) ==
  /\ req[w].pc = "cancel"
  /\ req[w].session # NoSession => Placed(req[w].session)
  /\ order' = [order EXCEPT ![req[w].order] = [status |-> "done", session |-> req[w].session]]
  /\ Finish(w)
  /\ UNCHANGED <<table, session>>

\* A payment loads the order together with its session and table, and writes
\* to them when it has succeeded, minutes later for a card.
ReadForPayment(w, o) ==
  /\ order[o].status = "active"
  /\ LET s == order[o].session
     IN  Serve(w, [pc |-> "closeOrder", order |-> o, session |-> s, table |-> TableOf(s),
                   scope |-> {TableOf(s)} \ {NoTable}])
  /\ UNCHANGED <<rows, edited, doubled>>

PaymentFails(w) ==
  /\ req[w].pc = "closeOrder"
  /\ Finish(w)
  /\ UNCHANGED rows

CloseOrder(w) ==
  /\ req[w].pc = "closeOrder"
  /\ order' = [order EXCEPT ![req[w].order].status = "done"]
  /\ IF req[w].session = NoSession THEN Finish(w) ELSE Continue(w, "closeSession")
  /\ UNCHANGED <<table, session>>

CloseSession(w) ==
  /\ req[w].pc = "closeSession"
  /\ Placed(req[w].session)
  /\ session' = [session EXCEPT ![req[w].session].status = "closed"]
  /\ Continue(w, "freeTable")
  /\ UNCHANGED <<table, order>>

FreeTable(w) ==
  /\ req[w].pc = "freeTable"
  /\ Exists(req[w].table)
  /\ table' = [table EXCEPT ![req[w].table] = "available"]
  /\ Finish(w)
  /\ UNCHANGED <<session, order>>

(***************************************************************************)
(* Rows edited by hand, and the hall constructor.  All save whole rows.    *)
(***************************************************************************)
ReadForEdit(w, s, st, t) ==
  /\ Placed(s)
  /\ Exists(t)
  /\ FreeFor(t, s)
  /\ Serve(w, [pc |-> "editSession", session |-> s, status |-> st, table |-> t,
               scope |-> {session[s].table, t}])
  /\ UNCHANGED <<rows, edited, doubled>>

SaveEdit(w) ==
  /\ req[w].pc = "editSession"
  /\ Exists(req[w].table)
  /\ session' = [session EXCEPT ![req[w].session] = [status |-> req[w].status, table |-> req[w].table]]
  /\ req' = [req EXCEPT ![w] = Idle]
  /\ edited' = TRUE
  /\ UNCHANGED <<table, order, overlap, doubled>>

\* A table's form may set any status, and saves what else it has loaded.
ReadForm(w, t, st) ==
  /\ Exists(t)
  /\ Serve(w, [pc |-> "saveTables", scope |-> {t},
               layout |-> [x \in Tables |-> IF x = t THEN st ELSE "none"]])
  /\ edited' = (edited \/ st # table[t])
  /\ UNCHANGED <<rows, doubled>>

\* The constructor works on the rows that were prefetched with the hall: its
\* payload names all of them, some to be deleted, and may add tables.  A layout
\* has what is to become of each row, "none" for a row that is left alone.
ReadLayout(w, deleted, added) ==
  /\ \A t \in deleted : Exists(t)
  /\ \A t \in added : table[t] = "none"
  /\ Serve(w, [pc |-> "saveTables", scope |-> Tables,
               layout |-> [t \in Tables |-> IF t \in deleted THEN "gone"
                                            ELSE IF t \in added THEN "new"
                                            ELSE IF Exists(t) THEN table[t] ELSE "none"]])
  /\ UNCHANGED <<rows, edited, doubled>>

Added(layout) == {t \in Tables : layout[t] = "new"}

\* A row that is saved whole is inserted again if it is gone; an added row fails
\* if its number is taken.  A deleted table takes its sessions with it, and their
\* orders lose them.
SaveTables(w) ==
  /\ req[w].pc = "saveTables"
  /\ LET r == req[w]
         lost == {s \in Sessions : Placed(s) /\ r.layout[session[s].table] = "gone"}
     IN  /\ Added(r.layout) \intersect {t \in Tables : Exists(t)} = {}
         /\ table' = [t \in Tables |-> CASE r.layout[t] = "none" -> table[t]
                                         [] r.layout[t] = "new"  -> "available"
                                         [] OTHER                -> r.layout[t]]
         /\ session' = [s \in Sessions |-> IF s \in lost THEN [session[s] EXCEPT !.status = "deleted"]
                                           ELSE session[s]]
         /\ order' = [o \in Orders |-> IF order[o].session \in lost
                                       THEN [order[o] EXCEPT !.session = NoSession] ELSE order[o]]
  /\ Finish(w)

\* A save of a row that is gone, or that refers to one, is an error.
NeededTables(r) ==
  CASE r.pc \in {"createSession", "occupy", "reserve", "freeTable", "editSession"} -> {r.table}
    [] r.pc \in {"moveSession", "takeTable"} -> {r.to}
    [] r.pc \in {"leaveTable", "merge"} -> {r.from}
    [] OTHER -> {}

NeededSessions(r) ==
  CASE r.pc \in {"moveSession", "createOrder", "closeSession"} -> {r.session}
    [] r.pc = "merge" -> {r.session, r.source}
    [] r.pc = "cancel" -> {r.session} \ {NoSession}
    [] OTHER -> {}

Fail(w) ==
  /\ \/ \E t \in NeededTables(req[w]) : ~ Exists(t)
     \/ \E s \in NeededSessions(req[w]) : ~ Placed(s)
     \/ req[w].pc = "saveTables" /\ \E t \in Added(req[w].layout) : Exists(t)
  /\ Finish(w)
  /\ UNCHANGED rows

-----------------------------------------------------------------------------
SessionStep(w) ==
  \/ \E t \in Tables : ReadForOpen(w, t) \/ ReadForReserve(w, t)
  \/ \E s \in Sessions : CreateSession(w, s)
  \/ OccupyTable(w) \/ Reserve(w)
  \/ \E s \in Sessions, t \in Tables : ReadForMove(w, s, t)
  \/ MoveSession(w) \/ LeaveTable(w) \/ TakeTable(w)
  \/ \E target, source \in Sessions : ReadForMerge(w, target, source)
  \/ CommitMerge(w)

OrderStep(w) ==
  \/ \E s \in Sessions : ReadForOrder(w, s)
  \/ \E o \in Orders : CreateOrder(w, o) \/ ReadForCancel(w, o) \/ ReadForPayment(w, o)
  \/ Cancel(w) \/ PaymentFails(w) \/ CloseOrder(w) \/ CloseSession(w) \/ FreeTable(w)

EditStep(w) ==
  \/ \E s \in Sessions, st \in EditStatus, t \in Tables : ReadForEdit(w, s, st, t)
  \/ SaveEdit(w)
  \/ \E t \in Tables, st \in FormStatus : ReadForm(w, t, st)
  \/ \E deleted, added \in SUBSET Tables : ReadLayout(w, deleted, added)
  \/ SaveTables(w)

Next == \E w \in Workers : SessionStep(w) \/ OrderStep(w) \/ EditStep(w) \/ Fail(w)

Spec == Init /\ [][Next]_vars

-----------------------------------------------------------------------------
Quiet(t) == \A w \in Workers : t \notin req[w].scope

\* No two parties are seated at one table, as long as requests that concern
\* the same table do not overlap: opening, moving and editing a session each
\* check it, merging and the constructor cannot break it ("This table already
\* has an active session.").  Overlapping requests do break it: the check and
\* the write are apart, and no constraint backs the check.
OneSessionPerTable ==
  ~overlap => \A t \in Tables : \A x, y \in ActiveAt(t) : x = y

\* The status column says "occupied" of exactly the tables where somebody
\* sits, whatever was opened, moved, merged, paid, reserved or laid out, unless
\* somebody wrote a status by hand, requests for one table overlapped, or two
\* sessions that had an unpaid order each were merged.
TableShowsSession ==
  ~overlap /\ ~edited /\ ~doubled =>
    \A t \in Tables : Quiet(t) => (table[t] = "occupied" <=> ActiveAt(t) # {})

\* An order that is still to be paid belongs to guests who still sit there: no
\* payment, merge or deletion of a table closes the session under it, at any
\* step of the request that does, with the same exceptions.
UnpaidOrderIsSeated ==
  ~overlap /\ ~edited /\ ~doubled =>
    \A o \in Orders : LET s == order[o].session
                      IN  order[o].status = "active" /\ s # NoSession => Active(s)

\* The table each party sits at, and what it has still to pay.
SeatOf == [s \in Sessions |-> IF Active(s) THEN session[s].table ELSE NoTable]
BillOf == [s \in Sessions |-> Unpaid(s)]

Seat == INSTANCE Seating WITH at <- SeatOf, bill <- BillOf, raced <- overlap, careless <- edited \/ doubled

\* The floor keeps the promise of Seating, each save being one of its steps: who
\* has been seated has its table until it has paid, whatever is opened, moved,
\* merged, paid, cancelled or laid out, as far as the same exceptions allow.
IsSeating == Seat!Spec
=============================================================================
