---------------------------- MODULE OrderNumbers ----------------------------
(***************************************************************************)
(* The numbers of a restaurant's orders: the counter on the restaurant's   *)
(* row, the transactions that create orders, and the admin requests that   *)
(* save the whole row again.                                               *)
(*                                                                         *)
(* A creation is one transaction.  What it writes is seen by others when   *)
(* it commits, and it holds the row's lock from SELECT ... FOR UPDATE to   *)
(* its end; an UPDATE of the row waits for the lock too.                   *)
(***************************************************************************)
EXTENDS Naturals, FiniteSets

CONSTANTS
  Creators,   \* requests for a new order, each sent again when it fails
  Editors,    \* admin sessions that change the restaurant's settings
  Nobody

ASSUME CreatorsAssumption == IsFiniteSet(Creators) /\ Nobody \notin Creators

VARIABLES
  last,    \* restaurant.last_order_number, as committed
  number,  \* the order number of each request's order, 0 when it has none
  pc,      \* where each creation is
  taken,   \* the number a running creation has got
  lock,    \* the creation that holds the row's lock
  copy,    \* the counter in the row an editor has loaded, when it has loaded one
  restored \* history: an editor has put the counter back to an earlier value

numbersVars == <<last, number, pc, taken, lock, copy, restored>>

NoCopy == [loaded |-> FALSE, last |-> 0]

NumbersTypeOK ==
  /\ last \in Nat
  /\ number \in [Creators -> Nat]
  /\ pc \in [Creators -> {"asked", "numbered", "made", "failed"}]
  /\ taken \in [Creators -> Nat]
  /\ lock \in Creators \union {Nobody}
  /\ copy \in [Editors -> [loaded : BOOLEAN, last : Nat]]
  /\ restored \in BOOLEAN

NumbersInit ==
  /\ last = 0
  /\ number = [c \in Creators |-> 0]
  /\ pc = [c \in Creators |-> "asked"]
  /\ taken = [c \in Creators |-> 0]
  /\ lock = Nobody
  /\ copy = [e \in Editors |-> NoCopy]
  /\ restored = FALSE

-----------------------------------------------------------------------------
\* next_order_number: the row is locked, read and counted up.
Take(c) ==
  /\ pc[c] = "asked"
  /\ lock = Nobody
  /\ lock' = c
  /\ taken' = [taken EXCEPT ![c] = last + 1]
  /\ pc' = [pc EXCEPT ![c] = "numbered"]
  /\ UNCHANGED <<last, number, copy, restored>>

\* Some order has the number already (orders_unique_restaurant_order_number).
IsUsed(n) == \E d \in Creators : number[d] = n

\* The order is inserted, and order and counter are committed together.
Commit(c) ==
  /\ pc[c] = "numbered"
  /\ ~IsUsed(taken[c])
  /\ number' = [number EXCEPT ![c] = taken[c]]
  /\ last' = taken[c]
  /\ lock' = Nobody
  /\ pc' = [pc EXCEPT ![c] = "made"]
  /\ UNCHANGED <<taken, copy, restored>>

\* Mutant: the counter is committed on its own, before the order is.
AbortCounted(c) ==
  /\ pc[c] = "numbered"
  /\ last' = taken[c]
  /\ lock' = Nobody
  /\ pc' = [pc EXCEPT ![c] = "failed"]
  /\ UNCHANGED <<number, taken, copy, restored>>

\* Mutant: a creation that fails leaves its transaction open.
AbortLocked(c) ==
  /\ pc[c] = "numbered"
  /\ pc' = [pc EXCEPT ![c] = "failed"]
  /\ UNCHANGED <<last, number, taken, lock, copy, restored>>

\* The number is used, or something else goes wrong: all is rolled back.
Abort(c) ==
  /\ pc[c] = "numbered"
  /\ lock' = Nobody
  /\ pc' = [pc EXCEPT ![c] = "failed"]
  /\ UNCHANGED <<last, number, taken, copy, restored>>

\* The waiter sends the request again.
Retry(c) ==
  /\ pc[c] = "failed"
  /\ pc' = [pc EXCEPT ![c] = "asked"]
  /\ UNCHANGED <<last, number, taken, lock, copy, restored>>

\* A request to change the settings loads the row,
Load(e) ==
  /\ ~copy[e].loaded
  /\ copy' = [copy EXCEPT ![e] = [loaded |-> TRUE, last |-> last]]
  /\ UNCHANGED <<last, number, pc, taken, lock, restored>>

\* and writes every field of it, the counter among them.
Save(e) ==
  /\ copy[e].loaded
  /\ lock = Nobody
  /\ last' = copy[e].last
  /\ restored' = (restored \/ copy[e].last # last)
  /\ copy' = [copy EXCEPT ![e] = NoCopy]
  /\ UNCHANGED <<number, pc, taken, lock>>

NumbersNext ==
  \/ \E c \in Creators : Take(c) \/ Commit(c) \/ Abort(c) \/ Retry(c)
  \/ \E e \in Editors : Load(e) \/ Save(e)

NumbersSpec == NumbersInit /\ [][NumbersNext]_numbersVars

\* The lock is granted in turn, a waiter tries again, and not every attempt of a
\* request is cut off.  Nobody has to change the settings.
FairSpec ==
  /\ NumbersSpec
  /\ \A c \in Creators : SF_numbersVars(Take(c)) /\ SF_numbersVars(Commit(c)) /\ WF_numbersVars(Retry(c))

-----------------------------------------------------------------------------
\* Two orders never have the same number, also when the counter was put back.
DistinctNumbers ==
  \A c, d \in Creators : c # d /\ number[c] # 0 => number[c] # number[d]

\* As long as the counter has not been put back, the number a creation has got
\* is not the number of an order: the constraint on the table is never what
\* decides.  ARCHITECTURE.md: sales "`services/` owns order number sequencing".
FreshNumber ==
  ~restored => \A c \in Creators : pc[c] = "numbered" => ~IsUsed(taken[c])

\* Orders are numbered one after the other, with no gap where a creation failed,
\* until the counter is put back, and never alike.
Promise == INSTANCE Numbering WITH given <- number

IsNumbering == Promise!Spec

\* Every request for an order ends with an order, unless the counter is put back:
\* then a creation may fail for good.
OrdersGetMade == \A c \in Creators : pc[c] = "asked" ~> number[c] # 0 \/ restored
=============================================================================
