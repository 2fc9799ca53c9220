------------------------------- MODULE Seating -------------------------------
(***************************************************************************)
(* What the guests of a restaurant are promised: a party has its table to  *)
(* itself, and it keeps its table as long as it has something to pay,      *)
(* unless the table itself is taken away.                                  *)
(*                                                                         *)
(* The promise is given to a floor where no two requests for one table     *)
(* overlap ("raced") and nobody writes rows by hand or merges two parties  *)
(* that both have something to pay ("careless").                           *)
(***************************************************************************)
CONSTANTS Tables, Sessions, Orders, NoTable

VARIABLES
  at,       \* the table of each party, or NoTable
  bill,     \* the orders each party has still to pay
  raced,
  careless

Seats == [Sessions -> Tables \union {NoTable}]
Bills == [Sessions -> SUBSET Orders]

Init ==
  /\ at = [s \in Sessions |-> NoTable]
  /\ bill = [s \in Sessions |-> {}]
  /\ raced = FALSE /\ careless = FALSE

flags == <<raced, careless>>

\* A party sits down at a table where nobody sits, from another table or from none.
Sit(s, t) ==
  /\ \A x \in Sessions : at[x] # t
  /\ at' = [at EXCEPT ![s] = t]
  /\ UNCHANGED <<bill, flags>>

Order(s, o) ==
  /\ at[s] # NoTable
  /\ bill[s] = {} /\ \A x \in Sessions : o \notin bill[x]
  /\ bill' = [bill EXCEPT ![s] = {o}]
  /\ UNCHANGED <<at, flags>>

Settle(s, o) ==
  /\ o \in bill[s]
  /\ bill' = [bill EXCEPT ![s] = bill[s] \ {o}]
  /\ UNCHANGED <<at, flags>>

Leave(s) ==
  /\ bill[s] = {}
  /\ at' = [at EXCEPT ![s] = NoTable]
  /\ UNCHANGED <<bill, flags>>

\* One party joins another; one bill at most is left to pay.
Join(s, x) ==
  /\ at[s] # NoTable /\ at[x] # NoTable /\ s # x
  /\ bill[s] = {} \/ bill[x] = {}
  /\ at' = [at EXCEPT ![x] = NoTable]
  /\ bill' = [bill EXCEPT ![s] = bill[s] \union bill[x], ![x] = {}]
  /\ UNCHANGED flags

\* Tables are taken away, and what was ordered there is nobody's.
Clear(gone) ==
  /\ at' = [s \in Sessions |-> IF at[s] \in gone THEN NoTable ELSE at[s]]
  /\ bill' = [s \in Sessions |-> IF at[s] \in gone THEN {} ELSE bill[s]]
  /\ UNCHANGED flags

\* After carelessness a table is still one party's, after a race nothing is left.
Alone == \A s, x \in Sessions : at[s] = at[x] /\ at[s] # NoTable => s = x

BeCareless ==
  /\ careless' = TRUE /\ raced' = raced
  /\ at' \in Seats /\ bill' \in Bills
  /\ Alone'

Race ==
  /\ raced' = TRUE /\ careless' \in BOOLEAN
  /\ at' \in Seats /\ bill' \in Bills

Next ==
  \/ \E s \in Sessions, t \in Tables : Sit(s, t)
  \/ \E s \in Sessions, o \in Orders : Order(s, o) \/ Settle(s, o)
  \/ \E s \in Sessions : Leave(s)
  \/ \E s, x \in Sessions : Join(s, x)
  \/ \E gone \in SUBSET Tables : Clear(gone)
  \/ BeCareless \/ Race

Spec == Init /\ [][Next]_<<at, bill, raced, careless>>
=============================================================================
