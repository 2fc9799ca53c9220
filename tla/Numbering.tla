------------------------------ MODULE Numbering ------------------------------
(***************************************************************************)
(* What a restaurant is promised about the numbers of its orders: two      *)
(* orders never have the same number, and as long as nobody has put the    *)
(* counter back the n-th order made has number n.                          *)
(***************************************************************************)
EXTENDS Naturals

CONSTANT Creators   \* the requests for an order

VARIABLES
  given,     \* the number each request's order got, 0 as long as there is none
  restored   \* whether the counter has been put back

Init ==
  /\ given = [c \in Creators |-> 0]
  /\ restored = FALSE

Numbers == {given[c] : c \in Creators}

\* The number is new; it follows the others if the counter was left alone.
Give(c) ==
  LET n == given'[c]
  IN  /\ given[c] = 0
      /\ given' = [given EXCEPT ![c] = n]
      /\ n \notin Numbers
      /\ ~restored => Numbers \ {0} = 1..(n - 1)
      /\ UNCHANGED restored

Restore ==
  /\ restored' = TRUE
  /\ UNCHANGED given

Next == Restore \/ \E c \in Creators : Give(c)

Spec == Init /\ [][Next]_<<given, restored>>
=============================================================================
