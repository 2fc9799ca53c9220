----------------------------- MODULE MCCashier -----------------------------
(* Instances of Cashier for TLC. *)
EXTENDS Cashier, TLC

CONSTANTS w1, w2, d1, d2, c1, c2, p1, p2

\* Desks, cashiers and payments are alike.
Symmetry == Permutations(Desks) \union Permutations(Cashiers) \union Permutations(Payments)
=============================================================================
