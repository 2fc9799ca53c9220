-------------------------- MODULE MCFiscalReceipts --------------------------
(* Instances of FiscalReceipts for TLC. *)
EXTENDS FiscalReceipts, TLC

CONSTANTS w1, w2

\* The workers are alike.
Symmetry == Permutations(Workers)
=============================================================================
