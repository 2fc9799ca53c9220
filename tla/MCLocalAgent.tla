---------------------------- MODULE MCLocalAgent ----------------------------
(* Instances of LocalAgent for TLC. *)
EXTENDS LocalAgent

CONSTANTS c1, c2, k1, k2
=============================================================================
