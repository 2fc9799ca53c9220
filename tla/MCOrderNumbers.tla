--------------------------- MODULE MCOrderNumbers ---------------------------
(* Instances of OrderNumbers for TLC. *)
EXTENDS OrderNumbers

CONSTANTS w1, w2, w3, e1, e2
=============================================================================
