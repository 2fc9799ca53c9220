--------------------------- MODULE MCSubscription ---------------------------
(* Instances of Subscription for TLC. *)
EXTENDS Subscription

CONSTANTS t1, t2, a1, a2
=============================================================================
