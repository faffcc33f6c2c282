------------------------- MODULE MCLockedTransfers -------------------------
(* Instance of LockedTransfers for TLC: the functions that keep the mutex. *)
EXTENDS LockedTransfers, TLC

CONSTANTS t1, t2, t3

LockedOnly ==
  (t1 :> {"push_back"}) @@ (t2 :> {"push_back"}) @@ (t3 :> {"try_pop_front"})
=============================================================================
