-------------------------- MODULE MCTimedTransfers --------------------------
(* Instance of TimedTransfers for TLC: two threads calling everything.     *)
EXTENDS TimedTransfers

CONSTANTS t1, t2

Everything == [t \in Threads |-> Inserts \cup Removals]
=============================================================================
