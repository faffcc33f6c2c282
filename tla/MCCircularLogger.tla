-------------------------- MODULE MCCircularLogger --------------------------
(* Instance of CircularLogger for TLC: e1 and e2 have the same level.      *)
EXTENDS CircularLogger

CONSTANTS e1, e2, e3

SomeLevels == [e \in Values |-> IF e = e3 THEN "ERROR" ELSE "INFO"]
=============================================================================
