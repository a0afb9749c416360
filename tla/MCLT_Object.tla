---------------------------- MODULE MCLT_Object -----------------------------
(* Instances of LT_Object for TLC. *)
EXTENDS LT_Object

CONSTANTS t1, t2

\* One timer at the limit, one in between; each keeps its interval.
MCIntervals == [t \in Timers |-> IF t = t1 THEN {2} ELSE {7}]
MCTicks == {-1, 1, 2}
=============================================================================
