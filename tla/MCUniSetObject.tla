--------------------------- MODULE MCUniSetObject ---------------------------
(* Instances of UniSetObject for TLC. *)
EXTENDS UniSetObject

\* The queue of the lowest priority loses new data, the others old data.
MCStrategy == [p \in Priorities |-> IF p = "Low" THEN "lostNewData" ELSE "lostOldData"]
=============================================================================
