----------------------------- MODULE MCUNetLink -----------------------------
(* Instances of UNetLink for TLC. *)
EXTENDS UNetLink, TLC

MCPayload == Packs \X Values

\* A checksum without collisions.
MCCrc(k, v) == <<k, v>>

\* One short run; or numbers that pass the size of the ring, then a restart.
ShortRun == <<3>>
TwoRuns == <<6, 1>>

Sym == Permutations(Values)
=============================================================================
