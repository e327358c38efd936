----------------------------- MODULE MCZoneData -----------------------------
(* Instances of ZoneData for TLC. *)
EXTENDS ZoneData, TLC

CONSTANTS r1, r2, r3, root, www

\* Goroutines are interchangeable (used for the safety runs only).
Symmetry == Permutations(Reqs)
=============================================================================
