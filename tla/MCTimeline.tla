------------------------------ MODULE MCTimeline ------------------------------
(***************************************************************************)
(* Instances of Timeline for TLC.                                          *)
(***************************************************************************)
EXTENDS Timeline, TLC

CONSTANTS c1, c2, g1, g2

Symmetric == Permutations({c1, c2}) \cup Permutations({g1, g2})
=============================================================================
