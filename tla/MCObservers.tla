----------------------------- MODULE MCObservers -----------------------------
(***************************************************************************)
(* Instances of Observers for TLC.                                         *)
(***************************************************************************)
EXTENDS Observers, TLC

CONSTANTS c1, c2, g1, g2, r1, r2

Symmetric == Permutations({c1, c2}) \cup Permutations({g1, g2}) \cup Permutations({r1, r2})
=============================================================================
