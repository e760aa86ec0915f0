------------------------------ MODULE MCResolver ------------------------------
(***************************************************************************)
(* Instances of Resolver for TLC.                                          *)
(***************************************************************************)
EXTENDS Resolver, TLC

CONSTANTS c1, c2, c3

Symmetric == Permutations({c1, c2, c3})
=============================================================================
