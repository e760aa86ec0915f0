---------------------------- MODULE MCClusterView ----------------------------
(***************************************************************************)
(* Instances of ClusterView for TLC.                                       *)
(***************************************************************************)
EXTENDS ClusterView, TLC

CONSTANTS n1, n2

Named == n1 :> "node-1"
Unnamed == (n1 :> "") @@ (n2 :> "")
=============================================================================
