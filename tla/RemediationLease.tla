--------------------------- MODULE RemediationLease ---------------------------
(***************************************************************************)
(* The Remediator as an implementation of Lease: the lowered limits are    *)
(* the API server's, and a pod is left alone until its actions are spent.  *)
(***************************************************************************)
EXTENDS Remediation

LoweredContainers == {c \in Containers : Lowered(c)}

Promise == INSTANCE Lease WITH lowered <- LoweredContainers, quiet <- spent

(* Every step of handlers, restore loop, API server and clock is, for the  *)
(* owners of pods, a step of Lease or none at all: records kept per pod,   *)
(* cooldown stamps and retries never lower two containers of a pod or act  *)
(* twice in a cooldown (remediation.go, resize.go).                        *)
KeepsPromise == Promise!Spec
=============================================================================
