------------------------------- MODULE MCPolicy -------------------------------
(***************************************************************************)
(* Instances of Policy for TLC.                                            *)
(***************************************************************************)
EXTENDS Policy

PolicyOf(mode, priority, remediation) ==
    [mode |-> mode, priority |-> priority, confidenceThreshold |-> None,
     remediation |-> remediation]
Remediate(resize, cooldown, restoreAfter, namespaces) ==
    [resize |-> resize, cooldown |-> cooldown, restoreAfter |-> restoreAfter,
     namespaces |-> namespaces]

(* Every mode, with and without each field, well and badly formed.         *)
Modes == {None, "", "observe", "alert", "enforce", "typo"}
SomeSpecs ==
    {None} \cup
    {PolicyOf(m, None, None) : m \in Modes} \cup
    {PolicyOf(m, p, Remediate(r, -1, None, {"team"})) :
        m \in {"alert", "enforce"}, p \in {0, 1}, r \in {TRUE, FALSE}} \cup
    {PolicyOf("enforce", -1, Remediate(None, 3, 0, None))}
=============================================================================
