---------------------------- MODULE MCRemediation ----------------------------
(***************************************************************************)
(* Instances of Remediation for TLC.                                       *)
(***************************************************************************)
EXTENDS RemediationLease, TLC

CONSTANTS p1, p2, a, b, h1, h2

(* Either two pods of one container each, or one pod of two containers.    *)
TwoPods == (a :> p1) @@ (b :> p2)
OnePod  == (a :> p1) @@ (b :> p1)

Namespaces1 == (p1 :> "team")
NamespacesSystem == (p1 :> "kube-system")
Namespaces2 == (p1 :> "team") @@ (p2 :> "kube-system")

(* a has room to throttle; b has too, from a different limit.              *)
Limits   == (a :> 4) @@ (b :> 3)
Requests == (a :> 1) @@ (b :> 2)

Offender(c, res, conf) == [label |-> c, resource |-> res, confidence |-> conf]
Contended(offenders) == [healthy |-> FALSE, confidenceMin |-> 7, offenders |-> offenders]

CPUa == Contended({Offender(a, "cpu", 8)})
CPUb == Contended({Offender(b, "cpu", 8)})
Mixed == Contended({Offender(a, "disk", 9), Offender(a, "cpu", 8), Offender(b, "net", 8),
                    Offender("system", "cpu", 9), Offender(b, "cpu", 6)})
Healthy == [Mixed EXCEPT !.healthy = TRUE]

Config(dry, res, ns, gate) ==
    [remediate |-> TRUE, dryRun |-> dry, resize |-> res, namespaces |-> ns,
     confidenceThreshold |-> gate]
Enforce == Config(FALSE, TRUE, {}, 0)
Alert == Config(FALSE, FALSE, {}, 0)
Strict == Config(FALSE, TRUE, {"team"}, 8)
DryRun == Config(TRUE, TRUE, {}, 0)
Elsewhere == Config(FALSE, TRUE, {"other"}, 0)
Observe == [Alert EXCEPT !.remediate = FALSE]

SnapshotsBoth == {CPUa, CPUb}
SnapshotsMixed == {CPUb, Mixed, Healthy}
ConfigsAll == {Enforce, Alert, Strict, DryRun, Observe}
ConfigsChanged == {Enforce, Alert, DryRun, Elsewhere}
ConfigsEnforce == {Enforce}

Symmetric == Permutations({h1, h2})
=============================================================================
