-------------------------------- MODULE Policy --------------------------------
(***************************************************************************)
(* How a controller started with --policy gets its RemediationConfig:      *)
(* internal/controller/policy.go (parsePolicy, LoadActivePolicy, ToConfig), *)
(* the defaults of NewRemediator (remediation.go) and configureFromPolicy  *)
(* (cmd/controller/main.go), against an API server on which operators      *)
(* apply and delete NodeHealthPolicies while controllers start and stop.   *)
(***************************************************************************)
EXTENDS Integers, Sequences, SequencesExt

CONSTANTS
    Names,     \* names of policies; numbers stand for them, in their order
    Specs,     \* the specs an operator may write
    Faults,    \* {"error"}: listing the policies may fail
    MaxEdits,  \* bound on the edits of policies
    None,      \* a field that is missing or has the wrong type; Go's nil
    Absent     \* a policy that does not exist

DefaultCooldown == 5
DefaultRestoreAfter == 10

Maybe(S) == S \cup {None}

ASSUME NamesAssumption == Names \subseteq Nat /\ MaxEdits \in Nat
ASSUME SpecsAssumption ==
    \A s \in Specs :
        \/ s = None
        \/ s \in [mode : Maybe(STRING), priority : Maybe(Int),
                  confidenceThreshold : Maybe(Nat), remediation : Maybe(
                      [resize : Maybe(BOOLEAN), cooldown : Maybe(Int),
                       restoreAfter : Maybe(Int), namespaces : Maybe(SUBSET STRING)])]

(* What a Remediator can be configured with. Its windows are positive,     *)
(* which is what Remediation assumes of Cooldown and RestoreAfter: a zero  *)
(* cooldown would let every report act, a zero restore window would lift a *)
(* throttle at once.                                                       *)
Configs == [resize : BOOLEAN, cooldown : Nat \ {0}, restoreAfter : Nat \ {0},
            namespaces : SUBSET STRING, confidenceThreshold : Nat]

ASSUME NoneAssumption == None \notin BOOLEAN /\ None \notin Configs

VARIABLES
    stored,  \* API server: the spec of each policy, Absent if it does not exist
    up,      \* the controller runs
    active,  \* it has a Remediator
    cfg,     \* the Remediator's configuration
    seen,    \* history: what was stored when it last listed the policies
    edits    \* edits so far

vars == <<stored, up, active, cfg, seen, edits>>

-----------------------------------------------------------------------------
(* Reading one policy *)

(* toFloat, toInt, toDuration, toStringSlice and the type assertions: what *)
(* cannot be read is the zero value.                                       *)
Or(value, zero) == IF value = None THEN zero ELSE value

NoRemediation ==
    [resize |-> None, cooldown |-> None, restoreAfter |-> None, namespaces |-> None]

ParsePolicy(name, spec) ==
    IF spec = None
    THEN [name |-> name, mode |-> "observe", priority |-> 0, confidenceThreshold |-> 0,
          resize |-> None, cooldown |-> 0, restoreAfter |-> 0, namespaces |-> {}]
    ELSE LET rem == Or(spec.remediation, NoRemediation)
         IN  [name |-> name,
              mode |-> IF spec.mode \in {None, ""} THEN "observe" ELSE spec.mode,
              priority |-> Or(spec.priority, 0),
              confidenceThreshold |-> Or(spec.confidenceThreshold, 0),
              resize |-> rem.resize,
              cooldown |-> Or(rem.cooldown, 0),
              restoreAfter |-> Or(rem.restoreAfter, 0),
              namespaces |-> Or(rem.namespaces, {})]

(* ToConfig's second result.                                               *)
Acts(p) == p.mode \in {"alert", "enforce"}

ResizesWhenAsked(p) == Or(p.resize, p.mode = "enforce")

(* Only enforce resizes, unless the policy opts out.                       *)
Resizes(p) == p.mode = "enforce" /\ Or(p.resize, TRUE)

WindowUnchecked(duration, default) == IF duration = 0 THEN default ELSE duration

(* NewRemediator: a window that is not positive is the default one.        *)
Window(duration, default) == IF duration =< 0 THEN default ELSE duration

ToConfig(p) ==
    [resize |-> Resizes(p),
     cooldown |-> Window(p.cooldown, DefaultCooldown),
     restoreAfter |-> Window(p.restoreAfter, DefaultRestoreAfter),
     namespaces |-> p.namespaces,
     confidenceThreshold |-> p.confidenceThreshold]

-----------------------------------------------------------------------------
(* Choosing one: higher priority first, ties broken by name *)

Precedes(p, q) ==
    IF p.priority # q.priority THEN p.priority > q.priority ELSE p.name < q.name

FirstListed(list) == list[1]

(* The head of the stably sorted list.                                     *)
Head1(list) ==
    LET firsts == {i \in DOMAIN list : \A j \in DOMAIN list : ~ Precedes(list[j], list[i])}
    IN  list[CHOOSE i \in firsts : \A j \in firsts : i =< j]

Existing(specs) == {n \in Names : specs[n] # Absent}

-----------------------------------------------------------------------------
Init ==
    /\ stored = [n \in Names |-> Absent]
    /\ up = FALSE /\ active = FALSE /\ cfg = None
    /\ seen = None
    /\ edits = 0

(* Without a Remediator the controller only observes.                      *)
Observes == active' = FALSE /\ cfg' = None

(* An operator applies or deletes a policy.                                *)
Edit(n, spec) ==
    /\ edits < MaxEdits /\ edits' = edits + 1
    /\ stored[n] # spec
    /\ stored' = [stored EXCEPT ![n] = spec]
    /\ UNCHANGED <<up, active, cfg, seen>>

(* configureFromPolicy; the API server lists the policies in some order.   *)
Load(order) ==
    LET list == [i \in DOMAIN order |-> ParsePolicy(order[i], stored[order[i]])]
    IN  IF list # <<>> /\ Acts(Head1(list))
        THEN active' = TRUE /\ cfg' = ToConfig(Head1(list))
        ELSE Observes

Start ==
    /\ ~ up
    /\ up' = TRUE
    /\ \/ /\ \E order \in SetToSeqs(Existing(stored)) : Load(order)
          /\ seen' = stored
       \/ /\ "error" \in Faults
          /\ Observes
          /\ seen' = None
    /\ UNCHANGED <<stored, edits>>

Stop ==
    /\ up
    /\ up' = FALSE
    /\ Observes
    /\ UNCHANGED <<stored, seen, edits>>

Next ==
    \/ \E n \in Names, spec \in Specs \cup {Absent} : Edit(n, spec)
    \/ Start
    \/ Stop

Spec == Init /\ [][Next]_vars

-----------------------------------------------------------------------------
(* Properties *)

(* Every variable keeps its type: in particular a Remediator is given a    *)
(* configuration with positive windows, whatever durations the policy has  *)
(* (missing, malformed, zero or negative).                                 *)
TypeOK ==
    /\ stored \in [Names -> Specs \cup {Absent}]
    /\ up \in BOOLEAN /\ active \in BOOLEAN
    /\ IF active THEN cfg \in Configs ELSE cfg = None
    /\ seen = None \/ DOMAIN seen = Names
    /\ edits \in 0 .. MaxEdits

(* n governs: nobody has a higher priority, nor the same and a lower name. *)
Priority(spec) == IF spec = None THEN 0 ELSE Or(spec.priority, 0)
Remediation(spec) ==
    IF spec = None THEN NoRemediation ELSE Or(spec.remediation, NoRemediation)
Governs(n, specs) ==
    /\ n \in Existing(specs)
    /\ \A m \in Existing(specs) \ {n} :
          \/ Priority(specs[m]) < Priority(specs[n])
          \/ Priority(specs[m]) = Priority(specs[n]) /\ n < m

(* The controller resizes pods only when the one governing policy said     *)
(* enforce and did not opt out of resizing, however many other policies    *)
(* say so and in whatever order the API server lists them (ToConfig).      *)
ResizesOnlyIfEnforced ==
    (active /\ cfg.resize) =>
        \E n \in Names :
            /\ Governs(n, seen)
            /\ seen[n] # None /\ seen[n].mode = "enforce"
            /\ Remediation(seen[n]).resize # FALSE

(* An allow-list of namespaces is never widened: what the Remediator is    *)
(* restricted to is what the governing policy lists (an empty list, or one *)
(* of the wrong type, stands for all).                                     *)
ScopeKept ==
    active => \A n \in Names : Governs(n, seen) =>
        cfg.namespaces = Or(Remediation(seen[n]).namespaces, {})
=============================================================================
