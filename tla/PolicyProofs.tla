----------------------------- MODULE PolicyProofs -----------------------------
(***************************************************************************)
(* What a controller is configured with is what the one governing policy   *)
(* says, for any policies, in whatever order the API server lists them.    *)
(***************************************************************************)
EXTENDS Policy, FiniteSums

-----------------------------------------------------------------------------
(* Lists *)

(* A listing of a finite set has every member, and nothing twice.          *)
LEMMA Listing ==
    ASSUME NEW S, IsFiniteSet(S), NEW order \in SetToSeqs(S)
    PROVE  /\ Cardinality(S) \in Nat /\ DOMAIN order = 1 .. Cardinality(S)
           /\ \A i \in DOMAIN order : order[i] \in S
           /\ \A i, j \in DOMAIN order : i # j => order[i] # order[j]
           /\ \A x \in S : \E i \in DOMAIN order : order[i] = x
<1> DEFINE D == 1 .. Cardinality(S)
<1>1. order \in [D -> S] /\ \A i, j \in D : i # j => order[i] # order[j]
  BY DEF SetToSeqs
<1>2. Cardinality(S) \in Nat
  BY FS_CardinalityType
<1>3. IsFiniteSet(D) /\ Cardinality(D) = Cardinality(S)
  BY <1>2, FS_Interval
<1>4. order \in Injection(D, S)
  BY <1>1 DEF Injection, IsInjective
<1>5. order \in Surjection(D, S)
  BY <1>3, <1>4, FS_Injection
<1>6. QED
  BY <1>1, <1>2, <1>5 DEF Surjection

(* Precedes orders policies: priority first, then the name.                *)
LEMMA PrecedesOrders ==
    ASSUME NEW p, NEW q, NEW r,
           p.name \in Nat, q.name \in Nat, r.name \in Nat,
           p.priority \in Int, q.priority \in Int, r.priority \in Int
    PROVE  /\ ~ Precedes(p, p)
           /\ Precedes(p, q) /\ Precedes(q, r) => Precedes(p, r)
           /\ p.name # q.name => Precedes(p, q) \/ Precedes(q, p)
BY DEF Precedes

(* A nonempty list has a first one of them, so Head1 picks one.            *)
LEMMA FirstExists ==
    ASSUME NEW n \in Nat \ {0}, NEW list, DOMAIN list = 1 .. n,
           \A i \in 1 .. n : list[i].name \in Nat /\ list[i].priority \in Int
    PROVE  \E i \in 1 .. n : \A j \in 1 .. n : ~ Precedes(list[j], list[i])
<1> DEFINE Good(k) == \E i \in 1 .. k : \A j \in 1 .. k : ~ Precedes(list[j], list[i])
           Bad == {k \in 1 .. n : ~ Good(k)}
<1>1. SUFFICES ASSUME Bad # {} PROVE FALSE
  <2>1. n \in 1 .. n
    OBVIOUS
  <2>2. Bad = {} => Good(n)
    <3> HIDE DEF Good
    <3>1. QED
      BY <2>1
  <2>3. QED
    BY <2>2
<1>2. PICK k \in Bad : \A m \in Bad : ~ (m < k)
  <2>1. Bad \in SUBSET Nat
    OBVIOUS
  <2> HIDE DEF Bad
  <2>2. QED
    BY <1>1, <2>1, LeastNumber
<1>3. CASE k = 1
  <2>1. ~ Precedes(list[1], list[1])
    BY PrecedesOrders
  <2>2. Good(1)
    BY <2>1
  <2>3. QED
    BY <1>3, <2>2
<1>4. CASE k # 1
  <2>1. k - 1 \in 1 .. n /\ k \in 1 .. n /\ Good(k - 1)
    <3> HIDE DEF Good
    <3>1. k \in 1 .. n /\ k - 1 \in 1 .. n /\ k - 1 < k
      BY <1>2, <1>4
    <3>2. k - 1 \notin Bad
      BY <1>2, <3>1
    <3>3. QED
      BY <3>1, <3>2
  <2>2. PICK i \in 1 .. k - 1 : \A j \in 1 .. k - 1 : ~ Precedes(list[j], list[i])
    BY <2>1
  <2>3. ~ Precedes(list[k], list[k])
    BY <2>1, PrecedesOrders
  <2>4. CASE Precedes(list[k], list[i])
    <3>1. ASSUME NEW j \in 1 .. k PROVE ~ Precedes(list[j], list[k])
      <4>1. CASE j = k
        BY <2>3, <4>1
      <4>2. CASE j # k
        <5>1. j \in 1 .. k - 1 /\ i \in 1 .. n /\ j \in 1 .. n
          BY <2>1, <4>2
        <5>2. Precedes(list[j], list[k]) => Precedes(list[j], list[i])
          BY <2>1, <2>4, <5>1, PrecedesOrders
        <5>3. QED
          BY <2>2, <5>1, <5>2
      <4>3. QED
        BY <4>1, <4>2
    <3>2. k \in 1 .. k
      BY <2>1
    <3>3. QED
      BY <3>1, <3>2
  <2>5. CASE ~ Precedes(list[k], list[i])
    <3>1. \A j \in 1 .. k : j = k \/ j \in 1 .. k - 1
      BY <2>1
    <3>2. i \in 1 .. k
      BY <2>1
    <3>3. QED
      BY <2>2, <2>5, <3>1, <3>2
  <2>6. QED
    BY <2>4, <2>5
<1>5. QED
  BY <1>3, <1>4

LEMMA HeadIsFirst ==
    ASSUME NEW n \in Nat \ {0}, NEW list, DOMAIN list = 1 .. n,
           \A i \in 1 .. n : list[i].name \in Nat /\ list[i].priority \in Int
    PROVE  \E i \in 1 .. n : /\ Head1(list) = list[i]
                             /\ \A j \in 1 .. n : ~ Precedes(list[j], list[i])
<1> DEFINE firsts == {i \in DOMAIN list : \A j \in DOMAIN list : ~ Precedes(list[j], list[i])}
           i == CHOOSE i \in firsts : \A j \in firsts : i =< j
<1>1. firsts # {} /\ firsts \in SUBSET Nat
  <2>1. PICK m \in 1 .. n : \A j \in 1 .. n : ~ Precedes(list[j], list[m])
    BY FirstExists
  <2>2. m \in firsts
    BY <2>1
  <2>3. \A x \in firsts : x \in 1 .. n
    OBVIOUS
  <2> HIDE DEF firsts
  <2>4. QED
    BY <2>2, <2>3
<1>2. \E m \in firsts : \A j \in firsts : m =< j
  <2> HIDE DEF firsts
  <2>1. PICK m \in firsts : \A j \in firsts : ~ (j < m)
    BY <1>1, LeastNumber
  <2>2. QED
    BY <1>1, <2>1
<1>3. i \in firsts
  <2> HIDE DEF firsts
  <2>1. QED
    BY <1>2
<1>4. Head1(list) = list[i]
  BY DEF Head1
<1> HIDE DEF i
<1>5. QED
  BY <1>3, <1>4

-----------------------------------------------------------------------------
(* Reading and choosing *)

LEMMA Read ==
    ASSUME NEW spec \in Specs
    PROVE  /\ Priority(spec) \in Int
           /\ Remediation(spec).resize \in BOOLEAN \cup {None}
           /\ Or(Remediation(spec).cooldown, 0) \in Int
           /\ Or(Remediation(spec).restoreAfter, 0) \in Int
           /\ Or(Remediation(spec).namespaces, {}) \in SUBSET STRING
           /\ spec # None => Or(spec.confidenceThreshold, 0) \in Nat
<1>1. CASE spec = None
  BY <1>1 DEF Priority, Remediation, NoRemediation, Or
<1>2. CASE spec # None
  <2> DEFINE Rems == [resize : Maybe(BOOLEAN), cooldown : Maybe(Int),
                      restoreAfter : Maybe(Int), namespaces : Maybe(SUBSET STRING)]
  <2>1. /\ spec.priority \in Int \cup {None} /\ spec.confidenceThreshold \in Nat \cup {None}
        /\ spec.remediation \in Rems \cup {None}
    BY <1>2, SpecsAssumption DEF Maybe
  <2>2. Remediation(spec) = NoRemediation \/ Remediation(spec) \in Rems
    BY <1>2, <2>1 DEF Remediation, Or
  <2>3. CASE Remediation(spec) = NoRemediation
    BY <1>2, <2>1, <2>3 DEF Priority, NoRemediation, Or
  <2>4. CASE Remediation(spec) \in Rems
    BY <1>2, <2>1, <2>4 DEF Priority, Or, Maybe
  <2>5. QED
    BY <2>2, <2>3, <2>4
<1>3. QED
  BY <1>1, <1>2

(* What ParsePolicy makes of a spec.                                       *)
LEMMA Parsed ==
    ASSUME NEW spec \in Specs, NEW n, NEW p, p = ParsePolicy(n, spec)
    PROVE  /\ p.name = n /\ p.priority = Priority(spec)
           /\ p.resize = Remediation(spec).resize
           /\ p.cooldown = Or(Remediation(spec).cooldown, 0)
           /\ p.restoreAfter = Or(Remediation(spec).restoreAfter, 0)
           /\ p.namespaces = Or(Remediation(spec).namespaces, {})
           /\ p.confidenceThreshold \in Nat
           /\ p.mode = "enforce" => spec # None /\ spec.mode = "enforce"
<1>1. CASE spec = None
  BY <1>1 DEF ParsePolicy, Priority, Remediation, NoRemediation, Or
<1>2. CASE spec # None
  BY <1>2, Read DEF ParsePolicy, Priority, Remediation
<1>3. QED
  BY <1>1, <1>2

(* Whatever it says, the configuration is one: its windows are positive.   *)
LEMMA Configured ==
    ASSUME NEW spec \in Specs, NEW n, NEW c, c = ToConfig(ParsePolicy(n, spec))
    PROVE  /\ c \in Configs
           /\ c.namespaces = Or(Remediation(spec).namespaces, {})
           /\ c.resize => /\ spec # None /\ spec.mode = "enforce"
                          /\ Remediation(spec).resize # FALSE
<1> DEFINE p == ParsePolicy(n, spec)
<1>1. /\ p.resize = Remediation(spec).resize
      /\ p.cooldown = Or(Remediation(spec).cooldown, 0)
      /\ p.restoreAfter = Or(Remediation(spec).restoreAfter, 0)
      /\ p.namespaces = Or(Remediation(spec).namespaces, {})
      /\ p.confidenceThreshold \in Nat
      /\ p.mode = "enforce" => spec # None /\ spec.mode = "enforce"
  BY Parsed
<1>2. p.cooldown \in Int /\ p.restoreAfter \in Int /\ p.namespaces \in SUBSET STRING
  BY <1>1, Read
<1>3. c = ToConfig(p)
  OBVIOUS
<1> HIDE DEF p
<1>4. /\ c.resize = Resizes(p) /\ c.namespaces = p.namespaces
      /\ c.cooldown = Window(p.cooldown, DefaultCooldown)
      /\ c.restoreAfter = Window(p.restoreAfter, DefaultRestoreAfter)
      /\ c.confidenceThreshold = p.confidenceThreshold
      /\ c = [resize |-> c.resize, cooldown |-> c.cooldown, restoreAfter |-> c.restoreAfter,
              namespaces |-> c.namespaces, confidenceThreshold |-> c.confidenceThreshold]
  BY <1>3 DEF ToConfig
<1>5. c.cooldown \in Nat \ {0} /\ c.restoreAfter \in Nat \ {0}
  BY <1>2, <1>4 DEF Window, DefaultCooldown, DefaultRestoreAfter
<1>6. Resizes(p) \in BOOLEAN
  BY DEF Resizes
<1>7. c \in Configs
  BY <1>1, <1>2, <1>4, <1>5, <1>6 DEF Configs
<1>8. c.resize => p.mode = "enforce" /\ Remediation(spec).resize # FALSE
  BY <1>1, <1>4, NoneAssumption DEF Resizes, Or
<1>9. QED
  BY <1>1, <1>4, <1>5, <1>7, <1>8

StoredType == [Names -> Specs \cup {Absent}]

(* In whatever order they are listed, the policy that governs is loaded.   *)
LEMMA LoadsTheGoverning ==
    ASSUME stored \in StoredType, IsFiniteSet(Existing(stored)),
           NEW order \in SetToSeqs(Existing(stored)), Load(order)
    PROVE  \/ Observes
           \/ /\ active' = TRUE
              /\ \E n \in Names : Governs(n, stored) /\ cfg' = ToConfig(ParsePolicy(n, stored[n]))
<1> DEFINE S == Existing(stored)
           list == [i \in DOMAIN order |-> ParsePolicy(order[i], stored[order[i]])]
           n == Cardinality(S)
<1>1. /\ n \in Nat /\ DOMAIN order = 1 .. n
      /\ \A i \in 1 .. n : order[i] \in S
      /\ \A x \in S : \E i \in 1 .. n : order[i] = x
  BY Listing
<1>2. \A i \in 1 .. n : order[i] \in Names /\ stored[order[i]] \in Specs
  BY <1>1 DEF Existing, StoredType
<1>3. DOMAIN list = 1 .. n
  BY <1>1
<1>4. ASSUME NEW i \in 1 .. n
      PROVE  /\ list[i] = ParsePolicy(order[i], stored[order[i]])
             /\ list[i].name = order[i] /\ list[i].priority = Priority(stored[order[i]])
             /\ list[i].name \in Nat /\ list[i].priority \in Int
  <2>1. list[i] = ParsePolicy(order[i], stored[order[i]])
    BY <1>1
  <2> HIDE DEF list
  <2>2. order[i] \in Nat /\ stored[order[i]] \in Specs
    BY <1>2, NamesAssumption
  <2>3. list[i].name = order[i] /\ list[i].priority = Priority(stored[order[i]])
    BY <2>1, <2>2, Parsed
  <2>4. Priority(stored[order[i]]) \in Int
    BY <2>2, Read
  <2>5. QED
    BY <2>1, <2>2, <2>3, <2>4
<1>5. CASE ~ (list # <<>> /\ Acts(Head1(list)))
  BY <1>5 DEF Load
<1>6. CASE list # <<>> /\ Acts(Head1(list))
  <2>1. active' = TRUE /\ cfg' = ToConfig(Head1(list))
    BY <1>6 DEF Load
  <2>2. n # 0
    BY <1>1, <1>6
  <2> HIDE DEF list, n
  <2>3. PICK i \in 1 .. n : /\ Head1(list) = list[i]
                            /\ \A j \in 1 .. n : ~ Precedes(list[j], list[i])
    BY <1>1, <1>3, <1>4, <2>2, HeadIsFirst
  <2>4. Governs(order[i], stored)
    <3>1. order[i] \in S
      BY <1>1
    <3>2. ASSUME NEW m \in S \ {order[i]}
          PROVE  \/ Priority(stored[m]) < Priority(stored[order[i]])
                 \/ Priority(stored[m]) = Priority(stored[order[i]]) /\ order[i] < m
      <4>1. PICK j \in 1 .. n : order[j] = m
        BY <1>1
      <4>2. ~ Precedes(list[j], list[i]) /\ list[j].name # list[i].name
        BY <1>4, <2>3, <4>1
      <4>3. QED
        BY <1>4, <4>1, <4>2 DEF Precedes
    <3>3. QED
      BY <3>1, <3>2 DEF Governs
  <2>5. QED
    BY <1>2, <1>4, <2>1, <2>3, <2>4
<1>7. QED
  BY <1>5, <1>6

-----------------------------------------------------------------------------
(* The invariant: a controller that acts was configured from the policy    *)
(* that governed among those it listed. What is stored may have changed    *)
(* since; only finitely many policies exist, so there is a listing.        *)

FromGoverning ==
    active => /\ seen \in StoredType
              /\ \E n \in Names : Governs(n, seen) /\ cfg = ToConfig(ParsePolicy(n, seen[n]))
IInv == TypeOK /\ IsFiniteSet(Existing(stored)) /\ FromGoverning

LEMMA GoverningIsSpec ==
    ASSUME NEW specs \in StoredType, NEW n, Governs(n, specs)
    PROVE  n \in Names /\ specs[n] \in Specs
BY DEF Governs, Existing, StoredType

LEMMA StartKeeps ==
    ASSUME IInv, Start
    PROVE  IInv'
<1>1. stored' = stored /\ edits' = edits /\ up' = TRUE
  BY DEF Start
<1>2. CASE Observes /\ (seen' = stored \/ seen' = None)
  BY <1>1, <1>2 DEF IInv, TypeOK, FromGoverning, Observes, Existing
<1>3. CASE /\ seen' = stored /\ active' = TRUE
           /\ \E n \in Names : Governs(n, stored) /\ cfg' = ToConfig(ParsePolicy(n, stored[n]))
  <2>1. PICK n \in Names : Governs(n, stored) /\ cfg' = ToConfig(ParsePolicy(n, stored[n]))
    BY <1>3
  <2>2. stored \in StoredType
    BY DEF IInv, TypeOK, StoredType
  <2>3. cfg' \in Configs
    BY <2>1, <2>2, GoverningIsSpec, Configured
  <2>4. TypeOK'
    BY <1>1, <1>3, <2>2, <2>3 DEF IInv, TypeOK, StoredType
  <2>5. FromGoverning'
    BY <1>3, <2>1, <2>2 DEF FromGoverning
  <2>6. QED
    BY <1>1, <2>4, <2>5 DEF IInv, Existing
<1>4. QED
  <2>1. stored \in StoredType /\ IsFiniteSet(Existing(stored))
    BY DEF IInv, TypeOK, StoredType
  <2>2. ASSUME NEW order \in SetToSeqs(Existing(stored)), Load(order), seen' = stored
        PROVE  IInv'
    BY <1>2, <1>3, <2>1, <2>2, LoadsTheGoverning
  <2>3. QED
    BY <1>2, <2>2 DEF Start

LEMMA EditKeeps ==
    ASSUME IInv, NEW n \in Names, NEW spec \in Specs \cup {Absent}, Edit(n, spec)
    PROVE  IInv'
<1>1. Existing(stored') \subseteq Existing(stored) \cup {n}
  BY DEF Edit, Existing, IInv, TypeOK
<1>2. IsFiniteSet(Existing(stored'))
  <2>1. IsFiniteSet(Existing(stored) \cup {n})
    BY FS_AddElement DEF IInv
  <2>2. QED
    BY <1>1, <2>1, FS_Subset
<1>3. TypeOK'
  BY NamesAssumption DEF Edit, IInv, TypeOK
<1>4. FromGoverning'
  BY DEF Edit, IInv, FromGoverning
<1>5. QED
  BY <1>2, <1>3, <1>4 DEF IInv, Existing

LEMMA Invariance == Spec => []IInv
<1>1. Init => IInv
  <2> SUFFICES ASSUME Init PROVE IInv
    OBVIOUS
  <2>1. Existing(stored) = {}
    BY DEF Init, Existing
  <2>2. TypeOK
    <3>1. stored \in [Names -> Specs \cup {Absent}]
      BY DEF Init
    <3>2. up \in BOOLEAN /\ active \in BOOLEAN /\ active = FALSE /\ cfg = None /\ seen = None
      BY DEF Init
    <3>3. edits \in 0 .. MaxEdits
      BY NamesAssumption DEF Init
    <3>4. QED
      BY <3>1, <3>2, <3>3 DEF TypeOK
  <2>3. IsFiniteSet(Existing(stored))
    BY <2>1, FS_EmptySet
  <2>4. QED
    BY <2>2, <2>3 DEF Init, IInv, FromGoverning
<1>2. IInv /\ [Next]_vars => IInv'
  <2> SUFFICES ASSUME IInv, [Next]_vars PROVE IInv'
    OBVIOUS
  <2>1. CASE Stop
    BY <2>1 DEF Stop, Observes, IInv, TypeOK, FromGoverning, Existing
  <2>2. CASE UNCHANGED vars
    BY <2>2 DEF vars, IInv, TypeOK, FromGoverning, Existing
  <2>3. QED
    BY <2>1, <2>2, StartKeeps, EditKeeps DEF Next
<1>3. QED
  BY <1>1, <1>2, PTL DEF Spec

(* No policy, however malformed, gives a Remediator a configuration that   *)
(* is not one, nor an empty cooldown or restore window (ToConfig and       *)
(* NewRemediator's defaults).                                              *)
THEOREM TypeCorrect == Spec => []TypeOK
<1>1. IInv => TypeOK
  BY DEF IInv
<1>2. QED
  BY <1>1, Invariance, PTL

(* Of any number of policies in any order, only the governing one can make *)
(* the controller resize, by saying enforce (LoadActivePolicy, ToConfig).  *)
THEOREM OnlyEnforceResizes == Spec => []ResizesOnlyIfEnforced
<1>1. IInv => ResizesOnlyIfEnforced
  <2> SUFFICES ASSUME IInv, active, cfg.resize
               PROVE  \E n \in Names : /\ Governs(n, seen)
                                       /\ seen[n] # None /\ seen[n].mode = "enforce"
                                       /\ Remediation(seen[n]).resize # FALSE
    BY DEF ResizesOnlyIfEnforced
  <2>1. PICK n \in Names : /\ seen \in StoredType /\ Governs(n, seen)
                           /\ cfg = ToConfig(ParsePolicy(n, seen[n]))
    BY DEF IInv, FromGoverning
  <2>2. QED
    BY <2>1, GoverningIsSpec, Configured
<1>2. QED
  BY <1>1, Invariance, PTL

(* The namespaces a Remediator is restricted to are the governing policy's *)
(* own: there is one, and no other list is merged in (ToConfig).           *)
THEOREM ScopeIsKept == Spec => []ScopeKept
<1>1. IInv => ScopeKept
  <2> SUFFICES ASSUME IInv, active, NEW n \in Names, Governs(n, seen)
               PROVE  cfg.namespaces = Or(Remediation(seen[n]).namespaces, {})
    BY DEF ScopeKept
  <2>1. PICK m \in Names : /\ seen \in StoredType /\ Governs(m, seen)
                           /\ cfg = ToConfig(ParsePolicy(m, seen[m]))
    BY DEF IInv, FromGoverning
  <2>2. seen[n] \in Specs /\ seen[m] \in Specs
    BY <2>1, GoverningIsSpec
  <2>3. n = m
    <3>1. Priority(seen[n]) \in Int /\ Priority(seen[m]) \in Int /\ n \in Nat /\ m \in Nat
      BY <2>2, Read, NamesAssumption
    <3>2. QED
      BY <2>1, <3>1 DEF Governs
  <2>4. QED
    BY <2>1, <2>2, <2>3, Configured
<1>2. QED
  BY <1>1, Invariance, PTL
=============================================================================
