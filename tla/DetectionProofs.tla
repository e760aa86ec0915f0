---------------------------- MODULE DetectionProofs ----------------------------
(***************************************************************************)
(* What the agent's memory guarantees, for any cgroups, intervals and      *)
(* thresholds: a steady pod is innocent, a spike stays visible, an         *)
(* attribution is repeated, and normals are kept while their pods are      *)
(* seen.                                                                   *)
(***************************************************************************)
EXTENDS Detection, FiniteSums

-----------------------------------------------------------------------------
(* Numbers *)

LEMMA DivNat ==
    ASSUME NEW a \in Nat, NEW b \in Nat \ {0}
    PROVE  a \div b \in Nat
OBVIOUS

LEMMA DivMonotone ==
    ASSUME NEW v \in Nat \ {0}, NEW a \in Nat, NEW b \in Nat, a =< b
    PROVE  (100 * a) \div v =< (100 * b) \div v
OBVIOUS

(* A power of two is the number of subsets of a set.                       *)
LEMMA PowerNat ==
    ASSUME NEW n \in Nat
    PROVE  2 ^ n \in Nat
<1>1. IsFiniteSet(1 .. n) /\ Cardinality(1 .. n) = n
  BY FS_Interval
<1>2. IsFiniteSet(SUBSET (1 .. n)) /\ Cardinality(SUBSET (1 .. n)) = 2 ^ n
  BY <1>1, FS_SUBSET
<1>3. QED
  BY <1>2, FS_CardinalityType

LEMMA ClampTyped ==
    ASSUME NEW x \in Int
    PROVE  Clamp(x) = IF x < 0 THEN 0 ELSE IF x > 100 THEN 100 ELSE x
<1>1. Min({100, x}) = IF 100 =< x THEN 100 ELSE x
  BY MinOfTwo
<1>2. Min({100, x}) \in Int
  BY <1>1
<1>3. Clamp(x) = IF 0 >= Min({100, x}) THEN 0 ELSE Min({100, x})
  BY <1>2, MaxOfTwo DEF Clamp
<1>4. QED
  BY <1>1, <1>3

LEMMA ShareTyped ==
    ASSUME NEW a \in Nat, NEW b \in Nat
    PROVE  Share(a, b) \in Nat
BY DivNat DEF Share

LEMMA SignalTyped ==
    ASSUME NEW worst \in Int
    PROVE  SignalFromRatio(worst) \in 0 .. 100
<1>1. CASE worst > 100
  <2>1. (worst - 100) \div 4 \in Int
    BY <1>1
  <2>2. QED
    BY <1>1, <2>1, ClampTyped DEF SignalFromRatio
<1>2. CASE ~ (worst > 100)
  BY <1>2 DEF SignalFromRatio
<1>3. QED
  BY <1>1, <1>2

(* The largest of 0 and finitely many numbers.                             *)
LEMMA MaxWithZero ==
    ASSUME NEW T \in SUBSET Int, IsFiniteSet(T), NEW m, m = Max({0} \cup T)
    PROVE  m \in Int /\ m >= 0 /\ (m = 0 \/ m \in T) /\ \A y \in T : m >= y
<1>1. IsFiniteSet({0} \cup T)
  <2>1. {0} \cup T = T \cup {0}
    OBVIOUS
  <2>2. QED
    BY <2>1, FS_AddElement
<1>2. {0} \cup T \in SUBSET Int /\ {0} \cup T # {}
  OBVIOUS
<1>3. Max({0} \cup T) \in {0} \cup T /\ \A y \in {0} \cup T : Max({0} \cup T) >= y
  BY <1>1, <1>2, MaxOfFinite
<1>4. m \in {0} \cup T /\ \A y \in {0} \cup T : m >= y
  BY <1>3
<1>5. m = 0 \/ m \in T
  BY <1>4
<1>6. m >= 0 /\ \A y \in T : m >= y
  BY <1>4
<1>7. m \in Int
  <2>1. CASE m = 0
    BY <2>1
  <2>2. CASE m \in T
    BY <2>2
  <2>3. QED
    BY <1>5, <2>1, <2>2
<1>8. QED
  BY <1>5, <1>6, <1>7

-----------------------------------------------------------------------------
(* Histograms *)

LEMMA CountTyped ==
    ASSUME NEW slots \in Seq(Nat)
    PROVE  Count(slots) \in Nat
<1>1. DOMAIN slots = 1 .. Len(slots) /\ Len(slots) \in Nat /\ slots \in [1 .. Len(slots) -> Nat]
  OBVIOUS
<1>2. IsFiniteSet(1 .. Len(slots))
  BY <1>1, FS_Interval
<1>3. SumFunctionOnSet(slots, 1 .. Len(slots)) \in Nat
  BY <1>1, <1>2, SumType
<1>4. QED
  BY <1>1, <1>3, MapThenSum DEF Count

(* The 99th percentile of a histogram is one of its midpoints.             *)
LEMMA PercentileTyped ==
    ASSUME NEW slots \in Seq(Nat)
    PROVE  Percentile(slots, 99) \in Nat
<1> DEFINE total == Count(slots)
           target == Max({1, (99 * total + 99) \div 100})
           reached == {k \in DOMAIN slots : UpTo(slots, k) >= target}
<1>1. total \in Nat /\ DOMAIN slots = 1 .. Len(slots) /\ Len(slots) \in Nat
  BY CountTyped
<1>2. CASE total = 0
  BY <1>2 DEF Percentile
<1>3. CASE total # 0
  <2>1. (99 * total + 99) \div 100 \in Int /\ (99 * total + 99) \div 100 =< total
    <3> HIDE DEF total
    <3>1. QED
      BY <1>1, <1>3
  <2>2. target \in Int /\ target =< total
    BY <1>1, <1>3, <2>1, MaxOfTwo
  <2>3. UpTo(slots, Len(slots)) = total
    BY <1>1 DEF UpTo, Count
  <2>4. Len(slots) # 0
    <3>1. ASSUME Len(slots) = 0 PROVE FALSE
      <4>1. DOMAIN slots = {}
        BY <1>1, <3>1
      <4>2. total = SumFunctionOnSet(slots, {})
        BY <4>1, MapThenSum DEF Count
      <4>3. SumFunctionOnSet(slots, {}) = 0
        BY SumZero, FS_EmptySet
      <4>4. QED
        BY <1>3, <4>2, <4>3
    <3>2. QED
      BY <3>1
  <2>5. Len(slots) \in reached
    <3>1. Len(slots) \in DOMAIN slots
      BY <1>1, <2>4
    <3>2. UpTo(slots, Len(slots)) >= target
      <4> HIDE DEF total, target
      <4>1. QED
        BY <1>1, <2>2, <2>3
    <3>3. QED
      BY <3>1, <3>2
  <2>6. reached \in SUBSET Nat /\ reached # {} /\ \A k \in reached : k - 1 \in Nat
    <3>1. reached \subseteq 1 .. Len(slots) /\ reached # {}
      BY <1>1, <2>5
    <3> HIDE DEF reached
    <3>2. QED
      BY <1>1, <3>1
  <2>7. Min(reached) - 1 \in Nat
    <3> HIDE DEF reached
    <3>1. QED
      BY <2>6, MinOfNaturals
  <2>8. Percentile(slots, 99) = BucketMidpoint(Min(reached))
    BY <1>3 DEF Percentile
  <2>9. QED
    <3> HIDE DEF reached
    <3>1. 2 ^ (Min(reached) - 1) \in Nat
      BY <2>7, PowerNat
    <3>2. QED
      BY <2>8, <3>1 DEF BucketMidpoint
<1>4. QED
  BY <1>2, <1>3

LEMMA IntervalTyped ==
    ASSUME NEW i \in Intervals
    PROVE  /\ i.cpu \in [Cgroups -> Nat]
           /\ i.ran \in [Cgroups -> [periods : {0, 1}, throttled : {0, 1}]]
           /\ i.burst \in [Cgroups -> [Cgroups -> 0 .. 100]]
           /\ \A g \in Cgroups : i.runq[g] \in Seq(Nat) /\ P99(i, g) \in Nat
<1>1. /\ i.cpu \in [Cgroups -> Nat]
      /\ i.ran \in [Cgroups -> [periods : {0, 1}, throttled : {0, 1}]]
      /\ i.burst \in [Cgroups -> [Cgroups -> 0 .. 100]]
      /\ i.runq \in [Cgroups -> Seq(Nat) \ {<<>>}]
  BY IntervalsAssumption
<1>2. \A g \in Cgroups : i.runq[g] \in Seq(Nat)
  BY <1>1
<1>3. QED
  BY <1>1, <1>2, PercentileTyped DEF P99

-----------------------------------------------------------------------------
(* Normals *)

EntryOK(e) == e = None \/ (e \in Entries /\ ~ e.touched /\ e.misses < PruneAfterMisses)
Ema(e, current) == (Alpha * current + (100 - Alpha) * e.value) \div 100

LEMMA EmaTyped ==
    ASSUME NEW e \in Entries, NEW current \in Nat
    PROVE  Ema(e, current) \in Nat
<1>1. Alpha \in Nat /\ 100 - Alpha \in Nat /\ e.value \in Nat
  BY BaselineAssumption DEF Entries
<1>2. Alpha * current \in Nat /\ (100 - Alpha) * e.value \in Nat
  BY <1>1
<1>3. QED
  BY <1>2, DivNat DEF Ema

(* An interval in which the cgroup was observed.                           *)
LEMMA Observed ==
    ASSUME NEW e, EntryOK(e), NEW current \in Nat, NEW update \in BOOLEAN,
           NEW r, r = Prune(Observe(e, current, update))
    PROVE  /\ r \in Entries /\ r # None /\ ~ r.touched /\ r.misses = 0
           /\ e = None => r.value = current /\ r.samples = 1
           /\ e # None => /\ r.value = IF update THEN Ema(e, current) ELSE e.value
                          /\ r.samples = IF e.samples < Warmup THEN e.samples + 1 ELSE Warmup
<1> DEFINE o == Observe(e, current, update)
<1>1. /\ o \in Entries /\ o.touched /\ o.misses = 0
      /\ e = None => o.value = current /\ o.samples = 1
      /\ e # None => /\ o.value = IF update THEN Ema(e, current) ELSE e.value
                     /\ o.samples = IF e.samples < Warmup THEN e.samples + 1 ELSE Warmup
  <2>1. CASE e = None
    BY <2>1, BaselineAssumption DEF Observe, Entries
  <2>2. CASE e # None
    <3>1. e \in Entries /\ Ema(e, current) \in Nat
      BY <2>2, EmaTyped DEF EntryOK
    <3>2. o = [value   |-> IF update THEN Ema(e, current) ELSE e.value,
               samples |-> IF e.samples < Warmup THEN e.samples + 1 ELSE Warmup,
               touched |-> TRUE, misses |-> 0]
      BY <2>2 DEF Observe, Ema
    <3>3. QED
      BY <2>2, <3>1, <3>2, BaselineAssumption DEF Entries
  <2>3. QED
    BY <2>1, <2>2
<1>2. o # None
  BY <1>1, NoEntryAssumption
<1>3. r = Prune(o)
  OBVIOUS
<1> HIDE DEF o
<1>4. r = [o EXCEPT !.touched = FALSE]
  BY <1>1, <1>2, <1>3 DEF Prune
<1>5. /\ r \in Entries /\ ~ r.touched /\ r.misses = o.misses /\ r.value = o.value
      /\ r.samples = o.samples
  BY <1>1, <1>4 DEF Entries
<1>6. QED
  BY <1>1, <1>5, NoEntryAssumption

(* One in which it was not: the entry misses one more, or is dropped.      *)
LEMMA NotObserved ==
    ASSUME NEW e, EntryOK(e), NEW r, r = Prune(e)
    PROVE  /\ EntryOK(r)
           /\ e = None => r = None
           /\ e # None => (r = None <=> e.misses + 1 >= PruneAfterMisses)
           /\ r # None => r.misses = e.misses + 1 /\ r.value = e.value /\ r.samples = e.samples
<1>1. CASE e = None
  BY <1>1 DEF Prune, EntryOK
<1>2. CASE e # None
  <2>1. e \in Entries /\ ~ e.touched /\ e.misses < PruneAfterMisses
    BY <1>2 DEF EntryOK
  <2>2. r = IF e.misses + 1 >= PruneAfterMisses THEN None ELSE [e EXCEPT !.misses = @ + 1]
    BY <1>2, <2>1 DEF Prune
  <2>3. CASE e.misses + 1 >= PruneAfterMisses
    BY <1>2, <2>2, <2>3 DEF EntryOK
  <2>4. CASE ~ (e.misses + 1 >= PruneAfterMisses)
    <3>1. /\ r \in Entries /\ ~ r.touched /\ r.misses = e.misses + 1 /\ r.value = e.value
          /\ r.samples = e.samples
      BY <2>1, <2>2, <2>4, BaselineAssumption DEF Entries
    <3>2. r # None
      BY <3>1, NoEntryAssumption
    <3>3. e.misses + 1 < PruneAfterMisses
      BY <2>1, <2>4, BaselineAssumption DEF Entries
    <3>4. QED
      BY <1>2, <2>4, <3>1, <3>2, <3>3 DEF EntryOK
  <2>5. QED
    BY <2>3, <2>4
<1>3. QED
  BY <1>1, <1>2

LEMMA DeviationTyped ==
    ASSUME NEW e, EntryOK(e), NEW current \in Nat
    PROVE  /\ Deviation(e, current) \in Nat
           /\ Ready(e) => e \in Entries /\ e.value \in Nat \ {0} /\ e.samples = Warmup
<1>1. CASE ~ Ready(e)
  BY <1>1 DEF Deviation
<1>2. CASE Ready(e)
  <2>1. e \in Entries /\ e.value \in Nat \ {0} /\ e.samples = Warmup
    BY <1>2, BaselineAssumption DEF Ready, EntryOK, Entries
  <2>2. 100 * current \in Nat
    OBVIOUS
  <2>3. QED
    BY <1>2, <2>1, <2>2, DivNat DEF Deviation
<1>3. QED
  BY <1>1, <1>2

(* A trusted entry that is not updated stays as it is.                     *)
LEMMA Frozen ==
    ASSUME NEW e, EntryOK(e), NEW current \in Nat, Ready(e), NEW update \in BOOLEAN, ~ update,
           NEW r, r = Prune(Observe(e, current, update))
    PROVE  /\ r \in Entries /\ Ready(r) /\ r.value = e.value
           /\ \A x \in Nat : Deviation(r, x) = Deviation(e, x)
<1>1. e # None /\ e \in Entries /\ e.value \in Nat \ {0} /\ e.samples = Warmup
  BY DeviationTyped DEF Ready
<1>2. /\ r \in Entries /\ r # None
      /\ r.value = IF update THEN Ema(e, current) ELSE e.value
      /\ r.samples = IF e.samples < Warmup THEN e.samples + 1 ELSE Warmup
  BY <1>1, Observed
<1>3. r.value = e.value /\ r.samples = Warmup
  BY <1>1, <1>2, BaselineAssumption
<1>4. Ready(r)
  BY <1>1, <1>2, <1>3, BaselineAssumption DEF Ready
<1>5. QED
  BY <1>2, <1>3, <1>4 DEF Deviation


-----------------------------------------------------------------------------
(* The invariant *)

(* What is in the tables and in cpu.stat.                                  *)
Types ==
    /\ \A g \in Cgroups : EntryOK(baseline[g]) /\ EntryOK(cpuUsage[g])
    /\ stat \in [Cgroups -> Stats]
    /\ \A g \in Cgroups : stat[g].throttled =< stat[g].periods
    /\ prevThrottle \in [Cgroups -> Stats \cup {None}]
    /\ Cardinality({g \in Cgroups : prevThrottle[g] # None}) =< TopN
    /\ timeline \in [Cgroups -> [Cgroups -> 0 .. 100]]
    /\ \A g \in Cgroups : snap.offenders[g] = None \/ snap.offenders[g].confidence \in -1 .. 100

(* An entry counts the intervals in which its cgroup was not observed.     *)
Kept(e, count) == count = IF e = None THEN PruneAfterMisses ELSE e.misses
KeptCounts ==
    \A g \in Cgroups : Kept(cpuUsage[g], unseen.usage[g]) /\ Kept(baseline[g], unseen.latency[g])

(* The normal of a cgroup that never changed its usage is that usage.      *)
Levels ==
    \A g \in Cgroups :
        cpuUsage[g] # None =>
            level[g] \in Int /\ (level[g] > 0 => cpuUsage[g].value = level[g])

(* A victim's row still says how far it is above its normal.               *)
VictimAt(g) ==
    snap.victims[g] # None =>
        /\ last \in Intervals /\ g \in Judged(last)
        /\ snap.victims[g].p99 = P99(last, g) /\ P99(last, g) >= RunqWarn
        /\ snap.victims[g].degradation > 0 =>
              /\ Ready(baseline[g]) /\ Deviation(baseline[g], P99(last, g)) >= DeviationFactor
VictimRows == \A g \in Cgroups : VictimAt(g)

(* A ranked pod's cpu.stat was kept as it is, until a read fails.          *)
Readings ==
    \A g \in Cgroups :
        ~ missed /\ snap.offenders[g] # None /\ prevThrottle[g] # None => prevThrottle[g] = stat[g]

IInv ==
    /\ Types /\ KeptCounts /\ Levels /\ VictimRows /\ Readings
    /\ SteadyIsInnocent

-----------------------------------------------------------------------------
(* Lists *)

(* A list holds as many as fit; only a full one leaves anything out.       *)
LEMMA LargestFits ==
    ASSUME NEW S \in SUBSET Cgroups, NEW score, NEW T \in Largest(S, TopN, score)
    PROVE  /\ T \subseteq S /\ IsFiniteSet(T) /\ Cardinality(T) =< TopN
           /\ T = S \/ Cardinality(T) = TopN
           /\ \A t \in T, u \in S \ T : score[t] >= score[u]
<1>1. IsFiniteSet(S) /\ TopN \in Nat
  BY FS_Subset, DetectionAssumption
<1>2. /\ T \subseteq S /\ Cardinality(T) = Min({TopN, Cardinality(S)})
      /\ \A t \in T, u \in S \ T : score[t] >= score[u]
  BY DEF Largest
<1>3. Cardinality(S) \in Nat
  BY <1>1, FS_CardinalityType
<1>4. Cardinality(T) = IF TopN =< Cardinality(S) THEN TopN ELSE Cardinality(S)
  BY <1>1, <1>2, <1>3, MinOfTwo
<1>5. IsFiniteSet(T) /\ Cardinality(T) =< TopN
  BY <1>1, <1>2, <1>3, <1>4, FS_Subset
<1>6. ASSUME T # S PROVE Cardinality(T) = TopN
  <2>1. Cardinality(T) < Cardinality(S)
    BY <1>1, <1>2, <1>6, FS_Subset, FS_CardinalityType
  <2>2. QED
    BY <1>3, <1>4, <2>1
<1>7. QED
  BY <1>2, <1>5, <1>6

Latencies(i) == [g \in Cgroups |-> P99(i, g)]
TimelineAfter(i) == IF i.timelineRead THEN i.burst ELSE timeline
Row(i, g) == Offender(i, g, CPUUsageAfter(i), StatAfter(i), TimelineAfter(i))

(* What an interval publishes; a healthy one lists and ranks nobody.       *)
LEMMA Published ==
    ASSUME NEW i \in Intervals, Report(i)
    PROVE  \E listed \in Largest(VictimIDs(i), TopN, Latencies(i)), ranked \in SUBSET Running(i) :
              /\ snap'.victims = [g \in Cgroups |-> IF g \in listed THEN Victim(i, g) ELSE None]
              /\ snap'.offenders = [g \in Cgroups |-> IF g \in ranked THEN Row(i, g) ELSE None]
              /\ \/ listed = {} /\ ranked = {} /\ prevThrottle' = prevThrottle
                 \/ /\ listed # {} /\ ranked \in Largest(Running(i), TopN, i.cpu)
                    /\ prevThrottle' = PrevThrottleAfter(i, ranked, StatAfter(i))
<1>1. PICK listed \in Largest(VictimIDs(i), TopN, Latencies(i)) :
         IF listed = {}
         THEN snap' = Healthy /\ prevThrottle' = prevThrottle
         ELSE \E ranked \in Largest(Running(i), TopN, i.cpu) :
           /\ snap' = [healthy |-> FALSE,
                       victims |-> [g \in Cgroups |-> IF g \in listed THEN Victim(i, g) ELSE None],
                       offenders |-> [g \in Cgroups |-> IF g \in ranked THEN Row(i, g) ELSE None]]
           /\ prevThrottle' = PrevThrottleAfter(i, ranked, StatAfter(i))
  BY DEF Report, Latencies, TimelineAfter, Row
<1>2. CASE listed = {}
  BY <1>1, <1>2 DEF Healthy, Nobody
<1>3. CASE listed # {}
  <2>1. PICK ranked \in Largest(Running(i), TopN, i.cpu) :
           /\ snap' = [healthy |-> FALSE,
                       victims |-> [g \in Cgroups |-> IF g \in listed THEN Victim(i, g) ELSE None],
                       offenders |-> [g \in Cgroups |-> IF g \in ranked THEN Row(i, g) ELSE None]]
           /\ prevThrottle' = PrevThrottleAfter(i, ranked, StatAfter(i))
    BY <1>1, <1>3
  <2>2. ranked \in SUBSET Running(i)
    BY DEF Largest
  <2>3. QED
    BY <1>3, <2>1, <2>2
<1>4. QED
  BY <1>2, <1>3

-----------------------------------------------------------------------------
(* What an interval does to an entry of each table *)

UpdatesUsage(e, usage) == ~ (Ready(e) /\ Deviation(e, usage) >= DeviationFactor)
UpdatesLatency(e, value) == ~ (Ready(e) /\ IsVictim(e, value))

LEMMA UsageEntry ==
    ASSUME Types, NEW i \in Intervals, Report(i), NEW g \in Cgroups
    PROVE  /\ i.cpu[g] \in Nat /\ UpdatesUsage(cpuUsage[g], i.cpu[g]) \in BOOLEAN
           /\ EntryOK(cpuUsage[g])
           /\ cpuUsage'[g] =
                 IF i.cpu[g] > 0
                 THEN Prune(Observe(cpuUsage[g], i.cpu[g], UpdatesUsage(cpuUsage[g], i.cpu[g])))
                 ELSE Prune(cpuUsage[g])
<1>1. i.cpu[g] \in Nat
  BY IntervalTyped
<1>2. cpuUsage' = CPUUsageAfter(i) /\ EntryOK(cpuUsage[g])
  BY DEF Report, Types
<1>3. cpuUsage'[g] = Prune(IF g \in Running(i) THEN ObserveUsage(cpuUsage[g], i.cpu[g])
                           ELSE cpuUsage[g])
  BY <1>2 DEF CPUUsageAfter
<1>4. QED
  BY <1>1, <1>2, <1>3 DEF Running, ObserveUsage, UpdatesUsage

LEMMA LatencyEntry ==
    ASSUME Types, NEW i \in Intervals, Report(i), NEW g \in Cgroups
    PROVE  /\ P99(i, g) \in Nat /\ UpdatesLatency(baseline[g], P99(i, g)) \in BOOLEAN
           /\ EntryOK(baseline[g])
           /\ baseline'[g] =
                 IF g \in Judged(i)
                 THEN Prune(Observe(baseline[g], P99(i, g), UpdatesLatency(baseline[g], P99(i, g))))
                 ELSE Prune(baseline[g])
<1>1. P99(i, g) \in Nat
  BY IntervalTyped
<1>2. baseline' = BaselineAfter(i) /\ EntryOK(baseline[g])
  BY DEF Report, Types
<1>3. baseline'[g] = Prune(IF g \in Judged(i) THEN Judge(baseline[g], P99(i, g)) ELSE baseline[g])
  BY <1>2 DEF BaselineAfter
<1>4. QED
  BY <1>1, <1>2, <1>3 DEF Judge, UpdatesLatency

(* The count of the intervals not observed goes with the entry.            *)
LEMMA KeptStep ==
    ASSUME NEW e, EntryOK(e), NEW count, Kept(e, count), NEW current \in Nat,
           NEW update \in BOOLEAN, NEW observed \in BOOLEAN,
           NEW r, r = IF observed THEN Prune(Observe(e, current, update)) ELSE Prune(e)
    PROVE  /\ EntryOK(r)
           /\ Kept(r, IF observed THEN 0 ELSE Min({PruneAfterMisses, count + 1}))
<1>1. CASE observed
  <2>1. r = Prune(Observe(e, current, update))
    BY <1>1
  <2>2. r \in Entries /\ r # None /\ ~ r.touched /\ r.misses = 0
    BY <2>1, Observed
  <2>3. QED
    BY <1>1, <2>2, BaselineAssumption DEF EntryOK, Kept
<1>2. CASE ~ observed
  <2>1. r = Prune(e)
    BY <1>2
  <2>2. /\ EntryOK(r)
        /\ e = None => r = None
        /\ e # None => (r = None <=> e.misses + 1 >= PruneAfterMisses)
        /\ r # None => r.misses = e.misses + 1
    BY <2>1, NotObserved
  <2>3. PruneAfterMisses \in Nat \ {0} /\ (e # None => e.misses \in Nat /\ e.misses < PruneAfterMisses)
    BY BaselineAssumption DEF EntryOK, Entries
  <2>4. count \in Int /\ (e = None => count = PruneAfterMisses) /\ (e # None => count = e.misses)
    BY <2>3 DEF Kept
  <2>5. Min({PruneAfterMisses, count + 1}) =
           IF PruneAfterMisses =< count + 1 THEN PruneAfterMisses ELSE count + 1
    BY <2>3, <2>4, MinOfTwo
  <2>6. QED
    BY <1>2, <2>2, <2>3, <2>4, <2>5 DEF Kept
<1>3. QED
  BY <1>1, <1>2

-----------------------------------------------------------------------------
(* What an offender's row is made of *)

Intensity(i, g) == Share(i.cpu[g], MapThenSumSet(LAMBDA x : i.cpu[x], Cgroups))
Requested(i) == MapThenSumSet(LAMBDA x : RequestMilliCPU[x], Running(i) \cap Resolved)
Fallback(i, g) ==
    IF Requested(i) = 0 THEN -1
    ELSE Clamp(2 * (Intensity(i, g) - Share(RequestMilliCPU[g], Requested(i))))
Worst(i) == Max({0} \cup {Deviation(baseline[v], P99(i, v)) : v \in VictimIDs(i)})
Harm(i, g) ==
    Max({SignalFromRatio(Worst(i)), BurstCorrelation(TimelineAfter(i), g, VictimIDs(i))})

LEMMA RowIs ==
    ASSUME NEW i, NEW g \in Resolved
    PROVE  Row(i, g) =
              [throttle |-> Throttle(i, g, StatAfter(i)),
               confidence |-> OffenderConfidence(CPUUsageAfter(i)[g], i.cpu[g], Intensity(i, g),
                                  Harm(i, g), Fallback(i, g), Throttle(i, g, StatAfter(i)))]
BY DEF Row, Offender, Intensity, Requested, Fallback, Worst, Harm

LEMMA IntensityTyped ==
    ASSUME NEW i \in Intervals, NEW g \in Cgroups
    PROVE  Intensity(i, g) \in Nat
<1>1. i.cpu \in [Cgroups -> Nat]
  BY IntervalTyped
<1>2. SumFunctionOnSet(i.cpu, Cgroups) \in Nat
  BY <1>1, SumType, DetectionAssumption
<1>3. QED
  BY <1>1, <1>2, MapThenSum, ShareTyped DEF Intensity

LEMMA FallbackTyped ==
    ASSUME NEW i \in Intervals, NEW g \in Cgroups
    PROVE  Fallback(i, g) \in -1 .. 100
<1>1. IsFiniteSet(Running(i) \cap Resolved) /\ Running(i) \cap Resolved \subseteq Cgroups
  BY FS_Subset, DetectionAssumption DEF Running
<1>2. SumFunctionOnSet(RequestMilliCPU, Running(i) \cap Resolved) \in Nat
  BY <1>1, SumType, DetectionAssumption
<1>3. Requested(i) \in Nat
  BY <1>2, MapThenSum DEF Requested
<1>4. Share(RequestMilliCPU[g], Requested(i)) \in Nat /\ Intensity(i, g) \in Nat
  BY <1>3, ShareTyped, IntensityTyped, DetectionAssumption
<1>5. 2 * (Intensity(i, g) - Share(RequestMilliCPU[g], Requested(i))) \in Int
  BY <1>4
<1>6. QED
  BY <1>5, ClampTyped DEF Fallback

(* The victims' evidence, and the worst of them.                           *)
LEMMA WorstTyped ==
    ASSUME Types, NEW i \in Intervals
    PROVE  /\ Worst(i) \in Nat
           /\ \A v \in VictimIDs(i) : Worst(i) >= Deviation(baseline[v], P99(i, v))
           /\ Worst(i) = 0 \/ \E v \in VictimIDs(i) : Worst(i) = Deviation(baseline[v], P99(i, v))
<1>1. PICK S : S = VictimIDs(i)
  OBVIOUS
<1>2. PICK f : f = [v \in S |-> Deviation(baseline[v], P99(i, v))]
  OBVIOUS
<1>3. PICK T : T = {Deviation(baseline[v], P99(i, v)) : v \in S}
  OBVIOUS
<1>4. S \subseteq Cgroups /\ IsFiniteSet(S)
  BY <1>1, FS_Subset, DetectionAssumption DEF VictimIDs, Judged
<1>5. f \in Surjection(S, T)
  BY <1>2, <1>3 DEF Surjection
<1>6. IsFiniteSet(T) /\ T \in SUBSET Int
  BY <1>3, <1>4, <1>5, FS_Surjection, IntervalTyped, DeviationTyped DEF Types
<1>7. Worst(i) = Max({0} \cup T)
  BY <1>1, <1>3 DEF Worst
<1>8. /\ Worst(i) \in Int /\ Worst(i) >= 0 /\ (Worst(i) = 0 \/ Worst(i) \in T)
      /\ \A y \in T : Worst(i) >= y
  BY <1>6, <1>7, MaxWithZero
<1>9. QED
  BY <1>1, <1>3, <1>8

LEMMA CorrelationTyped ==
    ASSUME NEW tl \in [Cgroups -> [Cgroups -> 0 .. 100]], NEW g \in Cgroups,
           NEW S \in SUBSET Cgroups
    PROVE  /\ BurstCorrelation(tl, g, S) \in 0 .. 100
           /\ \A v \in S : BurstCorrelation(tl, g, S) >= tl[g][v]
           /\ BurstCorrelation(tl, g, S) = 0 \/ \E v \in S : BurstCorrelation(tl, g, S) = tl[g][v]
<1>1. PICK f : f = [v \in S |-> tl[g][v]]
  OBVIOUS
<1>2. PICK T : T = {tl[g][v] : v \in S}
  OBVIOUS
<1>3. IsFiniteSet(S)
  BY FS_Subset, DetectionAssumption
<1>4. f \in Surjection(S, T)
  BY <1>1, <1>2 DEF Surjection
<1>5. IsFiniteSet(T) /\ T \in SUBSET Int /\ T \subseteq 0 .. 100
  BY <1>2, <1>3, <1>4, FS_Surjection
<1>6. PICK m : m = Max({0} \cup T)
  OBVIOUS
<1>7. m \in Int /\ m >= 0 /\ (m = 0 \/ m \in T) /\ \A y \in T : m >= y
  BY <1>5, <1>6, MaxWithZero
<1>8. BurstCorrelation(tl, g, S) = m
  BY <1>2, <1>6 DEF BurstCorrelation
<1>9. m \in 0 .. 100 /\ (m = 0 \/ \E v \in S : m = tl[g][v]) /\ \A v \in S : m >= tl[g][v]
  BY <1>2, <1>5, <1>7
<1>10. QED
  BY <1>8, <1>9

LEMMA HarmTyped ==
    ASSUME Types, NEW i \in Intervals, NEW g \in Cgroups
    PROVE  /\ Harm(i, g) \in 0 .. 100 /\ Harm(i, g) >= SignalFromRatio(Worst(i))
           /\ Harm(i, g) >= BurstCorrelation(TimelineAfter(i), g, VictimIDs(i))
           /\ \/ Harm(i, g) = SignalFromRatio(Worst(i))
              \/ Harm(i, g) = BurstCorrelation(TimelineAfter(i), g, VictimIDs(i))
<1>1. TimelineAfter(i) \in [Cgroups -> [Cgroups -> 0 .. 100]]
  BY IntervalTyped DEF TimelineAfter, Types
<1>2. VictimIDs(i) \in SUBSET Cgroups
  BY DEF VictimIDs, Judged
<1>3. BurstCorrelation(TimelineAfter(i), g, VictimIDs(i)) \in 0 .. 100
  BY <1>1, <1>2, CorrelationTyped
<1>4. SignalFromRatio(Worst(i)) \in 0 .. 100
  BY WorstTyped, SignalTyped
<1> DEFINE signal == SignalFromRatio(Worst(i))
           corr == BurstCorrelation(TimelineAfter(i), g, VictimIDs(i))
<1>5. Harm(i, g) = Max({signal, corr})
  BY DEF Harm
<1> HIDE DEF signal, corr
<1>6. signal \in 0 .. 100 /\ corr \in 0 .. 100
  BY <1>3, <1>4 DEF signal, corr
<1>7. Max({signal, corr}) = IF signal >= corr THEN signal ELSE corr
  BY <1>6, MaxOfTwo
<1>8. QED
  BY <1>5, <1>6, <1>7 DEF signal, corr

LEMMA FractionTyped ==
    ASSUME NEW now \in Stats, NEW prev \in Stats
    PROVE  ThrottledFraction(now, prev) \in Nat
<1>1. now.periods - prev.periods \in Int /\ now.throttled - prev.throttled \in Int
  BY DEF Stats
<1>2. /\ Max({0, now.periods - prev.periods}) \in Nat
      /\ Max({0, now.throttled - prev.throttled}) \in Nat
  BY <1>1, MaxOfTwo
<1>3. QED
  BY <1>2, ShareTyped DEF ThrottledFraction

Deviated(e, usage, fallback) ==
    IF Ready(e) THEN Clamp((Deviation(e, usage) - 100) \div 4) ELSE fallback
Changed(e, usage, fallback, throttle) ==
    IF throttle > 0 THEN Max({Deviated(e, usage, fallback), Clamp(throttle)})
    ELSE Deviated(e, usage, fallback)

(* The least of three signals, if there is a first one.                    *)
Least(c, e, usage, share, harm, fallback, throttle) ==
    LET deviated == Deviated(e, usage, fallback)
        changed == Changed(e, usage, fallback, throttle)
    IN  /\ changed \in -1 .. 100 /\ c \in -1 .. 100 /\ changed >= deviated
        /\ throttle = 0 => changed = deviated
        /\ changed < 0 => c = -1
        /\ changed >= 0 => /\ c \in {changed, Clamp(4 * share), harm}
                           /\ c =< changed /\ c =< Clamp(4 * share) /\ c =< harm
LEMMA ConfidenceIs ==
    ASSUME NEW e, EntryOK(e), NEW usage \in Nat, NEW share \in Nat, NEW harm \in 0 .. 100,
           NEW fallback \in -1 .. 100, NEW throttle \in Nat
    PROVE  Least(OffenderConfidence(e, usage, share, harm, fallback, throttle),
                 e, usage, share, harm, fallback, throttle)
<1>0. PICK c : c = OffenderConfidence(e, usage, share, harm, fallback, throttle)
  OBVIOUS
<1> DEFINE deviated == Deviated(e, usage, fallback)
           changed == Changed(e, usage, fallback, throttle)
           magnitude == Clamp(4 * share)
<1>1. deviated \in -1 .. 100
  <2>1. Deviation(e, usage) \in Nat
    BY DeviationTyped
  <2>2. (Deviation(e, usage) - 100) \div 4 \in Int
    BY <2>1
  <2>3. QED
    BY <2>2, ClampTyped DEF Deviated
<1>2. Clamp(throttle) \in 0 .. 100 /\ magnitude \in 0 .. 100
  <2>1. 4 * share \in Int
    OBVIOUS
  <2>2. QED
    BY <2>1, ClampTyped
<1>3. /\ changed \in -1 .. 100 /\ changed >= deviated
      /\ throttle = 0 => changed = deviated
  <2> HIDE DEF deviated
  <2>1. changed = IF throttle > 0 THEN Max({deviated, Clamp(throttle)}) ELSE deviated
    BY DEF Changed, deviated
  <2> HIDE DEF changed
  <2>2. deviated \in Int /\ Clamp(throttle) \in Int
    BY <1>1, <1>2
  <2>3. Max({deviated, Clamp(throttle)}) =
           IF deviated >= Clamp(throttle) THEN deviated ELSE Clamp(throttle)
    BY <2>2, MaxOfTwo
  <2>4. QED
    BY <1>1, <1>2, <2>1, <2>3
<1>4. c = IF changed < 0 THEN -1 ELSE Clamp(Min({changed, magnitude, harm}))
  BY <1>0 DEF OffenderConfidence, Changed, Deviated
<1> HIDE DEF deviated, changed, magnitude
<1>5. CASE changed < 0
  BY <1>0, <1>3, <1>4, <1>5 DEF deviated, changed, magnitude, Least
<1>6. CASE changed >= 0
  <2> DEFINE m == Min({changed, magnitude, harm})
  <2>1. m \in {changed, magnitude, harm} /\ m =< changed /\ m =< magnitude /\ m =< harm
    <3>1. changed \in Int /\ magnitude \in Int /\ harm \in Int
      BY <1>2, <1>3
    <3>2. QED
      BY <3>1, MinOfThree
  <2>2. m \in 0 .. 100
    BY <1>2, <1>3, <1>6, <2>1
  <2>3. c = m
    <3> HIDE DEF m
    <3>1. c = Clamp(m)
      BY <1>3, <1>4, <1>6 DEF m
    <3>2. QED
      BY <2>2, <3>1, ClampTyped
  <2> HIDE DEF m
  <2>4. QED
    BY <1>0, <1>2, <1>3, <1>6, <2>1, <2>2, <2>3 DEF deviated, changed, magnitude, Least
<1>7. QED
  BY <1>3, <1>5, <1>6

-----------------------------------------------------------------------------
(* Each part of the invariant is kept *)

LEMMA StatStep ==
    ASSUME Types, NEW i \in Intervals
    PROVE  /\ StatAfter(i) \in [Cgroups -> Stats]
           /\ \A g \in Cgroups :
                /\ StatAfter(i)[g].throttled =< StatAfter(i)[g].periods
                /\ StatAfter(i)[g] # stat[g] =>
                      /\ StatAfter(i)[g].periods = stat[g].periods + i.ran[g].periods
                      /\ StatAfter(i)[g].throttled = stat[g].throttled + i.ran[g].throttled
<1> SUFFICES ASSUME NEW g \in Cgroups
             PROVE  /\ StatAfter(i)[g] \in Stats
                    /\ StatAfter(i)[g].throttled =< StatAfter(i)[g].periods
                    /\ StatAfter(i)[g] # stat[g] =>
                          /\ StatAfter(i)[g].periods = stat[g].periods + i.ran[g].periods
                          /\ StatAfter(i)[g].throttled = stat[g].throttled + i.ran[g].throttled
  BY DEF StatAfter
<1> DEFINE s == stat[g]
           d == i.ran[g]
<1>1. d.periods \in {0, 1} /\ d.throttled \in {0, 1} /\ d.throttled =< d.periods
  BY IntervalsAssumption
<1>2. s \in Stats /\ s.throttled =< s.periods
  BY DEF Types
<1>3. StatAfter(i)[g] = IF s.periods = MaxPeriods THEN s
                        ELSE [periods |-> s.periods + d.periods, throttled |-> s.throttled + d.throttled]
  BY DEF StatAfter
<1> HIDE DEF s, d
<1>4. s.periods \in 0 .. MaxPeriods /\ s.throttled \in 0 .. MaxPeriods
  BY <1>2 DEF Stats
<1>5. CASE s.periods = MaxPeriods
  BY <1>2, <1>3, <1>5 DEF s, d
<1>6. CASE s.periods # MaxPeriods
  <2>1. /\ StatAfter(i)[g].periods = s.periods + d.periods
        /\ StatAfter(i)[g].throttled = s.throttled + d.throttled
    BY <1>3, <1>6
  <2>2. s.periods + d.periods \in 0 .. MaxPeriods /\ s.throttled + d.throttled =< s.periods + d.periods
    BY <1>1, <1>2, <1>4, <1>6, DetectionAssumption
  <2>3. s.throttled + d.throttled \in 0 .. MaxPeriods
    BY <1>1, <1>4, <2>2, DetectionAssumption
  <2>4. StatAfter(i)[g] \in Stats
    BY <1>3, <1>6, <2>2, <2>3 DEF Stats
  <2>5. QED
    BY <2>1, <2>2, <2>4 DEF s, d
<1>7. QED
  BY <1>5, <1>6

(* The entries of both tables, and the counts that go with them.           *)
LEMMA TablesStep ==
    ASSUME Types, KeptCounts, NEW i \in Intervals, Report(i)
    PROVE  KeptCounts' /\ \A g \in Cgroups : EntryOK(cpuUsage'[g]) /\ EntryOK(baseline'[g])
<1> SUFFICES ASSUME NEW g \in Cgroups
             PROVE  /\ EntryOK(cpuUsage'[g]) /\ Kept(cpuUsage'[g], unseen'.usage[g])
                    /\ EntryOK(baseline'[g]) /\ Kept(baseline'[g], unseen'.latency[g])
  BY DEF KeptCounts
<1>1. /\ unseen'.usage[g] = IF g \in Running(i) THEN 0
                            ELSE Min({PruneAfterMisses, unseen.usage[g] + 1})
      /\ unseen'.latency[g] = IF g \in Judged(i) THEN 0
                              ELSE Min({PruneAfterMisses, unseen.latency[g] + 1})
  BY DEF Report, UnseenAfter
<1>2. EntryOK(cpuUsage'[g]) /\ Kept(cpuUsage'[g], unseen'.usage[g])
  <2>1. Kept(cpuUsage[g], unseen.usage[g])
    BY DEF KeptCounts
  <2>2. PICK observed \in BOOLEAN : observed <=> g \in Running(i)
    OBVIOUS
  <2>3. cpuUsage'[g] =
           IF observed
           THEN Prune(Observe(cpuUsage[g], i.cpu[g], UpdatesUsage(cpuUsage[g], i.cpu[g])))
           ELSE Prune(cpuUsage[g])
    BY <2>2, UsageEntry DEF Running
  <2>4. i.cpu[g] \in Nat /\ UpdatesUsage(cpuUsage[g], i.cpu[g]) \in BOOLEAN /\ EntryOK(cpuUsage[g])
    BY UsageEntry
  <2>5. /\ EntryOK(cpuUsage'[g])
        /\ Kept(cpuUsage'[g], IF observed THEN 0 ELSE Min({PruneAfterMisses, unseen.usage[g] + 1}))
    BY <2>1, <2>3, <2>4, KeptStep
  <2>6. QED
    BY <1>1, <2>2, <2>5
<1>3. EntryOK(baseline'[g]) /\ Kept(baseline'[g], unseen'.latency[g])
  <2>1. Kept(baseline[g], unseen.latency[g])
    BY DEF KeptCounts
  <2>2. PICK observed \in BOOLEAN : observed <=> g \in Judged(i)
    OBVIOUS
  <2>3. baseline'[g] =
           IF observed
           THEN Prune(Observe(baseline[g], P99(i, g), UpdatesLatency(baseline[g], P99(i, g))))
           ELSE Prune(baseline[g])
    BY <2>2, LatencyEntry
  <2>4. P99(i, g) \in Nat /\ UpdatesLatency(baseline[g], P99(i, g)) \in BOOLEAN /\ EntryOK(baseline[g])
    BY LatencyEntry
  <2>5. /\ EntryOK(baseline'[g])
        /\ Kept(baseline'[g], IF observed THEN 0 ELSE Min({PruneAfterMisses, unseen.latency[g] + 1}))
    BY <2>1, <2>3, <2>4, KeptStep
  <2>6. QED
    BY <1>1, <2>2, <2>5
<1>4. QED
  BY <1>2, <1>3

(* What a ranked pod's row says.                                           *)
LEMMA RowTyped ==
    ASSUME Types, KeptCounts, NEW i \in Intervals, Report(i), NEW g \in Resolved
    PROVE  /\ Throttle(i, g, stat') \in Nat /\ Row(i, g).throttle = Throttle(i, g, stat')
           /\ Least(Row(i, g).confidence, cpuUsage'[g], i.cpu[g], Intensity(i, g), Harm(i, g),
                    Fallback(i, g), Throttle(i, g, stat'))
<1>1. g \in Cgroups
  BY DetectionAssumption
<1>2. cpuUsage' = CPUUsageAfter(i) /\ stat' = StatAfter(i)
  BY DEF Report
<1>3. EntryOK(cpuUsage'[g])
  BY <1>1, TablesStep
<1>4. /\ i.cpu[g] \in Nat /\ Intensity(i, g) \in Nat /\ Harm(i, g) \in 0 .. 100
      /\ Fallback(i, g) \in -1 .. 100
  BY <1>1, UsageEntry, IntensityTyped, HarmTyped, FallbackTyped
<1>5. PICK t : t = Throttle(i, g, stat')
  OBVIOUS
<1>6. t \in Nat
  <2>1. CASE g \in i.gone \/ prevThrottle[g] = None
    BY <1>5, <2>1 DEF Throttle
  <2>2. CASE ~ (g \in i.gone \/ prevThrottle[g] = None)
    <3>1. stat'[g] \in Stats /\ prevThrottle[g] \in Stats
      BY <1>1, <1>2, <2>2, StatStep DEF Types
    <3>2. QED
      BY <1>5, <2>2, <3>1, FractionTyped DEF Throttle
  <2>3. QED
    BY <2>1, <2>2
<1>7. Row(i, g) =
         [throttle |-> t,
          confidence |-> OffenderConfidence(cpuUsage'[g], i.cpu[g], Intensity(i, g), Harm(i, g),
                                            Fallback(i, g), t)]
  BY <1>2, <1>5, RowIs
<1>8. Least(OffenderConfidence(cpuUsage'[g], i.cpu[g], Intensity(i, g), Harm(i, g), Fallback(i, g), t),
            cpuUsage'[g], i.cpu[g], Intensity(i, g), Harm(i, g), Fallback(i, g), t)
  BY <1>3, <1>4, <1>6, ConfidenceIs
<1>9. QED
  BY <1>5, <1>6, <1>7, <1>8

LEMMA TypesStep ==
    ASSUME Types, KeptCounts, NEW i \in Intervals, Report(i)
    PROVE  Types'
<1>1. \A g \in Cgroups : EntryOK(baseline'[g]) /\ EntryOK(cpuUsage'[g])
  BY TablesStep
<1>2. /\ stat' = StatAfter(i) /\ stat' \in [Cgroups -> Stats]
      /\ \A g \in Cgroups : stat'[g].throttled =< stat'[g].periods
  BY StatStep DEF Report
<1>3. timeline' \in [Cgroups -> [Cgroups -> 0 .. 100]]
  BY IntervalTyped DEF Report, Types
<1>4. PICK listed \in Largest(VictimIDs(i), TopN, Latencies(i)), ranked \in SUBSET Running(i) :
         /\ snap'.offenders = [g \in Cgroups |-> IF g \in ranked THEN Row(i, g) ELSE None]
         /\ \/ prevThrottle' = prevThrottle
            \/ /\ ranked \in Largest(Running(i), TopN, i.cpu)
               /\ prevThrottle' = PrevThrottleAfter(i, ranked, StatAfter(i))
  BY Published
<1>5. /\ prevThrottle' \in [Cgroups -> Stats \cup {None}]
      /\ Cardinality({g \in Cgroups : prevThrottle'[g] # None}) =< TopN
  <2>1. CASE prevThrottle' = prevThrottle
    BY <2>1 DEF Types
  <2>2. CASE /\ ranked \in Largest(Running(i), TopN, i.cpu)
             /\ prevThrottle' = PrevThrottleAfter(i, ranked, StatAfter(i))
    <3>1. Running(i) \in SUBSET Cgroups
      BY DEF Running
    <3>2. IsFiniteSet(ranked) /\ Cardinality(ranked) =< TopN
      BY <2>2, <3>1, LargestFits
    <3>3. \A g \in Cgroups :
             prevThrottle'[g] = IF g \in (ranked \cap Resolved) \ i.gone THEN stat'[g] ELSE None
      BY <1>2, <2>2 DEF PrevThrottleAfter
    <3>4. prevThrottle' \in [Cgroups -> Stats \cup {None}]
      BY <1>2, <2>2 DEF PrevThrottleAfter
    <3>5. {g \in Cgroups : prevThrottle'[g] # None} \subseteq ranked
      BY <3>3
    <3>6. Cardinality({g \in Cgroups : prevThrottle'[g] # None}) =< Cardinality(ranked)
      BY <3>2, <3>5, FS_Subset
    <3>7. /\ Cardinality(ranked) \in Nat
          /\ Cardinality({g \in Cgroups : prevThrottle'[g] # None}) \in Nat
      BY <3>2, <3>5, FS_Subset, FS_CardinalityType
    <3>8. QED
      BY <3>2, <3>4, <3>6, <3>7, DetectionAssumption
  <2>3. QED
    BY <1>4, <2>1, <2>2
<1>6. ASSUME NEW g \in Cgroups
      PROVE  snap'.offenders[g] = None \/ snap'.offenders[g].confidence \in -1 .. 100
  <2>1. CASE g \notin ranked
    BY <1>4, <2>1
  <2>2. CASE g \in ranked /\ g \notin Resolved
    <3>1. snap'.offenders[g] = Row(i, g)
      BY <1>4, <2>2
    <3>2. Row(i, g).confidence = -1
      BY <2>2 DEF Row, Offender
    <3>3. QED
      BY <3>1, <3>2
  <2>3. CASE g \in ranked /\ g \in Resolved
    <3>1. snap'.offenders[g] = Row(i, g)
      BY <1>4, <2>3
    <3>2. Row(i, g).confidence \in -1 .. 100
      BY <2>3, RowTyped DEF Least
    <3>3. QED
      BY <3>1, <3>2
  <2>4. QED
    BY <2>1, <2>2, <2>3
<1>7. QED
  BY <1>1, <1>2, <1>3, <1>5, <1>6 DEF Types

(* A moving average of one value is that value.                            *)
LEMMA EmaOfSame ==
    ASSUME NEW l \in Nat
    PROVE  (Alpha * l + (100 - Alpha) * l) \div 100 = l
<1>1. Alpha \in Nat
  BY BaselineAssumption
<1>2. Alpha * l + (100 - Alpha) * l = 100 * l
  BY <1>1
<1>3. (100 * l) \div 100 = l
  OBVIOUS
<1>4. QED
  BY <1>2, <1>3

LEMMA DeviationOfSame ==
    ASSUME NEW l \in Nat \ {0}
    PROVE  (100 * l) \div l = 100
OBVIOUS

LEMMA LevelsStep ==
    ASSUME Types, Levels, NEW i \in Intervals, Report(i)
    PROVE  /\ Levels'
           /\ \A g \in Cgroups :
                 cpuUsage'[g] # None /\ i.cpu[g] > 0 /\ level'[g] > 0 => level'[g] = i.cpu[g]
<1> SUFFICES ASSUME NEW g \in Cgroups, cpuUsage'[g] # None
             PROVE  /\ level'[g] \in Int /\ (level'[g] > 0 => cpuUsage'[g].value = level'[g])
                    /\ i.cpu[g] > 0 /\ level'[g] > 0 => level'[g] = i.cpu[g]
  BY DEF Levels
<1>1. level'[g] = CASE cpuUsage'[g] = None -> None
                    [] cpuUsage'[g] # None /\ cpuUsage[g] = None -> i.cpu[g]
                    [] OTHER -> IF i.cpu[g] \in {0, level[g]} THEN level[g] ELSE -1
  BY DEF Report, LevelAfter
<1>2. /\ i.cpu[g] \in Nat /\ UpdatesUsage(cpuUsage[g], i.cpu[g]) \in BOOLEAN /\ EntryOK(cpuUsage[g])
      /\ cpuUsage'[g] =
            IF i.cpu[g] > 0
            THEN Prune(Observe(cpuUsage[g], i.cpu[g], UpdatesUsage(cpuUsage[g], i.cpu[g])))
            ELSE Prune(cpuUsage[g])
  BY UsageEntry
<1>3. CASE cpuUsage[g] = None
  <2>1. level'[g] = i.cpu[g]
    BY <1>1, <1>3
  <2>2. i.cpu[g] > 0
    BY <1>2, <1>3, NotObserved
  <2>3. cpuUsage'[g].value = i.cpu[g]
    BY <1>2, <1>3, <2>2, Observed
  <2>4. QED
    BY <1>2, <2>1, <2>3
<1>4. CASE cpuUsage[g] # None
  <2>1. level'[g] = IF i.cpu[g] \in {0, level[g]} THEN level[g] ELSE -1
    BY <1>1, <1>4
  <2>2. /\ level[g] \in Int /\ (level[g] > 0 => cpuUsage[g].value = level[g])
        /\ cpuUsage[g] \in Entries
    BY <1>2, <1>4 DEF Levels, EntryOK
  <2>3. CASE i.cpu[g] = 0
    <3>1. cpuUsage'[g].value = cpuUsage[g].value
      BY <1>2, <2>3, NotObserved
    <3>2. QED
      BY <2>1, <2>2, <2>3, <3>1
  <2>4. CASE i.cpu[g] # 0 /\ i.cpu[g] = level[g]
    <3>1. i.cpu[g] > 0 /\ level'[g] = level[g] /\ cpuUsage[g].value = i.cpu[g]
      BY <1>2, <2>1, <2>2, <2>4
    <3>2. cpuUsage'[g].value = IF UpdatesUsage(cpuUsage[g], i.cpu[g])
                               THEN Ema(cpuUsage[g], i.cpu[g]) ELSE cpuUsage[g].value
      BY <1>2, <1>4, <3>1, Observed
    <3>3. Ema(cpuUsage[g], i.cpu[g]) = i.cpu[g]
      BY <1>2, <3>1, EmaOfSame DEF Ema
    <3>4. QED
      BY <2>2, <2>4, <3>1, <3>2, <3>3
  <2>5. CASE i.cpu[g] # 0 /\ i.cpu[g] # level[g]
    BY <2>1, <2>5
  <2>6. QED
    BY <2>3, <2>4, <2>5
<1>5. QED
  BY <1>3, <1>4

LEMMA SteadyStep ==
    ASSUME Types, KeptCounts, Levels, NEW i \in Intervals, Report(i)
    PROVE  SteadyIsInnocent'
<1> SUFFICES ASSUME NEW g \in Cgroups, snap'.offenders[g] # None, g \in Resolved,
                    Ready(cpuUsage'[g]), level'[g] > 0, snap'.offenders[g].throttle = 0
             PROVE  snap'.offenders[g].confidence = 0
  BY DEF SteadyIsInnocent
<1>1. PICK ranked \in SUBSET Running(i) :
         snap'.offenders = [x \in Cgroups |-> IF x \in ranked THEN Row(i, x) ELSE None]
  BY Published
<1>2. g \in Running(i) /\ snap'.offenders[g] = Row(i, g)
  BY <1>1
<1>3. EntryOK(cpuUsage'[g]) /\ Levels' /\ i.cpu[g] \in Nat /\ i.cpu[g] > 0
  BY <1>2, TypesStep, LevelsStep, UsageEntry DEF Types, Running
<1>4. level'[g] = i.cpu[g] /\ cpuUsage'[g].value = i.cpu[g]
  <2>1. cpuUsage'[g] # None
    BY DEF Ready
  <2>2. QED
    BY <1>3, <2>1, LevelsStep DEF Levels
<1>5. Deviation(cpuUsage'[g], i.cpu[g]) = 100
  BY <1>3, <1>4, DeviationOfSame DEF Deviation
<1>6. Deviated(cpuUsage'[g], i.cpu[g], Fallback(i, g)) = 0
  <2>1. (100 - 100) \div 4 = 0
    OBVIOUS
  <2>2. Clamp(0) = 0
    BY ClampTyped
  <2>3. QED
    BY <1>5, <2>1, <2>2 DEF Deviated
<1>7. PICK c, t, changed, magnitude, harm :
         /\ c = Row(i, g).confidence /\ t = Throttle(i, g, stat')
         /\ changed = Changed(cpuUsage'[g], i.cpu[g], Fallback(i, g), t)
         /\ magnitude = Clamp(4 * Intensity(i, g)) /\ harm = Harm(i, g)
  OBVIOUS
<1>8. t = 0
  BY <1>2, <1>7, RowTyped
<1>9. changed = 0 /\ c \in {changed, magnitude, harm} /\ c =< changed
  BY <1>6, <1>7, <1>8, RowTyped DEF Least
<1>10. magnitude \in 0 .. 100 /\ harm \in 0 .. 100
  <2>1. 4 * Intensity(i, g) \in Int
    BY IntensityTyped
  <2>2. QED
    BY <1>7, <2>1, ClampTyped, HarmTyped
<1>11. QED
  BY <1>2, <1>7, <1>9, <1>10

(* A victim that is above its own normal keeps that normal.                *)
LEMMA VictimFrozen ==
    ASSUME Types, NEW i \in Intervals, Report(i), NEW g \in VictimIDs(i), Ready(baseline[g])
    PROVE  /\ Ready(baseline'[g])
           /\ \A x \in Nat : Deviation(baseline'[g], x) = Deviation(baseline[g], x)
<1>1. g \in Cgroups /\ g \in Judged(i) /\ IsVictim(baseline[g], P99(i, g))
  BY DEF VictimIDs, Judged
<1>2. ~ UpdatesLatency(baseline[g], P99(i, g))
  BY <1>1 DEF UpdatesLatency
<1>3. /\ P99(i, g) \in Nat /\ UpdatesLatency(baseline[g], P99(i, g)) \in BOOLEAN
      /\ EntryOK(baseline[g])
      /\ baseline'[g] =
            Prune(Observe(baseline[g], P99(i, g), UpdatesLatency(baseline[g], P99(i, g))))
  BY <1>1, LatencyEntry
<1>4. QED
  BY <1>2, <1>3, Frozen

LEMMA VictimsStep ==
    ASSUME Types, NEW i \in Intervals, Report(i)
    PROVE  VictimRows'
<1> SUFFICES ASSUME NEW g \in Cgroups, snap'.victims[g] # None
             PROVE  /\ last' \in Intervals /\ g \in Judged(last')
                    /\ snap'.victims[g].p99 = P99(last', g) /\ P99(last', g) >= RunqWarn
                    /\ snap'.victims[g].degradation > 0 =>
                          /\ Ready(baseline'[g])
                          /\ Deviation(baseline'[g], P99(last', g)) >= DeviationFactor
  BY DEF VictimRows, VictimAt, P99
<1>1. last' = i
  BY DEF Report
<1>2. PICK listed \in Largest(VictimIDs(i), TopN, Latencies(i)) :
         snap'.victims = [x \in Cgroups |-> IF x \in listed THEN Victim(i, x) ELSE None]
  BY Published
<1>3. VictimIDs(i) \in SUBSET Cgroups
  BY DEF VictimIDs, Judged
<1>4. g \in VictimIDs(i) /\ snap'.victims[g] = Victim(i, g)
  BY <1>2, <1>3, LargestFits
<1>5. g \in Judged(i) /\ IsVictim(baseline[g], P99(i, g)) /\ P99(i, g) \in Nat
  BY <1>4, IntervalTyped DEF VictimIDs
<1>6. snap'.victims[g].p99 = P99(i, g) /\ P99(i, g) >= RunqWarn
  BY <1>4, <1>5 DEF Victim, IsVictim
<1>7. ASSUME snap'.victims[g].degradation > 0
      PROVE  Ready(baseline'[g]) /\ Deviation(baseline'[g], P99(i, g)) >= DeviationFactor
  <2>1. Deviation(baseline[g], P99(i, g)) > 0
    BY <1>4, <1>7 DEF Victim
  <2>2. Ready(baseline[g])
    BY <2>1 DEF Deviation
  <2>3. Deviation(baseline[g], P99(i, g)) \in Nat
    BY <1>5, DeviationTyped DEF Types
  <2>4. Deviation(baseline[g], P99(i, g)) >= DeviationFactor
    BY <1>5, <2>2, <2>3, DetectionAssumption DEF IsVictim
  <2>5. QED
    BY <1>4, <1>5, <2>2, <2>4, VictimFrozen
<1>8. QED
  BY <1>1, <1>5, <1>6, <1>7

LEMMA ReadingsStep ==
    ASSUME NEW i \in Intervals, Report(i)
    PROVE  Readings'
<1> SUFFICES ASSUME NEW g \in Cgroups, snap'.offenders[g] # None, prevThrottle'[g] # None
             PROVE  prevThrottle'[g] = stat'[g]
  BY DEF Readings
<1>1. PICK ranked \in SUBSET Running(i) :
         /\ snap'.offenders = [x \in Cgroups |-> IF x \in ranked THEN Row(i, x) ELSE None]
         /\ \/ ranked = {}
            \/ prevThrottle' = PrevThrottleAfter(i, ranked, StatAfter(i))
  BY Published
<1>2. g \in ranked
  BY <1>1
<1>3. prevThrottle' = PrevThrottleAfter(i, ranked, stat')
  BY <1>1, <1>2 DEF Report
<1>4. QED
  BY <1>3 DEF PrevThrottleAfter

-----------------------------------------------------------------------------
(* The invariant holds *)

LEMMA IInvInit == Init => IInv
<1> SUFFICES ASSUME Init PROVE IInv
  OBVIOUS
<1>1. Types
  <2>1. \A g \in Cgroups : EntryOK(baseline[g]) /\ EntryOK(cpuUsage[g])
    BY DEF Init, Nobody, EntryOK
  <2>2. /\ stat \in [Cgroups -> Stats]
        /\ \A g \in Cgroups : stat[g].throttled =< stat[g].periods
    BY DetectionAssumption DEF Init, NoStat, Stats
  <2>3. prevThrottle \in [Cgroups -> Stats \cup {None}] /\ \A g \in Cgroups : prevThrottle[g] = None
    BY DEF Init, Nobody
  <2>4. {g \in Cgroups : prevThrottle[g] # None} = {}
    BY <2>3
  <2>5. Cardinality({g \in Cgroups : prevThrottle[g] # None}) =< TopN
    BY <2>4, FS_EmptySet, DetectionAssumption
  <2>6. timeline \in [Cgroups -> [Cgroups -> 0 .. 100]]
    BY DEF Init, NoBurst
  <2>7. \A g \in Cgroups : snap.offenders[g] = None
    BY DEF Init, Nobody
  <2>8. QED
    BY <2>1, <2>2, <2>3, <2>5, <2>6, <2>7 DEF Types
<1>2. KeptCounts
  BY DEF Init, Nobody, KeptCounts, Kept
<1>3. Levels
  BY DEF Init, Nobody, Levels
<1>4. VictimRows
  BY DEF Init, Nobody, VictimRows, VictimAt
<1>5. Readings /\ SteadyIsInnocent
  BY DEF Init, Nobody, Readings, SteadyIsInnocent
<1>6. QED
  BY <1>1, <1>2, <1>3, <1>4, <1>5 DEF IInv

(* A lost interval moves cpu.stat only.                                    *)
LEMMA ReadErrorStep ==
    ASSUME IInv, NEW i \in Intervals, ReadError(i)
    PROVE  IInv'
<1> USE DEF IInv
<1>1. /\ baseline' = baseline /\ cpuUsage' = cpuUsage /\ prevThrottle' = prevThrottle
      /\ timeline' = timeline /\ snap' = snap /\ last' = last /\ level' = level
      /\ unseen' = unseen /\ missed' = TRUE /\ stat' = StatAfter(i)
  BY DEF ReadError
<1>2. Types'
  BY <1>1, StatStep DEF Types
<1>3. KeptCounts' /\ Levels' /\ SteadyIsInnocent'
  BY <1>1 DEF KeptCounts, Levels, SteadyIsInnocent
<1>4. VictimRows'
  BY <1>1 DEF VictimRows, VictimAt, P99
<1>5. Readings'
  BY <1>1 DEF Readings
<1>6. QED
  BY <1>2, <1>3, <1>4, <1>5

LEMMA IInvNext == IInv /\ [Next]_vars => IInv'
<1> SUFFICES ASSUME IInv, [Next]_vars PROVE IInv'
  OBVIOUS
<1>1. ASSUME NEW i \in Intervals, Report(i) PROVE IInv'
  BY <1>1, TypesStep, TablesStep, LevelsStep, SteadyStep, VictimsStep, ReadingsStep DEF IInv
<1>2. ASSUME NEW i \in Intervals, ReadError(i) PROVE IInv'
  BY <1>2, ReadErrorStep
<1>3. CASE UNCHANGED vars
  <2>1. /\ baseline' = baseline /\ cpuUsage' = cpuUsage /\ prevThrottle' = prevThrottle
        /\ timeline' = timeline /\ snap' = snap /\ last' = last /\ level' = level
        /\ unseen' = unseen /\ missed' = missed /\ stat' = stat
    BY <1>3 DEF vars
  <2>2. Types' /\ KeptCounts' /\ Levels' /\ SteadyIsInnocent'
    BY <2>1 DEF IInv, Types, KeptCounts, Levels, SteadyIsInnocent
  <2>3. VictimRows' /\ Readings'
    BY <2>1 DEF IInv, VictimRows, VictimAt, P99, Readings
  <2>4. QED
    BY <2>2, <2>3 DEF IInv
<1>4. QED
  BY <1>1, <1>2, <1>3 DEF Next

LEMMA Invariant == Spec => []IInv
BY IInvInit, IInvNext, PTL DEF Spec

-----------------------------------------------------------------------------
(* Results *)

(* Every variable keeps its type, and the cpu.stat readings that are kept  *)
(* are never more than a ranking is long (trackCPUUsage, prevThrottle).    *)
THEOREM TypeCorrect == Spec => []TypeOK
<1>1. IInv => TypeOK
  BY DEF IInv, Types, TypeOK, EntryOK
<1>2. QED
  BY <1>1, Invariant, PTL

(* Busy is not guilty: a pod that has used the same amount of CPU since it *)
(* was learned gets confidence 0 in every ranking, unless it was throttled *)
(* (offenderConfidence, observeUsage).                                     *)
THEOREM SteadyPodIsInnocent == Spec => []SteadyIsInnocent
<1>1. IInv => SteadyIsInnocent
  BY DEF IInv
<1>2. QED
  BY <1>1, Invariant, PTL

(* Normals are kept exactly as long as their pods are observed now and     *)
(* then; a failed read counts against nobody (Baseline.Observe and Prune). *)
THEOREM NormalsAreKept == Spec => []KeptWhileSeen
<1>1. IInv => KeptWhileSeen
  <2> SUFFICES ASSUME IInv, NEW g \in Cgroups
               PROVE  /\ cpuUsage[g] # None <=> unseen.usage[g] < PruneAfterMisses
                      /\ baseline[g] # None <=> unseen.latency[g] < PruneAfterMisses
    BY DEF KeptWhileSeen
  <2>1. EntryOK(cpuUsage[g]) /\ EntryOK(baseline[g])
    BY DEF IInv, Types
  <2>2. Kept(cpuUsage[g], unseen.usage[g]) /\ Kept(baseline[g], unseen.latency[g])
    BY DEF IInv, KeptCounts
  <2>3. QED
    BY <2>1, <2>2, BaselineAssumption DEF EntryOK, Kept, Entries
<1>2. QED
  BY <1>1, Invariant, PTL

(* The victims shown after an interval are the ones listed.                *)
LEMMA VictimsAre ==
    ASSUME Types, NEW i \in Intervals, NEW listed \in SUBSET VictimIDs(i),
           snap'.victims = [g \in Cgroups |-> IF g \in listed THEN Victim(i, g) ELSE None]
    PROVE  Victims' = listed
<1>1. listed \subseteq Cgroups
  BY DEF VictimIDs, Judged
<1>2. ASSUME NEW g \in listed PROVE Victim(i, g) # None
  <2>1. P99(i, g) \in Nat /\ Deviation(baseline[g], P99(i, g)) \in Nat
    BY <1>1, IntervalTyped, DeviationTyped DEF Types
  <2>2. Victim(i, g) \in [p99 : Nat, degradation : Nat]
    BY <2>1 DEF Victim
  <2>3. QED
    BY <2>2, NoneAssumption
<1>3. QED
  BY <1>1, <1>2 DEF Victims

(* A pod starved relative to its own normal stays on the list for as long  *)
(* as it is starved no less, through failed reads and whatever the other   *)
(* pods do, unless the list is full (judgeVictim, Baseline.Observe).       *)
THEOREM SpikesStayVisible == Spec => SpikeStaysVisible
<1>1. ASSUME IInv, [Next]_vars
      PROVE  [\A g \in Victims :
                /\ snap.victims[g].degradation > 0
                /\ g \in Judged(last') /\ P99(last', g) >= snap.victims[g].p99
                => g \in Victims' \/ Cardinality(Victims') = TopN]_vars
  <2>1. ASSUME NEW i \in Intervals, Report(i), NEW g \in Victims,
               snap.victims[g].degradation > 0,
               g \in Judged(last'), P99(last', g) >= snap.victims[g].p99
        PROVE  g \in Victims' \/ Cardinality(Victims') = TopN
    <3>1. Types /\ last' = i /\ g \in Cgroups
      BY <1>1, <2>1 DEF IInv, Report, Victims
    <3>2. /\ last \in Intervals /\ P99(last, g) >= RunqWarn /\ P99(i, g) >= P99(last, g)
          /\ Ready(baseline[g]) /\ Deviation(baseline[g], P99(last, g)) >= DeviationFactor
      BY <1>1, <2>1, <3>1 DEF IInv, VictimRows, VictimAt, Victims
    <3>3. P99(last, g) \in Nat /\ P99(i, g) \in Nat
      BY <3>1, <3>2, IntervalTyped
    <3>4. IsVictim(baseline[g], P99(i, g))
      <4>1. baseline[g].value \in Nat \ {0}
        BY <3>1, <3>2, <3>3, DeviationTyped DEF Types
      <4>2. (100 * P99(last, g)) \div baseline[g].value =< (100 * P99(i, g)) \div baseline[g].value
        BY <3>2, <3>3, <4>1, DivMonotone
      <4>3. Deviation(baseline[g], P99(last, g)) =< Deviation(baseline[g], P99(i, g))
        BY <3>2, <4>2 DEF Deviation
      <4>4. /\ Deviation(baseline[g], P99(last, g)) \in Nat
            /\ Deviation(baseline[g], P99(i, g)) \in Nat
        BY <3>1, <3>3, DeviationTyped DEF Types
      <4>5. QED
        BY <3>2, <3>3, <4>3, <4>4, DetectionAssumption DEF IsVictim
    <3>5. g \in VictimIDs(i)
      BY <2>1, <3>1, <3>4 DEF VictimIDs
    <3>6. PICK listed \in Largest(VictimIDs(i), TopN, Latencies(i)) :
             snap'.victims = [x \in Cgroups |-> IF x \in listed THEN Victim(i, x) ELSE None]
      BY <2>1, Published
    <3>7. VictimIDs(i) \in SUBSET Cgroups
      BY DEF VictimIDs, Judged
    <3>8. listed \in SUBSET VictimIDs(i) /\ (listed = VictimIDs(i) \/ Cardinality(listed) = TopN)
      BY <3>7, LargestFits
    <3>9. Victims' = listed
      BY <3>1, <3>6, <3>8, VictimsAre
    <3>10. QED
      BY <3>5, <3>8, <3>9
  <2>2. ASSUME NEW i \in Intervals, ReadError(i), NEW g \in Victims PROVE g \in Victims'
    BY <2>2 DEF ReadError, Victims
  <2>3. QED
    BY <1>1, <2>1, <2>2 DEF Next
<1>2. QED
  BY <1>1, Invariant, PTL DEF Spec, SpikeStaysVisible

(* Between two readings that differ by d, d is what was throttled.         *)
LEMMA FractionOfStep ==
    ASSUME NEW now \in Stats, NEW prev \in Stats, NEW p \in Nat, NEW t \in Nat,
           now.periods = prev.periods + p, now.throttled = prev.throttled + t
    PROVE  ThrottledFraction(now, prev) = Share(t, p)
<1>1. prev.periods \in Int /\ prev.throttled \in Int
  BY DEF Stats
<1>2. now.periods - prev.periods = p /\ now.throttled - prev.throttled = t
  BY <1>1
<1>3. Max({0, p}) = p /\ Max({0, t}) = t
  BY MaxOfTwo
<1>4. QED
  BY <1>2, <1>3 DEF ThrottledFraction

(* In a row of contended intervals that were all read, a pod is charged    *)
(* with the throttling of the interval alone (throttleFraction).           *)
THEOREM ThrottleIsOfInterval == Spec => ThrottleOfInterval
<1>1. ASSUME IInv, [Next]_vars
      PROVE  [\A g \in Resolved :
                /\ snap.offenders[g] # None /\ snap'.offenders[g] # None
                /\ prevThrottle[g] # None /\ g \notin last'.gone
                /\ ~ missed /\ ~ missed' /\ stat'[g] # stat[g]
                => snap'.offenders[g].throttle =
                      Share(last'.ran[g].throttled, last'.ran[g].periods)]_vars
  <2>1. ASSUME NEW i \in Intervals, Report(i), NEW g \in Resolved,
               snap.offenders[g] # None, snap'.offenders[g] # None,
               prevThrottle[g] # None, g \notin last'.gone, ~ missed, stat'[g] # stat[g]
        PROVE  snap'.offenders[g].throttle = Share(last'.ran[g].throttled, last'.ran[g].periods)
    <3>1. Types /\ KeptCounts /\ last' = i /\ stat' = StatAfter(i) /\ g \in Cgroups
      BY <1>1, <2>1, DetectionAssumption DEF IInv, Report
    <3>2. prevThrottle[g] = stat[g]
      BY <1>1, <2>1, <3>1 DEF IInv, Readings
    <3>3. PICK ranked \in SUBSET Running(i) :
             snap'.offenders = [x \in Cgroups |-> IF x \in ranked THEN Row(i, x) ELSE None]
      BY <2>1, Published
    <3>4. snap'.offenders[g] = Row(i, g)
      BY <2>1, <3>1, <3>3
    <3>5. snap'.offenders[g].throttle = Throttle(i, g, stat')
      BY <2>1, <3>1, <3>4, RowTyped
    <3>6. Throttle(i, g, stat') = ThrottledFraction(stat'[g], stat[g])
      BY <2>1, <3>1, <3>2 DEF Throttle
    <3>7. /\ stat'[g].periods = stat[g].periods + i.ran[g].periods
          /\ stat'[g].throttled = stat[g].throttled + i.ran[g].throttled
          /\ stat'[g] \in Stats /\ stat[g] \in Stats
      BY <2>1, <3>1, StatStep DEF Types
    <3>8. i.ran[g].periods \in Nat /\ i.ran[g].throttled \in Nat
      <4>1. i.ran[g] \in [periods : {0, 1}, throttled : {0, 1}]
        BY <3>1, IntervalTyped
      <4>2. QED
        BY <4>1
    <3>9. ThrottledFraction(stat'[g], stat[g]) = Share(i.ran[g].throttled, i.ran[g].periods)
      BY <3>7, <3>8, FractionOfStep
    <3>10. QED
      BY <3>1, <3>5, <3>6, <3>9
  <2>2. ASSUME NEW i \in Intervals, ReadError(i) PROVE missed'
    BY <2>2 DEF ReadError
  <2>3. QED
    BY <1>1, <2>1, <2>2 DEF Next
<1>2. QED
  BY <1>1, Invariant, PTL DEF Spec, ThrottleOfInterval

-----------------------------------------------------------------------------
(* What an attribution rests on *)

Ranked == {g \in Cgroups : snap.offenders[g] # None}
Unfull == Cardinality(Victims) < TopN /\ \A v \in Victims : snap.victims[v].degradation > 0

(* Some listed victim's latency, or the timeline of it, accounts for c.    *)
Harmed(g, c) ==
    \E v \in Victims : c =< SignalFromRatio(Deviation(baseline[v], P99(last, v))) \/ c =< timeline[g][v]

(* A suspect's confidence can be read off the tables as they are now.      *)
Evidence ==
    /\ last # None => last \in Intervals /\ (last.timelineRead => timeline = last.burst)
    /\ Ranked # {} => /\ last \in Intervals /\ Victims # {}
                      /\ Ranked \in Largest(Running(last), TopN, last.cpu)
    /\ \A g \in Cgroups :
          Confident(g) =>
             /\ g \in Resolved
             /\ snap.offenders[g].confidence =< Clamp(4 * Intensity(last, g))
             /\ Unfull => Harmed(g, snap.offenders[g].confidence)

LEMMA EvidenceInit == Init => Evidence
BY DEF Init, Nobody, Evidence, Ranked, Confident

LEMMA RankedAre ==
    ASSUME Types, KeptCounts, NEW i \in Intervals, Report(i), NEW ranked \in SUBSET Running(i),
           snap'.offenders = [g \in Cgroups |-> IF g \in ranked THEN Row(i, g) ELSE None]
    PROVE  Ranked' = ranked
<1>1. ranked \subseteq Cgroups
  BY DEF Running
<1>2. ASSUME NEW g \in ranked PROVE Row(i, g) # None
  <2>1. CASE g \in Resolved
    <3>1. Row(i, g).throttle \in Nat /\ Row(i, g).confidence \in -1 .. 100
      BY <2>1, RowTyped DEF Least
    <3>2. Row(i, g) = [throttle |-> Row(i, g).throttle, confidence |-> Row(i, g).confidence]
      BY <2>1, RowIs
    <3>3. Row(i, g) \in [throttle : Nat, confidence : -1 .. 100]
      BY <3>1, <3>2
    <3>4. QED
      BY <3>3, NoneAssumption
  <2>2. CASE g \notin Resolved
    <3>1. Row(i, g) = [throttle |-> 0, confidence |-> -1]
      BY <2>2 DEF Row, Offender
    <3>2. Row(i, g) \in [throttle : Nat, confidence : -1 .. 100]
      BY <3>1
    <3>3. QED
      BY <3>2, NoneAssumption
  <2>3. QED
    BY <2>1, <2>2
<1>3. QED
  BY <1>1, <1>2 DEF Ranked

(* When every victim was listed, the harm is one of theirs.                *)
LEMMA HarmedStep ==
    ASSUME Types, NEW i \in Intervals, Report(i), NEW g \in Cgroups, NEW c \in 1 .. 100,
           c =< Harm(i, g), VictimIDs(i) # {},
           \A v \in VictimIDs(i) : Deviation(baseline[v], P99(i, v)) > 0
    PROVE  \E v \in VictimIDs(i) :
              \/ c =< SignalFromRatio(Deviation(baseline'[v], P99(i, v)))
              \/ c =< timeline'[g][v]
<1>1. timeline' = TimelineAfter(i) /\ timeline' \in [Cgroups -> [Cgroups -> 0 .. 100]]
  BY IntervalTyped DEF Report, TimelineAfter, Types
<1>2. VictimIDs(i) \in SUBSET Cgroups
  BY DEF VictimIDs, Judged
<1>3. CASE c =< SignalFromRatio(Worst(i))
  <2>1. Worst(i) # 0
    <3>1. PICK u \in VictimIDs(i) : Deviation(baseline[u], P99(i, u)) > 0
      OBVIOUS
    <3>2. Deviation(baseline[u], P99(i, u)) \in Nat
      BY <1>2, IntervalTyped, DeviationTyped DEF Types
    <3>3. QED
      BY <3>1, <3>2, WorstTyped
  <2>2. PICK v \in VictimIDs(i) : Worst(i) = Deviation(baseline[v], P99(i, v))
    BY <2>1, WorstTyped
  <2>3. Ready(baseline[v]) /\ P99(i, v) \in Nat
    BY <1>2, IntervalTyped DEF Deviation
  <2>4. Deviation(baseline'[v], P99(i, v)) = Worst(i)
    BY <2>2, <2>3, VictimFrozen
  <2>5. QED
    BY <1>3, <2>4
<1>4. CASE c =< BurstCorrelation(TimelineAfter(i), g, VictimIDs(i))
  BY <1>1, <1>2, <1>4, CorrelationTyped
<1>5. QED
  BY <1>3, <1>4, HarmTyped

LEMMA EvidenceStep ==
    ASSUME Types, KeptCounts, NEW i \in Intervals, Report(i)
    PROVE  Evidence'
<1>1. last' = i /\ i # None /\ timeline' = TimelineAfter(i)
  BY NoneAssumption DEF Report, TimelineAfter
<1>2. PICK listed \in Largest(VictimIDs(i), TopN, Latencies(i)), ranked \in SUBSET Running(i) :
         /\ snap'.victims = [x \in Cgroups |-> IF x \in listed THEN Victim(i, x) ELSE None]
         /\ snap'.offenders = [x \in Cgroups |-> IF x \in ranked THEN Row(i, x) ELSE None]
         /\ \/ ranked = {}
            \/ listed # {} /\ ranked \in Largest(Running(i), TopN, i.cpu)
  BY Published
<1>3. VictimIDs(i) \in SUBSET Cgroups
  BY DEF VictimIDs, Judged
<1>4. /\ listed \in SUBSET VictimIDs(i) /\ Cardinality(listed) =< TopN
      /\ listed = VictimIDs(i) \/ Cardinality(listed) = TopN
  BY <1>3, LargestFits
<1>5. Victims' = listed /\ Ranked' = ranked
  BY <1>2, <1>4, VictimsAre, RankedAre
<1>6. last'.timelineRead => timeline' = last'.burst
  BY <1>1 DEF TimelineAfter
<1>7. ASSUME NEW g \in Cgroups, snap'.offenders[g] # None,
             snap'.offenders[g].confidence >= ConfidenceThreshold
      PROVE  /\ g \in Resolved
             /\ snap'.offenders[g].confidence =< Clamp(4 * Intensity(i, g))
             /\ Unfull' => \E v \in listed :
                             \/ snap'.offenders[g].confidence =<
                                   SignalFromRatio(Deviation(baseline'[v], P99(i, v)))
                             \/ snap'.offenders[g].confidence =< timeline'[g][v]
  <2>1. g \in ranked /\ snap'.offenders[g] = Row(i, g)
    BY <1>2, <1>7
  <2>2. g \in Resolved
    <3>1. ASSUME g \notin Resolved PROVE FALSE
      <4>1. Row(i, g).confidence = -1
        BY <3>1 DEF Row, Offender
      <4>2. QED
        BY <1>7, <2>1, <4>1, DetectionAssumption
    <3>2. QED
      BY <3>1
  <2>3. PICK c : c = Row(i, g).confidence
    OBVIOUS
  <2>4. c \in 1 .. 100 /\ c =< Clamp(4 * Intensity(i, g)) /\ c =< Harm(i, g)
    <3>1. c >= ConfidenceThreshold
      BY <1>7, <2>1, <2>3
    <3>2. PICK changed : changed = Changed(cpuUsage'[g], i.cpu[g], Fallback(i, g), Throttle(i, g, stat'))
      OBVIOUS
    <3>3. /\ changed \in -1 .. 100 /\ c \in -1 .. 100
          /\ changed < 0 => c = -1
          /\ changed >= 0 => c =< Clamp(4 * Intensity(i, g)) /\ c =< Harm(i, g)
      BY <2>2, <2>3, <3>2, RowTyped DEF Least
    <3>4. QED
      BY <3>1, <3>3, DetectionAssumption
  <2>5. ASSUME Unfull'
        PROVE  \E v \in listed : \/ c =< SignalFromRatio(Deviation(baseline'[v], P99(i, v)))
                                 \/ c =< timeline'[g][v]
    <3>1. Cardinality(listed) < TopN /\ \A v \in listed : snap'.victims[v].degradation > 0
      BY <1>5, <2>5 DEF Unfull
    <3>2. listed = VictimIDs(i)
      BY <1>4, <3>1, DetectionAssumption
    <3>3. \A v \in VictimIDs(i) : Deviation(baseline[v], P99(i, v)) > 0
      BY <1>2, <1>3, <3>1, <3>2 DEF Victim
    <3>4. VictimIDs(i) # {}
      BY <1>2, <2>1, <3>2
    <3>5. QED
      BY <2>4, <3>2, <3>3, <3>4, HarmedStep
  <2>6. QED
    BY <2>1, <2>2, <2>3, <2>4, <2>5
<1>8. QED
  BY <1>1, <1>2, <1>5, <1>6, <1>7 DEF Evidence, Confident, Harmed

LEMMA EvidenceNext == IInv /\ Evidence /\ [Next]_vars => Evidence'
<1> SUFFICES ASSUME IInv, Evidence, [Next]_vars PROVE Evidence'
  OBVIOUS
<1>1. ASSUME NEW i \in Intervals, Report(i) PROVE Evidence'
  BY <1>1, EvidenceStep DEF IInv
<1>2. CASE /\ baseline' = baseline /\ timeline' = timeline /\ snap' = snap /\ last' = last
  BY <1>2 DEF Evidence, Ranked, Victims, Confident, Unfull, Harmed
<1>3. QED
  BY <1>1, <1>2 DEF Next, ReadError, vars

LEMMA Attributed == Spec => []Evidence
BY EvidenceInit, EvidenceNext, Invariant, PTL DEF Spec

(* A sort may decide ties as it likes, and nothing else.                   *)
LEMMA RankedAgain ==
    ASSUME NEW S \in SUBSET Cgroups, NEW score \in [Cgroups -> Nat],
           NEW P \in Largest(S, TopN, score), NEW Q \in Largest(S, TopN, score),
           NEW g \in P, \A u \in Cgroups \ {g} : score[u] # score[g]
    PROVE  g \in Q
<1> SUFFICES ASSUME g \notin Q PROVE FALSE
  OBVIOUS
<1>1. /\ P \subseteq S /\ IsFiniteSet(P) /\ \A t \in P, u \in S \ P : score[t] >= score[u]
      /\ Q \subseteq S /\ IsFiniteSet(Q) /\ \A t \in Q, u \in S \ Q : score[t] >= score[u]
  BY LargestFits
<1>2. Cardinality(P) = Cardinality(Q)
  BY DEF Largest
<1>3. ASSUME NEW h \in Q, h \notin P PROVE FALSE
  <2>1. h \in Cgroups /\ g \in Cgroups /\ h # g /\ g \in S \ Q /\ h \in S \ P
    BY <1>1, <1>3
  <2>2. score[g] >= score[h] /\ score[h] >= score[g]
    BY <1>1, <1>3, <2>1
  <2>3. QED
    BY <2>1, <2>2
<1>4. Q \in SUBSET P /\ Q # P
  BY <1>3
<1>5. Cardinality(Q) < Cardinality(P)
  BY <1>1, <1>4, FS_Subset, FS_CardinalityType
<1>6. Cardinality(P) \in Nat
  BY <1>1, FS_CardinalityType
<1>7. QED
  BY <1>2, <1>5, <1>6

(* Above the normal, more deviation is more of a signal.                   *)
LEMMA SignalMonotone ==
    ASSUME NEW a \in Nat, NEW b \in Nat, 100 < a, a =< b
    PROVE  SignalFromRatio(a) =< SignalFromRatio(b)
<1>1. (a - 100) \div 4 \in Nat /\ (b - 100) \div 4 \in Nat /\ (a - 100) \div 4 =< (b - 100) \div 4
  OBVIOUS
<1>2. SignalFromRatio(a) = Clamp((a - 100) \div 4) /\ SignalFromRatio(b) = Clamp((b - 100) \div 4)
  BY DEF SignalFromRatio
<1>3. QED
  BY <1>1, <1>2, ClampTyped

(* The victims of an interval are found again in the same interval, and so *)
(* is the harm done to them.                                               *)
LEMMA HarmedAgain ==
    ASSUME IInv, Evidence, DeviationFactor > 100, NEW i \in Intervals, last = i, Report(i),
           Unfull, NEW g \in Cgroups, NEW c \in 1 .. 100, Harmed(g, c)
    PROVE  Victims \subseteq VictimIDs(i) /\ c =< Harm(i, g)
<1>1. Types /\ timeline' = timeline /\ TimelineAfter(i) = timeline
  BY NoneAssumption DEF IInv, Evidence, Report, TimelineAfter
<1>2. ASSUME NEW v \in Victims
      PROVE  /\ v \in VictimIDs(i) /\ v \in Cgroups /\ P99(i, v) \in Nat
             /\ Deviation(baseline[v], P99(i, v)) \in Nat
             /\ Deviation(baseline[v], P99(i, v)) > 100
  <2>1. v \in Cgroups /\ snap.victims[v] # None /\ snap.victims[v].degradation > 0
    BY DEF Victims, Unfull
  <2>2. /\ v \in Judged(i) /\ P99(i, v) >= RunqWarn /\ Ready(baseline[v])
        /\ Deviation(baseline[v], P99(i, v)) >= DeviationFactor
    BY <2>1 DEF IInv, VictimRows, VictimAt
  <2>3. P99(i, v) \in Nat /\ Deviation(baseline[v], P99(i, v)) \in Nat
    BY <1>1, <2>1, IntervalTyped, DeviationTyped DEF Types
  <2>4. IsVictim(baseline[v], P99(i, v))
    BY <2>2, <2>3, DetectionAssumption DEF IsVictim
  <2>5. QED
    BY <2>1, <2>2, <2>3, <2>4, DetectionAssumption DEF VictimIDs
<1>3. PICK v \in Victims : \/ c =< SignalFromRatio(Deviation(baseline[v], P99(i, v)))
                           \/ c =< timeline[g][v]
  BY DEF Harmed
<1>4. /\ Harm(i, g) \in 0 .. 100 /\ Harm(i, g) >= SignalFromRatio(Worst(i))
      /\ Harm(i, g) >= BurstCorrelation(timeline, g, VictimIDs(i))
  BY <1>1, HarmTyped
<1>5. CASE c =< SignalFromRatio(Deviation(baseline[v], P99(i, v)))
  <2>1. Worst(i) \in Nat /\ Worst(i) >= Deviation(baseline[v], P99(i, v))
    BY <1>1, <1>2, WorstTyped
  <2>2. SignalFromRatio(Deviation(baseline[v], P99(i, v))) =< SignalFromRatio(Worst(i))
    BY <1>2, <2>1, SignalMonotone
  <2>3. /\ SignalFromRatio(Deviation(baseline[v], P99(i, v))) \in 0 .. 100
        /\ SignalFromRatio(Worst(i)) \in 0 .. 100
    BY <1>2, <2>1, SignalTyped
  <2>4. c =< Harm(i, g)
    BY <1>4, <1>5, <2>2, <2>3
  <2>5. QED
    BY <1>2, <2>4
<1>6. CASE c =< timeline[g][v]
  <2>1. timeline \in [Cgroups -> [Cgroups -> 0 .. 100]] /\ VictimIDs(i) \in SUBSET Cgroups
    BY <1>1 DEF Types, VictimIDs, Judged
  <2>2. /\ BurstCorrelation(timeline, g, VictimIDs(i)) \in 0 .. 100
        /\ BurstCorrelation(timeline, g, VictimIDs(i)) >= timeline[g][v]
    BY <1>2, <2>1, CorrelationTyped
  <2>3. timeline[g][v] \in 0 .. 100
    BY <1>2, <2>1
  <2>4. c =< BurstCorrelation(timeline, g, VictimIDs(i))
    <3>1. PICK b, t : b = BurstCorrelation(timeline, g, VictimIDs(i)) /\ t = timeline[g][v]
      OBVIOUS
    <3>2. b \in Int /\ t \in Int /\ b >= t /\ c =< t
      BY <1>6, <2>2, <2>3, <3>1
    <3>3. c =< b
      BY <3>2
    <3>4. QED
      BY <3>1, <3>3
  <2>5. c =< Harm(i, g)
    BY <1>4, <2>2, <2>4
  <2>6. QED
    BY <1>2, <2>5
<1>7. QED
  BY <1>3, <1>5, <1>6

(* The culprit of a contention that starved pods relative to their own     *)
(* normals is named again by an interval that looks the same, whatever the *)
(* tables learned in between (judgeVictim and observeUsage freeze). The    *)
(* deviation factor must be above 1: at or below it signalFromRatio takes  *)
(* a victim for one without a normal. The default is 3.                    *)
THEOREM AttributionsAreStable ==
    ASSUME DeviationFactor > 100
    PROVE  Spec => AttributionIsStable
<1> DEFINE Stable == /\ last # None /\ last' = last
                     /\ Cardinality(Victims) < TopN
                     /\ \A v \in Victims : snap.victims[v].degradation > 0
                     => \A g \in Culprits : Untied(g) => g \in Culprits'
<1>1. ASSUME IInv, Evidence, [Next]_vars PROVE [Stable]_vars
  <2>1. ASSUME NEW i \in Intervals, Report(i), last' = last, Unfull,
               NEW g \in Culprits, Untied(g)
        PROVE  g \in Culprits'
    <3>1. Types /\ KeptCounts /\ last = i /\ last' = i
      BY <1>1, <2>1 DEF IInv, Report
    <3>2. /\ g \in Cgroups /\ Confident(g) /\ Ready(cpuUsage[g])
          /\ Deviation(cpuUsage[g], i.cpu[g]) >= DeviationFactor
          /\ (Deviation(cpuUsage[g], i.cpu[g]) - 100) \div 4 >= ConfidenceThreshold
      BY <2>1, <3>1 DEF Culprits
    <3>3. g \in Ranked /\ Ranked \in Largest(Running(i), TopN, i.cpu) /\ Victims # {}
      BY <1>1, <3>1, <3>2 DEF Evidence, Ranked, Confident
    <3>4. Running(i) \in SUBSET Cgroups /\ i.cpu \in [Cgroups -> Nat]
      BY IntervalTyped DEF Running
    <3>5. i.cpu[g] \in Nat /\ i.cpu[g] > 0
      BY <3>2, <3>3, <3>4, LargestFits DEF Running
    <3>6. PICK c : c = snap.offenders[g].confidence
      OBVIOUS
    <3>7. /\ g \in Resolved /\ c \in 1 .. 100 /\ c >= ConfidenceThreshold
          /\ c =< Clamp(4 * Intensity(i, g)) /\ Harmed(g, c)
      BY <1>1, <2>1, <3>1, <3>2, <3>6, DetectionAssumption DEF Evidence, Confident, Types
    <3>8. Victims \subseteq VictimIDs(i) /\ c =< Harm(i, g)
      BY <1>1, <2>1, <3>1, <3>2, <3>7, HarmedAgain
    <3>9. PICK listed \in Largest(VictimIDs(i), TopN, Latencies(i)), ranked \in SUBSET Running(i) :
             /\ snap'.offenders = [x \in Cgroups |-> IF x \in ranked THEN Row(i, x) ELSE None]
             /\ listed # {} => ranked \in Largest(Running(i), TopN, i.cpu)
      BY <2>1, Published
    <3>10. listed # {}
      <4>1. VictimIDs(i) \in SUBSET Cgroups
        BY DEF VictimIDs, Judged
      <4>2. IsFiniteSet(Victims)
        BY FS_Subset, DetectionAssumption DEF Victims
      <4>3. Cardinality(Victims) \in Nat /\ TopN \in Nat /\ Cardinality(Victims) < TopN
        BY <2>1, <4>2, FS_CardinalityType, DetectionAssumption DEF Unfull
      <4>4. ASSUME listed = {} PROVE FALSE
        <5>1. listed = VictimIDs(i) \/ Cardinality(listed) = TopN
          BY <4>1, LargestFits
        <5>2. Cardinality(listed) = 0
          BY <4>4, FS_EmptySet
        <5>3. QED
          BY <3>3, <3>8, <4>3, <4>4, <5>1, <5>2
      <4>5. QED
        BY <4>4
    <3>11. g \in ranked
      BY <2>1, <3>1, <3>3, <3>4, <3>9, <3>10, RankedAgain DEF Untied
    <3>12. snap'.offenders[g] # None /\ snap'.offenders[g] = Row(i, g)
      <4>1. Ranked' = ranked
        BY <2>1, <3>1, <3>9, RankedAre
      <4>2. QED
        BY <3>2, <3>9, <3>11, <4>1 DEF Ranked
    <3>13. /\ Ready(cpuUsage'[g])
           /\ Deviation(cpuUsage'[g], i.cpu[g]) = Deviation(cpuUsage[g], i.cpu[g])
      <4>1. ~ UpdatesUsage(cpuUsage[g], i.cpu[g])
        BY <3>2 DEF UpdatesUsage
      <4>2. /\ UpdatesUsage(cpuUsage[g], i.cpu[g]) \in BOOLEAN /\ EntryOK(cpuUsage[g])
            /\ cpuUsage'[g] =
                  Prune(Observe(cpuUsage[g], i.cpu[g], UpdatesUsage(cpuUsage[g], i.cpu[g])))
        BY <2>1, <3>1, <3>2, <3>5, UsageEntry
      <4>3. QED
        BY <3>2, <3>5, <4>1, <4>2, Frozen
    <3>14. Row(i, g).confidence >= ConfidenceThreshold
      <4>1. PICK changed, deviated, magnitude, harm, d :
               /\ d = (Deviation(cpuUsage'[g], i.cpu[g]) - 100) \div 4
               /\ deviated = Deviated(cpuUsage'[g], i.cpu[g], Fallback(i, g))
               /\ changed = Changed(cpuUsage'[g], i.cpu[g], Fallback(i, g), Throttle(i, g, stat'))
               /\ magnitude = Clamp(4 * Intensity(i, g)) /\ harm = Harm(i, g)
        OBVIOUS
      <4>2. d \in Int /\ d >= ConfidenceThreshold
        <5>1. Deviation(cpuUsage[g], i.cpu[g]) \in Nat
          BY <3>1, <3>2, <3>5, DeviationTyped DEF Types
        <5>2. QED
          BY <3>2, <3>13, <4>1, <5>1
      <4>3. deviated = Clamp(d)
        BY <3>13, <4>1 DEF Deviated
      <4>4. deviated \in Int /\ deviated >= ConfidenceThreshold
        BY <4>2, <4>3, ClampTyped, DetectionAssumption
      <4>5. /\ changed \in -1 .. 100 /\ changed >= deviated
            /\ changed >= 0 => Row(i, g).confidence \in {changed, magnitude, harm}
        BY <2>1, <3>1, <3>7, <4>1, RowTyped DEF Least
      <4>6. magnitude \in Int /\ magnitude >= c
        <5>1. 4 * Intensity(i, g) \in Int
          BY <3>2, IntensityTyped
        <5>2. QED
          BY <3>7, <4>1, <5>1, ClampTyped
      <4>7. harm \in Int /\ harm >= c
        BY <3>1, <3>2, <3>7, <3>8, <4>1, HarmTyped
      <4>8. QED
        BY <3>7, <4>4, <4>5, <4>6, <4>7, DetectionAssumption
    <3>15. QED
      BY <3>1, <3>2, <3>12, <3>13, <3>14 DEF Culprits, Confident
  <2>2. ASSUME cpuUsage' = cpuUsage, snap' = snap, last' = last PROVE Culprits' = Culprits
    BY <2>2 DEF Culprits, Confident
  <2>3. ASSUME NEW i \in Intervals, ReadError(i) PROVE Stable
    BY <2>2, <2>3 DEF ReadError
  <2>4. ASSUME NEW i \in Intervals, Report(i) PROVE Stable
    BY <2>1, <2>4 DEF Unfull
  <2>5. QED
    BY <1>1, <2>3, <2>4 DEF Next
<1>2. QED
  BY <1>1, Invariant, Attributed, PTL DEF Spec, AttributionIsStable
=============================================================================
