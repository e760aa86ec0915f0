------------------------------ MODULE Detection ------------------------------
(***************************************************************************)
(* How an agent judges one interval (internal/agent/agent.go): which pods  *)
(* are starved, and how likely each of the busiest ones is the cause. The  *)
(* CPU dimension is modelled. The disk one runs the same code with no      *)
(* requests (hence no fallback), no cpu.stat and no timeline.              *)
(*                                                                         *)
(* One goroutine does all of this, so an interval is one step; what makes  *)
(* it hard is the memory carried from one interval to the next: two tables *)
(* of learned normals, the cpu.stat of the last ranking and the last       *)
(* timeline that could be read. Scores between 0 and 1 are in percent.     *)
(***************************************************************************)
EXTENDS Baseline, Sequences, FiniteSets, FiniteSetsExt, Functions

CONSTANTS
    Cgroups,
    Resolved,            \* the cgroups that resolve to a pod; the others are the system's
    RequestMilliCPU,     \* of each cgroup's pod; 0 = none
    Intervals,           \* what the observers may read in an interval
    MinSamples,
    RunqWarn,
    DeviationFactor,     \* in percent
    ConfidenceThreshold, \* in percent
    TopN,
    MaxPeriods           \* bound on cpu.stat's counters

NoStat == [periods |-> 0, throttled |-> 0]
Stats == [periods : 0 .. MaxPeriods, throttled : 0 .. MaxPeriods]

ASSUME DetectionAssumption ==
    /\ IsFiniteSet(Cgroups) /\ Resolved \subseteq Cgroups
    /\ RequestMilliCPU \in [Cgroups -> Nat]
    /\ MinSamples \in Nat \ {0} /\ RunqWarn \in Nat /\ TopN \in Nat /\ MaxPeriods \in Nat
    /\ DeviationFactor \in Nat \ {0} /\ ConfidenceThreshold \in 1 .. 100
ASSUME IntervalsAssumption ==
    \A i \in Intervals :
        /\ i.runq \in [Cgroups -> Seq(Nat) \ {<<>>}]   \* SchedObserver.Read: log2 histograms
        /\ i.cpu \in [Cgroups -> Nat]                  \* ReadCPU; 0 = no element
        /\ i.ran \in [Cgroups -> [periods : {0, 1}, throttled : {0, 1}]] \* what cpu.stat adds
        /\ \A g \in Cgroups : i.ran[g].throttled =< i.ran[g].periods \* a throttled period is one
        /\ i.gone \subseteq Cgroups                    \* cpu.stat can no longer be read
        /\ i.burst \in [Cgroups -> [Cgroups -> 0 .. 100]] \* Correlate, offender by victim
        /\ i.timelineRead \in BOOLEAN                  \* ReadTimeline succeeded

(* None is no reading, no row of a list and no interval.                   *)
ASSUME NoneAssumption ==
    /\ None \notin Stats /\ None \notin Intervals
    /\ None \notin [p99 : Nat, degradation : Nat]
    /\ None \notin [throttle : Nat, confidence : -1 .. 100]

VARIABLES
    baseline,      \* a.baseline: run-queue latency normals
    cpuUsage,      \* a.cpuUsage: CPU-time normals
    stat,          \* the kernel's cpu.stat
    prevThrottle,  \* a.prevThrottle
    timeline,      \* a.timeline, as the correlations it yields
    snap,          \* the snapshot in the store
    last,          \* history: the interval that snapshot is of
    level,         \* history: the usage of a cgroup that never changed it; -1 = it did
    unseen,        \* history: intervals read since a cgroup was last observed, per table
    missed         \* history: a read failed since then

vars == <<baseline, cpuUsage, stat, prevThrottle, timeline, snap, last, level, unseen, missed>>

Nobody == [g \in Cgroups |-> None]
NoBurst == [o \in Cgroups |-> [v \in Cgroups |-> 0]]

Init ==
    /\ baseline = Nobody /\ cpuUsage = Nobody /\ prevThrottle = Nobody
    /\ stat = [g \in Cgroups |-> NoStat]
    /\ timeline = NoBurst
    /\ snap = [healthy |-> FALSE, victims |-> Nobody, offenders |-> Nobody]
    /\ last = None /\ level = Nobody /\ missed = FALSE
    /\ unseen = LET never == [g \in Cgroups |-> PruneAfterMisses]
                IN  [usage |-> never, latency |-> never]

-----------------------------------------------------------------------------
(* internal/metrics/histogram.go *)

Count(slots) == MapThenSumSet(LAMBDA k : slots[k], DOMAIN slots)
UpTo(slots, k) == MapThenSumSet(LAMBDA j : slots[j], 1 .. k)

(* Twice the midpoint of slot k - 1, whose values are in [2^(k-1), 2^k).   *)
BucketMidpoint(k) == 3 * 2 ^ (k - 1)

(* The midpoint of the first slot that reaches the p-th percentile.        *)
Percentile(slots, p) ==
    LET total == Count(slots)
        target == Max({1, (p * total + 99) \div 100})
    IN  IF total = 0 THEN 0
        ELSE BucketMidpoint(Min({k \in DOMAIN slots : UpTo(slots, k) >= target}))

-----------------------------------------------------------------------------
(* Scores *)

Clamp(x) == Max({0, Min({100, x})})

Share(part, total) == IF total = 0 THEN 0 ELSE (100 * part) \div total

(* signalFromRatio: without a warm victim, a moderate default.             *)
SignalFromRatio(worst) == IF worst > 100 THEN Clamp((worst - 100) \div 4) ELSE 50

(* CPUStat.Sub and ThrottledFraction.                                      *)
ThrottledFraction(now, prev) ==
    LET periods == Max({0, now.periods - prev.periods})
        throttled == Max({0, now.throttled - prev.throttled})
    IN  Share(throttled, periods)

(* offenderConfidence: the least of three signals, -1 when it cannot tell. *)
OffenderConfidence(e, usage, share, harm, fallback, throttle) ==
    LET magnitude == Clamp(4 * share)
        deviated == IF Ready(e) THEN Clamp((Deviation(e, usage) - 100) \div 4) ELSE fallback
        changed == IF throttle > 0 THEN Max({deviated, Clamp(throttle)}) ELSE deviated
    IN  IF changed < 0 THEN -1 ELSE Clamp(Min({changed, magnitude, harm}))

-----------------------------------------------------------------------------
(* One interval *)

(* cpuVictims: too few samples, and the cgroup is neither judged nor       *)
(* learned from. The kernel counts samples apart from the histogram; that  *)
(* a read of both can differ by an event per CPU is shown in Observers.    *)
Judged(i) == {g \in Cgroups : Count(i.runq[g]) >= MinSamples}

P99(i, g) == Percentile(i.runq[g], 99)

(* judgeVictim                                                             *)
IsVictim(e, value) ==
    value >= RunqWarn /\ ~ (Ready(e) /\ Deviation(e, value) < DeviationFactor)

VictimIDs(i) == {g \in Judged(i) : IsVictim(baseline[g], P99(i, g))}

JudgeLearns(e, value) == Observe(e, value, TRUE)

(* A known victim's normal is frozen.                                      *)
Judge(e, value) == Observe(e, value, ~ (Ready(e) /\ IsVictim(e, value)))

(* observeUsage: a spiking pod's normal is frozen.                         *)
ObserveUsage(e, usage) == Observe(e, usage, ~ (Ready(e) /\ Deviation(e, usage) >= DeviationFactor))

(* cpuVictims, trackCPUUsage: what is learned from an interval.            *)
BaselineAfter(i) ==
    [g \in Cgroups |->
        Prune(IF g \in Judged(i) THEN Judge(baseline[g], P99(i, g)) ELSE baseline[g])]

Running(i) == {g \in Cgroups : i.cpu[g] > 0}

CPUUsageAfter(i) ==
    [g \in Cgroups |->
        Prune(IF g \in Running(i) THEN ObserveUsage(cpuUsage[g], i.cpu[g]) ELSE cpuUsage[g])]

(* The n largest of S, by score; a sort decides ties as it likes.          *)
Largest(S, n, score) ==
    {T \in SUBSET S : /\ Cardinality(T) = Min({n, Cardinality(S)})
                      /\ \A t \in T, u \in S \ T : score[t] >= score[u]}

StatAfter(i) ==
    [g \in Cgroups |-> IF stat[g].periods = MaxPeriods THEN stat[g]
                       ELSE [periods   |-> stat[g].periods + i.ran[g].periods,
                             throttled |-> stat[g].throttled + i.ran[g].throttled]]

(* throttleFraction: nothing on first sight, or when there is no cpu.stat. *)
Throttle(i, g, now) ==
    IF g \in i.gone \/ prevThrottle[g] = None THEN 0
    ELSE ThrottledFraction(now[g], prevThrottle[g])

(* burstCorrelation: the strongest over all victims.                       *)
BurstCorrelation(tl, o, victims) == Max({0} \cup {tl[o][v] : v \in victims})

(* One row of cpuOffenders' ranking.                                       *)
Offender(i, g, usage, now, tl) ==
    LET total == MapThenSumSet(LAMBDA x : i.cpu[x], Cgroups)
        totalReq == MapThenSumSet(LAMBDA x : RequestMilliCPU[x], Running(i) \cap Resolved)
        intensity == Share(i.cpu[g], total)
        fallback == IF totalReq = 0 THEN -1
                    ELSE Clamp(2 * (intensity - Share(RequestMilliCPU[g], totalReq)))
        worst == Max({0} \cup {Deviation(baseline[v], P99(i, v)) : v \in VictimIDs(i)})
        corr == BurstCorrelation(tl, g, VictimIDs(i))
        harm == Max({SignalFromRatio(worst), corr})
        throttle == Throttle(i, g, now)
    IN  IF g \notin Resolved THEN [throttle |-> 0, confidence |-> -1]
        ELSE [throttle |-> throttle,
              confidence |-> OffenderConfidence(usage[g], i.cpu[g], intensity, harm, fallback, throttle)]

(* The cpu.stat kept for the next ranking: of the pods ranked now.         *)
PrevThrottleFirst(i, ranked, now) ==
    [g \in Cgroups |-> IF prevThrottle[g] # None THEN prevThrottle[g]
                       ELSE IF g \in (ranked \cap Resolved) \ i.gone THEN now[g] ELSE None]

PrevThrottleAfter(i, ranked, now) ==
    [g \in Cgroups |-> IF g \in (ranked \cap Resolved) \ i.gone THEN now[g] ELSE None]

LevelAfter(i, usage) ==
    [g \in Cgroups |->
        CASE usage[g] = None -> None
          [] usage[g] # None /\ cpuUsage[g] = None -> i.cpu[g]
          [] OTHER -> IF i.cpu[g] \in {0, level[g]} THEN level[g] ELSE -1]

UnseenAfter(count, observed) ==
    [g \in Cgroups |-> IF g \in observed THEN 0 ELSE Min({PruneAfterMisses, count[g] + 1})]

Healthy == [healthy |-> TRUE, victims |-> Nobody, offenders |-> Nobody]
Victim(i, g) == [p99 |-> P99(i, g), degradation |-> Deviation(baseline[g], P99(i, g))]

(* report: every signal is read, judged and published.                     *)
Report(i) ==
    LET usage == CPUUsageAfter(i)
        now == StatAfter(i)
        tl == IF i.timelineRead THEN i.burst ELSE timeline
    IN  /\ baseline' = BaselineAfter(i)
        /\ cpuUsage' = usage
        /\ stat' = now
        /\ timeline' = tl
        /\ \E listed \in Largest(VictimIDs(i), TopN, [g \in Cgroups |-> P99(i, g)]) :
              IF listed = {}
              THEN snap' = Healthy /\ UNCHANGED prevThrottle
              ELSE \E ranked \in Largest(Running(i), TopN, i.cpu) :
                /\ snap' = [healthy |-> FALSE,
                            victims |-> [g \in Cgroups |->
                                IF g \in listed THEN Victim(i, g) ELSE None],
                            offenders |-> [g \in Cgroups |->
                                IF g \in ranked THEN Offender(i, g, usage, now, tl) ELSE None]]
                /\ prevThrottle' = PrevThrottleAfter(i, ranked, now)
        /\ last' = i /\ level' = LevelAfter(i, usage) /\ missed' = FALSE
        /\ unseen' = [usage   |-> UnseenAfter(unseen.usage, Running(i)),
                      latency |-> UnseenAfter(unseen.latency, Judged(i))]

(* report: the CPU times or the run-queue histograms cannot be read. The   *)
(* interval is lost, and nothing is learned from it.                       *)
ReadError(i) ==
    /\ stat' = StatAfter(i) /\ missed' = TRUE
    /\ UNCHANGED <<baseline, cpuUsage, prevThrottle, timeline, snap, last, level, unseen>>

Next == \E i \in Intervals : Report(i) \/ ReadError(i)

Spec == Init /\ [][Next]_vars

-----------------------------------------------------------------------------
(* Properties *)

Confident(g) == snap.offenders[g] # None /\ snap.offenders[g].confidence >= ConfidenceThreshold
Victims == {g \in Cgroups : snap.victims[g] # None}

(* Every variable keeps its type; between intervals no entry is touched,   *)
(* and the list of pods whose cpu.stat is kept is no longer than a ranking. *)
TypeOK ==
    /\ \A table \in {baseline, cpuUsage} : \A g \in Cgroups :
          table[g] # None => table[g] \in Entries /\ ~ table[g].touched
                               /\ table[g].misses < PruneAfterMisses
    /\ stat \in [Cgroups -> Stats]
    /\ prevThrottle \in [Cgroups -> Stats \cup {None}]
    /\ Cardinality({g \in Cgroups : prevThrottle[g] # None}) =< TopN
    /\ timeline \in [Cgroups -> [Cgroups -> 0 .. 100]]
    /\ \A g \in Cgroups : snap.offenders[g] = None \/ snap.offenders[g].confidence \in -1 .. 100

(* "Busy is not guilty": a pod that has used the same amount of CPU ever   *)
(* since it was learned is never suspected once its normal is trusted,     *)
(* however large its share and however bad the victims, unless it was      *)
(* throttled (offenderConfidence, observeUsage).                           *)
SteadyIsInnocent ==
    \A g \in Cgroups :
        snap.offenders[g] # None /\ g \in Resolved /\ Ready(cpuUsage[g]) /\ level[g] > 0
            /\ snap.offenders[g].throttle = 0
        => snap.offenders[g].confidence = 0

(* A pod starved relative to its own normal stays a victim for as long as  *)
(* it is starved no less, through failed reads and idle intervals of other *)
(* pods: its normal is frozen and the spike is not absorbed (judgeVictim,  *)
(* Baseline.Observe). The list of victims may only be full.                *)
SpikeStaysVisible ==
    [][\A g \in Victims :
         /\ snap.victims[g].degradation > 0
         /\ g \in Judged(last') /\ P99(last', g) >= snap.victims[g].p99
         => g \in Victims' \/ Cardinality(Victims') = TopN]_vars

(* Once a pod is named the culprit for having changed, of victims that are *)
(* starved relative to their own normal, an interval that looks the same   *)
(* names it again: neither side's normal drifts towards the contention     *)
(* (judgeVictim and observeUsage freeze, offenderConfidence). It can drop  *)
(* out of the ranking only by losing a tie, and the victims may be others  *)
(* only when the list of them was full.                                    *)
Culprits ==
    {g \in Cgroups : /\ Confident(g) /\ Ready(cpuUsage[g])
                     /\ Deviation(cpuUsage[g], last.cpu[g]) >= DeviationFactor
                     /\ (Deviation(cpuUsage[g], last.cpu[g]) - 100) \div 4 >= ConfidenceThreshold}
Untied(g) == \A u \in Cgroups \ {g} : last.cpu[u] # last.cpu[g]
AttributionIsStable ==
    [][/\ last # None /\ last' = last
       /\ Cardinality(Victims) < TopN
       /\ \A v \in Victims : snap.victims[v].degradation > 0
       => \A g \in Culprits : Untied(g) => g \in Culprits']_vars

(* In a row of contended intervals that were all read, the throttling a    *)
(* pod is charged with is that of the interval alone (throttleFraction,    *)
(* prevThrottle). After a healthy interval it is not: see the README.      *)
ThrottleOfInterval ==
    [][\A g \in Resolved :
         /\ snap.offenders[g] # None /\ snap'.offenders[g] # None
         /\ prevThrottle[g] # None /\ g \notin last'.gone
         /\ ~ missed /\ ~ missed' /\ stat'[g] # stat[g]
         => snap'.offenders[g].throttle = Share(last'.ran[g].throttled, last'.ran[g].periods)]_vars

(* A table holds exactly the pods observed in one of the last              *)
(* PruneAfterMisses intervals that were read: one that went away is        *)
(* forgotten, one that is seen now and then is not, and a failed read      *)
(* counts against nobody (Baseline.Observe and Prune).                     *)
KeptWhileSeen ==
    \A g \in Cgroups :
        /\ cpuUsage[g] # None <=> unseen.usage[g] < PruneAfterMisses
        /\ baseline[g] # None <=> unseen.latency[g] < PruneAfterMisses
=============================================================================
