----------------------------- MODULE MCDetection -----------------------------
(***************************************************************************)
(* Instances of Detection for TLC.                                         *)
(***************************************************************************)
EXTENDS Detection, TLC

CONSTANTS v, o, s  \* a pod that may be starved, one that may hog, a system cgroup

Requests == (v :> 100) @@ (o :> 100) @@ (s :> 0)

Quiet == <<0, 2, 0, 0>>
Starved == <<0, 1, 0, 1>>
Few == <<0, 0, 0, 1>>
NotRun == <<0>>

Idle == [periods |-> 0, throttled |-> 0]
Free == [periods |-> 1, throttled |-> 0]
Capped == [periods |-> 1, throttled |-> 1]

Interval(hist, cpu, ran) ==
    [runq |-> (v :> hist) @@ (o :> NotRun) @@ (s :> NotRun),
     cpu |-> (v :> 2) @@ (o :> cpu) @@ (s :> 0),
     ran |-> (v :> Idle) @@ (o :> ran) @@ (s :> Idle),
     gone |-> {}, burst |-> NoBurst, timelineRead |-> TRUE]

InStep == [NoBurst EXCEPT ![o][v] = 80]

Calm == Interval(Quiet, 2, Capped)
Hog == Interval(Starved, 8, Free)
HogCapped == Interval(Starved, 8, Capped)
HogUnseen == [Hog EXCEPT !.timelineRead = FALSE]
HogGone == [Interval(Starved, 8, Idle) EXCEPT !.gone = {o}]
Bystander == [Interval(Starved, 2, Free) EXCEPT !.burst = InStep]
SystemHog == [Hog EXCEPT !.cpu[s] = 8]
Departed == Interval(Quiet, 0, Idle)
Sparse == Interval(Few, 2, Free)
Asleep == [Departed EXCEPT !.runq[v] = NotRun, !.cpu[v] = 0]

AllIntervals == {Calm, Hog, HogCapped, HogUnseen, HogGone, Bystander, SystemHog,
                 Departed, Sparse, Asleep}
=============================================================================
