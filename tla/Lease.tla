-------------------------------- MODULE Lease --------------------------------
(***************************************************************************)
(* What the resize tier promises the owners of pods, with nothing of how   *)
(* it is done: no handlers, no records, no calls. A pod lends CPU time. At *)
(* most one of its containers is lowered at a time, a lowered limit is     *)
(* given back before another is taken, and between two actions on a pod    *)
(* (a throttle or an Event that names it) a whole cooldown passes.         *)
(***************************************************************************)
EXTENDS Integers

CONSTANTS
    Pods,
    Containers,
    PodOf,
    Cooldown

VARIABLES
    lowered,  \* the containers whose limit is not the owner's
    quiet     \* ticks during which a pod is left alone

vars == <<lowered, quiet>>

Of(p) == {c \in Containers : PodOf[c] = p}

Init ==
    /\ lowered = {}
    /\ quiet = [p \in Pods |-> 0]

(* The pod is acted on, having been left alone for a cooldown.             *)
Acted(p) == quiet[p] = 0 /\ quiet' = [quiet EXCEPT ![p] = Cooldown]

Throttle(c) ==
    /\ Of(PodOf[c]) \cap lowered = {}
    /\ lowered' = lowered \cup {c}
    /\ Acted(PodOf[c])

Notify(p) == Acted(p) /\ UNCHANGED lowered

(* The limit is restored, or the pod goes.                                 *)
Lift(p) ==
    /\ lowered' = lowered \ Of(p)
    /\ UNCHANGED quiet

Tick ==
    /\ quiet' = [p \in Pods |-> IF quiet[p] = 0 THEN 0 ELSE quiet[p] - 1]
    /\ UNCHANGED lowered

Next ==
    \/ \E c \in Containers : Throttle(c)
    \/ \E p \in Pods : Notify(p) \/ Lift(p)
    \/ Tick

Spec == Init /\ [][Next]_vars
=============================================================================
