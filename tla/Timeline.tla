------------------------------- MODULE Timeline -------------------------------
(***************************************************************************)
(* The sub-interval timeline: the context-switch tracepoint of             *)
(* sched_monitor.bpf.c writes it, one ring of Buckets windows per cgroup   *)
(* and CPU, and SchedObserver.ReadTimeline (internal/ebpf/sched.go) drains *)
(* it while the kernel keeps writing.                                      *)
(*                                                                         *)
(* A tracepoint does not migrate and is not preempted by itself, so a CPU  *)
(* runs one handler at a time; handlers of different CPUs and the reader   *)
(* interleave at every store. A counter is abstracted to the set of the    *)
(* charges it sums: what was charged, and in which window.                 *)
(***************************************************************************)
EXTENDS Integers, Sequences, FiniteSets

CONSTANTS
    CPUs,
    Cgroups,   \* each with one task, which stands for them all
    Idle,      \* the idle task (pid 0)
    Buckets,   \* NUM_BUCKETS
    Capacity,  \* MAX_ACTIVE_CGROUPS
    MaxEpoch,  \* bound on time
    Faults     \* {"iterate"}: the iteration of the map may fail

ASSUME GeometryAssumption ==
    Buckets \in Nat \ {0} /\ Capacity \in Nat /\ MaxEpoch \in Nat \ {0}
ASSUME IdleAssumption == Idle \notin Cgroups

Kinds == {"cpu", "runq"}
Charges == Kinds \X (1 .. MaxEpoch)
Slots == 0 .. Buckets - 1

VARIABLES
    now,      \* the current window: ktime / BUCKET_NS
    running,  \* the task on each CPU
    started,  \* the CPUs whose cpu_slice_start is not 0
    woken,    \* the tasks in wakeup_ts_map
    pc,       \* where each CPU's handler is
    work,     \* the charges it has still to make
    at,       \* the window it was entered in (1 outside a handler)
    held,     \* its pointer into the map is to an element still there
    present,  \* the cgroups in sched_timeline_map
    ring,     \* their per-CPU rings
    rpc,      \* where the reader is
    ref,      \* its refEpoch
    series,   \* what it has read, for each cgroup in keys
    todo,     \* the elements its iteration has still to meet
    keys,     \* the cgroups it has read and not yet deleted
    log,      \* history: the charges made since a cgroup's element was created
    settled   \* history: log when the reader read the clock, the window it copied
              \* a cgroup in, and the CPUs that were resetting a slot of it then

task    == <<running, started, woken>>
handler == <<pc, work, at>>
map     == <<held, present, ring, log>>
reader  == <<rpc, ref, series, todo, keys, settled>>
vars    == <<now, task, handler, map, reader>>

Zeroed == [s \in Slots |-> [epoch |-> 0, charges |-> {}]]
NoLog  == [g \in Cgroups |-> [c \in CPUs |-> {}]]
NoSeries == [g \in Cgroups |-> [s \in Slots |-> {}]]
NoneSettled == [log |-> NoLog, copied |-> [g \in Cgroups |-> 1],
                torn |-> [g \in Cgroups |-> {}]]

Init ==
    /\ now = 1
    /\ running = [c \in CPUs |-> Idle] /\ started = {} /\ woken = {}
    /\ pc = [c \in CPUs |-> "idle"] /\ work = [c \in CPUs |-> <<>>]
    /\ at = [c \in CPUs |-> 1] /\ held = [c \in CPUs |-> FALSE]
    /\ present = {} /\ ring = [g \in Cgroups |-> [c \in CPUs |-> Zeroed]]
    /\ rpc = "idle" /\ ref = 1 /\ series = NoSeries /\ todo = {} /\ keys = {}
    /\ log = NoLog /\ settled = NoneSettled

-----------------------------------------------------------------------------
(* The kernel side *)

Wakeup(g) ==
    /\ \A c \in CPUs : running[c] # g
    /\ woken' = woken \cup {g}
    /\ UNCHANGED <<now, running, started, handler, map, reader>>

(* The slice that ended is prev's, unless it is idle or its start is not   *)
(* known; the wait that ended is next's, if it was woken.                  *)
SwitchCharges(c, next) ==
    (IF c \in started /\ running[c] # Idle
     THEN <<[kind |-> "cpu", cgroup |-> running[c]]>> ELSE <<>>)
    \o (IF next \in woken THEN <<[kind |-> "runq", cgroup |-> next]>> ELSE <<>>)

(* handle_sched_switch is entered.                                         *)
Switch(c, next) ==
    /\ pc[c] = "idle"
    /\ next = Idle \/ \A d \in CPUs : running[d] # next
    /\ work' = [work EXCEPT ![c] = SwitchCharges(c, next)]
    /\ pc' = [pc EXCEPT ![c] = IF SwitchCharges(c, next) = <<>> THEN "idle" ELSE "look"]
    /\ at' = [at EXCEPT ![c] = IF SwitchCharges(c, next) = <<>> THEN 1 ELSE now]
    /\ running' = [running EXCEPT ![c] = next]
    /\ started' = started \cup {c}
    /\ woken' = woken \ {next}
    /\ UNCHANGED <<now, map, reader>>

Slot(epoch) == epoch % Buckets
Bucket(c) == ring[Head(work[c]).cgroup][c][Slot(at[c])]

SetBucket(rings, c, bucket) ==
    [rings EXCEPT ![Head(work[c]).cgroup][c][Slot(at[c])] = bucket]

(* The handler goes on to its next charge, or returns.                     *)
Done(c) ==
    /\ work' = [work EXCEPT ![c] = Tail(@)]
    /\ pc' = [pc EXCEPT ![c] = IF Tail(work[c]) = <<>> THEN "idle" ELSE "look"]
    /\ at' = [at EXCEPT ![c] = IF Tail(work[c]) = <<>> THEN 1 ELSE @]

RoomForOneMore(g) == g \in present \/ Cardinality(present) =< Capacity
Room(g) == g \in present \/ Cardinality(present) < Capacity

(* get_timeline_bucket: find the cgroup's ring, or add a zeroed one unless *)
(* the map is full; a slot of an older window gets the new epoch first.    *)
Look(c) ==
    /\ pc[c] = "look"
    /\ LET g == Head(work[c]).cgroup
           bucket == Bucket(c)
       IN  IF Room(g)
           THEN /\ present' = present \cup {g}
                /\ ring' = SetBucket(ring, c, [bucket EXCEPT !.epoch = at[c]])
                /\ held' = [held EXCEPT ![c] = TRUE]
                /\ pc' = [pc EXCEPT ![c] = IF bucket.epoch = at[c] THEN "add" ELSE "zero"]
                /\ UNCHANGED <<work, at, log>>
           ELSE Done(c) /\ UNCHANGED map
    /\ UNCHANGED <<now, task, reader>>

NotEmptied(bucket) == bucket
Emptied(bucket) == [bucket EXCEPT !.charges = {}]

(* ... and its counters are zeroed after that.                             *)
Zero(c) ==
    /\ pc[c] = "zero"
    /\ ring' = IF held[c] THEN SetBucket(ring, c, Emptied(Bucket(c))) ELSE ring
    /\ pc' = [pc EXCEPT ![c] = "add"]
    /\ UNCHANGED <<now, task, work, at, held, present, log, reader>>

(* The charge is added; to an element deleted meanwhile, it is lost.       *)
Add(c) ==
    /\ pc[c] = "add"
    /\ LET g == Head(work[c]).cgroup
           charge == <<Head(work[c]).kind, at[c]>>
       IN  IF held[c]
           THEN /\ ring' = SetBucket(ring, c, [Bucket(c) EXCEPT !.charges = @ \cup {charge}])
                /\ log' = [log EXCEPT ![g][c] = @ \cup {charge}]
           ELSE UNCHANGED <<ring, log>>
    /\ Done(c)
    /\ held' = [held EXCEPT ![c] = FALSE]
    /\ UNCHANGED <<now, task, present, reader>>

-----------------------------------------------------------------------------
(* ReadTimeline *)

ReadClock ==
    /\ rpc = "idle"
    /\ rpc' = "copy" /\ ref' = now
    /\ todo' = present /\ keys' = {} /\ series' = NoSeries
    /\ settled' = [NoneSettled EXCEPT !.log = log]
    /\ UNCHANGED <<now, task, handler, map>>

OnShortAxis(bucket) == bucket.epoch # 0 /\ bucket.epoch =< ref /\ ref - bucket.epoch < Buckets - 1

(* A bucket is of the axis that ends at ref unless it was never written,   *)
(* is ahead of ref or is older than the ring.                              *)
OnAxis(bucket) == bucket.epoch # 0 /\ bucket.epoch =< ref /\ ref - bucket.epoch < Buckets

Position(epoch) == Buckets - 1 - (ref - epoch)

(* The per-CPU rings of a cgroup, folded onto the axis.                    *)
Aligned(g) ==
    [p \in Slots |->
        {x \in CPUs \X Charges : \E s \in Slots :
            LET bucket == ring[g][x[1]][s]
            IN  x[2] \in bucket.charges /\ OnAxis(bucket) /\ Position(bucket.epoch) = p}]

Resetting(g) == {c \in CPUs : pc[c] = "zero" /\ held[c] /\ Head(work[c]).cgroup = g}

(* The iteration gets one element. The kernel copies it word by word while *)
(* handlers store to it; here the copy is one step. A copy over the reset  *)
(* of a slot differs from it only if the old epoch, read first, is still   *)
(* on the axis, so only if a window ends between the clock's reading and   *)
(* the copy.                                                               *)
Copy(g) ==
    /\ rpc = "copy" /\ g \in present \ keys
    /\ series' = [series EXCEPT ![g] = Aligned(g)]
    /\ keys' = keys \cup {g} /\ todo' = todo \ {g}
    /\ settled' = [settled EXCEPT !.copied[g] = now, !.torn[g] = Resetting(g)]
    /\ UNCHANGED <<now, task, handler, map, rpc, ref>>

(* ReadTimeline returns.                                                   *)
Return ==
    /\ rpc' = "idle" /\ ref' = 1
    /\ todo' = {} /\ keys' = {} /\ series' = NoSeries /\ settled' = NoneSettled

(* The iteration ends once it has met every element; when it fails,        *)
(* nothing is returned and nothing deleted.                                *)
EndCopy ==
    /\ rpc = "copy"
    /\ \/ /\ todo = {}
          /\ rpc' = "delete"
          /\ UNCHANGED <<ref, series, todo, keys, settled>>
       \/ "iterate" \in Faults /\ Return
    /\ UNCHANGED <<now, task, handler, map>>

Delete(g) ==
    /\ rpc = "delete" /\ g \in keys
    /\ keys' = keys \ {g}
    /\ present' = present \ {g}
    /\ held' = [c \in CPUs |-> held[c] /\ Head(work[c]).cgroup # g]
    /\ log' = [log EXCEPT ![g] = NoLog[g]]
    /\ ring' = [ring EXCEPT ![g] = [c \in CPUs |-> Zeroed]]
    /\ UNCHANGED <<now, task, handler, rpc, ref, series, todo, settled>>

EndDelete ==
    /\ rpc = "delete" /\ keys = {}
    /\ Return
    /\ UNCHANGED <<now, task, handler, map>>

-----------------------------------------------------------------------------
Tick ==
    /\ now < MaxEpoch
    /\ now' = now + 1
    /\ UNCHANGED <<task, handler, map, reader>>

Next ==
    \/ \E g \in Cgroups : Wakeup(g) \/ Copy(g) \/ Delete(g)
    \/ \E c \in CPUs, next \in Cgroups \cup {Idle} : Switch(c, next)
    \/ \E c \in CPUs : Look(c) \/ Zero(c) \/ Add(c)
    \/ ReadClock \/ EndCopy \/ EndDelete
    \/ Tick

Spec == Init /\ [][Next]_vars

-----------------------------------------------------------------------------
(* Properties *)

(* Every variable keeps its type, and the map its capacity.                *)
TypeOK ==
    /\ now \in 1 .. MaxEpoch /\ ref \in 1 .. now
    /\ running \in [CPUs -> Cgroups \cup {Idle}]
    /\ started \subseteq CPUs /\ woken \subseteq Cgroups
    /\ pc \in [CPUs -> {"idle", "look", "zero", "add"}]
    /\ \A c \in CPUs : /\ work[c] \in Seq([kind : Kinds, cgroup : Cgroups])
                       /\ pc[c] = "idle" <=> work[c] = <<>>
                       /\ held[c] => pc[c] \in {"zero", "add"}
    /\ at \in [CPUs -> 1 .. now]
    /\ held \in [CPUs -> BOOLEAN]
    /\ present \subseteq Cgroups /\ Cardinality(present) =< Capacity
    /\ ring \in [Cgroups -> [CPUs -> [Slots -> [epoch : 0 .. now, charges : SUBSET Charges]]]]
    /\ rpc \in {"idle", "copy", "delete"}
    /\ keys \subseteq present /\ todo \subseteq present \ keys
    /\ log \in [Cgroups -> [CPUs -> SUBSET Charges]]

Window(epoch) == {e \in 1 .. MaxEpoch : epoch - Buckets < e /\ e =< epoch}

(* The ring is the log's last Buckets windows: for a CPU that is not in    *)
(* its handler, a slot holds a charge exactly when it was made in the      *)
(* slot's window, and every charge of the last windows is in its slot,     *)
(* however often the ring wrapped (get_timeline_bucket's lazy reset).      *)
RingIsLog ==
    \A g \in present, c \in CPUs : pc[c] = "idle" =>
        /\ \A s \in Slots : \A x \in ring[g][c][s].charges :
              x[2] = ring[g][c][s].epoch /\ x \in log[g][c]
        /\ \A x \in log[g][c] : x[2] \in Window(now) => x \in ring[g][c][Slot(x[2])].charges

(* A charge that was complete when the reader read the clock is in the     *)
(* series it returns, at its window's place on the common axis, unless the *)
(* ring has turned past it before the copy (ReadTimeline's alignment).     *)
SettledIsRead ==
    rpc # "idle" => \A g \in keys, c \in CPUs : \A x \in settled.log[g][c] :
        x[2] \in Window(settled.copied[g]) => <<c, x>> \in series[g][Position(x[2])]

(* What is read for a window was charged in it ("instead of mixing two     *)
(* windows' counts together", sched_monitor.bpf.c), except on a CPU that   *)
(* had given a slot its new epoch and not yet zeroed it: those two stores  *)
(* are the only place where a copy can mix windows (get_timeline_bucket,   *)
(* ReadTimeline). A copy is one step here: see Copy for when one that is   *)
(* spread over the two stores would show the old epoch with new counts.    *)
MixedOnlyInReset ==
    \A g \in keys, p \in Slots : \A x \in series[g][p] :
        Position(x[2][2]) = p \/ x[1] \in settled.torn[g]
=============================================================================
