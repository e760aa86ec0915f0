------------------------------ MODULE Observers ------------------------------
(***************************************************************************)
(* The per-cgroup counters of the three eBPF observers (sched, blkio, net) *)
(* and the read-and-delete with which user space drains them every         *)
(* interval: sched_monitor.bpf.c, blkio_monitor.bpf.c, net_monitor.bpf.c   *)
(* and the Read methods of internal/ebpf. The four maps are used alike, so *)
(* one map stands for each of them.                                        *)
(*                                                                         *)
(* An event is stamped when it begins (a wakeup, a block request's insert) *)
(* and charged to its cgroup when it ends, one counter after the other, on *)
(* the copy of the CPU that runs the handler. User space gets an element   *)
(* CPU by CPU and word by word, the histogram before the count, while      *)
(* handlers go on charging it.                                             *)
(***************************************************************************)
EXTENDS Integers, FiniteSets, Functions

CONSTANTS
    CPUs,
    Cgroups,
    Requests,   \* tasks (by pid) or block requests (by address)
    Inflight,   \* MAX_TASKS, MAX_INFLIGHT
    Capacity,   \* MAX_CGROUPS
    MaxEvents,  \* bound on the events
    MaxAgain,   \* bound on those that failed deletes repeat
    Faults,     \* what may fail: "iterate" the map, "delete" an element
    None

ASSUME SizesAssumption ==
    /\ Inflight \in Nat /\ Capacity \in Nat /\ MaxEvents \in Nat
    /\ IsFiniteSet(CPUs) /\ CPUs # {}
ASSUME NoneAssumption == None \notin Cgroups

VARIABLES
    stamped,   \* wakeup_ts_map, inflight_rq: whose each begun request is
    pc,        \* where each CPU's handler is
    cgroup,    \* the cgroup it charges
    held,      \* its pointer into the map is to an element still there
    present,   \* the cgroups that have an element
    value,     \* its counters, one copy per CPU
    rpc,       \* where the reader is
    todo,      \* the elements its iteration has still to meet
    at,        \* the copy it is in the middle of, and its histogram
    seen,      \* the CPUs whose copies of an element it has, until the delete
    out,       \* what it has read of each cgroup
    completed, \* history: the events of each cgroup whose handler has ended
    delivered, \* history: those that Reads have returned
    excused,   \* history: those charged between a copy and its delete, or to a full map
    again,     \* history: those returned though their element could not be deleted
    raced      \* history: those charged to a copy in the middle of its being read

handler == <<pc, cgroup>>
map     == <<held, present, value>>
reader  == <<rpc, todo, at, seen, out, raced>>
vars    == <<stamped, handler, map, reader, completed, delivered, excused, again>>

Zero == [slots |-> 0, count |-> 0]
Zeroed == [c \in CPUs |-> Zero]
NothingRead == [g \in Cgroups |-> Zero]
NoneSeen == [g \in Cgroups |-> {}]
NoEvents == [g \in Cgroups |-> 0]

Init ==
    /\ stamped = [r \in Requests |-> None]
    /\ pc = [c \in CPUs |-> "idle"] /\ cgroup = [c \in CPUs |-> None]
    /\ held = [c \in CPUs |-> FALSE] /\ present = {} /\ value = [g \in Cgroups |-> Zeroed]
    /\ rpc = "idle" /\ todo = {} /\ at = None /\ seen = NoneSeen /\ out = NothingRead
    /\ completed = NoEvents /\ delivered = NoEvents /\ excused = NoEvents
    /\ again = NoEvents /\ raced = NoEvents

-----------------------------------------------------------------------------
(* The kernel side *)

Begun == {r \in Requests : stamped[r] # None}

StampRoomForOneMore(r) == r \in Begun \/ Cardinality(Begun) =< Inflight
StampRoom(r) == r \in Begun \/ Cardinality(Begun) < Inflight

(* save_wakeup_time, handle_block_rq_insert: a full map drops the stamp,   *)
(* and a request begun again is stamped again.                             *)
Stamp(r, g) ==
    /\ StampRoom(r)
    /\ stamped' = [stamped EXCEPT ![r] = g]
    /\ UNCHANGED <<handler, map, reader, completed, delivered, excused, again>>

(* handle_sched_switch, handle_block_rq_complete: the stamp is used once.  *)
Complete(c, r) ==
    /\ pc[c] = "idle" /\ stamped[r] # None
    /\ completed[stamped[r]] < MaxEvents
    /\ stamped' = [stamped EXCEPT ![r] = None]
    /\ pc' = [pc EXCEPT ![c] = "look"]
    /\ cgroup' = [cgroup EXCEPT ![c] = stamped[r]]
    /\ UNCHANGED <<map, reader, completed, delivered, excused, again>>

(* The handler returns; the event counts as one that may be missing.       *)
Ended(c, excuse) ==
    /\ pc' = [pc EXCEPT ![c] = "idle"]
    /\ cgroup' = [cgroup EXCEPT ![c] = None]
    /\ held' = [held EXCEPT ![c] = FALSE]
    /\ completed' = [completed EXCEPT ![cgroup[c]] = @ + 1]
    /\ excused' = [excused EXCEPT ![cgroup[c]] = IF excuse THEN @ + 1 ELSE @]

(* Find the cgroup's element, or add a zeroed one unless the map is full.  *)
Look(c) ==
    /\ pc[c] = "look"
    /\ IF cgroup[c] \in present \/ Cardinality(present) < Capacity
       THEN /\ present' = present \cup {cgroup[c]}
            /\ held' = [held EXCEPT ![c] = TRUE]
            /\ pc' = [pc EXCEPT ![c] = "slots"]
            /\ UNCHANGED <<cgroup, completed, excused>>
       ELSE Ended(c, TRUE) /\ UNCHANGED present
    /\ UNCHANGED <<stamped, value, reader, delivered, again>>

ChargeSwapped(c, field) ==
    LET other == IF field = "slots" THEN "count" ELSE "slots"
    IN  value' = IF held[c] THEN [value EXCEPT ![cgroup[c]][c][other] = @ + 1] ELSE value

(* A charge to an element deleted meanwhile is lost.                       *)
Charge(c, field) ==
    value' = IF held[c] THEN [value EXCEPT ![cgroup[c]][c][field] = @ + 1] ELSE value

(* User space has read this copy's histogram and not yet its count.        *)
Torn(g, c) == rpc = "half" /\ at.cgroup = g /\ at.cpu = c

AddSlot(c) ==
    /\ pc[c] = "slots"
    /\ Charge(c, "slots")
    /\ pc' = [pc EXCEPT ![c] = "count"]
    /\ raced' = IF held[c] /\ Torn(cgroup[c], c) THEN [raced EXCEPT ![cgroup[c]] = @ + 1]
                ELSE raced
    /\ UNCHANGED <<stamped, cgroup, held, present, rpc, todo, at, seen, out,
                   completed, delivered, excused, again>>

AddCount(c) ==
    /\ pc[c] = "count"
    /\ Charge(c, "count")
    /\ Ended(c, ~ held[c] \/ c \in seen[cgroup[c]])
    /\ UNCHANGED <<stamped, present, reader, delivered, again>>

-----------------------------------------------------------------------------
(* Read, ReadCPU *)

StartRead ==
    /\ rpc = "idle"
    /\ rpc' = "copy" /\ todo' = present
    /\ UNCHANGED <<stamped, handler, map, at, seen, out, raced, completed, delivered, excused,
                   again>>

(* The elements that have been read and not yet deleted.                   *)
Keys == {g \in Cgroups : seen[g] = CPUs}

(* No element is in the middle of being read.                              *)
Whole(g) == seen[g] \in {{}, CPUs}

(* One element after the other is read, and its per-CPU copies summed. Of  *)
(* each copy the histogram comes first. An element added meanwhile may be  *)
(* met too.                                                                *)
CopySlots(g, c) ==
    /\ rpc = "copy" /\ g \in present /\ c \notin seen[g]
    /\ \A h \in Cgroups \ {g} : Whole(h)
    /\ rpc' = "half"
    /\ at' = [cgroup |-> g, cpu |-> c, slots |-> value[g][c].slots]
    /\ UNCHANGED <<stamped, handler, map, todo, seen, out, raced, completed, delivered, excused,
                   again>>

CopyCount ==
    /\ rpc = "half"
    /\ rpc' = "copy" /\ at' = None
    /\ seen' = [seen EXCEPT ![at.cgroup] = @ \cup {at.cpu}]
    /\ todo' = todo \ {at.cgroup}
    /\ out' = [out EXCEPT ![at.cgroup] =
                  [slots |-> @.slots + at.slots,
                   count |-> @.count + value[at.cgroup][at.cpu].count]]
    /\ UNCHANGED <<stamped, handler, map, raced, completed, delivered, excused, again>>

Return ==
    /\ rpc' = "idle" /\ todo' = {} /\ at' = None /\ seen' = NoneSeen
    /\ out' = NothingRead /\ raced' = NoEvents

(* A failed iteration returns what it has met so far, and deletes nothing. *)
EndCopyReturnsSome ==
    /\ rpc = "copy" /\ \A g \in Cgroups : Whole(g)
    /\ \/ todo = {} /\ rpc' = "delete" /\ UNCHANGED <<todo, at, seen, out, raced, delivered>>
       \/ /\ "iterate" \in Faults /\ Return
          /\ delivered' = [g \in Cgroups |-> delivered[g] + out[g].count]
    /\ UNCHANGED <<stamped, handler, map, completed, excused, again>>

EndCopyDeletesAnyway ==
    /\ rpc = "copy" /\ \A g \in Cgroups : Whole(g)
    /\ rpc' = "delete"
    /\ \/ todo = {} /\ UNCHANGED <<todo, out>>
       \/ "iterate" \in Faults /\ todo' = {} /\ out' = NothingRead
    /\ UNCHANGED <<stamped, handler, map, at, seen, raced, completed, delivered, excused, again>>

(* The iteration ends once it has met every element; when it fails,        *)
(* nothing is returned and nothing deleted.                                *)
EndCopy ==
    /\ rpc = "copy" /\ \A g \in Cgroups : Whole(g)
    /\ \/ todo = {} /\ rpc' = "delete" /\ UNCHANGED <<todo, at, seen, out, raced>>
       \/ "iterate" \in Faults /\ Return
    /\ UNCHANGED <<stamped, handler, map, completed, delivered, excused, again>>

(* An element that was read is deleted. An error is ignored: the element   *)
(* stays, and its events will be returned again.                           *)
Delete(g) ==
    /\ rpc = "delete" /\ g \in Keys
    /\ seen' = [seen EXCEPT ![g] = {}]
    /\ \/ /\ present' = present \ {g}
          /\ value' = [value EXCEPT ![g] = Zeroed]
          /\ held' = [c \in CPUs |-> held[c] /\ cgroup[c] # g]
          /\ UNCHANGED again
       \/ /\ "delete" \in Faults /\ again[g] + out[g].count =< MaxAgain
          /\ again' = [again EXCEPT ![g] = @ + out[g].count]
          /\ UNCHANGED map
    /\ UNCHANGED <<stamped, handler, rpc, todo, at, out, raced, completed, delivered, excused>>

(* Read returns what it copied.                                            *)
EndDelete ==
    /\ rpc = "delete" /\ Keys = {}
    /\ delivered' = [g \in Cgroups |-> delivered[g] + out[g].count]
    /\ Return
    /\ UNCHANGED <<stamped, handler, map, completed, excused, again>>

Next ==
    \/ \E r \in Requests, g \in Cgroups : Stamp(r, g)
    \/ \E c \in CPUs, r \in Requests : Complete(c, r)
    \/ \E c \in CPUs : Look(c) \/ AddSlot(c) \/ AddCount(c)
    \/ StartRead \/ CopyCount \/ EndCopy \/ EndDelete
    \/ \E g \in Cgroups, c \in CPUs : CopySlots(g, c)
    \/ \E g \in Cgroups : Delete(g)

Spec == Init /\ [][Next]_vars

-----------------------------------------------------------------------------
(* Properties *)

(* Every variable keeps its type, and both maps their capacity.            *)
TypeOK ==
    /\ stamped \in [Requests -> Cgroups \cup {None}] /\ Cardinality(Begun) =< Inflight
    /\ pc \in [CPUs -> {"idle", "look", "slots", "count"}]
    /\ cgroup \in [CPUs -> Cgroups \cup {None}]
    /\ \A c \in CPUs : pc[c] = "idle" <=> cgroup[c] = None
    /\ held \in [CPUs -> BOOLEAN]
    /\ present \subseteq Cgroups /\ Cardinality(present) =< Capacity
    /\ value \in [Cgroups -> [CPUs -> [slots : Nat, count : Nat]]]
    /\ rpc \in {"idle", "copy", "half", "delete"}
    /\ IF rpc = "half" THEN at \in [cgroup : present, cpu : CPUs, slots : Nat] ELSE at = None
    /\ seen \in [Cgroups -> SUBSET CPUs]
    /\ todo \subseteq present /\ \A g \in Cgroups : seen[g] # {} => g \in present \ todo
    /\ out \in [Cgroups -> [slots : Nat, count : Nat]]
    /\ \A f \in {completed, delivered, excused, again, raced} : f \in [Cgroups -> Nat]

(* The events in the copies of g that a Read has still to get.             *)
Unread(g) == SumFunction([c \in CPUs |-> IF c \in seen[g] THEN 0 ELSE value[g][c].count])

(* What has been counted: returned, read but not returned, or still unread. *)
Counted(g) == delivered[g] + out[g].count + Unread(g)

(* No event is counted in two intervals, unless its element could not be   *)
(* deleted (Read ignores that error): an element is deleted when it was    *)
(* read, and read again when the Read that read it failed.                 *)
NoneCountedTwice == \A g \in Cgroups : Counted(g) =< completed[g] + again[g]

(* An event is missing from the counts only when its handler overlapped    *)
(* the copy and the delete of its cgroup, or met a full map: the elements  *)
(* that are deleted are the ones that were read.                           *)
LostOnlyInRace == \A g \in Cgroups : completed[g] =< Counted(g) + excused[g]

(* How far the histogram and the count that a Read returns of one cgroup   *)
(* can be apart, though events are charged and copies read one word at a   *)
(* time: the histogram is ahead by at most one event per CPU, the count by *)
(* no more than the events charged to a copy between the reading of its    *)
(* two words. So the gate on the number of samples and the percentiles are *)
(* of the same population but for events of the moment of the Read.        *)
HistogramMatchesCount ==
    \A g \in Cgroups : /\ out[g].slots =< out[g].count + Cardinality(CPUs)
                       /\ out[g].count =< out[g].slots + raced[g]
=============================================================================
