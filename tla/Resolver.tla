------------------------------- MODULE Resolver -------------------------------
(***************************************************************************)
(* How the node agent keeps the names of cgroups: internal/cgroup's TTL    *)
(* cache (ttlcache.go) and Resolver (resolver.go), the inotify Watcher     *)
(* (watcher.go), the in-kernel lifecycle events (cgroup_monitor.bpf.c and  *)
(* ebpf/cgroup.go) and the goroutines of internal/agent that drive them.   *)
(*                                                                         *)
(* Three goroutines write the cache concurrently: the agent's main loop    *)
(* (periodic Refresh), the watcher (Refresh after a change of the tree)    *)
(* and runLifecycle (one cgroup at a time). A Refresh reads the tree, then *)
(* asks the container runtime, then merges: three steps, between which     *)
(* cgroups come and go.                                                    *)
(***************************************************************************)
EXTENDS Integers, Sequences

CONSTANTS
    Ids,        \* cgroup ids of container scopes; the kernel never reuses one
    TTL,        \* cfg.CacheTTL, in ticks
    RingSize,   \* events the cgroup_events ring buffer holds
    Watching,   \* TRUE: the inotify watcher could be started
    Faults,     \* which faults the environment may cause
    Nobody      \* no goroutine

ASSUME TTLAssumption == TTL \in Nat /\ RingSize \in Nat
ASSUME SwitchesAssumption ==
    Watching \in BOOLEAN /\ Faults \subseteq {"cri", "inotify"}

Refreshers == {"ticker"} \cup (IF Watching THEN {"watcher"} ELSE {})

ASSUME NobodyAssumption == Nobody \notin {"ticker", "watcher"}

VARIABLES
    alive,     \* kernel: the container scopes that exist
    gone,      \* kernel: those that have been removed
    cri,       \* runtime: the containers it can describe
    attached,  \* kernel: the lifecycle tracepoints could be attached
    ring,      \* kernel: lifecycle events not yet read
    event,     \* runLifecycle: the mkdir event it is resolving, as a sequence
    dirty,     \* watcher: a debounce timer is running
    entry,     \* c.items: see below
    paths,     \* r.paths
    refreshMu, \* who holds r.refreshMu
    phase,     \* where that Refresh is
    found,     \* what it has found so far
    named      \* history: ids that were bound to a pod at some time

vars == <<alive, gone, attached, cri, ring, event, dirty, entry, paths, refreshMu, phase, found, named>>
kernel  == <<alive, gone>>
refresh == <<refreshMu, phase, found>>

(* A cache entry is the time left to its name: for ever while it is live,  *)
(* a countdown once it is absent from the tree; an entry whose countdown   *)
(* ended reads as absent until the next Refresh prunes it.                 *)
Live    == TTL + 1
Expired == -1
Absent  == -2

Resolves(i) == entry[i] >= 0

-----------------------------------------------------------------------------
(* NewResolver has scanned the tree once before any goroutine starts.      *)
Init ==
    /\ alive \in SUBSET Ids
    /\ gone = {}
    /\ cri = alive
    /\ attached \in BOOLEAN
    /\ ring = <<>> /\ event = <<>>
    /\ dirty = FALSE
    /\ entry = [i \in Ids |-> IF i \in alive THEN Live ELSE Absent]
    /\ paths = alive
    /\ refreshMu = Nobody /\ phase = "scan" /\ found = {}
    /\ named = alive

EmitUnbounded(op, i) == ring' = IF attached THEN Append(ring, [op |-> op, id |-> i]) ELSE ring

(* emit: a full ring drops the event.                                      *)
Emit(op, i) ==
    ring' = IF attached /\ Len(ring) < RingSize
            THEN Append(ring, [op |-> op, id |-> i]) ELSE ring

(* A change of the tree (re)starts the debounce timer, unless inotify      *)
(* drops the event.                                                        *)
Notify == \/ dirty' = Watching
          \/ "inotify" \in Faults /\ UNCHANGED dirty

Mkdir(i) ==
    /\ i \notin alive \cup gone
    /\ alive' = alive \cup {i}
    /\ Emit("mkdir", i) /\ Notify
    /\ UNCHANGED <<gone, attached, cri, event, entry, paths, refresh, named>>

Rmdir(i) ==
    /\ i \in alive
    /\ alive' = alive \ {i}
    /\ gone' = gone \cup {i}
    /\ Emit("rmdir", i) /\ Notify
    /\ UNCHANGED <<attached, cri, event, entry, paths, refresh, named>>

(* The runtime learns of a container, before or after its cgroup is made,  *)
(* and forgets it some time after its end.                                 *)
Register(i) ==
    /\ i \notin cri \cup gone
    /\ cri' = cri \cup {i}
    /\ UNCHANGED <<kernel, attached, ring, event, dirty, entry, paths, refresh, named>>

Unregister(i) ==
    /\ i \in cri \cap gone
    /\ cri' = cri \ {i}
    /\ UNCHANGED <<kernel, attached, ring, event, dirty, entry, paths, refresh, named>>

-----------------------------------------------------------------------------
(* Refresh, by the main loop's ticker or by the watcher *)

(* The walk of the tree, once refreshMu is held.                           *)
Scan(r) ==
    /\ refreshMu = Nobody
    /\ r = "watcher" => dirty
    /\ dirty' = IF r = "watcher" THEN FALSE ELSE dirty
    /\ refreshMu' = r
    /\ phase' = "list"
    /\ found' = alive
    /\ UNCHANGED <<kernel, attached, cri, ring, event, entry, paths, named>>

ListKeepsLock(r) ==
    /\ refreshMu = r /\ phase = "list"
    /\ \/ phase' = "merge" /\ found' = found \cap cri
       \/ "cri" \in Faults /\ phase' = "scan" /\ found' = {}
    /\ UNCHANGED <<kernel, attached, cri, ring, event, dirty, entry, paths, refreshMu, named>>

(* ListContainers: a failure ends the Refresh and changes nothing.         *)
List(r) ==
    /\ refreshMu = r /\ phase = "list"
    /\ \/ /\ phase' = "merge" /\ found' = found \cap cri
          /\ UNCHANGED refreshMu
       \/ /\ "cri" \in Faults
          /\ refreshMu' = Nobody /\ phase' = "scan" /\ found' = {}
    /\ UNCHANGED <<kernel, attached, cri, ring, event, dirty, entry, paths, named>>

MergedReviveFirst(i) == IF entry[i] = Live THEN TTL
                        ELSE IF i \in found THEN Live
                        ELSE IF entry[i] = Expired THEN Absent
                        ELSE entry[i]

MergedKnownOnly(i) == IF i \in found /\ entry[i] # Absent THEN Live
                      ELSE IF entry[i] = Live THEN TTL
                      ELSE IF entry[i] = Expired THEN Absent
                      ELSE entry[i]

MergedNoGrace(i) == IF i \in found THEN Live
                    ELSE IF entry[i] = Expired THEN Absent
                    ELSE entry[i]

(* ttlCache.replace: what was found is live; what was live and was not     *)
(* found starts its grace period; what has expired is dropped.             *)
Merged(i) == IF i \in found THEN Live
             ELSE IF entry[i] = Live THEN TTL
             ELSE IF entry[i] = Expired THEN Absent
             ELSE entry[i]

Merge(r) ==
    /\ refreshMu = r /\ phase = "merge"
    /\ entry' = [i \in Ids |-> Merged(i)]
    /\ named' = named \cup found
    /\ paths' = found
    /\ refreshMu' = Nobody /\ phase' = "scan" /\ found' = {}
    /\ UNCHANGED <<kernel, attached, cri, ring, event, dirty>>

-----------------------------------------------------------------------------
(* runLifecycle *)

(* ttlCache.tombstone: a live entry starts its grace period.               *)
Tombstoned(i) == IF entry[i] = Live THEN TTL ELSE entry[i]

(* One event is read; a removal is handled at once.                        *)
ReadEvent ==
    /\ event = <<>> /\ ring # <<>>
    /\ ring' = Tail(ring)
    /\ LET e == Head(ring)
       IN  IF e.op = "rmdir"
           THEN entry' = [entry EXCEPT ![e.id] = Tombstoned(e.id)] /\ UNCHANGED event
           ELSE event' = <<e>> /\ UNCHANGED entry
    /\ UNCHANGED <<kernel, attached, cri, dirty, paths, refresh, named>>

(* ResolveCgroupPath: the runtime is asked about the one container, and    *)
(* its name is put in the cache as live.                                   *)
ResolvePath ==
    /\ event # <<>>
    /\ event' = <<>>
    /\ LET i == event[1].id
       IN  \/ /\ i \in cri
              /\ entry' = [entry EXCEPT ![i] = Live]
              /\ named' = named \cup {i}
           \/ /\ i \notin cri \/ "cri" \in Faults
              /\ UNCHANGED <<entry, named>>
    /\ UNCHANGED <<kernel, attached, cri, ring, dirty, paths, refresh>>

-----------------------------------------------------------------------------
Tick ==
    /\ entry' = [i \in Ids |-> IF entry[i] \in 0 .. TTL THEN entry[i] - 1 ELSE entry[i]]
    /\ UNCHANGED <<kernel, attached, cri, ring, event, dirty, paths, refresh, named>>

Next ==
    \/ \E i \in Ids : Mkdir(i) \/ Rmdir(i) \/ Register(i) \/ Unregister(i)
    \/ \E r \in Refreshers : Scan(r) \/ List(r) \/ Merge(r)
    \/ ReadEvent
    \/ ResolvePath
    \/ Tick

Spec == Init /\ [][Next]_vars

(* The tickers fire and goroutines run; a runtime that is asked again and  *)
(* again answers, and describes a running container.                       *)
Fairness ==
    /\ WF_vars(Tick)
    /\ SF_vars(Scan("ticker"))
    /\ \A r \in Refreshers : WF_vars(List(r)) /\ WF_vars(Merge(r))
                             /\ SF_vars(List(r) /\ phase' = "merge")
    /\ WF_vars(ReadEvent) /\ WF_vars(ResolvePath)
    /\ \A i \in Ids : WF_vars(i \in alive /\ Register(i))

FairSpec == Spec /\ Fairness

-----------------------------------------------------------------------------
(* Properties *)

(* Every variable keeps its type; a Refresh in progress holds refreshMu.   *)
TypeOK ==
    /\ alive \in SUBSET Ids /\ gone \in SUBSET Ids /\ cri \in SUBSET Ids
    /\ alive \cap gone = {} /\ attached \in BOOLEAN
    /\ ring \in Seq([op : {"mkdir", "rmdir"}, id : Ids]) /\ Len(ring) =< RingSize
    /\ event \in Seq([op : {"mkdir"}, id : Ids]) /\ Len(event) =< 1
    /\ dirty \in BOOLEAN
    /\ entry \in [Ids -> Absent .. Live]
    /\ paths \in SUBSET Ids
    /\ refreshMu \in Refreshers \cup {Nobody}
    /\ phase \in {"scan", "list", "merge"} /\ (phase = "scan" <=> refreshMu = Nobody)
    /\ found \in SUBSET Ids
    /\ named \in SUBSET Ids

Kept(i) == i \in alive \cap named => Resolves(i)

(* Refreshes alone never lose a name: without lifecycle events, a cgroup   *)
(* that still exists and was given its pod's name once resolves at every   *)
(* later time, however the Refreshes of two goroutines overlap creations,  *)
(* removals and failures (replace's merge, ttlcache.go).                   *)
ScansKeepNames == ~ attached => \A i \in Ids : Kept(i)

(* The rescan is the backstop: although the ring and inotify drop events   *)
(* and the runtime fails or knows a container late, a cgroup that stays is *)
(* named.                                                                  *)
RescanNames == \A i \in Ids : i \in alive ~> (Resolves(i) \/ i \in gone)

(* The cache does not leak: a removed cgroup is forgotten for good, even   *)
(* when a Refresh that saw it, or a late creation event, revives its entry *)
(* after its removal was handled.                                          *)
GoneForgotten == \A i \in Ids : i \in gone ~> [](entry[i] = Absent)

-----------------------------------------------------------------------------
(* What the repository says of the program and the program does not do.    *)

(* ttlcache.go: "Live entries never expire". The same, with all writers.   *)
LiveNeverExpires == \A i \in Ids : Kept(i)
=============================================================================
