# node-sentinel: a TLA+ model, its checks and its proofs

node-sentinel watches Kubernetes nodes for noisy neighbours. On every node an
*agent* reads eBPF counters, names the cgroups behind them, detects victims and
offenders and posts a snapshot every interval; one *controller* keeps the latest
snapshot of each node and, if told to, acts on confident offenders: it creates an
Event, or lowers the offender's CPU limit to its request for a while and puts it
back later.

This directory models the parts of it in which concurrency, failure and time
decide whether the program is right, checks them with TLC, and proves the central
facts about them with TLAPS for every value of the constants.

## 1. Inventory

| component | state it keeps | operations | modelled in |
|---|---|---|---|
| Remediator (`controller/remediation.go`, `resize.go`) | `lastActed`, `throttled`, both under `mu` | `Remediate`, `act`, `throttle`, `restoreDue`, `restore` | `Remediation` |
| Throttle ledger (`controller/persist.go`) | the ConfigMap `node-sentinel-throttles`, under `persistMu` | `persist`, `forget`, `Recover` | `Remediation` |
| Start-up and policy (`cmd/controller/main.go`, `controller/policy.go`) | the `RemediationConfig`; `NodeHealthPolicy` objects | `LoadActivePolicy`, `ToConfig`, `NewRemediator` | `Policy`, `Remediation!Restart` |
| Cgroup names (`cgroup/ttlcache.go`, `resolver.go`) | the TTL cache, `paths`, `refreshMu` | `Refresh`, `ResolveCgroupPath`, `Tombstone` | `Resolver` |
| Cgroup events (`cgroup/watcher.go`, `cgroup_monitor.bpf.c`, `ebpf/cgroup.go`) | debounce timer, ring buffer | `Run`, `emit`, `Read` | `Resolver` |
| Sub-interval timeline (`sched_monitor.bpf.c`, `ebpf/sched.go`) | per-cgroup, per-CPU rings of windows | `get_timeline_bucket`, `ReadTimeline` | `Timeline` |
| Observer counters (`sched_`, `blkio_`, `net_monitor.bpf.c`, `ebpf/*.go`) | stamps and per-CPU histograms | stamp, charge, `Read` | `Observers` |
| Baselines (`metrics/baseline.go`) | per-pod moving averages of what is normal | `Observe`, `Deviation`, `Prune` | `Baseline` |
| Detection (`agent/agent.go`, `metrics/histogram.go`, `cgroup/cpustat.go`'s `Sub`) | two tables of baselines, `prevThrottle`, the last timeline | `report`: `cpuVictims`, `judgeVictim`, `trackCPUUsage`, `cpuOffenders`, `offenderConfidence` | `Detection` (the CPU dimension) |
| Correlation (`metrics/correlation.go`) | none | `Correlate`, used by `burstCorrelation` | its use in `Detection`; not its arithmetic |
| Cluster view, agent's reports and store (`controller/controller.go`, `agent/agent.go`, `server/store.go`) | latest snapshot per node name and when it came; the agent's own latest snapshot | `report`, `reportToController`, `handleReport`, `ingest`, `logCluster`, `Store.Set` | `ClusterView`; the remediation half of `ingest` in `Remediation` |
| `cpu.stat`, exporters, CLI | none | parsing and formatting | not modelled |

How they interact. The agent's main loop, the inotify watcher and the lifecycle
goroutine write the one name cache concurrently. The eBPF programs write maps on
all CPUs while the agent reads and deletes their elements. The agent posts its
snapshot with a timeout of 3 seconds; the controller serves every POST in a
goroutine of its own, and `Remediate` runs in it, under the request's context.
The restore loop is one more goroutine. All of them talk to the Kubernetes API
server, whose calls fail, or succeed with the reply lost. The process may die at
any moment, and is then started again, perhaps with another configuration.

What is hard: the two critical sections between which a handler makes three or
four API calls; a throttle that lives in three places (the pod, memory, the
ledger) that are changed in three steps; a cache that is merged from a scan made
some time before; per-CPU values read in the middle of a store sequence; normals
that are learned from the very signals they judge; reports that a timeout turns
into late messages. The `hazards` of PROJECT.json list them at their lines.

What makes each component correct:

* Remediator: what it puts back is what the owner had set; no throttle is
  lost by an interleaving; a pod is acted on once per cooldown; every throttle
  ends; a restart takes up what the ledger holds; no process lowers a limit that its
  own configuration does not tell it to.
* Policy: the governing policy alone decides, and malformed durations never
  become a zero window.
* Resolver: an existing cgroup keeps its name; one that stays is named in the
  end; one that went is forgotten.
* Timeline: the ring is the last windows of what happened; what had settled is
  read, at its place.
* Observers: nothing is counted twice but after a failed delete; only what raced a
  delete, or met a full map, is missing; a histogram and its count differ by events
  of the moment of the copy only.
* Detection: a pod that did not change is not suspected; a victim and its culprit
  stay named while the contention lasts; what is learned is forgotten neither too
  early nor too late.
* Cluster view: no node that reports on time is shown as stale and no silent one as
  alive; a newer snapshot is replaced by an older one only after a timeout, and not
  for good.

## 2. Modules and the code

`map` in PROJECT.json gives the lines of every definition. In outline:

**Remediation.** The largest module. A step ends where the code takes or releases
a lock or makes an API call. A handler `h` is at `pc[h]`: `Ingest` (`ingest`,
`confidentTargets`), `Consider` (namespace and `isThrottled` checks),
`TakeCooldown`, then either `ThrottleGet`, `ThrottlePatch`, `Record`,
`PersistGet`, `PersistUpdate`, `Announce` (the calls of `throttle`, in order) or
`EventFallback`. The restore loop is at `rpc`: `RestoreDue`, `RestorePatch`,
`RestoreAnnounce`, `RestoreDelete`, `ForgetGet`, `ForgetUpdate`. `limit`,
`exists`, `ledger` and `announced` are the API server's, and survive `Crash`.
`Restart` takes any configuration of `Configs`. Every API call takes an answer:
`"ok"`, `"error"` (no effect) or `"lost"` (effect, and the caller sees an error).
Times are countdowns, so that time never has to stop: `cooldown[p]` is
`Cooldown - (now - lastActed[p])`, `restoreIn` is `restoreAt - now`, both clamped
where the code cannot tell further values apart.

Abstractions: CPU quantities are numbers, and their canonical string has the
same value; the order of offenders within one resource is left open, although the
report has one; creating the ConfigMap when it is missing is an update of an empty
ledger; the API server's `resourceVersion` check is the comparison of the object
read with the current one, which a changed-and-changed-back object would pass
(`NoWriteConflict` is about the copy, so it is not weakened by this); SIGTERM is a
`Crash`, since `main` returns without waiting for its handlers; a cancelled
context is a failing answer. A recreated pod has the containers of its template.

**Policy.** A policy's spec is a record whose fields may be `None`, which stands
for a missing field and for one of the wrong type alike, since the code
treats both as the zero value. `Load` parses and sorts a list that comes in any
order. Names are numbers, compared as the code compares strings.

**Resolver.** A cgroup's cache entry is the time left to its name: `Live`, a
countdown, `Expired` (in the map but no longer read) or `Absent`. A `Refresh` is
three steps (`Scan`, `List`, `Merge`) under `refreshMu`; the walk of the tree is taken
at one moment (a cgroup that exists throughout is met by any walk); `replace` and the
assignment of `paths`, both at its end, are one. The ring buffer and inotify drop
events; the runtime may fail and may know of a container early or late. Cgroup ids
are not reused.

**Timeline.** One action per store that user space can see: `Look` (find or add the
ring, store the new epoch), `Zero`, `Add`. A counter is the set of the charges it
sums, so that a property can say *which* are there. A handler keeps its pointer
into an element that was deleted (`held`); what it then adds is lost. One task
stands for each cgroup. The copy of an element is a single step: the model
has torn values between stores of the kernel, not within a user-space copy.
That matters in one case: when a window ends between the reader's look at the clock and
its copy, a copy that is spread over the reset of a slot may have the slot's old epoch,
still on the axis, and new counts. Without a change of window the old epoch is off the
axis and the slot is dropped, whatever its counts.
Reuse of a freed element while a handler still holds it is not modelled.

**Observers.** The four counter maps are used alike, and one stands for each. An
event is stamped, completed, and charged to the slot and then to the count
(the sum is added between them and is not told apart from the slot). The reader gets
an element CPU by CPU and each copy in two steps, `CopySlots` and `CopyCount`, as
`struct sched_hist` has the slots before the count and the kernel copies word by word
while the CPU goes on charging; so a returned count may be ahead of its
histogram. The slots stand as one word. With several, an event may
fall into a slot already copied or one still to come; the bounds are the same, with
`raced` the events that fall into a slot already copied. `Read` ignores the
error of a delete (`sched.go:48`): the element stays and is returned
again, which the history variable `again` counts.

**Lease, RemediationLease.** `Lease` is the abstract specification of the resize tier
as the owner of a pod sees it: which containers are lowered, and for how long a pod
is left alone. It has neither records nor calls nor handlers. `RemediationLease`
maps the Remediator to it: lowered are the containers whose limit at the API server is
not their owner's, and `quiet` is the history variable `spent`.

**Baseline, Detection.** One goroutine does all of `report`, so one interval is one
step. What is read in it comes from a set of
`Intervals`, and any sequence of them is explored. Floating point numbers are
integers: usage in units, scores and ratios in percent, percentiles as twice the
midpoint of a bucket, so that midpoints are whole. Samples
are counted up to `Warmup` only. `cpu.stat` only grows, up to `MaxPeriods`, a bound;
once it is reached the counters stand still, and `ThrottleOfInterval` is about
steps in which they move. The disk dimension runs the same code with no requests, no
`cpu.stat` and no timeline, and the network one looks at
retransmits first; neither has a module of its own. What makes a cgroup a pod
(`Resolved`) is fixed in an instance; `Resolver` is about how that changes.

**ClusterView.** A snapshot is what it says of the node's health. Instead of numbers
and clock values, a snapshot has a *lag*, the newer snapshots its agent has
made since, and an entry an *age*; both are clamped where nothing is told apart, so
agents may report for ever. `HandleReport` decodes a request and takes the time,
before the lock, as the code does; `Ingest` stores it. The guards of `Tick` are the
assumptions on real time: an agent reports within its interval, gives up
at its deadline, and a handler gets the lock within `HandlerTime`. `MaxLag` clamps,
`MaxLate` bounds the abandoned requests of an agent under way. A request is
delivered at most once: Go's `Transport` does not repeat a POST it has
written. A POST that timed out cancels the request's context,
which for the Remediator is a failing or a lost answer.

`MC*.tla` only hold the sets and functions the configurations refer to and the
symmetry sets; no configuration replaces a definition.

## 3. Runs

Passing runs:

| run | what it explores | what it shows |
|---|---|---|
| `remediation_safety` | two handlers of any duration, one pod with two containers; lost replies, crashes, pods that go | `TypeOK`, with `persistMu` held by exactly the one who updates the ledger; `TrueOriginal`: no throttled limit is ever taken for an original; `NoWriteConflict`: `persistMu` suffices |
| `remediation_prompt` | prompt handlers, `Cooldown` 2, `RestoreAfter` 1, failing calls, pods that go; five configurations, reports that mix resources, containers and non-pods | `ThrottledIsRecorded`, `OneActionPerCooldown`; `KeepsPromise`: the Remediator implements `Lease` |
| `remediation_restored` | one handler; failing calls, pods that go, any number of crashes, after which the process may be in another mode, a dry run or limited to another namespace; fairness | `LowersOnlyAsConfigured`: whatever was left lowered, a process lowers only what its own configuration covers; `EventuallyRestored`: a running process lifts what it recorded; `LedgerHonoured`: a later one lifts what a dead one left in the ledger |
| `policy_load` | three policies, 16 specs, three edits | `TypeOK`: the configuration of a running process has positive windows; `ResizesOnlyIfEnforced`, `ScopeKept` |
| `resolver_names` | two cgroups, all three writers, lifecycle events or none, a ring of one event; fairness | `ScansKeepNames`, `RescanNames`, `GoneForgotten` |
| `timeline_ring` | one CPU, two cgroups, room for one, a ring of two windows over three | `RingIsLog`, `SettledIsRead`; `MixedOnlyInReset`: windows are mixed only on a CPU that was between storing a slot's epoch and zeroing it |
| `observers_drain` | two CPUs, two cgroups, room for one, two requests, one stamp; iterations and deletes that fail | `NoneCountedTwice`, `LostOnlyInRace`, `HistogramMatchesCount` |
| `detection` | a pod that may be starved, one that may hog, a system cgroup; ten kinds of interval in any order, failed reads | `SteadyIsInnocent`, `SpikeStaysVisible`, `AttributionIsStable` (but for ties and full lists), `ThrottleOfInterval`, `KeptWhileSeen` |
| `cluster_view` | one agent and the controller, both of which stop and start; late, lost and overtaking requests; fairness | `HeardNotStale`, `OrderedWhileAwaited`, `SilentGoesStale`, `ViewHeals`, `StoreFills` |

Runs that must find a violation, each of a sentence of the repository:

| run | sentence | what happens |
|---|---|---|
| `orphan` | "so a restart never orphans a throttled pod" | a crash between the patch and the ledger write leaves a lowered pod nobody knows of |
| `forget_race` | "active throttles are also written to a ConfigMap" | the pod is throttled and persisted anew between the deletion from memory and `forget`, which strikes the new entry |
| `resolver_race` | "Live entries never expire" | a name put while a Refresh is under way, which has scanned the tree before the cgroup was there or found a cgroup that the runtime did not list yet, is aged by its merge although the cgroup lives |

More sentences of the repository are contradicted by the code, which the
models translate as it is; no run is spent on them:

* `remediation.go:42-43`, of a dry run: "nothing is mutated". With `--resize`, a dry
  run recovers the ledger and its restore loop patches limits back (`main.go:64`;
  `Restart`, `RestoreLoopRuns`).
* `persist.go:6`: "a restarted controller resumes and restores them". One whose new
  configuration has no resize tier does not (`main.go:64, 115`; `Recovered`).
* `resize.go:5-6`: "the change is never silent". The error of the Event is discarded
  (`resize.go:86`; `Announce`).
* `crd.yaml:3-4`: parameters "live in a CR the controller watches". It is
  read once, at start-up (`main.go:98`; `Policy!Start`), which `main.go` says too.
* `resize.go:4-5`: "the throttle is recorded and lifted after a fixed window". A patch whose reply is lost, as when the agent's POST
  times out, is applied and not recorded (`resize.go:69`; `ThrottlePatch`).
* `sched_monitor.bpf.c`: "instead of mixing two windows' counts together". A slot may be
  copied between the store of its epoch and the zeroing of its counters
  (`MixedOnlyInReset` says that this is the only place).
* `agent.go:509`, of throttling: "the cpu.stat delta vs last interval".
  `prevThrottle` is replaced only when offenders are ranked, so after healthy or lost
  intervals the delta spans those as well (`ThrottleOfInterval` leaves them out).
* `controller.go:30`: "the latest report from every node". A report its agent has
  given up on may be stored after a newer one, and stays until the next (`Ingest`;
  `OrderedWhileAwaited` and `ViewHeals` say how far this goes). The design document
  discards old reports (`node-sentinel-design-v0.3.md:1691`); the code compares nothing.
* `prometheus.go:15`: `sentinel_node_contended` is 1 before the first interval too,
  when the store holds the zero Snapshot (`StoreFills`: not for ever).
* `baseline.go:51-52`: "a sustained spike is not absorbed". It is while the
  baseline is cold: a pod first seen under contention learns it as normal
  (`Observe`, `Judge`; `SpikeStaysVisible` speaks of victims with a normal).
* Agents without a node name share the entry "unknown" (`controller.go:57`), so
  one of them hides that another is gone; `SilentGoesStale` is about names.

### Why the bounds are enough

*Remediation.* The conflicts are between two handlers, or a handler and the restore
loop, over one pod's record, so two handlers and one pod with two containers
(whose one record they share) show them; that the ledger is shared among pods is
covered by the proof of `NoConflict`. A third handler adds no new pair. With
`RestoreAfter` 1 a throttle is due after two ticks: later than a `Cooldown` of 1, as
with the code's defaults, or as late as one of 2; the proofs hold for all values. State is finite without further bounds: time is a
countdown and the number of reports, crashes and retries is unlimited.
*Resolver.* Cgroups do not interact but through the ring and the merge: two
suffice. *Timeline.* Three windows over a ring of two make the ring wrap and a
window age out; CPUs write rings of their own, so one shows what the reader and a
handler do to each other. *Observers.* `MaxEvents` bounds the events of a cgroup;
two make a Read find an old and a new one. `MaxAgain` bounds the events that failed
deletes return again; one is enough for an element to be read twice. Capacities of 1 make the maps full.
*Detection.* With `Warmup` 2 and `PruneAfterMisses` 2 an entry is cold, trusted,
missed once and dropped within a few intervals, and the tables' values take few
enough states for any sequence of intervals to be explored; the code's larger values only
make these paths longer. The ten intervals are one per case of the code: calm,
starved with a hog (capped, unreadable, without timeline, beside a system hog), starved
with a bystander that correlates, too few samples, departed, nobody.
`MaxPeriods` 3 leaves three charged deltas. *ClusterView.* Nodes
with different names share nothing but the lock, whose wait is `HandlerTime`, so one
node shows what a name goes through; shared names are covered by the
proofs, which hold for any nodes. `StaleAfter` is exactly interval + timeout +
handler time, its least admissible value, where an off-by-one shows. One late
request suffices to overtake; `MaxLag` 2 tells "newest", "previous" and "older" apart.
`policy_load` has three policies, so that a tie is broken among more than two.

### Fairness

*Remediation.* Goroutines are scheduled and Go's mutex starves nobody, so handlers
and the restore loop are strongly fair; the ticker of `RunRestore` fires for
ever, so time passes; the kubelet restarts the controller; a restore that is
retried for ever is answered in the end, for every container. No fairness is
assumed of reports, faults or crashes, and `LedgerHonoured` has its own premise, that
in the end the process stays up with a restore loop (one in alert mode has
none, see above); the start-up read of the ledger succeeds in this run
(the fault `"unread"`, which the code does not retry, is left to `remediation_safety`).
`SF_vars(Tick)`, with `Prompt`, says that handlers
pause now and then; the liveness run has one handler, since the model lets
reports arrive back to back and overlapping handlers would never pause, which is an
artefact of the coarse tick.

*Prompt.* `Tick` may demand that no handler is at work: the agent cancels its POST
after 3 seconds, after which every call of the handler fails at once, and a tick
stands for a fraction of a cooldown of minutes. A policy may set a cooldown of less than
those 3 seconds, for which nothing is claimed under `Prompt`. `remediation_safety` does
without it, and so do `TypeCorrect`, `NoConflict`, `OriginalsAreTrue` and
`LoweredAsConfigured` of `RemediationProofs`.

*Resolver.* The tickers fire, a runtime asked again and again answers and knows its
running containers. Nothing is assumed of the watcher's debounce (a busy tree
starves it) or of events. *Policy*, *Timeline*,
*Observers* and *Detection* have no liveness properties.

*ClusterView.* Time passes; an agent's wait ends, with an answer or at the deadline;
a handler gets the lock; a request arrives or is lost; an agent whose reads
fail now and then still reports again and again (strong fairness of `Report`). Nothing is
assumed of stops, starts or of timely answers: `ViewHeals` has them as a premise.

## 4. Proofs

Checked by TLAPS for any sets of handlers, pods, containers, reports,
configurations, policies, CPUs, cgroups and intervals, and any windows, capacities and
thresholds. The assumptions are the named `ASSUME`s of the modules (types of the
constants, positive windows, finite sets where something is counted), which TLC
evaluates in the runs, and the hypotheses that two kinds of theorem state:
`Orderly` of the Remediator's, and a deviation factor above 1 of one on detection.

Every invariant and every action property of the passing runs is the conclusion of
a theorem; so is the refinement of `Lease`.

`RemediationProofs`, first with no restriction on faults or on the handlers' duration:

* `TypeCorrect` and `NoConflict`, from `Inv == TypeOK /\ LocalsSet /\ LedgerHeld`.
  `LocalsSet` says which locals are set at which `pc`, without which the types of
  records passed on are not known. `LedgerHeld` says that whoever is between its read
  and its write holds `persistMu` and has the current ledger, and that nobody else has
  a copy; that is what makes the absence of conflicts inductive. There is one lemma
  per action.
* `LoweredAsConfigured`, from `Inv`, `Truth` (below) and `Permitted`: a handler at a
  given `pc` has passed the checks that lead there, and the process still has the
  configuration it made them with, since a restart ends its handlers. That a
  restore never lowers needs `Truth`: what is put back is the owner's.
* `OriginalsAreTrue`, from `Inv` and `Truth == TwoLimits /\ TrueOriginal`. `TwoLimits`
  says that a limit is the owner's or the request. The strict comparison
  in `throttle` then implies that what it reads is the owner's, even when the pod is
  throttled already and nobody knows it. Without `TwoLimits` the
  claim is not inductive.

The same module, under `Orderly` (prompt handlers, no lost reply, no crash:
the run `orphan` and the lost reply of section 3 show that it does not hold
otherwise):

* `ThrottleNeverLost` and `CooldownRespected`, from `Safe`: the process is up; at
  most one handler acts on a pod, in its cooldown (`Alone`); the pod it acts on is
  still free (`StillFree`); what the restore loop is about to restore is in memory
  unchanged and long out of its handlers' hands (`DueKnown`);
  `ThrottledIsRecorded`; and what was spent is covered by the cooldown (`Spending`).
  The crux is that the record is one per pod: a second container of the pod may only
  be throttled after the first is restored *and* deleted, and `Alone` with
  `StillFree` excludes the order in which `RestoreDelete` removes another record than
  the one that was restored.

Also under `Orderly`, `ImplementsLease`: every step of the
Remediator is a step of `Lease` or a stutter. The invariants are those above; the work
is in four actions. `ThrottlePatch` finds no container of the pod lowered (by
`StillFree` and `ThrottledIsRecorded`) and the pod's charge spent (`Spending`);
`EventFallback` the latter; `RestorePatch` lifts the one container that is recorded;
a pod that goes takes its lowered limits with it. All other steps change nothing
that `Lease` sees.

`ClusterViewProofs`, for any nodes, names and times with interval + timeout + handler time
within stale-after: `TypeCorrect`, `NoFalseDataGap` and `OrderKept`, from
`IInv == TypeOK /\ Single /\ Waits /\ Timely`. `Single`: an agent waits for at most one
request, which is on its way or being handled; without it an answer could be that of
another. `Waits`: nobody waits beyond the deadline. `Timely` bounds the age of
the entry of a node that was heard, by the time since its last report and
the handler's; it is what keeps a late request, with its earlier arrival time,
from making the entry stale. `OrderKept` follows since what is awaited is the newest.

`ResolverProofs`: `NamesKept`, about processes without lifecycle events: named cgroups
that exist are `Live` and known to the runtime (`AllKept`), and a scan under way has found all
of them (`WillKeep`). With lifecycle events that last conjunct fails, which is the
run `resolver_race`. `TypeCorrect` is about all processes, with events and all faults.

`PolicyProofs`: `TypeCorrect`, with the positive windows, `OnlyEnforceResizes` and
`ScopeIsKept`, from `FromGoverning`: the configuration of a controller that acts is
`ToConfig` of the policy that governed among those it listed. The API server may list
the policies in any order, so the proof is that a listing is a permutation (an
injection between finite sets of one size is onto) and that what heads the
sorted list is the one policy that no other precedes.

`TimelineProofs`, for any number of CPUs, windows and slots: `TypeCorrect`,
`RingKeepsTheLastWindows`, `SettledChargesAreRead` and `WindowsMixOnlyInReset`. The
invariant says of a slot that it holds charges of its epoch only (`InSlots`, except
while it is being reset) and of the log that the last `Buckets` windows
*before the handler's* are in their slots (`InLog`). It is the handler's window that
counts, not the clock's: a handler reads the clock once, and time may pass
until it charges. `SameSlot` is the arithmetic: two windows less than `Buckets` apart
that share a slot are the same. `Earlier` relates what was settled when the reader
took its reference to what is there while it copies.

`ObserversProofs`: `TypeCorrect`, `CountedAtMostOnce`, `LossesExplained` and
`ApartByTheMoment`. The books are sums over CPUs, so what a step does to one copy has to be
carried through a sum (`SumChange` of `FiniteSums`). `Skewed` says that in the map a copy's
histogram is ahead of its count by one exactly between the two additions of its handler;
`HalfRead` what the words read of a copy so far say of it while its CPU goes on
charging; `Ahead` that each copy read adds at most one event to
the histogram alone. `Reread` accounts for a Read that fails half-way: what
it has collected is dropped, and is still in the map.

`DetectionProofs`, for any intervals in any order:

* `TypeCorrect`, `NormalsAreKept` and `SteadyPodIsInnocent`. `KeptCounts` ties the
  misses of an entry to the intervals its cgroup went unseen: `Prune` drops exactly
  what was missed often enough. `Levels` says that the average of a usage that
  never changed is that usage, also after the integer division, so the ratio is 100%
  and the confidence 0.
* `SpikesStayVisible`, from `VictimRows`: a victim's row still says how far it is
  above its normal, since the normal was frozen when the row was made.
* `ThrottleIsOfInterval`, from `Readings`: what was kept of `cpu.stat` is what it says
  now, until a read fails.
* `AttributionsAreStable`, from `Evidence`: a suspect's confidence can still be derived
  from the tables after they were updated. The first formulation was not provable, and
  rightly so: the offenders are sorted by `sort.Slice` over a map's order
  (`agent.go:487`), so that one of two equal pods may drop out of a full ranking; and
  when the victims are more than fit, other victims may be listed the next time. TLC
  shows both with a list of one. The property now excludes exactly ties and full lists. The
  theorem also needs a deviation factor above 1: `signalFromRatio` gives 50 to a ratio
  at or below 1, which it takes for "no normal yet", and then starts from 0. The flag's
  default is 3.0, and its value is not validated.

`FiniteSums` has the lemmas on sums, minima and maxima of finite sets. They, and
everything above that is said of folds, rest on induction in the form "a nonempty set
of numbers has a least member" (`LeastNumber`, `LeastSet`), in which the
property is a set; the library's induction theorems take it as an operator, which
the provers cannot instantiate. That a fold's recursive function exists is proved the
same way (`SumUpto`).

Only model-checked: the liveness properties, `EventuallyRestored`, `LedgerHonoured`,
`RescanNames`, `GoneForgotten`, `SilentGoesStale`, `ViewHeals` and `StoreFills`, since
fairness and `ENABLED` are out of the prover's reach.

## 5. Not modelled

* The arithmetic of `Correlate` (a Pearson coefficient in floating point): TLA+ and TLC
  have no floating point, and a scaled-integer version would be another
  algorithm. What its result does to a verdict is in `Detection`.
* The disk and network dimensions of detection, see section 2.
* Two controllers that overlap in a rolling update (`main.go:60`).
* Parsing of `cpu.stat`, Prometheus and JSON formatting, `sentinelctl`, flag parsing,
  loading and attaching eBPF programs, building Kubernetes clients: I/O without state
  of its own.
* `internal/ebpf/bpf/vmlinux.h` is generated from a kernel's type information. It is
  150,780 of the repository's 151,342 lines of C, and has nothing to model; of
  the other C lines, which are the eBPF programs, `Timeline`, `Observers` and
  `Resolver` model most. The Go code is the larger part of what is modelled here.

## 6. Plan

1. *Done:* Remediation, Policy, Resolver, Timeline, Observers and the first proofs.
2. *Done:* the abstract `Lease` and the refinement, checked and proved; ClusterView with
   its proofs; Baseline and Detection.
3. *Done:* proofs of every invariant and action property of the passing runs, for
   Policy, Resolver, Timeline, Observers and Detection as well.
4. Two controllers over one ledger, each with its own mutex, where `NoWriteConflict` no
   longer holds and the missing retry shows.
5. The network dimension of detection; `log2_bucket` against a reference definition.
