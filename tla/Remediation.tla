----------------------------- MODULE Remediation -----------------------------
(***************************************************************************)
(* The "act" half of the cluster controller: internal/controller's         *)
(* Remediator (remediation.go), its in-place /resize tier (resize.go), the *)
(* durable throttle ledger (persist.go) and the start-up wiring of         *)
(* cmd/controller/main.go.                                                 *)
(*                                                                         *)
(* Every POST /report runs in a goroutine of its own, so several handlers  *)
(* execute Remediate concurrently with each other, with the one restore    *)
(* loop, with the Kubernetes API server and with crashes of the process.   *)
(* A step of this module ends where the code takes or releases a lock or   *)
(* makes an API call.                                                      *)
(*                                                                         *)
(* Time is kept as countdowns: cooldown[p] is Cooldown - (now - last) and  *)
(* restoreIn is restoreAt - now, both saturated where the code can no      *)
(* longer tell values apart, so that time passes for ever in a finite      *)
(* state space.                                                            *)
(***************************************************************************)
EXTENDS Integers

CONSTANTS
    Handlers,     \* concurrently running POST /report goroutines
    Pods,         \* pod keys "namespace/pod"
    Containers,   \* containers that have a Kubernetes identity
    PodOf,        \* the pod of each container
    NamespaceOf,  \* the namespace of each pod
    Original,     \* a container's CPU limit as its owner set it; 0 = no limit
    Request,      \* a container's CPU request; 0 = no request
    Snapshots,    \* the reports agents may post
    Configs,      \* the RemediationConfigs a (re)started process may run with
    Cooldown,     \* RemediationConfig.Cooldown, in ticks
    RestoreAfter, \* RemediationConfig.RestoreAfter, in ticks
    Faults,       \* which faults the environment may cause
    Prompt,       \* TRUE: a handler ends within one tick (see Tick)
    None          \* Go's nil, or an absent map entry

Resources == {"cpu", "disk", "net"}
Targets == [container : Containers, resource : Resources]
ThrottleState ==
    [container : Containers, originalCPULimit : Nat, restoreIn : -1 .. RestoreAfter]
Ledgers == [Pods -> ThrottleState \cup {None}]
FaultKinds == {"error", "lost", "crash", "unread", "gone"}

ASSUME ContainersAssumption ==
    /\ PodOf \in [Containers -> Pods]
    /\ NamespaceOf \in [Pods -> STRING]
    /\ Original \in [Containers -> Nat]
    /\ Request \in [Containers -> Nat]
ASSUME TimesAssumption == Cooldown \in Nat \ {0} /\ RestoreAfter \in Nat \ {0}
ASSUME FaultsAssumption == Faults \subseteq FaultKinds /\ Prompt \in BOOLEAN
ASSUME ConfigsAssumption ==
    Configs \subseteq [remediate : BOOLEAN, dryRun : BOOLEAN, resize : BOOLEAN,
                       namespaces : SUBSET STRING, confidenceThreshold : Nat]
ASSUME SnapshotsAssumption ==
    Snapshots \subseteq
        [healthy : BOOLEAN, confidenceMin : Nat,
         offenders : SUBSET [label : Containers \cup STRING, resource : Resources,
                             confidence : Nat]]
ASSUME NoneAssumption ==
    /\ None \notin ThrottleState
    /\ None \notin Targets
    /\ None \notin Ledgers
    /\ None \notin Handlers \cup {"restorer"}
    /\ "restorer" \notin Handlers

VARIABLES
    limit,      \* API server: each container's current CPU limit
    exists,     \* API server: the pods that exist
    ledger,     \* API server: the node-sentinel-throttles ConfigMap
    announced,  \* API server: containers whose last resize has an Event
    up,         \* the controller process runs
    cfg,        \* its RemediationConfig
    cooldown,   \* ticks until r.lastActed[p] no longer blocks an action
    throttled,  \* r.throttled
    persistMu,  \* who holds r.persistMu
    copy,       \* the ConfigMap object each goroutine has read
    pc,         \* where each handler is
    todo,       \* the targets it has still to consider
    cur,        \* the target it is considering
    st,         \* its local throttleState
    rpc,        \* where the restore loop is
    due,        \* the elapsed throttles it collected
    rcur,       \* the one it is restoring
    spent       \* history: each action on a pod adds a Cooldown, each tick takes one off

api     == <<limit, exists, ledger, announced>>
memory  == <<cooldown, throttled>>
handler == <<pc, todo, cur, st>>
restore == <<rpc, due, rcur>>
mutex   == <<persistMu, copy>>
process == <<up, cfg>>
vars == <<api, memory, handler, restore, mutex, process, spent>>

Goroutines == Handlers \cup {"restorer"}

(* How an API call ends: answered; refused or timed out without effect; or *)
(* carried out but with the reply lost (the agent's 3 s POST timeout       *)
(* cancels the handler's context in the middle of the call).               *)
Answers == {"ok"} \cup (Faults \cap {"error", "lost"})
Applied(a) == a \in {"ok", "lost"}

-----------------------------------------------------------------------------
(* Choosing targets *)

(* The gate is the policy's threshold when it has one, else the snapshot's *)
(* own; a label that is not a container's is never acted on.               *)
ConfidentTargets(s, gate) ==
    LET bar == IF gate = 0 THEN s.confidenceMin ELSE gate
        named == {o \in s.offenders : o.confidence >= bar /\ o.label \in Containers}
    IN  {[container |-> o.label, resource |-> o.resource] : o \in named}

Rank(t) == CASE t.resource = "cpu" -> 0 [] t.resource = "disk" -> 1 [] OTHER -> 2

(* All CPU targets come first, then disk, then network.                    *)
First(ts) == {t \in ts : \A u \in ts : Rank(t) =< Rank(u)}

Key(t) == PodOf[t.container]

(* An empty allow-list stands for every namespace.                         *)
NsAllow(p) == cfg.namespaces = {} \/ NamespaceOf[p] \in cfg.namespaces

NeverThrottled(p) == FALSE

IsThrottled(p) == throttled[p] # None

RestoreLoopRuns == up /\ cfg.remediate /\ cfg.resize

Aged(s) == IF s = None THEN None
           ELSE [s EXCEPT !.restoreIn = IF @ < 0 THEN @ ELSE @ - 1]

(* history: another action on the pod.                                     *)
Charged(p) == [spent EXCEPT ![p] = IF @ > Cooldown THEN @ ELSE @ + Cooldown]

-----------------------------------------------------------------------------
(* A process that has just started, and the cluster before it acts.        *)

NoThrottle == [p \in Pods |-> None]

Init ==
    /\ limit = Original
    /\ exists = Pods
    /\ ledger = NoThrottle
    /\ announced = Containers
    /\ up = TRUE
    /\ cfg \in Configs
    /\ throttled = NoThrottle
    /\ cooldown = [p \in Pods |-> 0]
    /\ persistMu = None
    /\ copy = [g \in Goroutines |-> None]
    /\ pc = [h \in Handlers |-> "idle"]
    /\ todo = [h \in Handlers |-> {}]
    /\ cur = [h \in Handlers |-> None]
    /\ st = [h \in Handlers |-> None]
    /\ rpc = "idle" /\ due = {} /\ rcur = None
    /\ spent = [p \in Pods |-> 0]

-----------------------------------------------------------------------------
(* The report handlers *)

Goto(h, label) == pc' = [pc EXCEPT ![h] = label]

(* Remediate's loop moves on to its next target, or the request ends.      *)
NextTarget(h) ==
    /\ Goto(h, IF todo[h] = {} THEN "idle" ELSE "next")
    /\ cur' = [cur EXCEPT ![h] = None]
    /\ st' = [st EXCEPT ![h] = None]
    /\ UNCHANGED todo

(* ingest: an unhealthy node's report reaches a controller that remediates. *)
Ingest(h, s) ==
    /\ up /\ pc[h] = "idle"
    /\ cfg.remediate /\ ~ s.healthy
    /\ ConfidentTargets(s, cfg.confidenceThreshold) # {}
    /\ todo' = [todo EXCEPT ![h] = ConfidentTargets(s, cfg.confidenceThreshold)]
    /\ Goto(h, "next")
    /\ UNCHANGED <<api, memory, cur, st, restore, mutex, process, spent>>

(* Remediate: the namespace and isThrottled checks on the next target.     *)
Consider(h, t) ==
    /\ pc[h] = "next"
    /\ t \in First(todo[h])
    /\ todo' = [todo EXCEPT ![h] = @ \ {t}]
    /\ IF NsAllow(Key(t)) /\ ~ IsThrottled(Key(t))
       THEN Goto(h, "cooldown") /\ cur' = [cur EXCEPT ![h] = t]
       ELSE Goto(h, IF todo[h] = {t} THEN "idle" ELSE "next") /\ UNCHANGED cur
    /\ UNCHANGED <<api, memory, st, restore, mutex, process, spent>>

CooldownIgnored(p) == TRUE
CooldownCutShort(p) == cooldown[p] =< 1

OutOfCooldown(p) == cooldown[p] = 0

TakeCooldownWet(h) ==
    /\ pc[h] = "cooldown"
    /\ IF OutOfCooldown(Key(cur[h]))
       THEN /\ cooldown' = [cooldown EXCEPT ![Key(cur[h])] = Cooldown]
            /\ Goto(h, IF cfg.resize /\ cur[h].resource = "cpu" THEN "get" ELSE "event")
            /\ UNCHANGED <<todo, cur, st>>
       ELSE NextTarget(h) /\ UNCHANGED cooldown
    /\ UNCHANGED <<api, throttled, restore, mutex, process, spent>>

(* takeCooldown, and act's choice of the tier.                             *)
TakeCooldown(h) ==
    /\ pc[h] = "cooldown"
    /\ IF OutOfCooldown(Key(cur[h]))
       THEN /\ cooldown' = [cooldown EXCEPT ![Key(cur[h])] = Cooldown]
            /\ IF cfg.dryRun THEN NextTarget(h)
               ELSE /\ Goto(h, IF cfg.resize /\ cur[h].resource = "cpu" THEN "get" ELSE "event")
                    /\ UNCHANGED <<todo, cur, st>>
       ELSE NextTarget(h) /\ UNCHANGED cooldown
    /\ UNCHANGED <<api, throttled, restore, mutex, process, spent>>

ThrottleableAgain(c) == PodOf[c] \in exists /\ limit[c] # 0 /\ Request[c] # 0

(* There must be a limit, and a request strictly below it.                 *)
Throttleable(c) == /\ PodOf[c] \in exists
                   /\ limit[c] # 0 /\ Request[c] # 0 /\ Request[c] < limit[c]

(* throttle: fetch the pod and decide whether there is room to throttle.   *)
ThrottleGet(h, answer) ==
    /\ pc[h] = "get"
    /\ LET c == cur[h].container
       IN  IF answer = "ok" /\ Throttleable(c)
           THEN /\ Goto(h, "patch")
                /\ st' = [st EXCEPT ![h] = [container |-> c, originalCPULimit |-> limit[c],
                                            restoreIn |-> RestoreAfter]]
           ELSE Goto(h, "event") /\ UNCHANGED st
    /\ UNCHANGED <<api, memory, todo, cur, restore, mutex, process, spent>>

(* patchCPULimit, as the API server carries it out.                        *)
Resized(c, cpu) ==
    /\ limit' = [limit EXCEPT ![c] = cpu]
    /\ announced' = announced \ {c}

(* throttle: lower the limit to the request.                               *)
ThrottlePatch(h, answer) ==
    /\ pc[h] = "patch"
    /\ LET c == cur[h].container
       IN  IF Applied(answer) /\ PodOf[c] \in exists
           THEN /\ Resized(c, Request[c])
                /\ spent' = Charged(PodOf[c])
                /\ IF answer = "ok" THEN Goto(h, "record") /\ UNCHANGED st
                   ELSE Goto(h, "event") /\ st' = [st EXCEPT ![h] = None]
           ELSE /\ Goto(h, "event")
                /\ st' = [st EXCEPT ![h] = None]
                /\ UNCHANGED <<limit, announced, spent>>
    /\ UNCHANGED <<exists, ledger, memory, todo, cur, restore, mutex, process>>

(* throttle: schedule the restore, in memory.                              *)
Record(h) ==
    /\ pc[h] = "record"
    /\ LET s == [st[h] EXCEPT !.restoreIn = RestoreAfter]
       IN  /\ throttled' = [throttled EXCEPT ![Key(cur[h])] = s]
           /\ st' = [st EXCEPT ![h] = s]
    /\ Goto(h, "persist")
    /\ UNCHANGED <<api, cooldown, todo, cur, restore, mutex, process, spent>>

LedgerUnlocked(g) ==
    /\ persistMu' = g
    /\ copy' = [copy EXCEPT ![g] = ledger]

(* A goroutine takes persistMu and reads the ConfigMap.                    *)
LockLedger(g) ==
    /\ persistMu = None
    /\ persistMu' = g
    /\ copy' = [copy EXCEPT ![g] = ledger]

SaveLedgerUnlocksIfSaved(g, answer, new) ==
    /\ ledger' = IF Applied(answer) /\ copy[g] = ledger THEN new ELSE ledger
    /\ persistMu' = IF answer = "ok" THEN None ELSE persistMu
    /\ copy' = [copy EXCEPT ![g] = None]

(* It updates the ConfigMap and releases persistMu. The API server refuses *)
(* an object read before the last change (its resourceVersion is old).     *)
SaveLedger(g, answer, new) ==
    /\ ledger' = IF Applied(answer) /\ copy[g] = ledger THEN new ELSE ledger
    /\ persistMu' = None
    /\ copy' = [copy EXCEPT ![g] = None]

(* persist: read the ledger; a failure is only logged.                     *)
PersistGet(h, answer) ==
    /\ pc[h] = "persist"
    /\ IF answer = "ok" THEN LockLedger(h) /\ Goto(h, "update")
       ELSE persistMu = None /\ Goto(h, "announce") /\ UNCHANGED mutex
    /\ UNCHANGED <<api, memory, todo, cur, st, restore, process, spent>>

(* persist: write it back with this pod's throttle.                        *)
PersistUpdate(h, answer) ==
    /\ pc[h] = "update"
    /\ SaveLedger(h, answer, [copy[h] EXCEPT ![Key(cur[h])] = st[h]])
    /\ Goto(h, "announce")
    /\ UNCHANGED <<limit, exists, announced, memory, todo, cur, st, restore, process, spent>>

(* throttle: announce the resize; a failed Event is ignored.               *)
Announce(h, answer) ==
    /\ pc[h] = "announce"
    /\ announced' = IF Applied(answer) THEN announced \cup {cur[h].container} ELSE announced
    /\ NextTarget(h)
    /\ UNCHANGED <<limit, exists, ledger, memory, restore, mutex, process, spent>>

(* act: the fallback Event; when it fails the next report may retry.       *)
EventFallback(h, answer) ==
    /\ pc[h] = "event"
    /\ spent' = IF Applied(answer) THEN Charged(Key(cur[h])) ELSE spent
    /\ cooldown' = IF answer = "ok" THEN cooldown ELSE [cooldown EXCEPT ![Key(cur[h])] = 0]
    /\ NextTarget(h)
    /\ UNCHANGED <<api, throttled, restore, mutex, process>>

(* What a handler still has to do once it has a report.                    *)
HandlerWork(h) ==
    \/ \E t \in todo[h] : Consider(h, t)
    \/ TakeCooldown(h)
    \/ \E a \in Answers : ThrottleGet(h, a)
    \/ \E a \in Answers : ThrottlePatch(h, a)
    \/ Record(h)
    \/ \E a \in Answers : PersistGet(h, a)
    \/ \E a \in Answers : PersistUpdate(h, a)
    \/ \E a \in Answers : Announce(h, a)
    \/ \E a \in Answers : EventFallback(h, a)

-----------------------------------------------------------------------------
(* The restore loop *)

Elapsed(s) == s # None /\ s.restoreIn < 0

(* restoreDue: collect, under the lock, the throttles whose window is over. *)
RestoreDue ==
    /\ RestoreLoopRuns /\ rpc = "idle"
    /\ due' = {throttled[p] : p \in {q \in Pods : Elapsed(throttled[q])}}
    /\ due' # {}
    /\ rpc' = "next"
    /\ UNCHANGED <<api, memory, handler, rcur, mutex, process, spent>>

NextDue ==
    /\ rpc' = IF due = {} THEN "idle" ELSE "next"
    /\ rcur' = None
    /\ UNCHANGED due

NeverRetried(answer) == FALSE

(* Any failure but NotFound leaves the throttle for the next pass.         *)
Retried(answer) == answer # "ok"

(* restore: put the original limit back. A pod that is gone needs none.    *)
RestorePatch(s, answer) ==
    /\ rpc = "next" /\ s \in due
    /\ due' = due \ {s}
    /\ IF Applied(answer) /\ PodOf[s.container] \in exists
       THEN Resized(s.container, s.originalCPULimit)
       ELSE UNCHANGED <<limit, announced>>
    /\ IF Retried(answer)
       THEN rpc' = (IF due = {s} THEN "idle" ELSE "next") /\ UNCHANGED rcur
       ELSE /\ rpc' = IF PodOf[s.container] \in exists THEN "announce" ELSE "delete"
            /\ rcur' = s
    /\ UNCHANGED <<exists, ledger, memory, handler, mutex, process, spent>>

RestoreAnnounce(answer) ==
    /\ rpc = "announce"
    /\ announced' = IF Applied(answer) THEN announced \cup {rcur.container} ELSE announced
    /\ rpc' = "delete"
    /\ UNCHANGED <<limit, exists, ledger, memory, handler, due, rcur, mutex, process, spent>>

(* restoreDue: the throttle leaves memory, and only then the ledger.       *)
RestoreDelete ==
    /\ rpc = "delete"
    /\ throttled' = [throttled EXCEPT ![PodOf[rcur.container]] = None]
    /\ rpc' = "forget"
    /\ UNCHANGED <<api, cooldown, handler, due, rcur, mutex, process, spent>>

(* forget: nothing is written when the ledger cannot be read, or has no    *)
(* entry for the pod.                                                      *)
ForgetGet(answer) ==
    /\ rpc = "forget"
    /\ IF answer = "ok" /\ ledger[PodOf[rcur.container]] # None
       THEN LockLedger("restorer") /\ rpc' = "update" /\ UNCHANGED <<due, rcur>>
       ELSE persistMu = None /\ NextDue /\ UNCHANGED mutex
    /\ UNCHANGED <<api, memory, handler, process, spent>>

ForgetUpdate(answer) ==
    /\ rpc = "update"
    /\ SaveLedger("restorer", answer,
                  [copy["restorer"] EXCEPT ![PodOf[rcur.container]] = None])
    /\ NextDue
    /\ UNCHANGED <<limit, exists, announced, memory, handler, process, spent>>

RestoreStep ==
    \/ RestoreDue
    \/ \E s \in due, a \in Answers : RestorePatch(s, a)
    \/ \E a \in Answers : RestoreAnnounce(a)
    \/ RestoreDelete
    \/ \E a \in Answers : ForgetGet(a)
    \/ \E a \in Answers : ForgetUpdate(a)

-----------------------------------------------------------------------------
(* Process, cluster and time *)

(* The process dies, or is told to stop: main returns without waiting for  *)
(* its handlers. All its memory is lost.                                   *)
Crash ==
    /\ "crash" \in Faults /\ up
    /\ up' = FALSE
    /\ throttled' = NoThrottle
    /\ cooldown' = [p \in Pods |-> 0]
    /\ persistMu' = None
    /\ copy' = [g \in Goroutines |-> None]
    /\ pc' = [h \in Handlers |-> "idle"]
    /\ todo' = [h \in Handlers |-> {}]
    /\ cur' = [h \in Handlers |-> None]
    /\ st' = [h \in Handlers |-> None]
    /\ rpc' = "idle" /\ due' = {} /\ rcur' = None
    /\ spent' = [p \in Pods |-> 0]
    /\ UNCHANGED <<api, cfg>>

NothingRecovered(config, read) == NoThrottle

(* What Recover finds in the ledger at start-up, if it can be read.        *)
Recovered(config, read) ==
    IF config.remediate /\ config.resize /\ read THEN ledger ELSE NoThrottle

(* main: configure, Recover, start the restore loop, then serve reports.   *)
Restart(config, read) ==
    /\ ~ up
    /\ read \/ "unread" \in Faults
    /\ up' = TRUE
    /\ cfg' = config
    /\ throttled' = Recovered(config, read)
    /\ UNCHANGED <<api, cooldown, handler, restore, mutex, spent>>

(* A pod is deleted; one of the same name may be created from its template. *)
PodGone(p) ==
    /\ "gone" \in Faults /\ p \in exists
    /\ exists' = exists \ {p}
    /\ UNCHANGED <<limit, ledger, announced, memory, handler, restore, mutex, process, spent>>

PodRecreated(p) ==
    /\ p \in Pods \ exists
    /\ exists' = exists \cup {p}
    /\ limit' = [c \in Containers |-> IF PodOf[c] = p THEN Original[c] ELSE limit[c]]
    /\ announced' = announced \cup {c \in Containers : PodOf[c] = p}
    /\ UNCHANGED <<ledger, memory, handler, restore, mutex, process, spent>>

(* Time passes for everything that was stamped with a time. With Prompt, a *)
(* handler never lives across a tick: the agent gives its POST 3 seconds,  *)
(* after which every call the handler makes fails at once, and a tick      *)
(* stands for a fraction of the cooldown.                                  *)
Tick ==
    /\ Prompt => \A h \in Handlers : pc[h] = "idle"
    /\ cooldown' = [p \in Pods |-> IF cooldown[p] = 0 THEN 0 ELSE cooldown[p] - 1]
    /\ spent' = [p \in Pods |-> IF spent[p] = 0 THEN 0 ELSE spent[p] - 1]
    /\ throttled' = [p \in Pods |-> Aged(throttled[p])]
    /\ ledger' = [p \in Pods |-> Aged(ledger[p])]
    /\ copy' = [g \in Goroutines |-> IF copy[g] = None THEN None
                                      ELSE [p \in Pods |-> Aged(copy[g][p])]]
    /\ st' = [h \in Handlers |-> Aged(st[h])]
    /\ UNCHANGED <<limit, exists, announced, pc, todo, cur, restore, persistMu, process>>

Next ==
    \/ \E h \in Handlers, s \in Snapshots : Ingest(h, s)
    \/ \E h \in Handlers : HandlerWork(h)
    \/ RestoreStep
    \/ Crash
    \/ \E c \in Configs, read \in BOOLEAN : Restart(c, read)
    \/ \E p \in Pods : PodGone(p) \/ PodRecreated(p)
    \/ Tick

Spec == Init /\ [][Next]_vars

(* Goroutines are scheduled and sync.Mutex starves nobody; the ticker of   *)
(* RunRestore keeps firing; the kubelet restarts a controller that ended;  *)
(* a restore that is retried for ever is answered in the end. Nothing is   *)
(* assumed of reports, of faults or of crashes.                            *)
Fairness ==
    /\ SF_vars(Tick)
    /\ \A h \in Handlers : SF_vars(HandlerWork(h))
    /\ SF_vars(RestoreStep)
    /\ \A c \in Containers : SF_vars(\E s \in due : s.container = c /\ RestorePatch(s, "ok"))
    /\ WF_vars(\E c \in Configs, read \in BOOLEAN : Restart(c, read))

FairSpec == Spec /\ Fairness

-----------------------------------------------------------------------------
(* Properties *)

Acting == {"get", "patch", "record", "persist", "update", "announce", "event"}

(* Every variable keeps its type: in particular persistMu is held by just  *)
(* the goroutine that is between its read and its write of the ledger, and *)
(* released however the write ends.                                        *)
TypeOK ==
    /\ limit \in [Containers -> Nat]
    /\ exists \in SUBSET Pods
    /\ ledger \in Ledgers
    /\ announced \in SUBSET Containers
    /\ up \in BOOLEAN
    /\ cfg \in Configs
    /\ cooldown \in [Pods -> 0 .. Cooldown]
    /\ throttled \in Ledgers
    /\ persistMu \in Goroutines \cup {None}
    /\ copy \in [Goroutines -> Ledgers \cup {None}]
    /\ pc \in [Handlers -> {"idle", "next", "cooldown"} \cup Acting]
    /\ todo \in [Handlers -> SUBSET Targets]
    /\ cur \in [Handlers -> Targets \cup {None}]
    /\ st \in [Handlers -> ThrottleState \cup {None}]
    /\ rpc \in {"idle", "next", "announce", "delete", "forget", "update"}
    /\ due \in SUBSET ThrottleState
    /\ rcur \in ThrottleState \cup {None}
    /\ spent \in [Pods -> 0 .. 2 * Cooldown]
    /\ \A h \in Handlers : persistMu = h <=> pc[h] = "update"
    /\ persistMu = "restorer" <=> rpc = "update"

(* Every limit that may ever be put back (in memory, in the ledger, in a   *)
(* copy of it, in a handler or in the restore loop) is the one the owner   *)
(* set, never a throttled one: remediation does not ratchet a pod down     *)
(* (throttle's check and restore's patch, resize.go).                      *)
IsTrue(s) == s = None \/ s.originalCPULimit = Original[s.container]
TrueOriginal ==
    /\ \A p \in Pods : IsTrue(throttled[p]) /\ IsTrue(ledger[p])
    /\ \A g \in Goroutines : copy[g] = None \/ \A p \in Pods : IsTrue(copy[g][p])
    /\ \A h \in Handlers : IsTrue(st[h])
    /\ \A s \in due : IsTrue(s)

(* A limit is lowered only by a process whose configuration resizes, is no *)
(* dry run and covers the pod's namespace. What another configuration left *)
(* lowered is only ever raised: a restart with a dry run, in alert mode or *)
(* for other namespaces throttles nothing (act, Recover, restoreDue).      *)
LowersOnlyAsConfigured ==
    [][\A c \in Containers : limit'[c] < limit[c] =>
           up /\ cfg.remediate /\ cfg.resize /\ ~ cfg.dryRun /\ NsAllow(PodOf[c])]_vars

(* No write of the ledger is ever refused for having been read too early:  *)
(* persistMu is enough and no optimistic retry is needed (persist.go).     *)
NoWriteConflict == \A g \in Goroutines : copy[g] \in {None, ledger}

Lowered(c) == PodOf[c] \in exists /\ limit[c] # Original[c]

Recorded(throttles, c) == throttles[PodOf[c]] # None /\ throttles[PodOf[c]].container = c

(* A container whose limit is lowered is one the restore loop knows of, or *)
(* one a handler is just about to record: no interleaving of handlers and  *)
(* restores loses a throttle (resize.go, one record per pod although the   *)
(* limit is a container's).                                                *)
ThrottledIsRecorded ==
    \A c \in Containers : Lowered(c) =>
        \/ Recorded(throttled, c)
        \/ \E h \in Handlers : pc[h] = "record" /\ cur[h].container = c

(* A pod is acted on (resized or named by a fallback Event) at most once   *)
(* per Cooldown, whatever reports arrive together (takeCooldown).          *)
OneActionPerCooldown == \A p \in Pods : spent[p] =< Cooldown

(* "Timeout, not eviction": a throttle that is recorded is lifted, as long *)
(* as the process lives, although API calls fail and reports keep naming   *)
(* the pod (restoreDue's retry, resize.go).                                *)
EventuallyRestored ==
    \A c \in Containers :
        (Lowered(c) /\ Recorded(throttled, c)) ~> (~ Lowered(c) \/ ~ up)

(* A lowered limit that a dead controller left in the ledger is put back,  *)
(* across any number of restarts and changes of its configuration, once    *)
(* the process stays up with a restore loop, in a dry run too (Recover,    *)
(* persist.go).                                                            *)
LedgerHonoured ==
    <>[]RestoreLoopRuns =>
        \A c \in Containers :
            (~ up /\ Lowered(c) /\ Recorded(ledger, c)) ~> ~ Lowered(c)

-----------------------------------------------------------------------------
(* What the repository says of the program and the program does not do.    *)

(* persist_test.go: "a restart never orphans a throttled pod". When the    *)
(* process is down, the ledger names every container it left lowered.      *)
RestartNeverOrphans ==
    ~ up => \A c \in Containers : Lowered(c) => Recorded(ledger, c)

(* persist.go: "active throttles are also written to a ConfigMap". Once    *)
(* persist has run, a throttle in memory is also in the ledger.            *)
ActiveIsDurable ==
    \A p \in Pods : IsThrottled(p) =>
        \/ ledger[p] # None
        \/ \E h \in Handlers : pc[h] \in {"persist", "update"} /\ Key(cur[h]) = p

=============================================================================
