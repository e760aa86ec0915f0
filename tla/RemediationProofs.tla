-------------------------- MODULE RemediationProofs --------------------------
(***************************************************************************)
(* Theorems about Remediation, for every set of pods, containers, reports  *)
(* and configurations and any number of concurrent handlers.               *)
(***************************************************************************)
EXTENDS RemediationLease, TLAPS

(* The locals of a goroutine are set in the calls that use them.           *)
LocalsSet ==
    /\ \A h \in Handlers : pc[h] \in Acting \cup {"cooldown"} => cur[h] \in Targets
    /\ \A h \in Handlers :
         pc[h] \in {"patch", "record", "persist", "update"} =>
            st[h] \in ThrottleState /\ st[h].container = cur[h].container
    /\ rpc \in {"announce", "delete", "forget", "update"} => rcur \in ThrottleState

(* Whoever has read the ledger holds persistMu, and has read its present   *)
(* contents; it is between persist's (or forget's) read and write.         *)
LedgerHeld ==
    /\ \A h \in Handlers : pc[h] = "update" => copy[h] # None
    /\ rpc = "update" => copy["restorer"] # None
    /\ \A g \in Goroutines : copy[g] # None => persistMu = g /\ copy[g] = ledger

Inv == TypeOK /\ LocalsSet /\ LedgerHeld

-----------------------------------------------------------------------------
(* Facts about the operators. *)

(* A throttle whose window shrinks by a tick stays a throttle, of the same *)
(* container and with the same limit to put back.                          *)
LEMMA AgedState ==
    ASSUME NEW s \in ThrottleState
    PROVE  /\ Aged(s) \in ThrottleState
           /\ Aged(s) # None
           /\ Aged(s).container = s.container
           /\ Aged(s).originalCPULimit = s.originalCPULimit
<1>1. s # None
  BY NoneAssumption
<1>2. s.restoreIn \in Int /\ -1 =< s.restoreIn /\ s.restoreIn =< RestoreAfter
  BY TimesAssumption DEF ThrottleState
<1>3. DEFINE r == IF s.restoreIn < 0 THEN s.restoreIn ELSE s.restoreIn - 1
<1>4. r \in -1 .. RestoreAfter
  BY <1>2, TimesAssumption
<1>5. Aged(s) = [s EXCEPT !.restoreIn = r]
  BY <1>1 DEF Aged
<1>6. Aged(s) \in ThrottleState
  BY <1>4, <1>5 DEF ThrottleState
<1>7. Aged(s).container = s.container /\ Aged(s).originalCPULimit = s.originalCPULimit
  BY <1>5 DEF ThrottleState
<1>8. QED
  BY <1>6, <1>7, NoneAssumption

(* The same for a map entry, which may be absent.                          *)
LEMMA AgedEntry ==
    ASSUME NEW s \in ThrottleState \cup {None}
    PROVE  /\ Aged(s) \in ThrottleState \cup {None}
           /\ Aged(s) = None <=> s = None
<1>1. CASE s = None
  BY <1>1 DEF Aged
<1>2. CASE s \in ThrottleState
  BY <1>2, AgedState, NoneAssumption
<1>3. QED
  BY <1>1, <1>2

(* The record throttle() fills in is a throttleState.                      *)
LEMMA NewState ==
    ASSUME NEW c \in Containers, NEW n \in Nat
    PROVE  [container |-> c, originalCPULimit |-> n, restoreIn |-> RestoreAfter] \in ThrottleState
<1>1. RestoreAfter \in -1 .. RestoreAfter
  BY TimesAssumption
<1>2. QED
  BY <1>1 DEF ThrottleState

(* Setting its restore time keeps it one.                                  *)
LEMMA StampedState ==
    ASSUME NEW s \in ThrottleState
    PROVE  LET u == [s EXCEPT !.restoreIn = RestoreAfter]
           IN  /\ u \in ThrottleState
               /\ u.container = s.container
               /\ u.originalCPULimit = s.originalCPULimit
<1>1. RestoreAfter \in -1 .. RestoreAfter
  BY TimesAssumption
<1>2. QED
  BY <1>1 DEF ThrottleState

(* confidentTargets only ever yields containers, for one of the resources. *)
LEMMA TargetsTyped ==
    ASSUME NEW s \in Snapshots, NEW gate
    PROVE  ConfidentTargets(s, gate) \subseteq Targets
BY SnapshotsAssumption DEF ConfidentTargets, Targets

(* A target's key is a pod.                                                *)
LEMMA KeyTyped ==
    ASSUME NEW t \in Targets
    PROVE  Key(t) \in Pods /\ t.container \in Containers
BY ContainersAssumption DEF Key, Targets

-----------------------------------------------------------------------------
(* The invariant Inv is inductive: one lemma per action. *)

USE DEF api, memory, handler, restore, mutex, process, Goto, Goroutines

(* Reports and the checks before an action change no record of a throttle. *)
LEMMA IngestInv ==
    ASSUME Inv, NEW h \in Handlers, NEW s \in Snapshots, Ingest(h, s)
    PROVE  Inv'
BY TargetsTyped DEF Inv, TypeOK, LocalsSet, LedgerHeld, Ingest, Acting

(* Remediate's checks on the next target keep Inv.                         *)
LEMMA ConsiderInv ==
    ASSUME Inv, NEW h \in Handlers, NEW t \in todo[h], Consider(h, t)
    PROVE  Inv'
BY DEF Inv, TypeOK, LocalsSet, LedgerHeld, Consider, Acting

(* takeCooldown keeps Inv.                                                 *)
LEMMA TakeCooldownInv ==
    ASSUME Inv, NEW h \in Handlers, TakeCooldown(h)
    PROVE  Inv'
BY KeyTyped, TimesAssumption
DEF Inv, TypeOK, LocalsSet, LedgerHeld, TakeCooldown, NextTarget, Acting

(* throttle's read of the pod keeps Inv.                                   *)
LEMMA ThrottleGetInv ==
    ASSUME Inv, NEW h \in Handlers, NEW a \in Answers, ThrottleGet(h, a)
    PROVE  Inv'
BY KeyTyped, NewState DEF Inv, TypeOK, LocalsSet, LedgerHeld, ThrottleGet, Acting

(* The history of actions stays within its range when one is charged.      *)
LEMMA ChargedTyped ==
    ASSUME NEW p \in Pods, spent \in [Pods -> 0 .. 2 * Cooldown]
    PROVE  Charged(p) \in [Pods -> 0 .. 2 * Cooldown]
BY TimesAssumption DEF Charged

(* throttle's patch keeps Inv.                                             *)
LEMMA ThrottlePatchInv ==
    ASSUME Inv, NEW h \in Handlers, NEW a \in Answers, ThrottlePatch(h, a)
    PROVE  Inv'
<1> DEFINE c == cur[h].container
<1>1. c \in Containers /\ Key(cur[h]) = PodOf[c] /\ PodOf[c] \in Pods
  BY KeyTyped DEF Inv, LocalsSet, ThrottlePatch, Acting, Key
<1>2. Request[c] \in Nat
  BY <1>1, ContainersAssumption
<1>3. spent' \in [Pods -> 0 .. 2 * Cooldown]
  BY <1>1, ChargedTyped DEF Inv, TypeOK, ThrottlePatch
<1>4. TypeOK'
  BY <1>1, <1>2, <1>3 DEF Inv, TypeOK, ThrottlePatch, Resized, Acting
<1>5. LocalsSet' /\ LedgerHeld'
  BY DEF Inv, TypeOK, LocalsSet, LedgerHeld, ThrottlePatch, Acting
<1>6. QED
  BY <1>4, <1>5 DEF Inv

(* Recording a throttle keeps Inv.                                         *)
LEMMA RecordInv ==
    ASSUME Inv, NEW h \in Handlers, Record(h)
    PROVE  Inv'
<1> DEFINE s == [st[h] EXCEPT !.restoreIn = RestoreAfter]
<1>1. /\ st[h] \in ThrottleState /\ st[h].container = cur[h].container
      /\ Key(cur[h]) \in Pods
  BY KeyTyped DEF Inv, LocalsSet, Record, Acting
<1>2. s \in ThrottleState /\ s.container = cur[h].container
  BY <1>1, StampedState
<1>3. throttled' = [throttled EXCEPT ![Key(cur[h])] = s] /\ st' = [st EXCEPT ![h] = s]
  BY DEF Record
<1> HIDE DEF s
<1>4. QED
  BY <1>1, <1>2, <1>3 DEF Inv, TypeOK, LocalsSet, LedgerHeld, Record, Acting, Ledgers

(* Taking persistMu: nobody else can have read the ledger.                 *)
LEMMA LockLedgerHeld ==
    ASSUME Inv, NEW g \in Goroutines, LockLedger(g), UNCHANGED ledger
    PROVE  /\ persistMu' \in Goroutines /\ copy' \in [Goroutines -> Ledgers \cup {None}]
           /\ copy'[g] # None
           /\ \A k \in Goroutines : copy'[k] # None => persistMu' = k /\ copy'[k] = ledger'
<1>1. \A k \in Goroutines : copy[k] = None
  BY NoneAssumption DEF Inv, LedgerHeld, LockLedger
<1>2. ledger # None /\ ledger \in Ledgers
  BY NoneAssumption DEF Inv, TypeOK
<1>3. copy' = [copy EXCEPT ![g] = ledger] /\ persistMu' = g
  BY DEF LockLedger
<1>4. QED
  BY <1>1, <1>2, <1>3 DEF Inv, TypeOK

(* Releasing it: the copy is dropped, whatever the API server answered.    *)
LEMMA SaveLedgerHeld ==
    ASSUME Inv, NEW g \in Goroutines, copy[g] # None, NEW a, NEW new \in Ledgers,
           SaveLedger(g, a, new)
    PROVE  /\ persistMu' = None /\ copy' = [k \in Goroutines |-> None]
           /\ ledger' \in Ledgers
<1>1. \A k \in Goroutines : k # g => copy[k] = None
  BY DEF Inv, LedgerHeld
<1>2. QED
  BY <1>1 DEF Inv, TypeOK, SaveLedger

(* persist takes the mutex with a fresh copy.                              *)
LEMMA PersistGetInv ==
    ASSUME Inv, NEW h \in Handlers, NEW a \in Answers, PersistGet(h, a)
    PROVE  Inv'
<1>1. CASE a = "ok"
  <2>1. LockLedger(h) /\ UNCHANGED ledger /\ pc' = [pc EXCEPT ![h] = "update"]
    BY <1>1 DEF PersistGet
  <2>2. /\ persistMu' \in Goroutines /\ copy' \in [Goroutines -> Ledgers \cup {None}]
        /\ copy'[h] # None
        /\ \A k \in Goroutines : copy'[k] # None => persistMu' = k /\ copy'[k] = ledger'
    BY <2>1, LockLedgerHeld
  <2>3. \A k \in Goroutines : k # h => copy'[k] = copy[k]
    BY <2>1 DEF LockLedger, Inv, TypeOK
  <2>4. /\ persistMu' = h /\ rpc' # "update" /\ persistMu' # "restorer"
        /\ pc'[h] = "update" /\ \A k \in Handlers : k # h => pc'[k] # "update"
    BY <2>1, NoneAssumption DEF LockLedger, PersistGet, Inv, TypeOK
  <2>5. TypeOK'
    BY <2>1, <2>2, <2>4 DEF Inv, TypeOK, PersistGet, Acting
  <2>6. LocalsSet' /\ LedgerHeld'
    BY <2>1, <2>2, <2>3, <2>4, NoneAssumption
    DEF Inv, TypeOK, LocalsSet, LedgerHeld, PersistGet, Acting
  <2>7. QED
    BY <2>5, <2>6 DEF Inv
<1>2. CASE a # "ok"
  BY <1>2 DEF Inv, TypeOK, LocalsSet, LedgerHeld, PersistGet, Acting
<1>3. QED
  BY <1>1, <1>2

(* persist's update is of the ledger it read.                              *)
LEMMA PersistUpdateInv ==
    ASSUME Inv, NEW h \in Handlers, NEW a \in Answers, PersistUpdate(h, a)
    PROVE  Inv'
<1> DEFINE new == [copy[h] EXCEPT ![Key(cur[h])] = st[h]]
<1>1. copy[h] \in Ledgers /\ copy[h] # None
  BY DEF Inv, TypeOK, LedgerHeld, PersistUpdate
<1>2. Key(cur[h]) \in Pods /\ st[h] \in ThrottleState
  BY KeyTyped DEF Inv, LocalsSet, PersistUpdate, Acting
<1>3. new \in Ledgers
  BY <1>1, <1>2 DEF Ledgers
<1>4. SaveLedger(h, a, new)
  BY DEF PersistUpdate
<1> HIDE DEF new
<1>5. /\ persistMu' = None /\ copy' = [k \in Goroutines |-> None]
      /\ ledger' \in Ledgers
  BY <1>1, <1>3, <1>4, SaveLedgerHeld
<1>6. \A k \in Handlers : k # h => pc[k] # "update"
  BY <1>1 DEF Inv, LedgerHeld
<1>7. rpc # "update"
  BY <1>1, NoneAssumption DEF Inv, LedgerHeld
<1>8. rpc' # "update" /\ \A k \in Handlers : persistMu' # k /\ pc'[k] # "update"
  BY <1>5, <1>6, <1>7, NoneAssumption DEF PersistUpdate, Inv, TypeOK
<1>9. TypeOK'
  BY <1>5, <1>8, NoneAssumption DEF Inv, TypeOK, PersistUpdate, Acting
<1>10. LocalsSet' /\ LedgerHeld'
  BY <1>5, <1>8 DEF Inv, TypeOK, LocalsSet, LedgerHeld, PersistUpdate, Acting
<1>11. QED
  BY <1>9, <1>10 DEF Inv

(* throttle's Event keeps Inv.                                             *)
LEMMA AnnounceInv ==
    ASSUME Inv, NEW h \in Handlers, NEW a \in Answers, Announce(h, a)
    PROVE  Inv'
BY KeyTyped DEF Inv, TypeOK, LocalsSet, LedgerHeld, Announce, NextTarget, Acting

(* The fallback Event keeps Inv.                                           *)
LEMMA EventFallbackInv ==
    ASSUME Inv, NEW h \in Handlers, NEW a \in Answers, EventFallback(h, a)
    PROVE  Inv'
<1>1. Key(cur[h]) \in Pods
  BY KeyTyped DEF Inv, LocalsSet, EventFallback, Acting
<1>2. spent' \in [Pods -> 0 .. 2 * Cooldown]
  BY <1>1, ChargedTyped DEF Inv, TypeOK, EventFallback
<1>3. cooldown' \in [Pods -> 0 .. Cooldown]
  BY <1>1, TimesAssumption DEF Inv, TypeOK, EventFallback
<1>4. QED
  BY <1>2, <1>3 DEF Inv, TypeOK, LocalsSet, LedgerHeld, EventFallback, NextTarget, Acting

(* The restore loop works on throttles that were in memory.                *)
LEMMA RestoreDueInv ==
    ASSUME Inv, RestoreDue
    PROVE  Inv'
<1>1. due' \in SUBSET ThrottleState
  BY DEF RestoreDue, Elapsed, Inv, TypeOK, Ledgers
<1>2. QED
  BY <1>1 DEF Inv, TypeOK, LocalsSet, LedgerHeld, RestoreDue

(* A throttleState names a container of a pod, and a limit.                *)
LEMMA StateFields ==
    ASSUME NEW s \in ThrottleState
    PROVE  s.container \in Containers /\ s.originalCPULimit \in Nat /\ PodOf[s.container] \in Pods
BY ContainersAssumption DEF ThrottleState

(* restore's patch keeps Inv.                                              *)
LEMMA RestorePatchInv ==
    ASSUME Inv, NEW s \in due, NEW a \in Answers, RestorePatch(s, a)
    PROVE  Inv'
<1>1. s \in ThrottleState
  BY DEF Inv, TypeOK
<1>2. s.container \in Containers /\ s.originalCPULimit \in Nat
  BY <1>1, StateFields
<1>3. TypeOK'
  BY <1>1, <1>2 DEF Inv, TypeOK, RestorePatch, Resized
<1>4. LocalsSet' /\ LedgerHeld'
  BY <1>1 DEF Inv, TypeOK, LocalsSet, LedgerHeld, RestorePatch
<1>5. QED
  BY <1>3, <1>4 DEF Inv

(* restore's Event keeps Inv.                                              *)
LEMMA RestoreAnnounceInv ==
    ASSUME Inv, NEW a \in Answers, RestoreAnnounce(a)
    PROVE  Inv'
BY StateFields DEF Inv, TypeOK, LocalsSet, LedgerHeld, RestoreAnnounce

(* Dropping a throttle from memory keeps Inv.                              *)
LEMMA RestoreDeleteInv ==
    ASSUME Inv, RestoreDelete
    PROVE  Inv'
BY StateFields DEF Inv, TypeOK, LocalsSet, LedgerHeld, RestoreDelete, Ledgers

(* forget takes the mutex with a fresh copy.                               *)
LEMMA ForgetGetInv ==
    ASSUME Inv, NEW a \in Answers, ForgetGet(a)
    PROVE  Inv'
<1>1. CASE rpc' = "update"
  <2>1. LockLedger("restorer") /\ UNCHANGED <<ledger, pc, st, cur, rcur>>
    BY <1>1 DEF ForgetGet, NextDue
  <2>2. /\ persistMu' \in Goroutines /\ copy' \in [Goroutines -> Ledgers \cup {None}]
        /\ copy'["restorer"] # None
        /\ \A k \in Goroutines : copy'[k] # None => persistMu' = k /\ copy'[k] = ledger'
    BY <2>1, LockLedgerHeld
  <2>3. \A k \in Handlers : copy'[k] = copy[k]
    BY <2>1, NoneAssumption DEF LockLedger, Inv, TypeOK
  <2>4. TypeOK'
    <3>1. persistMu' = "restorer" /\ \A k \in Handlers : persistMu' # k /\ pc'[k] # "update"
      BY <2>1, NoneAssumption DEF LockLedger, Inv, TypeOK
    <3>2. QED
      BY <1>1, <2>1, <2>2, <3>1 DEF Inv, TypeOK, ForgetGet, NextDue
  <2>5. LocalsSet'
    BY <1>1, <2>1 DEF Inv, LocalsSet, ForgetGet
  <2>6. LedgerHeld'
    BY <2>1, <2>2, <2>3 DEF Inv, LedgerHeld
  <2>7. QED
    BY <2>4, <2>5, <2>6 DEF Inv
<1>2. CASE rpc' # "update"
  <2>1. NextDue /\ UNCHANGED mutex
    BY <1>2 DEF ForgetGet
  <2>2. QED
    BY <2>1, <1>2 DEF Inv, TypeOK, LocalsSet, LedgerHeld, ForgetGet, NextDue
<1>3. QED
  BY <1>1, <1>2

(* forget's update is of the ledger it read.                               *)
LEMMA ForgetUpdateInv ==
    ASSUME Inv, NEW a \in Answers, ForgetUpdate(a)
    PROVE  Inv'
<1> DEFINE new == [copy["restorer"] EXCEPT ![PodOf[rcur.container]] = None]
<1>1. copy["restorer"] \in Ledgers /\ copy["restorer"] # None
  BY DEF Inv, TypeOK, LedgerHeld, ForgetUpdate
<1>2. PodOf[rcur.container] \in Pods
  BY StateFields DEF Inv, LocalsSet, ForgetUpdate
<1>3. new \in Ledgers
  BY <1>1, <1>2 DEF Ledgers
<1>4. SaveLedger("restorer", a, new)
  BY DEF ForgetUpdate
<1> HIDE DEF new
<1>5. /\ persistMu' = None /\ copy' = [k \in Goroutines |-> None]
      /\ ledger' \in Ledgers
  BY <1>1, <1>3, <1>4, SaveLedgerHeld
<1>6. \A k \in Handlers : pc[k] # "update"
  BY <1>1, NoneAssumption DEF Inv, LedgerHeld
<1>7. rpc' # "update" /\ \A k \in Handlers : persistMu' # k /\ pc'[k] # "update"
  BY <1>5, <1>6, NoneAssumption DEF ForgetUpdate, NextDue
<1>8. TypeOK'
  BY <1>5, <1>7, NoneAssumption DEF Inv, TypeOK, ForgetUpdate, NextDue
<1>9. LocalsSet' /\ LedgerHeld'
  BY <1>5, <1>7 DEF Inv, LocalsSet, LedgerHeld, ForgetUpdate, NextDue
<1>10. QED
  BY <1>8, <1>9 DEF Inv

(* A crash empties every local.                                            *)
LEMMA CrashInv ==
    ASSUME Inv, Crash
    PROVE  Inv'
<1>1. throttled' \in Ledgers
  BY DEF Crash, NoThrottle, Ledgers
<1>2. 0 \in 0 .. Cooldown /\ 0 \in 0 .. 2 * Cooldown
  BY TimesAssumption
<1>3. TypeOK'
  BY <1>1, <1>2, NoneAssumption DEF Inv, TypeOK, Crash
<1>4. LocalsSet' /\ LedgerHeld'
  BY DEF LocalsSet, LedgerHeld, Crash, Acting
<1>5. QED
  BY <1>3, <1>4 DEF Inv

(* What Recover loads has the ledger's type.                               *)
LEMMA RestartInv ==
    ASSUME Inv, NEW c \in Configs, NEW read \in BOOLEAN, Restart(c, read)
    PROVE  Inv'
<1>1. throttled' \in Ledgers
  BY DEF Inv, TypeOK, Restart, Recovered, NoThrottle, Ledgers
<1>2. QED
  BY <1>1 DEF Inv, TypeOK, LocalsSet, LedgerHeld, Restart

(* The end of a pod keeps Inv.                                             *)
LEMMA PodGoneInv ==
    ASSUME Inv, NEW p \in Pods, PodGone(p)
    PROVE  Inv'
BY DEF Inv, TypeOK, LocalsSet, LedgerHeld, PodGone

(* A new pod has limits of the right type.                                 *)
LEMMA PodRecreatedInv ==
    ASSUME Inv, NEW p \in Pods, PodRecreated(p)
    PROVE  Inv'
BY ContainersAssumption DEF Inv, TypeOK, LocalsSet, LedgerHeld, PodRecreated

(* A tick ages the ledger and every copy of it alike.                      *)
LEMMA TickInv ==
    ASSUME Inv, Tick
    PROVE  Inv'
<1>1. \A l \in Ledgers : [p \in Pods |-> Aged(l[p])] \in Ledgers
  BY AgedEntry DEF Ledgers
<1>2. throttled' \in Ledgers /\ ledger' \in Ledgers
  BY <1>1 DEF Inv, TypeOK, Tick
<1>3. copy' \in [Goroutines -> Ledgers \cup {None}]
  BY <1>1 DEF Inv, TypeOK, Tick
<1>4. st' \in [Handlers -> ThrottleState \cup {None}]
  BY AgedEntry DEF Inv, TypeOK, Tick
<1>5. cooldown' \in [Pods -> 0 .. Cooldown] /\ spent' \in [Pods -> 0 .. 2 * Cooldown]
  <2>1. \A n, m \in Nat : n \in 0 .. m => (IF n = 0 THEN 0 ELSE n - 1) \in 0 .. m
    OBVIOUS
  <2>2. Cooldown \in Nat /\ 2 * Cooldown \in Nat
    BY TimesAssumption
  <2>3. \A p \in Pods : cooldown[p] \in Nat /\ spent[p] \in Nat
    BY <2>2 DEF Inv, TypeOK
  <2>4. QED
    BY <2>1, <2>2, <2>3 DEF Inv, TypeOK, Tick
<1>6. TypeOK'
  BY <1>2, <1>3, <1>4, <1>5 DEF Inv, TypeOK, Tick
<1>7. LocalsSet'
  <2>1. \A h \in Handlers : st[h] \in ThrottleState =>
            st'[h] \in ThrottleState /\ st'[h].container = st[h].container
    BY AgedState DEF Tick
  <2>2. QED
    BY <2>1 DEF Inv, LocalsSet, Tick
<1>8. LedgerHeld'
  <2>1. \A g \in Goroutines : copy'[g] = IF copy[g] = None THEN None
                                         ELSE [p \in Pods |-> Aged(copy[g][p])]
    BY DEF Tick
  <2>2. \A g \in Goroutines : copy[g] # None => copy'[g] = ledger' /\ copy'[g] # None
    BY <2>1, <1>2, NoneAssumption DEF Inv, LedgerHeld, Tick
  <2>3. QED
    BY <2>1, <2>2 DEF Inv, LedgerHeld, Tick
<1>9. QED
  BY <1>6, <1>7, <1>8 DEF Inv

(* Inv is an invariant: it holds initially and every action keeps it.      *)
THEOREM InvHolds == Spec => []Inv
<1>1. Init => Inv
  BY ContainersAssumption, TimesAssumption, NoneAssumption
  DEF Init, Inv, TypeOK, LocalsSet, LedgerHeld, NoThrottle, Ledgers, Acting
<1>2. Inv /\ [Next]_vars => Inv'
  <2> SUFFICES ASSUME Inv, [Next]_vars
               PROVE  Inv'
    OBVIOUS
  <2>1. ASSUME NEW h \in Handlers, HandlerWork(h)
        PROVE  Inv'
    BY <2>1, ConsiderInv, TakeCooldownInv, ThrottleGetInv, ThrottlePatchInv, RecordInv,
       PersistGetInv, PersistUpdateInv, AnnounceInv, EventFallbackInv DEF HandlerWork
  <2>2. CASE RestoreStep
    BY <2>2, RestoreDueInv, RestorePatchInv, RestoreAnnounceInv, RestoreDeleteInv,
       ForgetGetInv, ForgetUpdateInv DEF RestoreStep
  <2>3. CASE UNCHANGED vars
    BY <2>3 DEF vars, Inv, TypeOK, LocalsSet, LedgerHeld
  <2>4. QED
    BY <2>1, <2>2, <2>3, IngestInv, CrashInv, RestartInv, PodGoneInv, PodRecreatedInv,
       TickInv DEF Next
<1>3. QED
  BY <1>1, <1>2, PTL DEF Spec

(* Every variable keeps its type, for any number of handlers and pods.     *)
THEOREM TypeCorrect == Spec => []TypeOK
BY InvHolds, PTL DEF Inv

(* persistMu suffices: with any number of concurrent handlers, crashes and *)
(* failing calls, no ledger write is refused as stale.                     *)
THEOREM NoConflict == Spec => []NoWriteConflict
<1>1. Inv => NoWriteConflict
  BY DEF Inv, LedgerHeld, NoWriteConflict
<1>2. QED
  BY <1>1, InvHolds, PTL

-----------------------------------------------------------------------------
(* The recorded limits are the owners'. *)

(* A limit is at every time the owner's, or the request it was lowered to. *)
(* This is what makes throttle's "request below limit" test recognise a    *)
(* container that is already lowered.                                      *)
TwoLimits == \A c \in Containers : limit[c] \in {Original[c], Request[c]}

Truth == TwoLimits /\ TrueOriginal

(* Ageing a record does not change its limit.                              *)
LEMMA AgedTrue ==
    ASSUME NEW s \in ThrottleState \cup {None}, IsTrue(s)
    PROVE  IsTrue(Aged(s))
<1>1. CASE s = None
  BY <1>1 DEF Aged, IsTrue
<1>2. CASE s \in ThrottleState
  BY <1>2, AgedState, NoneAssumption DEF IsTrue
<1>3. QED
  BY <1>1, <1>2

(* A ledger write only puts in true records.                               *)
LEMMA SaveLedgerTrue ==
    ASSUME Inv, Truth, NEW g \in Goroutines, NEW a, NEW new, SaveLedger(g, a, new),
           \A p \in Pods : IsTrue(new[p])
    PROVE  /\ \A p \in Pods : IsTrue(ledger'[p])
           /\ \A k \in Goroutines : copy'[k] = None \/ \A p \in Pods : IsTrue(copy'[k][p])
BY DEF Inv, TypeOK, Truth, TrueOriginal, SaveLedger

(* Each step of a handler keeps them true.                                 *)
LEMMA HandlerTruth ==
    ASSUME Inv, Truth, NEW h \in Handlers, HandlerWork(h)
    PROVE  Truth'
<1>1. ASSUME NEW t \in todo[h], Consider(h, t)
      PROVE  Truth'
  BY <1>1 DEF Truth, TwoLimits, TrueOriginal, IsTrue, Consider
<1>2. CASE TakeCooldown(h)
  BY <1>2 DEF Inv, TypeOK, Truth, TwoLimits, TrueOriginal, IsTrue, TakeCooldown, NextTarget
<1>3. ASSUME NEW a \in Answers, ThrottleGet(h, a)
      PROVE  Truth'
  <2> DEFINE c == cur[h].container
             s == [container |-> c, originalCPULimit |-> limit[c], restoreIn |-> RestoreAfter]
  <2>1. c \in Containers
    BY <1>3, KeyTyped DEF Inv, LocalsSet, ThrottleGet, Acting
  <2>2. Throttleable(c) => IsTrue(s)
    BY <2>1, ContainersAssumption DEF Throttleable, Truth, TwoLimits, IsTrue
  <2>3. \/ st' = st
        \/ st' = [st EXCEPT ![h] = s] /\ IsTrue(s)
    BY <1>3, <2>2 DEF ThrottleGet
  <2> HIDE DEF s
  <2>4. \A k \in Handlers : IsTrue(st'[k])
    BY <2>3 DEF Inv, TypeOK, Truth, TrueOriginal
  <2>5. QED
    BY <1>3, <2>4 DEF Truth, TwoLimits, TrueOriginal, ThrottleGet
<1>4. ASSUME NEW a \in Answers, ThrottlePatch(h, a)
      PROVE  Truth'
  <2>1. cur[h].container \in Containers
    BY <1>4, KeyTyped DEF Inv, LocalsSet, ThrottlePatch, Acting
  <2>2. TwoLimits'
    BY <1>4, <2>1 DEF Inv, TypeOK, Truth, TwoLimits, ThrottlePatch, Resized
  <2>3. TrueOriginal'
    BY <1>4 DEF Inv, TypeOK, Truth, TrueOriginal, IsTrue, ThrottlePatch
  <2>4. QED
    BY <2>2, <2>3 DEF Truth
<1>5. CASE Record(h)
  <2> DEFINE s == [st[h] EXCEPT !.restoreIn = RestoreAfter]
  <2>1. st[h] \in ThrottleState /\ Key(cur[h]) \in Pods
    BY <1>5, KeyTyped DEF Inv, LocalsSet, Record, Acting
  <2>2. IsTrue(s)
    <3>1. st[h].originalCPULimit = Original[st[h].container]
      BY <2>1, NoneAssumption DEF Truth, TrueOriginal, IsTrue
    <3>2. QED
      BY <2>1, <3>1, StampedState DEF IsTrue
  <2>3. throttled' = [throttled EXCEPT ![Key(cur[h])] = s] /\ st' = [st EXCEPT ![h] = s]
    BY <1>5 DEF Record
  <2> HIDE DEF s
  <2>4. (\A p \in Pods : IsTrue(throttled'[p])) /\ \A k \in Handlers : IsTrue(st'[k])
    BY <2>1, <2>2, <2>3 DEF Inv, TypeOK, Ledgers, Truth, TrueOriginal
  <2>5. QED
    BY <1>5, <2>4 DEF Truth, TwoLimits, TrueOriginal, Record
<1>6. ASSUME NEW a \in Answers, PersistGet(h, a)
      PROVE  Truth'
  <2>1. \A k \in Goroutines : copy'[k] = None \/ \A p \in Pods : IsTrue(copy'[k][p])
    BY <1>6 DEF Inv, TypeOK, Truth, TrueOriginal, PersistGet, LockLedger
  <2>2. QED
    BY <1>6, <2>1 DEF Truth, TwoLimits, TrueOriginal, PersistGet
<1>7. ASSUME NEW a \in Answers, PersistUpdate(h, a)
      PROVE  Truth'
  <2> DEFINE new == [copy[h] EXCEPT ![Key(cur[h])] = st[h]]
  <2>1. copy[h] \in Ledgers /\ copy[h] # None
    BY <1>7 DEF Inv, TypeOK, LedgerHeld, PersistUpdate
  <2>2. \A p \in Pods : IsTrue(new[p])
    BY <2>1 DEF Ledgers, Truth, TrueOriginal
  <2>3. SaveLedger(h, a, new)
    BY <1>7 DEF PersistUpdate
  <2> HIDE DEF new
  <2>4. /\ \A p \in Pods : IsTrue(ledger'[p])
        /\ \A k \in Goroutines : copy'[k] = None \/ \A p \in Pods : IsTrue(copy'[k][p])
    BY <2>2, <2>3, SaveLedgerTrue
  <2>5. QED
    BY <1>7, <2>4 DEF Truth, TwoLimits, TrueOriginal, PersistUpdate
<1>8. ASSUME NEW a \in Answers, Announce(h, a)
      PROVE  Truth'
  BY <1>8 DEF Inv, TypeOK, Truth, TwoLimits, TrueOriginal, IsTrue, Announce, NextTarget
<1>9. ASSUME NEW a \in Answers, EventFallback(h, a)
      PROVE  Truth'
  BY <1>9 DEF Inv, TypeOK, Truth, TwoLimits, TrueOriginal, IsTrue, EventFallback, NextTarget
<1>10. QED
  BY <1>1, <1>2, <1>3, <1>4, <1>5, <1>6, <1>7, <1>8, <1>9 DEF HandlerWork

(* Each step of the restore loop puts true limits back.                    *)
LEMMA RestoreTruth ==
    ASSUME Inv, Truth, RestoreStep
    PROVE  Truth'
<1>1. CASE RestoreDue
  <2>1. \A s \in due' : IsTrue(s)
    BY <1>1 DEF RestoreDue, Truth, TrueOriginal
  <2>2. QED
    BY <1>1, <2>1 DEF RestoreDue, Truth, TwoLimits, TrueOriginal
<1>2. ASSUME NEW s \in due, NEW a \in Answers, RestorePatch(s, a)
      PROVE  Truth'
  <2>1. s \in ThrottleState /\ s.container \in Containers
    BY StateFields DEF Inv, TypeOK
  <2>2. s.originalCPULimit = Original[s.container]
    BY <2>1, NoneAssumption DEF Truth, TrueOriginal, IsTrue
  <2>3. TwoLimits'
    BY <1>2, <2>1, <2>2 DEF Inv, TypeOK, Truth, TwoLimits, RestorePatch, Resized
  <2>4. TrueOriginal'
    BY <1>2 DEF Truth, TrueOriginal, IsTrue, RestorePatch
  <2>5. QED
    BY <2>3, <2>4 DEF Truth
<1>3. ASSUME NEW a \in Answers, RestoreAnnounce(a)
      PROVE  Truth'
  BY <1>3 DEF Truth, TwoLimits, TrueOriginal, IsTrue, RestoreAnnounce
<1>4. CASE RestoreDelete
  <2>1. \A p \in Pods : IsTrue(throttled'[p])
    BY <1>4 DEF RestoreDelete, Inv, TypeOK, Ledgers, Truth, TrueOriginal, IsTrue
  <2>2. QED
    BY <1>4, <2>1 DEF RestoreDelete, Truth, TwoLimits, TrueOriginal
<1>5. ASSUME NEW a \in Answers, ForgetGet(a)
      PROVE  Truth'
  <2>1. \A k \in Goroutines : copy'[k] = None \/ \A p \in Pods : IsTrue(copy'[k][p])
    BY <1>5 DEF Inv, TypeOK, Truth, TrueOriginal, ForgetGet, LockLedger
  <2>2. due' = due
    BY <1>5 DEF ForgetGet, NextDue
  <2>3. QED
    BY <1>5, <2>1, <2>2 DEF Truth, TwoLimits, TrueOriginal, ForgetGet
<1>6. ASSUME NEW a \in Answers, ForgetUpdate(a)
      PROVE  Truth'
  <2> DEFINE new == [copy["restorer"] EXCEPT ![PodOf[rcur.container]] = None]
  <2>1. copy["restorer"] \in Ledgers /\ copy["restorer"] # None
    BY <1>6 DEF Inv, TypeOK, LedgerHeld, ForgetUpdate
  <2>2. \A p \in Pods : IsTrue(new[p])
    BY <2>1 DEF Ledgers, Truth, TrueOriginal, IsTrue
  <2>3. SaveLedger("restorer", a, new) /\ due' = due
    BY <1>6 DEF ForgetUpdate, NextDue
  <2> HIDE DEF new
  <2>4. /\ \A p \in Pods : IsTrue(ledger'[p])
        /\ \A k \in Goroutines : copy'[k] = None \/ \A p \in Pods : IsTrue(copy'[k][p])
    BY <2>2, <2>3, SaveLedgerTrue
  <2>5. QED
    BY <1>6, <2>3, <2>4 DEF Truth, TwoLimits, TrueOriginal, ForgetUpdate
<1>7. QED
  BY <1>1, <1>2, <1>3, <1>4, <1>5, <1>6 DEF RestoreStep

LEMMA TruthHolds == Spec => []Truth
<1>1. Init => Truth
  BY DEF Init, Truth, TwoLimits, TrueOriginal, IsTrue, NoThrottle
<1>2. Inv /\ Truth /\ [Next]_vars => Truth'
  <2> SUFFICES ASSUME Inv, Truth, [Next]_vars
               PROVE  Truth'
    OBVIOUS
  <2>1. ASSUME NEW h \in Handlers, NEW s \in Snapshots, Ingest(h, s)
        PROVE  Truth'
    BY <2>1 DEF Truth, TwoLimits, TrueOriginal, IsTrue, Ingest
  <2>2. CASE Crash
    BY <2>2 DEF Truth, TwoLimits, TrueOriginal, IsTrue, Crash, NoThrottle
  <2>3. ASSUME NEW c \in Configs, NEW read \in BOOLEAN, Restart(c, read)
        PROVE  Truth'
    <3>1. \A p \in Pods : IsTrue(throttled'[p])
      BY <2>3 DEF Restart, Recovered, NoThrottle, Truth, TrueOriginal, IsTrue
    <3>2. QED
      BY <2>3, <3>1 DEF Restart, Truth, TwoLimits, TrueOriginal
  <2>4. ASSUME NEW p \in Pods, PodGone(p) \/ PodRecreated(p)
        PROVE  Truth'
    BY <2>4 DEF PodGone, PodRecreated, Truth, TwoLimits, TrueOriginal, IsTrue
  <2>5. CASE Tick
    <3>1. \A l \in Ledgers : (\A p \in Pods : IsTrue(l[p]))
                => \A p \in Pods : IsTrue([q \in Pods |-> Aged(l[q])][p])
      BY AgedTrue DEF Ledgers
    <3>2. \A p \in Pods : IsTrue(throttled'[p]) /\ IsTrue(ledger'[p])
      BY <2>5, <3>1 DEF Tick, Inv, TypeOK, Truth, TrueOriginal
    <3>3. \A g \in Goroutines : copy'[g] = None \/ \A p \in Pods : IsTrue(copy'[g][p])
      BY <2>5, <3>1 DEF Tick, Inv, TypeOK, Truth, TrueOriginal
    <3>4. \A h \in Handlers : IsTrue(st'[h])
      BY <2>5, AgedTrue DEF Tick, Inv, TypeOK, Truth, TrueOriginal
    <3>5. QED
      BY <2>5, <3>2, <3>3, <3>4 DEF Tick, Truth, TwoLimits, TrueOriginal
  <2>6. CASE UNCHANGED vars
    BY <2>6 DEF vars, Truth, TwoLimits, TrueOriginal, IsTrue
  <2>7. QED
    BY <2>1, <2>2, <2>3, <2>4, <2>5, <2>6, HandlerTruth, RestoreTruth DEF Next
<1>3. QED
  BY <1>1, <1>2, InvHolds, PTL DEF Spec

(* Whatever the interleaving, crash or failed call, the limit that will be *)
(* put back on a container is the one its owner gave it.                   *)
THEOREM OriginalsAreTrue == Spec => []TrueOriginal
<1>1. Truth => TrueOriginal
  BY DEF Truth
<1>2. QED
  BY <1>1, TruthHolds, PTL

-----------------------------------------------------------------------------
(* What lowers a limit. *)

(* A handler has gone through the checks that lead to where it is, under   *)
(* the configuration its process still has; a limit that is not the        *)
(* owner's was lowered, not raised.                                        *)
Permitted ==
    /\ \A h \in Handlers : pc[h] # "idle" => up /\ cfg.remediate
    /\ \A h \in Handlers : pc[h] \in Acting \cup {"cooldown"} => NsAllow(Key(cur[h]))
    /\ \A h \in Handlers : pc[h] \in {"get", "patch"} => cfg.resize /\ ~ cfg.dryRun
    /\ \A h \in Handlers :
          pc[h] = "patch" => Request[cur[h].container] < Original[cur[h].container]
    /\ \A c \in Containers : limit[c] # Original[c] => Request[c] < Original[c]

LEMMA HandlerPermitted ==
    ASSUME Inv, Truth, Permitted, NEW h \in Handlers, HandlerWork(h)
    PROVE  Permitted'
<1>1. UNCHANGED <<up, cfg>> /\ pc[h] # "idle"
  BY DEF HandlerWork, Consider, TakeCooldown, ThrottleGet, ThrottlePatch, Record, PersistGet,
         PersistUpdate, Announce, EventFallback
<1>2. up /\ cfg.remediate
  BY <1>1 DEF Permitted
<1>3. ASSUME NEW t \in todo[h], Consider(h, t)
      PROVE  Permitted'
  BY <1>1, <1>2, <1>3 DEF Inv, TypeOK, Permitted, NsAllow, Consider, Acting
<1>4. CASE TakeCooldown(h)
  BY <1>1, <1>2, <1>4 DEF Inv, TypeOK, Permitted, NsAllow, TakeCooldown, NextTarget, Acting
<1>5. ASSUME NEW a \in Answers, ThrottleGet(h, a)
      PROVE  Permitted'
  <2>1. cur[h].container \in Containers
    BY <1>5, KeyTyped DEF Inv, LocalsSet, ThrottleGet, Acting
  <2>2. Throttleable(cur[h].container) =>
            Request[cur[h].container] < Original[cur[h].container]
    BY <2>1, ContainersAssumption DEF Throttleable, Truth, TwoLimits
  <2>3. QED
    BY <1>1, <1>2, <1>5, <2>2 DEF Inv, TypeOK, Permitted, NsAllow, ThrottleGet, Acting
<1>6. ASSUME NEW a \in Answers, ThrottlePatch(h, a)
      PROVE  Permitted'
  <2>1. /\ cur[h].container \in Containers /\ cur' = cur
        /\ Request[cur[h].container] < Original[cur[h].container]
    BY <1>6, KeyTyped DEF Inv, LocalsSet, Permitted, ThrottlePatch, Acting
  <2>2. \A c \in Containers : limit'[c] # Original[c] => Request[c] < Original[c]
    BY <1>6, <2>1 DEF Inv, TypeOK, Permitted, ThrottlePatch, Resized
  <2>3. \A k \in Handlers : pc'[k] = pc[k] \/ (k = h /\ pc'[k] \in {"record", "event"})
    BY <1>6 DEF ThrottlePatch, Inv, TypeOK
  <2>4. pc[h] = "patch"
    BY <1>6 DEF ThrottlePatch
  <2>5. QED
    BY <1>1, <1>2, <2>1, <2>2, <2>3, <2>4 DEF Permitted, NsAllow, Acting
<1>7. CASE Record(h)
  BY <1>1, <1>2, <1>7 DEF Inv, TypeOK, Permitted, NsAllow, Record, Acting
<1>8. ASSUME NEW a \in Answers, PersistGet(h, a) \/ PersistUpdate(h, a)
      PROVE  Permitted'
  BY <1>1, <1>2, <1>8 DEF Inv, TypeOK, Permitted, NsAllow, PersistGet, PersistUpdate, Acting
<1>9. ASSUME NEW a \in Answers, Announce(h, a) \/ EventFallback(h, a)
      PROVE  Permitted'
  BY <1>1, <1>2, <1>9
  DEF Inv, TypeOK, Permitted, NsAllow, Announce, EventFallback, NextTarget, Acting
<1>10. QED
  BY <1>3, <1>4, <1>5, <1>6, <1>7, <1>8, <1>9 DEF HandlerWork

(* The restore loop, pods and time leave handlers where they are, and put  *)
(* back nothing but owners' limits.                                        *)
LEMMA OthersPermitted ==
    ASSUME Permitted, UNCHANGED <<pc, cur, cfg, up>>,
           \A c \in Containers : limit'[c] \in {limit[c], Original[c]}
    PROVE  Permitted'
BY DEF Permitted, NsAllow

(* The limit a restore puts back is the owner's.                           *)
LEMMA RestoresOriginals ==
    ASSUME Inv, Truth, RestoreStep
    PROVE  /\ \A c \in Containers : limit'[c] \in {limit[c], Original[c]}
           /\ UNCHANGED <<pc, cur, cfg, up>>
<1>1. ASSUME NEW s \in due, NEW a \in Answers, RestorePatch(s, a)
      PROVE  /\ \A c \in Containers : limit'[c] \in {limit[c], Original[c]}
             /\ UNCHANGED <<pc, cur, cfg, up>>
  <2>1. s \in ThrottleState /\ s.container \in Containers
    BY StateFields DEF Inv, TypeOK
  <2>2. s.originalCPULimit = Original[s.container]
    BY <2>1, NoneAssumption DEF Truth, TrueOriginal, IsTrue
  <2>3. QED
    BY <1>1, <2>1, <2>2 DEF Inv, TypeOK, RestorePatch, Resized
<1>2. QED
  BY <1>1 DEF RestoreStep, RestoreDue, RestoreAnnounce, RestoreDelete, ForgetGet, ForgetUpdate

LEMMA PermittedHolds == Spec => []Permitted
<1>1. Init => Permitted
  BY DEF Init, Permitted, Acting
<1>2. Inv /\ Truth /\ Permitted /\ [Next]_vars => Permitted'
  <2> SUFFICES ASSUME Inv, Truth, Permitted, [Next]_vars
               PROVE  Permitted'
    OBVIOUS
  <2>1. ASSUME NEW h \in Handlers, NEW s \in Snapshots, Ingest(h, s)
        PROVE  Permitted'
    BY <2>1 DEF Inv, TypeOK, Permitted, NsAllow, Ingest, Acting
  <2>2. CASE Crash
    BY <2>2 DEF Permitted, Crash, Acting
  <2>3. ASSUME NEW c \in Configs, NEW read \in BOOLEAN, Restart(c, read)
        PROVE  Permitted'
    <3>1. \A h \in Handlers : pc[h] = "idle"
      BY <2>3 DEF Permitted, Restart
    <3>2. QED
      BY <2>3, <3>1 DEF Permitted, Restart, Acting
  <2>4. ASSUME NEW p \in Pods, PodGone(p) \/ PodRecreated(p)
        PROVE  Permitted'
    BY <2>4, OthersPermitted DEF PodGone, PodRecreated
  <2>5. CASE Tick \/ UNCHANGED vars
    BY <2>5, OthersPermitted DEF Tick, vars
  <2>6. CASE RestoreStep
    BY <2>6, OthersPermitted, RestoresOriginals
  <2>7. QED
    BY <2>1, <2>2, <2>3, <2>4, <2>5, <2>6, HandlerPermitted DEF Next
<1>3. QED
  BY <1>1, <1>2, InvHolds, TruthHolds, PTL DEF Spec

(* No process lowers a limit unless its own configuration asks for it:     *)
(* across restarts that change the mode, the dry run or the namespaces,    *)
(* with handlers of any number under way, what is left lowered is only     *)
(* ever raised (act, Recover, restoreDue).                                 *)
THEOREM LoweredAsConfigured == Spec => LowersOnlyAsConfigured
<1> DEFINE Allowed(c) == up /\ cfg.remediate /\ cfg.resize /\ ~ cfg.dryRun /\ NsAllow(PodOf[c])
<1>1. Inv /\ Truth /\ Permitted /\ [Next]_vars =>
          [\A c \in Containers : limit'[c] < limit[c] => Allowed(c)]_vars
  <2> SUFFICES ASSUME Inv, Truth, Permitted, [Next]_vars,
                      NEW c \in Containers, limit'[c] < limit[c]
               PROVE  Allowed(c)
    OBVIOUS
  <2>1. /\ limit[c] \in Nat /\ Original[c] \in Nat /\ Request[c] \in Nat
        /\ limit[c] \in {Original[c], Request[c]}
    BY ContainersAssumption DEF Inv, TypeOK, Truth, TwoLimits
  <2>2. limit'[c] \notin {limit[c], Original[c]}
    BY <2>1 DEF Permitted
  <2>3. PICK h \in Handlers, a \in Answers : ThrottlePatch(h, a)
    <3>1. ~ RestoreStep
      BY <2>2, RestoresOriginals
    <3>2. ~ UNCHANGED vars
      BY <2>2 DEF vars
    <3>3. QED
      BY <2>2, <3>1, <3>2
      DEF Next, HandlerWork, Ingest, Consider, TakeCooldown, ThrottleGet, Record, PersistGet,
          PersistUpdate, Announce, EventFallback, Crash, Restart, PodGone, PodRecreated, Tick
  <2>4. pc[h] = "patch" /\ cur[h].container = c
    <3>1. cur[h].container \in Containers
      BY <2>3, KeyTyped DEF Inv, LocalsSet, ThrottlePatch, Acting
    <3>2. QED
      BY <2>2, <2>3, <3>1 DEF ThrottlePatch, Resized, Inv, TypeOK
  <2>5. QED
    BY <2>4 DEF Permitted, Key, Acting
<1>2. QED
  BY <1>1, InvHolds, TruthHolds, PermittedHolds, PTL DEF Spec, LowersOnlyAsConfigured

-----------------------------------------------------------------------------
(***************************************************************************)
(* What holds of Remediation while handlers are prompt, the process stays  *)
(* up and no reply is lost (calls may still fail and pods may go): the     *)
(* cooldown makes handlers exclude each other, so no throttle is lost and  *)
(* no pod is acted on twice.                                               *)
(***************************************************************************)

Orderly == Prompt /\ "lost" \notin Faults /\ "crash" \notin Faults

(* takeCooldown admits one handler per pod at a time, and the stamp it     *)
(* left outlives the handler.                                              *)
Alone ==
    /\ \A h, k \in Handlers : pc[h] \in Acting /\ pc[k] \in Acting
                                /\ Key(cur[h]) = Key(cur[k]) => h = k
    /\ \A h \in Handlers : pc[h] \in Acting => cooldown[Key(cur[h])] = Cooldown

(* What isThrottled said is still so when the handler comes to act on it.  *)
StillFree ==
    \A h \in Handlers :
        \/ pc[h] \in {"get", "patch", "record", "event"}
        \/ pc[h] = "cooldown" /\ cooldown[Key(cur[h])] = 0
        => throttled[Key(cur[h])] = None

(* The throttles being restored are the ones in memory.                    *)
DueKnown ==
    /\ \A p \in Pods : throttled[p] # None => PodOf[throttled[p].container] = p
    /\ \A s \in due : Elapsed(s) /\ throttled[PodOf[s.container]] = s
    /\ rpc \in {"announce", "delete"} =>
        /\ Elapsed(rcur) /\ throttled[PodOf[rcur.container]] = rcur
        /\ rcur \notin due
        /\ PodOf[rcur.container] \in exists =>
                limit[rcur.container] = Original[rcur.container]

(* A pod's charge never outlasts its cooldown stamp, and is spent when a   *)
(* handler is about to charge it again.                                    *)
Spending ==
    /\ \A p \in Pods : spent[p] =< cooldown[p]
    /\ \A h \in Handlers : pc[h] \in {"get", "patch", "event"} => spent[Key(cur[h])] = 0

Safe == up /\ Alone /\ StillFree /\ DueKnown /\ ThrottledIsRecorded /\ Spending

-----------------------------------------------------------------------------
(* Frames: what a step that leaves some state alone preserves. *)

Others(h) == \A k \in Handlers : k # h => pc'[k] = pc[k] /\ cur'[k] = cur[k]

(* The restore loop's view does not depend on the handlers' own state.     *)
LEMMA DueFrame ==
    ASSUME DueKnown, UNCHANGED <<throttled, restore, limit, exists>>
    PROVE  DueKnown'
BY DEF DueKnown, Elapsed

(* A throttle stays recorded as long as limits and records stay, and no    *)
(* handler forgets to record one.                                          *)
LEMMA RecordedFrame ==
    ASSUME ThrottledIsRecorded, UNCHANGED <<throttled, limit, exists>>,
           \A k \in Handlers : pc[k] = "record" => pc'[k] = "record" /\ cur'[k] = cur[k]
    PROVE  ThrottledIsRecorded'
BY DEF ThrottledIsRecorded, Recorded, Lowered, IsThrottled

(* A handler that ends its request, goes to its next target, or goes on    *)
(* with the target it was admitted for, without touching shared memory.    *)
LEMMA QuietMove ==
    ASSUME Inv, Safe, NEW h \in Handlers, Others(h), pc[h] # "record",
           UNCHANGED <<throttled, cooldown, spent, restore, limit, exists, up>>,
           \/ pc'[h] \in {"idle", "next"}
           \/ /\ cur'[h] = cur[h] /\ pc[h] \in Acting /\ pc'[h] \in Acting
              /\ pc'[h] \in {"get", "patch", "record", "event"} =>
                    pc[h] \in {"get", "patch", "event"}
    PROVE  Safe'
<1>1. DueKnown'
  BY DueFrame DEF Safe
<1>2. ThrottledIsRecorded'
  BY RecordedFrame DEF Safe, Others
<1>3. Alone'
  BY DEF Safe, Alone, Others, Key, Acting
<1>4. StillFree'
  BY DEF Safe, StillFree, Others, Key, Acting
<1>5. Spending'
  BY DEF Safe, Spending, Others, Key, Acting
<1>6. QED
  BY <1>1, <1>2, <1>3, <1>4, <1>5 DEF Safe

-----------------------------------------------------------------------------
(* Safe is inductive: one lemma per action. *)

(* A handler that accepts a report holds nothing yet.                      *)
LEMMA IngestSafe ==
    ASSUME Inv, Safe, NEW h \in Handlers, NEW s \in Snapshots, Ingest(h, s)
    PROVE  Safe'
<1>1. Others(h) /\ pc[h] # "record" /\ pc'[h] = "next"
  BY DEF Ingest, Others, Inv, TypeOK
<1>2. UNCHANGED <<throttled, cooldown, spent, restore, limit, exists, up>>
  BY DEF Ingest
<1>3. QED
  BY <1>1, <1>2, QuietMove

(* Reading the pod changes nothing Safe speaks of but the handler itself.  *)
LEMMA ThrottleGetSafe ==
    ASSUME Inv, Safe, NEW h \in Handlers, NEW a \in Answers, ThrottleGet(h, a)
    PROVE  Safe'
<1>1. Others(h) /\ pc[h] = "get" /\ pc'[h] \in {"patch", "event"} /\ cur'[h] = cur[h]
  BY DEF ThrottleGet, Others, Inv, TypeOK
<1>2. UNCHANGED <<throttled, cooldown, spent, restore, limit, exists, up>>
  BY DEF ThrottleGet
<1>3. QED
  BY <1>1, <1>2, QuietMove DEF Acting

(* Reading the ledger leaves memory and limits alone.                      *)
LEMMA PersistGetSafe ==
    ASSUME Inv, Safe, NEW h \in Handlers, NEW a \in Answers, PersistGet(h, a)
    PROVE  Safe'
<1>1. Others(h) /\ pc[h] = "persist" /\ pc'[h] \in {"update", "announce"} /\ cur'[h] = cur[h]
  BY DEF PersistGet, Others, Inv, TypeOK
<1>2. UNCHANGED <<throttled, cooldown, spent, restore, limit, exists, up>>
  BY DEF PersistGet
<1>3. QED
  BY <1>1, <1>2, QuietMove DEF Acting

(* Writing the ledger leaves memory and limits alone.                      *)
LEMMA PersistUpdateSafe ==
    ASSUME Inv, Safe, NEW h \in Handlers, NEW a \in Answers, PersistUpdate(h, a)
    PROVE  Safe'
<1>1. Others(h) /\ pc[h] = "update" /\ pc'[h] = "announce" /\ cur'[h] = cur[h]
  BY DEF PersistUpdate, Others, Inv, TypeOK
<1>2. UNCHANGED <<throttled, cooldown, spent, restore, limit, exists, up>>
  BY DEF PersistUpdate
<1>3. QED
  BY <1>1, <1>2, QuietMove DEF Acting

(* An Event ends the handler's work on its target.                         *)
LEMMA AnnounceSafe ==
    ASSUME Inv, Safe, NEW h \in Handlers, NEW a \in Answers, Announce(h, a)
    PROVE  Safe'
<1>1. Others(h) /\ pc[h] = "announce" /\ pc'[h] \in {"idle", "next"}
  BY DEF Announce, NextTarget, Others, Inv, TypeOK
<1>2. UNCHANGED <<throttled, cooldown, spent, restore, limit, exists, up>>
  BY DEF Announce
<1>3. QED
  BY <1>1, <1>2, QuietMove

(* isThrottled's answer is fresh when it is given.                         *)
LEMMA ConsiderSafe ==
    ASSUME Inv, Safe, NEW h \in Handlers, NEW t \in todo[h], Consider(h, t)
    PROVE  Safe'
<1>1. /\ Others(h) /\ pc[h] = "next"
      /\ UNCHANGED <<throttled, cooldown, spent, restore, limit, exists, up>>
  BY DEF Consider, Others, Inv, TypeOK
<1>2. CASE pc'[h] \in {"idle", "next"}
  BY <1>1, <1>2, QuietMove
<1>3. CASE pc'[h] \notin {"idle", "next"}
  <2>1. pc'[h] = "cooldown" /\ cur'[h] = t /\ throttled[Key(t)] = None
    BY <1>3 DEF Consider, Inv, TypeOK, IsThrottled
  <2>2. DueKnown' /\ ThrottledIsRecorded'
    BY <1>1, DueFrame, RecordedFrame DEF Safe, Others
  <2>3. Alone' /\ Spending'
    BY <1>1, <2>1 DEF Safe, Alone, Spending, Others, Key, Acting
  <2>4. StillFree'
    BY <1>1, <2>1 DEF Safe, StillFree, Others, Key
  <2>5. QED
    BY <1>1, <2>2, <2>3, <2>4 DEF Safe
<1>4. QED
  BY <1>2, <1>3

(* takeCooldown is atomic: a handler admitted finds no other on its pod,   *)
(* and the pod free.                                                       *)
LEMMA TakeCooldownSafe ==
    ASSUME Inv, Safe, NEW h \in Handlers, TakeCooldown(h)
    PROVE  Safe'
<1> DEFINE p == Key(cur[h])
<1>1. /\ Others(h) /\ pc[h] = "cooldown" /\ p \in Pods
      /\ UNCHANGED <<throttled, spent, restore, limit, exists, up>>
  BY KeyTyped DEF TakeCooldown, NextTarget, Others, Inv, TypeOK, LocalsSet
<1>2. DueKnown' /\ ThrottledIsRecorded'
  BY <1>1, DueFrame, RecordedFrame DEF Safe, Others
<1>3. CASE cooldown[p] = 0
  <2>1. cooldown' = [cooldown EXCEPT ![p] = Cooldown]
    BY <1>3 DEF TakeCooldown, OutOfCooldown
  <2>2. \/ pc'[h] \in {"idle", "next"}
        \/ pc'[h] \in {"get", "event"} /\ cur'[h] = cur[h]
    BY <1>3 DEF TakeCooldown, OutOfCooldown, NextTarget, Inv, TypeOK
  <2>3. spent[p] = 0
    BY <1>1, <1>3 DEF Safe, Spending, Inv, TypeOK
  <2>4. \A k \in Handlers : pc[k] \in Acting => Key(cur[k]) # p
    BY <1>3, TimesAssumption DEF Safe, Alone
  <2>5. throttled[p] = None
    BY <1>1, <1>3 DEF Safe, StillFree
  <2>6. \A k \in Handlers : k # h => Key(cur'[k]) = Key(cur[k]) /\ pc'[k] = pc[k]
    BY <1>1 DEF Others
  <2>7. pc'[h] \in {"get", "event"} => Key(cur'[h]) = p
    BY <2>2
  <2>8. \A q \in Pods : cooldown'[q] = IF q = p THEN Cooldown ELSE cooldown[q]
    BY <1>1, <2>1 DEF Inv, TypeOK
  <2>9. \A k \in Handlers : pc[k] \in Acting \cup {"cooldown"} => Key(cur[k]) \in Pods
    BY KeyTyped DEF Inv, LocalsSet
  <2> HIDE DEF p
  <2>10. Alone'
    BY <2>2, <2>4, <2>6, <2>7, <2>8, <2>9, <1>1 DEF Safe, Alone, Acting, Key
  <2>11. StillFree'
    BY <2>2, <2>5, <2>6, <2>7, <2>8, <2>9, <1>1, TimesAssumption DEF Safe, StillFree, Key, Acting
  <2>12. Spending'
    BY <2>2, <2>3, <2>6, <2>7, <2>8, <1>1, TimesAssumption DEF Safe, Spending, Key
  <2>13. QED
    BY <1>1, <1>2, <2>10, <2>11, <2>12 DEF Safe
<1>4. CASE cooldown[p] # 0
  <2>1. pc'[h] \in {"idle", "next"} /\ UNCHANGED cooldown
    BY <1>4 DEF TakeCooldown, OutOfCooldown, NextTarget, Inv, TypeOK
  <2>2. QED
    BY <1>1, <2>1, QuietMove
<1>5. QED
  BY <1>3, <1>4

(* No reply is lost, so a call that took effect was answered.              *)
LEMMA AppliedIsAnswered ==
    ASSUME Orderly, NEW a \in Answers
    PROVE  Applied(a) <=> a = "ok"
BY DEF Orderly, Answers, Applied

(* The one step that lowers a limit: its handler is alone on the pod.      *)
LEMMA ThrottlePatchSafe ==
    ASSUME Orderly, Inv, Safe, NEW h \in Handlers, NEW a \in Answers, ThrottlePatch(h, a)
    PROVE  Safe'
<1> DEFINE c == cur[h].container
           p == PodOf[c]
<1>1. /\ Others(h) /\ pc[h] = "patch" /\ cur' = cur
      /\ UNCHANGED <<throttled, cooldown, restore, exists, up>>
  BY DEF ThrottlePatch, Others, Inv, TypeOK
<1>2. c \in Containers /\ p \in Pods /\ Key(cur[h]) = p
  BY <1>1, KeyTyped DEF Inv, LocalsSet, Acting, Key
<1>3. throttled[p] = None /\ spent[p] = 0 /\ cooldown[p] = Cooldown
  BY <1>1, <1>2 DEF Safe, StillFree, Spending, Alone, Acting
<1>4. CASE a = "ok" /\ p \in exists
  <2>1. /\ limit' = [limit EXCEPT ![c] = Request[c]]
        /\ spent' = Charged(p) /\ pc' = [pc EXCEPT ![h] = "record"]
    BY <1>4 DEF ThrottlePatch, Resized, Applied
  <2>2. pc'[h] = "record"
    BY <2>1 DEF Inv, TypeOK
  <2>3. \A q \in Pods : spent'[q] = IF q = p THEN Cooldown ELSE spent[q]
    BY <1>2, <1>3, <2>1, TimesAssumption DEF Charged, Inv, TypeOK
  <2>4. \A d \in Containers : d # c => limit'[d] = limit[d]
    BY <2>1 DEF Inv, TypeOK
  <2>5. \A k \in Handlers : pc[k] \in Acting /\ k # h => Key(cur[k]) # p
    BY <1>1, <1>2 DEF Safe, Alone, Acting
  <2>6. \A k \in Handlers : pc[k] \in Acting \cup {"cooldown"} => Key(cur[k]) \in Pods
    BY KeyTyped DEF Inv, LocalsSet
  <2> HIDE DEF c, p
  <2>7. DueKnown'
    <3>1. rpc \in {"announce", "delete"} => rcur.container # c /\ rcur.container \in Containers
      BY <1>3, NoneAssumption, StateFields DEF Safe, DueKnown, Elapsed, p, Inv, LocalsSet
    <3>2. QED
      BY <1>1, <2>4, <3>1 DEF Safe, DueKnown, Elapsed
  <2>8. ThrottledIsRecorded'
    BY <1>1, <2>2, <2>4 DEF Safe, ThrottledIsRecorded, Recorded, Lowered, IsThrottled, Others, c
  <2>9. Alone'
    BY <1>1, <2>2 DEF Safe, Alone, Others, Key, Acting
  <2>10. StillFree'
    BY <1>1, <2>2 DEF Safe, StillFree, Others, Key, Acting
  <2>11. Spending'
    BY <1>1, <1>3, <2>2, <2>3, <2>5, <2>6, TimesAssumption
    DEF Safe, Spending, Others, Key, Acting
  <2>12. QED
    BY <1>1, <2>7, <2>8, <2>9, <2>10, <2>11 DEF Safe
<1>5. CASE ~ (a = "ok" /\ p \in exists)
  <2>1. pc'[h] = "event" /\ UNCHANGED <<limit, spent>>
    BY <1>5, AppliedIsAnswered DEF ThrottlePatch, Inv, TypeOK
  <2>2. QED
    BY <1>1, <2>1, QuietMove DEF Acting
<1>6. QED
  BY <1>4, <1>5

(* The record it makes overwrites none: the pod was free.                  *)
LEMMA RecordSafe ==
    ASSUME Inv, Safe, NEW h \in Handlers, Record(h)
    PROVE  Safe'
<1> DEFINE c == cur[h].container
           p == Key(cur[h])
           s == [st[h] EXCEPT !.restoreIn = RestoreAfter]
<1>1. /\ Others(h) /\ pc[h] = "record" /\ pc'[h] = "persist" /\ cur' = cur
      /\ UNCHANGED <<cooldown, spent, restore, limit, exists, up>>
  BY DEF Record, Others, Inv, TypeOK
<1>2. c \in Containers /\ p \in Pods /\ p = PodOf[c]
  BY <1>1, KeyTyped DEF Inv, LocalsSet, Acting, Key
<1>3. s # None /\ s.container = c
  BY <1>1, StampedState, NoneAssumption DEF Inv, LocalsSet
<1>4. throttled[p] = None
  BY <1>1 DEF Safe, StillFree
<1>5. throttled' = [throttled EXCEPT ![p] = s]
  BY DEF Record
<1> HIDE DEF s
<1>6. throttled'[p] = s /\ \A q \in Pods : q # p => throttled'[q] = throttled[q]
  BY <1>2, <1>5 DEF Inv, TypeOK, Ledgers
<1>7. \A k \in Handlers : pc[k] \in Acting /\ k # h => Key(cur[k]) # p
  BY <1>1 DEF Safe, Alone, Acting
<1>8. \A k \in Handlers : pc[k] \in Acting \cup {"cooldown"} => Key(cur[k]) \in Pods
  BY KeyTyped DEF Inv, LocalsSet
<1>9. cooldown[p] # 0
  BY <1>1, TimesAssumption DEF Safe, Alone, Acting
<1>10. Alone' /\ Spending'
  BY <1>1 DEF Safe, Alone, Spending, Others, Key, Acting
<1> HIDE DEF c, p
<1>11. StillFree'
  BY <1>1, <1>6, <1>7, <1>8, <1>9 DEF Safe, StillFree, Others, Acting, p, Key
<1>12. DueKnown'
  <2>1. \A u \in due : PodOf[u.container] \in Pods /\ PodOf[u.container] # p
    BY <1>4, StateFields DEF Safe, DueKnown, Elapsed, Inv, TypeOK
  <2>2. rpc \in {"announce", "delete"} =>
            PodOf[rcur.container] \in Pods /\ PodOf[rcur.container] # p
    BY <1>4, StateFields DEF Safe, DueKnown, Elapsed, Inv, LocalsSet
  <2>3. QED
    BY <1>1, <1>2, <1>3, <1>6, <2>1, <2>2 DEF Safe, DueKnown, Elapsed
<1>13. ThrottledIsRecorded'
  <2> SUFFICES ASSUME NEW d \in Containers, Lowered(d)'
               PROVE  \/ IsThrottled(PodOf[d])' /\ throttled'[PodOf[d]].container = d
                      \/ \E k \in Handlers : pc'[k] = "record" /\ cur'[k].container = d
    BY DEF ThrottledIsRecorded, Recorded, IsThrottled
  <2>1. PodOf[d] \in Pods /\ Lowered(d)
    BY <1>1, ContainersAssumption DEF Lowered
  <2>2. CASE d = c
    BY <2>2, <1>2, <1>3, <1>6 DEF IsThrottled
  <2>3. CASE d # c
    <3>1. CASE IsThrottled(PodOf[d]) /\ throttled[PodOf[d]].container = d
      BY <3>1, <1>4, <1>6, <2>1 DEF IsThrottled
    <3>2. ASSUME NEW k \in Handlers, pc[k] = "record", cur[k].container = d
          PROVE  pc'[k] = "record" /\ cur'[k].container = d
      BY <3>2, <2>3, <1>1 DEF Others, c
    <3>3. QED
      BY <2>1, <3>1, <3>2 DEF Safe, ThrottledIsRecorded, Recorded, IsThrottled
  <2>4. QED
    BY <2>2, <2>3
<1>14. QED
  BY <1>1, <1>10, <1>11, <1>12, <1>13 DEF Safe

(* Clearing the cooldown frees the pod for the next report only.           *)
LEMMA EventFallbackSafe ==
    ASSUME Orderly, Inv, Safe, NEW h \in Handlers, NEW a \in Answers, EventFallback(h, a)
    PROVE  Safe'
<1> DEFINE p == Key(cur[h])
<1>1. /\ Others(h) /\ pc[h] = "event" /\ pc'[h] \in {"idle", "next"} /\ p \in Pods
      /\ UNCHANGED <<throttled, restore, limit, exists, up>>
  BY KeyTyped DEF EventFallback, NextTarget, Others, Inv, TypeOK, LocalsSet, Acting
<1>2. throttled[p] = None /\ spent[p] = 0 /\ cooldown[p] = Cooldown
  BY <1>1 DEF Safe, StillFree, Spending, Alone, Acting
<1>3. DueKnown' /\ ThrottledIsRecorded'
  BY <1>1, DueFrame, RecordedFrame DEF Safe, Others
<1>4. \A k \in Handlers : pc[k] \in Acting /\ k # h => Key(cur[k]) # p
  BY <1>1 DEF Safe, Alone, Acting
<1>5. \A k \in Handlers : pc[k] \in Acting \cup {"cooldown"} => Key(cur[k]) \in Pods
  BY KeyTyped DEF Inv, LocalsSet
<1>6. \/ /\ \A q \in Pods : spent'[q] = IF q = p THEN Cooldown ELSE spent[q]
         /\ cooldown' = cooldown
      \/ /\ spent' = spent
         /\ \A q \in Pods : cooldown'[q] = IF q = p THEN 0 ELSE cooldown[q]
  BY <1>1, <1>2, AppliedIsAnswered, TimesAssumption
  DEF EventFallback, Charged, Inv, TypeOK
<1> HIDE DEF p
<1>7. Alone'
  BY <1>1, <1>4, <1>5, <1>6 DEF Safe, Alone, Others, Key, Acting
<1>8. StillFree'
  BY <1>1, <1>2, <1>4, <1>5, <1>6 DEF Safe, StillFree, Others, Key, Acting
<1>9. Spending'
  BY <1>1, <1>2, <1>4, <1>5, <1>6, TimesAssumption DEF Safe, Spending, Others, Key, Acting
<1>10. QED
  BY <1>1, <1>3, <1>7, <1>8, <1>9 DEF Safe

-----------------------------------------------------------------------------
(* The restore loop, the cluster and time. *)

(* The handlers' part of Safe, when the handlers and what they look at     *)
(* stay as they are.                                                       *)
LEMMA HandlersFrame ==
    ASSUME Safe, UNCHANGED <<pc, cur, cooldown, spent, throttled>>
    PROVE  Alone' /\ StillFree' /\ Spending'
BY DEF Safe, Alone, StillFree, Spending, Key

(* What the restore loop collects is what memory holds.                    *)
LEMMA RestoreDueSafe ==
    ASSUME Inv, Safe, RestoreDue
    PROVE  Safe'
<1>1. \A s \in due' : Elapsed(s) /\ throttled[PodOf[s.container]] = s
  BY DEF RestoreDue, Safe, DueKnown, Elapsed
<1>2. DueKnown'
  BY <1>1 DEF RestoreDue, Safe, DueKnown, Elapsed
<1>3. Alone' /\ StillFree' /\ Spending' /\ ThrottledIsRecorded' /\ up'
  BY HandlersFrame, RecordedFrame DEF RestoreDue, Safe
<1>4. QED
  BY <1>2, <1>3 DEF Safe

(* The one step that raises a limit puts the original back.                *)
LEMMA RestorePatchSafe ==
    ASSUME Orderly, Inv, TrueOriginal, Safe, NEW s \in due, NEW a \in Answers,
           RestorePatch(s, a)
    PROVE  Safe'
<1>1. s \in ThrottleState /\ s.container \in Containers /\ PodOf[s.container] \in Pods
  BY StateFields DEF Inv, TypeOK
<1>2. s.originalCPULimit = Original[s.container] /\ s # None
  BY <1>1, NoneAssumption DEF TrueOriginal, IsTrue
<1>3. /\ UNCHANGED <<pc, cur, cooldown, spent, throttled, exists, up>>
      /\ due' = due \ {s} /\ rpc = "next"
  BY DEF RestorePatch
<1>4. Elapsed(s) /\ throttled[PodOf[s.container]] = s
  BY DEF Safe, DueKnown
<1>5. \/ limit' = limit
      \/ limit' = [limit EXCEPT ![s.container] = Original[s.container]]
  BY <1>2 DEF RestorePatch, Resized
<1>6. \A d \in Containers : limit'[d] \in {limit[d], Original[d]}
  BY <1>5 DEF Inv, TypeOK
<1>7. \/ rpc' \in {"idle", "next"}
      \/ /\ rcur' = s /\ rpc' \in {"announce", "delete"}
         /\ PodOf[s.container] \in exists => limit'[s.container] = Original[s.container]
  <2>1. CASE a = "ok"
    BY <2>1, <1>1, <1>2 DEF RestorePatch, Retried, Resized, Applied, Inv, TypeOK
  <2>2. CASE a # "ok"
    BY <2>2 DEF RestorePatch, Retried
  <2>3. QED
    BY <2>1, <2>2
<1>8. DueKnown'
  BY <1>3, <1>4, <1>7 DEF Safe, DueKnown, Elapsed
<1>9. ThrottledIsRecorded'
  BY <1>3, <1>6 DEF Safe, ThrottledIsRecorded, Recorded, Lowered, IsThrottled
<1>10. QED
  BY <1>3, <1>8, <1>9, HandlersFrame DEF Safe

(* A restore's Event changes no limit.                                     *)
LEMMA RestoreAnnounceSafe ==
    ASSUME Inv, Safe, NEW a \in Answers, RestoreAnnounce(a)
    PROVE  Safe'
<1>1. DueKnown'
  BY DEF RestoreAnnounce, Safe, DueKnown, Elapsed
<1>2. Alone' /\ StillFree' /\ Spending' /\ ThrottledIsRecorded' /\ up'
  BY HandlersFrame, RecordedFrame DEF RestoreAnnounce, Safe
<1>3. QED
  BY <1>1, <1>2 DEF Safe

(* The record that goes is the one just restored, so no lowered container  *)
(* loses its record.                                                       *)
LEMMA RestoreDeleteSafe ==
    ASSUME Inv, Safe, RestoreDelete
    PROVE  Safe'
<1> DEFINE p == PodOf[rcur.container]
<1>1. /\ rpc = "delete" /\ rpc' = "forget"
      /\ UNCHANGED <<pc, cur, cooldown, spent, due, rcur, limit, exists, up>>
  BY DEF RestoreDelete
<1>2. p \in Pods /\ rcur.container \in Containers /\ rcur # None
  BY <1>1, StateFields, NoneAssumption DEF Inv, LocalsSet
<1>3. throttled' = [throttled EXCEPT ![p] = None]
  BY DEF RestoreDelete
<1>4. throttled'[p] = None /\ \A q \in Pods : q # p => throttled'[q] = throttled[q]
  BY <1>2, <1>3 DEF Inv, TypeOK, Ledgers
<1>5. /\ throttled[p] = rcur /\ rcur \notin due
      /\ p \in exists => limit[rcur.container] = Original[rcur.container]
  BY <1>1 DEF Safe, DueKnown
<1>6. \A k \in Handlers : pc[k] \in Acting \cup {"cooldown"} => Key(cur[k]) \in Pods
  BY KeyTyped DEF Inv, LocalsSet
<1> HIDE DEF p
<1>7. Alone' /\ Spending'
  BY <1>1 DEF Safe, Alone, Spending, Key
<1>8. StillFree'
  BY <1>1, <1>4, <1>6 DEF Safe, StillFree, Key, Acting
<1>9. DueKnown'
  <2>1. \A s \in due : PodOf[s.container] # p /\ PodOf[s.container] \in Pods
    BY <1>5, StateFields DEF Safe, DueKnown, Inv, TypeOK
  <2>2. QED
    BY <1>1, <1>4, <2>1 DEF Safe, DueKnown, Elapsed
<1>10. ThrottledIsRecorded'
  <2> SUFFICES ASSUME NEW d \in Containers, Lowered(d)'
               PROVE  \/ IsThrottled(PodOf[d])' /\ throttled'[PodOf[d]].container = d
                      \/ \E k \in Handlers : pc'[k] = "record" /\ cur'[k].container = d
    BY DEF ThrottledIsRecorded, Recorded, IsThrottled
  <2>1. Lowered(d) /\ PodOf[d] \in Pods
    BY <1>1, ContainersAssumption DEF Lowered
  <2>2. CASE IsThrottled(PodOf[d]) /\ throttled[PodOf[d]].container = d
    <3>1. PodOf[d] # p
      BY <2>1, <2>2, <1>5 DEF Lowered, p
    <3>2. QED
      BY <2>1, <2>2, <3>1, <1>4 DEF IsThrottled
  <2>3. CASE \E k \in Handlers : pc[k] = "record" /\ cur[k].container = d
    BY <2>3, <1>1
  <2>4. QED
    BY <2>1, <2>2, <2>3 DEF Safe, ThrottledIsRecorded, Recorded, IsThrottled
<1>11. QED
  BY <1>1, <1>7, <1>8, <1>9, <1>10 DEF Safe

(* Ledger writes touch nothing Safe speaks of.                             *)
LEMMA ForgetSafe ==
    ASSUME Inv, Safe, NEW a \in Answers, ForgetGet(a) \/ ForgetUpdate(a)
    PROVE  Safe'
<1>1. /\ UNCHANGED <<pc, cur, cooldown, spent, throttled, due, limit, exists, up>>
      /\ rpc' \in {"idle", "next", "update"}
  BY DEF ForgetGet, ForgetUpdate, NextDue
<1>2. DueKnown'
  BY <1>1 DEF Safe, DueKnown, Elapsed
<1>3. QED
  BY <1>1, <1>2, HandlersFrame, RecordedFrame DEF Safe

(* A pod that goes or comes back is not lowered.                           *)
LEMMA PodsSafe ==
    ASSUME Inv, Safe, NEW p \in Pods, PodGone(p) \/ PodRecreated(p)
    PROVE  Safe'
<1>1. UNCHANGED <<pc, cur, cooldown, spent, throttled, restore, up>>
  BY DEF PodGone, PodRecreated
<1>2. \A c \in Containers :
        PodOf[c] \in exists' => \/ PodOf[c] \in exists /\ limit'[c] = limit[c]
                               \/ limit'[c] = Original[c]
  BY DEF PodGone, PodRecreated
<1>3. ThrottledIsRecorded'
  BY <1>1, <1>2 DEF Safe, ThrottledIsRecorded, Recorded, Lowered, IsThrottled
<1>4. rpc \in {"announce", "delete"} => rcur.container \in Containers
  BY StateFields DEF Inv, LocalsSet
<1>5. DueKnown'
  BY <1>1, <1>2, <1>4 DEF Safe, DueKnown, Elapsed
<1>6. QED
  BY <1>1, <1>3, <1>5, HandlersFrame DEF Safe

(* A prompt handler never sees time pass, and an elapsed window stays so.  *)
LEMMA TickSafe ==
    ASSUME Orderly, Inv, Safe, Tick
    PROVE  Safe'
<1>1. /\ \A h \in Handlers : pc[h] = "idle" /\ pc'[h] = "idle"
      /\ UNCHANGED <<pc, cur, restore, limit, exists, up>>
  BY DEF Tick, Orderly
<1>2. \A p \in Pods : /\ throttled[p] \in ThrottleState \cup {None}
                      /\ throttled'[p] = Aged(throttled[p])
  BY DEF Tick, Inv, TypeOK, Ledgers
<1>3. \A p \in Pods : /\ throttled'[p] = None <=> throttled[p] = None
                      /\ throttled[p] # None =>
                            throttled'[p].container = throttled[p].container
  BY <1>2, AgedEntry, AgedState
<1>4. \A p \in Pods : Elapsed(throttled[p]) => throttled'[p] = throttled[p]
  <2> SUFFICES ASSUME NEW p \in Pods, Elapsed(throttled[p])
               PROVE  throttled'[p] = throttled[p]
    OBVIOUS
  <2>1. throttled[p] \in ThrottleState
    BY <1>2 DEF Elapsed
  <2>2. [throttled[p] EXCEPT !.restoreIn = throttled[p].restoreIn] = throttled[p]
    BY <2>1 DEF ThrottleState
  <2>3. QED
    BY <1>2, <2>2 DEF Aged, Elapsed
<1>5. Alone' /\ StillFree'
  BY <1>1 DEF Alone, StillFree, Acting
<1>6. Spending'
  <2>1. \A p \in Pods : spent'[p] =< cooldown'[p]
    <3>1. \A n, m \in Nat : n =< m =>
            (IF n = 0 THEN 0 ELSE n - 1) =< (IF m = 0 THEN 0 ELSE m - 1)
      OBVIOUS
    <3>2. 2 * Cooldown \in Nat /\ Cooldown \in Nat
      BY TimesAssumption
    <3>3. \A p \in Pods : spent[p] \in Nat /\ cooldown[p] \in Nat
      BY <3>2 DEF Inv, TypeOK
    <3>4. QED
      BY <3>1, <3>3 DEF Tick, Safe, Spending
  <2>2. QED
    BY <1>1, <2>1 DEF Spending
<1>7. DueKnown'
  <2>1. \A s \in due : PodOf[s.container] \in Pods
    BY StateFields DEF Inv, TypeOK
  <2>2. rpc \in {"announce", "delete"} => PodOf[rcur.container] \in Pods
    BY StateFields DEF Inv, LocalsSet
  <2>3. \A p \in Pods : throttled'[p] # None => PodOf[throttled'[p].container] = p
    BY <1>3 DEF Safe, DueKnown
  <2>4. \A s \in due : Elapsed(s) /\ throttled'[PodOf[s.container]] = s
    BY <1>4, <2>1 DEF Safe, DueKnown
  <2>5. rpc \in {"announce", "delete"} =>
            Elapsed(rcur) /\ throttled'[PodOf[rcur.container]] = rcur
    BY <1>4, <2>2 DEF Safe, DueKnown
  <2>6. QED
    BY <1>1, <2>3, <2>4, <2>5 DEF Safe, DueKnown, Elapsed
<1>8. ThrottledIsRecorded'
  BY <1>1, <1>3, ContainersAssumption DEF Safe, ThrottledIsRecorded, Recorded, Lowered, IsThrottled
<1>9. QED
  BY <1>1, <1>5, <1>6, <1>7, <1>8 DEF Safe

(* Safe is an invariant of an orderly controller.                          *)
LEMMA SafeHolds ==
    ASSUME Orderly
    PROVE  Spec => []Safe
<1>1. Init => Safe
  BY TimesAssumption
  DEF Init, Safe, Alone, StillFree, DueKnown, ThrottledIsRecorded, Recorded, Lowered, Spending, NoThrottle,
      Acting
<1>2. Inv /\ TrueOriginal /\ Safe /\ [Next]_vars => Safe'
  <2> SUFFICES ASSUME Inv, TrueOriginal, Safe, [Next]_vars
               PROVE  Safe'
    OBVIOUS
  <2>1. ASSUME NEW h \in Handlers, HandlerWork(h)
        PROVE  Safe'
    BY <2>1, ConsiderSafe, TakeCooldownSafe, ThrottleGetSafe, ThrottlePatchSafe, RecordSafe,
       PersistGetSafe, PersistUpdateSafe, AnnounceSafe, EventFallbackSafe DEF HandlerWork
  <2>2. CASE RestoreStep
    BY <2>2, RestoreDueSafe, RestorePatchSafe, RestoreAnnounceSafe, RestoreDeleteSafe,
       ForgetSafe DEF RestoreStep
  <2>3. ~ Crash /\ \A c \in Configs, read \in BOOLEAN : ~ Restart(c, read)
    BY DEF Crash, Restart, Orderly, Safe
  <2>4. CASE UNCHANGED vars
    BY <2>4, HandlersFrame, DueFrame, RecordedFrame DEF vars, Safe
  <2>5. QED
    BY <2>1, <2>2, <2>3, <2>4, IngestSafe, PodsSafe, TickSafe DEF Next
<1>3. QED
  BY <1>1, <1>2, InvHolds, OriginalsAreTrue, PTL DEF Spec

(* No interleaving of prompt handlers, restores, failing calls and         *)
(* disappearing pods leaves a lowered container that the restore loop does *)
(* not know of, although a pod has one record for all its containers.      *)
THEOREM ThrottleNeverLost ==
    ASSUME Orderly
    PROVE  Spec => []ThrottledIsRecorded
<1>1. Safe => ThrottledIsRecorded
  BY DEF Safe
<1>2. QED
  BY <1>1, SafeHolds, PTL

(* Whatever reports arrive together, a pod is acted on once per Cooldown.  *)
THEOREM CooldownRespected ==
    ASSUME Orderly
    PROVE  Spec => []OneActionPerCooldown
<1>1. Inv /\ Safe => OneActionPerCooldown
  BY TimesAssumption DEF Safe, Spending, OneActionPerCooldown, Inv, TypeOK
<1>2. QED
  BY <1>1, SafeHolds, InvHolds, PTL

-----------------------------------------------------------------------------
(***************************************************************************)
(* An orderly Remediator implements Lease.                                 *)
(***************************************************************************)

(* A step that changes no limit, no pod and no charge is none of Lease's.  *)
LEMMA Invisible ==
    ASSUME UNCHANGED <<limit, exists, spent>>
    PROVE  UNCHANGED Promise!vars
BY DEF Promise!vars, LoweredContainers, Lowered

(* At most one container of a pod is lowered, and the record is its own.   *)
LEMMA OneLowered ==
    ASSUME Safe, NEW c \in Containers, Lowered(c), throttled[PodOf[c]] # None,
           \A h \in Handlers : pc[h] \in Acting => Key(cur[h]) = PodOf[cur[h].container]
    PROVE  throttled[PodOf[c]].container = c
BY DEF Safe, ThrottledIsRecorded, Recorded, StillFree, Acting

(* What changing one limit does to the set of lowered containers.          *)
LEMMA LoweredOne ==
    ASSUME NEW c \in Containers, UNCHANGED exists,
           \A d \in Containers : d # c => limit'[d] = limit[d]
    PROVE  /\ Lowered(c)' => LoweredContainers' = LoweredContainers \cup {c}
           /\ ~ Lowered(c)' => LoweredContainers' = LoweredContainers \ {c}
BY DEF LoweredContainers, Lowered

(* A pod that was left alone is charged one cooldown.                      *)
LEMMA ChargedOnce ==
    ASSUME Inv, NEW p \in Pods, spent[p] = 0
    PROVE  Charged(p) = [spent EXCEPT ![p] = Cooldown]
<1>1. (IF spent[p] > Cooldown THEN spent[p] ELSE spent[p] + Cooldown) = Cooldown
  BY TimesAssumption
<1>2. QED
  BY <1>1, Zenon DEF Charged

(* The patch that lowers a limit finds every container of the pod at its   *)
(* owner's limit, and a cooldown has passed.                               *)
LEMMA ThrottlePatchPromise ==
    ASSUME Orderly, Inv, Safe, NEW h \in Handlers, NEW a \in Answers, ThrottlePatch(h, a)
    PROVE  [Promise!Next]_(Promise!vars)
<1>1. pc[h] = "patch" /\ UNCHANGED exists
  BY DEF ThrottlePatch
<1>2. PICK c \in Containers : c = cur[h].container
  BY <1>1, KeyTyped DEF Inv, LocalsSet, Acting, Key, Targets
<1>3. PICK p \in Pods : p = PodOf[c] /\ p = Key(cur[h])
  BY <1>1, <1>2, KeyTyped DEF Inv, LocalsSet, Acting, Key
<1>4. throttled[p] = None /\ spent[p] = 0
  BY <1>3, <1>1 DEF Safe, StillFree, Spending
<1>5. CASE a = "ok" /\ p \in exists
  <2>1. limit' = [limit EXCEPT ![c] = Request[c]] /\ spent' = Charged(p)
    BY <1>3, <1>2, <1>5 DEF ThrottlePatch, Resized, Applied
  <2>2. spent' = [spent EXCEPT ![p] = Cooldown]
    BY <1>2, <1>4, <2>1, ChargedOnce
  <2>3. \A d \in Containers : d # c => limit'[d] = limit[d]
    BY <2>1 DEF Inv, TypeOK
  <2>4. \A d \in Containers : PodOf[d] = p => ~ Lowered(d)
    <3> SUFFICES ASSUME NEW d \in Containers, PodOf[d] = p, Lowered(d)
                 PROVE  FALSE
      OBVIOUS
    <3>1. PICK k \in Handlers : pc[k] = "record" /\ cur[k].container = d
      BY <1>4, <1>3 DEF Safe, ThrottledIsRecorded, Recorded
    <3>2. Key(cur[k]) = p
      BY <3>1 DEF Key
    <3>3. k = h
      BY <1>3, <1>1, <3>1, <3>2 DEF Safe, Alone, Acting
    <3>4. QED
      BY <1>1, <3>1, <3>3
  <2>5. CASE Lowered(c)'
    <3>1. LoweredContainers' = LoweredContainers \cup {c}
      BY <1>1, <1>2, <2>3, <2>5, LoweredOne
    <3>2. Promise!Of(PodOf[c]) \cap LoweredContainers = {}
      BY <1>3, <2>4 DEF Promise!Of, LoweredContainers
    <3>3. Promise!Throttle(c)
      BY <1>3, <1>4, <2>2, <3>1, <3>2 DEF Promise!Throttle, Promise!Acted
    <3>4. QED
      BY <1>2, <3>3 DEF Promise!Next
  <2>6. CASE ~ Lowered(c)'
    <3>1. c \notin LoweredContainers
      BY <1>3, <2>4 DEF LoweredContainers
    <3>2. LoweredContainers' = LoweredContainers
      BY <1>1, <1>2, <2>3, <2>6, <3>1, LoweredOne
    <3>3. Promise!Notify(p)
      BY <1>4, <2>2, <3>2 DEF Promise!Notify, Promise!Acted
    <3>4. QED
      BY <1>2, <3>3 DEF Promise!Next
  <2>7. QED
    BY <2>5, <2>6
<1>6. CASE ~ (a = "ok" /\ p \in exists)
  <2>1. UNCHANGED <<limit, exists, spent>>
    BY <1>3, <1>2, <1>6, <1>1, AppliedIsAnswered DEF ThrottlePatch
  <2>2. QED
    BY <2>1, Invisible
<1>7. QED
  BY <1>5, <1>6

(* A fallback Event names a pod that was left alone for a cooldown.        *)
LEMMA EventFallbackPromise ==
    ASSUME Orderly, Inv, Safe, NEW h \in Handlers, NEW a \in Answers, EventFallback(h, a)
    PROVE  [Promise!Next]_(Promise!vars)
<1> DEFINE p == Key(cur[h])
<1>1. pc[h] = "event" /\ UNCHANGED <<limit, exists>>
  BY DEF EventFallback
<1>2. p \in Pods /\ spent[p] = 0
  BY <1>1, KeyTyped DEF Inv, LocalsSet, Acting, Safe, Spending
<1>3. CASE a = "ok"
  <2>1. spent' = [spent EXCEPT ![p] = Cooldown]
    BY <1>2, <1>3, ChargedOnce DEF EventFallback, Applied
  <2>2. LoweredContainers' = LoweredContainers
    BY <1>1 DEF LoweredContainers, Lowered
  <2>3. Promise!Notify(p)
    BY <1>2, <2>1, <2>2 DEF Promise!Notify, Promise!Acted
  <2>4. QED
    BY <1>2, <2>3 DEF Promise!Next
<1>4. CASE a # "ok"
  BY <1>1, <1>4, AppliedIsAnswered, Invisible DEF EventFallback
<1>5. QED
  BY <1>3, <1>4

(* A restore raises the one container of its pod that is lowered.          *)
LEMMA RestorePatchPromise ==
    ASSUME Inv, TrueOriginal, Safe, NEW s \in due, NEW a \in Answers, RestorePatch(s, a)
    PROVE  [Promise!Next]_(Promise!vars)
<1> DEFINE c == s.container
           p == PodOf[c]
<1>1. s \in ThrottleState /\ c \in Containers /\ p \in Pods
  BY StateFields DEF Inv, TypeOK
<1>2. s.originalCPULimit = Original[c] /\ s # None
  BY <1>1, NoneAssumption DEF TrueOriginal, IsTrue
<1>3. throttled[p] = s /\ UNCHANGED <<exists, spent>>
  BY DEF RestorePatch, Safe, DueKnown
<1>4. \/ limit' = limit
      \/ limit' = [limit EXCEPT ![c] = Original[c]]
  BY <1>2 DEF RestorePatch, Resized
<1>5. CASE limit' = limit
  BY <1>3, <1>5, Invisible
<1>6. CASE limit' = [limit EXCEPT ![c] = Original[c]]
  <2>1. \A d \in Containers : d # c => limit'[d] = limit[d]
    BY <1>6 DEF Inv, TypeOK
  <2>2. limit'[c] = Original[c]
    BY <1>1, <1>6 DEF Inv, TypeOK
  <2>3. \A d \in Containers : PodOf[d] = p /\ Lowered(d) => d = c
    <3> SUFFICES ASSUME NEW d \in Containers, PodOf[d] = p, Lowered(d)
                 PROVE  d = c
      OBVIOUS
    <3>1. throttled[PodOf[d]] # None
      BY <1>2, <1>3
    <3>2. throttled[PodOf[d]].container = d
      BY <3>1, OneLowered DEF Key
    <3>3. QED
      BY <1>3, <3>2
  <2> HIDE DEF c, p
  <2>4. ~ Lowered(c)' /\ \A d \in Containers : d # c => (Lowered(d)' <=> Lowered(d))
    BY <1>3, <2>1, <2>2 DEF Lowered
  <2>5. LoweredContainers' = LoweredContainers \ Promise!Of(p)
    BY <1>1, <2>3, <2>4 DEF LoweredContainers, Promise!Of, p
  <2>6. Promise!Lift(p)
    BY <1>3, <2>5 DEF Promise!Lift
  <2>7. QED
    BY <1>1, <2>6 DEF Promise!Next
<1>7. QED
  BY <1>4, <1>5, <1>6

(* A pod that goes takes its lowered container along; one that comes back  *)
(* has its template's limits.                                              *)
LEMMA PodsPromise ==
    ASSUME Inv, NEW p \in Pods, PodGone(p) \/ PodRecreated(p)
    PROVE  [Promise!Next]_(Promise!vars)
<1>1. CASE PodGone(p)
  <2>1. UNCHANGED <<limit, spent>> /\ exists' = exists \ {p}
    BY <1>1 DEF PodGone
  <2>2. LoweredContainers' = LoweredContainers \ Promise!Of(p)
    BY <2>1 DEF LoweredContainers, Lowered, Promise!Of
  <2>3. Promise!Lift(p)
    BY <2>1, <2>2 DEF Promise!Lift
  <2>4. QED
    BY <2>3 DEF Promise!Next
<1>2. CASE PodRecreated(p)
  <2>1. /\ p \notin exists /\ exists' = exists \cup {p} /\ UNCHANGED spent
        /\ \A c \in Containers : limit'[c] = IF PodOf[c] = p THEN Original[c] ELSE limit[c]
    BY <1>2 DEF PodRecreated
  <2>2. LoweredContainers' = LoweredContainers
    BY <2>1 DEF LoweredContainers, Lowered
  <2>3. QED
    BY <2>1, <2>2 DEF Promise!vars
<1>3. QED
  BY <1>1, <1>2

(* A controller whose handlers are prompt, that stays up and loses no      *)
(* reply implements Lease: no interleaving of handlers, restores, failed   *)
(* calls and pods that go lowers two containers of a pod at a time or acts *)
(* on a pod twice in a cooldown.                                           *)
THEOREM ImplementsLease ==
    ASSUME Orderly
    PROVE  Spec => KeepsPromise
<1>1. Init => Promise!Init
  BY DEF Init, Promise!Init, LoweredContainers, Lowered
<1>2. Inv /\ TrueOriginal /\ Safe /\ [Next]_vars => [Promise!Next]_(Promise!vars)
  <2> SUFFICES ASSUME Inv, TrueOriginal, Safe, [Next]_vars
               PROVE  [Promise!Next]_(Promise!vars)
    OBVIOUS
  <2>1. CASE \E h \in Handlers, s \in Snapshots : Ingest(h, s)
    BY <2>1, Invisible DEF Ingest
  <2>2. ASSUME NEW h \in Handlers, HandlerWork(h)
        PROVE  [Promise!Next]_(Promise!vars)
    <3>1. CASE \/ \E t \in todo[h] : Consider(h, t)
               \/ TakeCooldown(h) \/ Record(h)
               \/ \E a \in Answers : ThrottleGet(h, a) \/ PersistGet(h, a)
                                       \/ PersistUpdate(h, a) \/ Announce(h, a)
      <4>1. UNCHANGED <<limit, exists, spent>>
        BY <3>1 DEF Consider, TakeCooldown, ThrottleGet, Record, PersistGet, PersistUpdate, Announce
      <4>2. QED
        BY <4>1, Invisible
    <3>2. QED
      BY <2>2, <3>1, ThrottlePatchPromise, EventFallbackPromise DEF HandlerWork
  <2>3. CASE RestoreStep
    <3>1. CASE RestoreDue \/ RestoreDelete
                \/ \E a \in Answers : RestoreAnnounce(a) \/ ForgetGet(a) \/ ForgetUpdate(a)
      <4>1. UNCHANGED <<limit, exists, spent>>
        BY <3>1 DEF RestoreDue, RestoreDelete, RestoreAnnounce, ForgetGet, ForgetUpdate
      <4>2. QED
        BY <4>1, Invisible
    <3>2. QED
      BY <2>3, <3>1, RestorePatchPromise DEF RestoreStep
  <2>4. ~ Crash /\ \A c \in Configs, read \in BOOLEAN : ~ Restart(c, read)
    BY DEF Crash, Restart, Orderly, Safe
  <2>5. CASE Tick
    <3>1. LoweredContainers' = LoweredContainers
      BY <2>5 DEF Tick, LoweredContainers, Lowered
    <3>2. Promise!Tick
      BY <2>5, <3>1 DEF Tick, Promise!Tick
    <3>3. QED
      BY <3>2 DEF Promise!Next
  <2>6. CASE UNCHANGED vars
    BY <2>6, Invisible DEF vars
  <2>7. QED
    BY <2>1, <2>2, <2>3, <2>4, <2>5, <2>6, PodsPromise DEF Next
<1>3. QED
  BY <1>1, <1>2, InvHolds, OriginalsAreTrue, SafeHolds, PTL DEF Spec, KeepsPromise, Promise!Spec
=============================================================================
