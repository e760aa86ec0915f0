---------------------------- MODULE ResolverProofs ----------------------------
(***************************************************************************)
(* Without the lifecycle events, every name comes from a Refresh, and      *)
(* refreshMu alone makes the cache keep the name of every cgroup that      *)
(* still exists, for any number of cgroups and any TTL.                    *)
(* With them, every bound and the mutual exclusion of Refreshes hold.      *)
(***************************************************************************)
EXTENDS Resolver, TLAPS

Types ==
    /\ alive \in SUBSET Ids /\ gone \in SUBSET Ids /\ cri \in SUBSET Ids
    /\ entry \in [Ids -> Int]
    /\ refreshMu \in Refreshers \cup {Nobody}
    /\ phase \in {"scan", "list", "merge"}
    /\ phase = "scan" <=> refreshMu = Nobody
    /\ found \in SUBSET Ids /\ named \in SUBSET Ids

(* No event is ever read.                                                  *)
NoEvents == ~ attached /\ ring = <<>> /\ event = <<>>

(* Only cgroups that exist or existed are found or named.                  *)
Seen == alive \cap gone = {} /\ named \cup found \subseteq alive \cup gone

(* A named cgroup that exists has a live entry, and the runtime knows it.  *)
AllKept == \A i \in alive \cap named : entry[i] = Live /\ i \in cri

(* A Refresh under way has found it, so that its merge keeps it live.      *)
WillKeep ==
    /\ phase # "scan" => alive \cap named \subseteq found
    /\ phase = "merge" => found \cap alive \subseteq cri

Inv == Types /\ NoEvents /\ Seen /\ AllKept /\ WillKeep

USE DEF kernel, refresh

(* Inv is kept by every step when the lifecycle watcher is off.            *)
LEMMA StepKeeps ==
    ASSUME Inv, [Next]_vars
    PROVE  Inv'
<1>1. ASSUME NEW i \in Ids, Mkdir(i)
      PROVE  Inv'
  BY <1>1 DEF Inv, Types, NoEvents, Seen, AllKept, WillKeep, Mkdir, Emit
<1>2. ASSUME NEW i \in Ids, Rmdir(i)
      PROVE  Inv'
  BY <1>2 DEF Inv, Types, NoEvents, Seen, AllKept, WillKeep, Rmdir, Emit
<1>3. ASSUME NEW i \in Ids, Register(i) \/ Unregister(i)
      PROVE  Inv'
  BY <1>3 DEF Inv, Types, NoEvents, Seen, AllKept, WillKeep, Register, Unregister
<1>4. ASSUME NEW r \in Refreshers, Scan(r)
      PROVE  Inv'
  <2>1. r # Nobody
    BY NobodyAssumption DEF Refreshers
  <2>2. QED
    BY <1>4, <2>1 DEF Inv, Types, NoEvents, Seen, AllKept, WillKeep, Scan
<1>5. ASSUME NEW r \in Refreshers, List(r)
      PROVE  Inv'
  BY <1>5 DEF Inv, Types, NoEvents, Seen, AllKept, WillKeep, List
<1>6. ASSUME NEW r \in Refreshers, Merge(r)
      PROVE  Inv'
  <2>1. /\ entry' = [i \in Ids |-> Merged(i)] /\ named' = named \cup found
        /\ found' = {} /\ refreshMu' = Nobody /\ phase' = "scan" /\ phase = "merge"
        /\ UNCHANGED <<alive, gone, attached, cri, ring, event>>
    BY <1>6 DEF Merge
  <2>2. \A i \in Ids : Merged(i) \in Int /\ (i \in found => Merged(i) = Live)
    BY TTLAssumption DEF Merged, Live, Expired, Absent, Inv, Types
  <2>3. Types' /\ NoEvents' /\ Seen' /\ WillKeep'
    BY <2>1, <2>2 DEF Inv, Types, NoEvents, Seen, WillKeep
  <2>4. AllKept'
    BY <2>1, <2>2 DEF Inv, Types, AllKept, WillKeep, Live
  <2>5. QED
    BY <2>3, <2>4 DEF Inv
<1>7. CASE ReadEvent \/ ResolvePath
  BY <1>7 DEF Inv, NoEvents, ReadEvent, ResolvePath
<1>8. CASE Tick
  <2>1. \A i \in Ids : entry'[i] \in Int /\ (entry[i] = Live => entry'[i] = Live)
    BY <1>8, TTLAssumption DEF Tick, Live, Inv, Types
  <2>2. Types'
    BY <1>8, <2>1 DEF Tick, Inv, Types
  <2>3. QED
    BY <1>8, <2>1, <2>2 DEF Tick, Inv, Types, NoEvents, Seen, AllKept, WillKeep, Live
<1>9. CASE UNCHANGED vars
  BY <1>9 DEF vars, Inv, Types, NoEvents, Seen, AllKept, WillKeep, Live
<1>10. QED
  BY <1>1, <1>2, <1>3, <1>4, <1>5, <1>6, <1>7, <1>8, <1>9 DEF Next

(* However Refreshes of the two goroutines overlap the creation and the    *)
(* removal of cgroups, no existing cgroup loses its name.                  *)
THEOREM NamesKept == Spec => []ScansKeepNames
<1>1. Init /\ ~ attached => Inv
  <2>1. Live \in Int /\ Absent \in Int
    BY TTLAssumption DEF Live, Absent
  <2>2. QED
    BY <2>1 DEF Init, Inv, Types, NoEvents, Seen, AllKept, WillKeep
<1>2. Inv /\ [Next]_vars => Inv'
  BY StepKeeps
<1>3. attached /\ [Next]_vars => attached'
  BY DEF Next, vars, Mkdir, Rmdir, Register, Unregister, Scan, List, Merge, ReadEvent,
         ResolvePath, Tick
<1>4. Inv \/ attached => ScansKeepNames
  BY TTLAssumption DEF Inv, Types, AllKept, ScansKeepNames, Kept, Resolves, Live
<1>5. QED
  BY <1>1, <1>2, <1>3, <1>4, PTL DEF Spec

-----------------------------------------------------------------------------
(* With the lifecycle events *)

Ops == {"mkdir", "rmdir"}

LEMMA Appended ==
    ASSUME NEW E, NEW s \in Seq(E), NEW e \in E
    PROVE  Append(s, e) \in Seq(E) /\ Len(Append(s, e)) = Len(s) + 1 /\ Len(s) \in Nat
OBVIOUS

LEMMA Taken ==
    ASSUME NEW E, NEW s \in Seq(E), s # <<>>
    PROVE  /\ Head(s) \in E /\ s[1] \in E /\ Tail(s) \in Seq(E)
           /\ Len(Tail(s)) =< Len(s) /\ Len(s) \in Nat /\ Len(Tail(s)) \in Nat
OBVIOUS

LEMMA Single ==
    ASSUME NEW E, NEW e \in E
    PROVE  <<e>> \in Seq(E) /\ Len(<<e>>) = 1
OBVIOUS

(* A full ring drops the event.                                            *)
LEMMA EmitTyped ==
    ASSUME TypeOK, NEW op \in Ops, NEW i \in Ids, Emit(op, i)
    PROVE  ring' \in Seq([op : Ops, id : Ids]) /\ Len(ring') =< RingSize
<1>1. PICK E, e : E = [op : Ops, id : Ids] /\ e = [op |-> op, id |-> i]
  OBVIOUS
<1>2. ring \in Seq(E) /\ Len(ring) =< RingSize /\ e \in E
  BY <1>1 DEF TypeOK, Ops
<1>3. ring' = IF attached /\ Len(ring) < RingSize THEN Append(ring, e) ELSE ring
  BY <1>1 DEF Emit
<1>4. ring' \in Seq(E) /\ Len(ring') =< RingSize
  BY <1>2, <1>3, Appended, TTLAssumption
<1>5. QED
  BY <1>1, <1>4

(* A countdown stays between its ends, whoever moves it.                   *)
LEMMA EntryTyped ==
    ASSUME TypeOK, NEW i \in Ids
    PROVE  /\ Live \in Absent .. Live /\ entry[i] \in Absent .. Live
           /\ Merged(i) \in Absent .. Live /\ Tombstoned(i) \in Absent .. Live
           /\ entry[i] \in 0 .. TTL => entry[i] - 1 \in Absent .. Live
BY TTLAssumption DEF TypeOK, Live, Expired, Absent, Merged, Tombstoned

LEMMA TypeStep ==
    ASSUME TypeOK, [Next]_vars
    PROVE  TypeOK'
<1>1. ASSUME NEW i \in Ids, Mkdir(i) PROVE TypeOK'
  <2>1. ring' \in Seq([op : Ops, id : Ids]) /\ Len(ring') =< RingSize
    BY <1>1, EmitTyped DEF Mkdir, Ops
  <2>2. dirty' \in BOOLEAN
    BY <1>1, SwitchesAssumption DEF Mkdir, Notify, TypeOK
  <2>3. QED
    BY <1>1, <2>1, <2>2 DEF Mkdir, TypeOK, Ops
<1>2. ASSUME NEW i \in Ids, Rmdir(i) PROVE TypeOK'
  <2>1. ring' \in Seq([op : Ops, id : Ids]) /\ Len(ring') =< RingSize
    BY <1>2, EmitTyped DEF Rmdir, Ops
  <2>2. dirty' \in BOOLEAN
    BY <1>2, SwitchesAssumption DEF Rmdir, Notify, TypeOK
  <2>3. QED
    BY <1>2, <2>1, <2>2 DEF Rmdir, TypeOK, Ops
<1>3. ASSUME NEW i \in Ids, Register(i) \/ Unregister(i) PROVE TypeOK'
  BY <1>3 DEF Register, Unregister, TypeOK
<1>4. ASSUME NEW r \in Refreshers, Scan(r) PROVE TypeOK'
  <2>1. r # Nobody
    BY NobodyAssumption DEF Refreshers
  <2>2. QED
    BY <1>4, <2>1 DEF Scan, TypeOK
<1>5. ASSUME NEW r \in Refreshers, List(r) PROVE TypeOK'
  BY <1>5 DEF List, TypeOK
<1>6. ASSUME NEW r \in Refreshers, Merge(r) PROVE TypeOK'
  <2>1. entry' \in [Ids -> Absent .. Live]
    BY <1>6, EntryTyped DEF Merge
  <2>2. QED
    BY <1>6, <2>1 DEF Merge, TypeOK
<1>7. CASE ReadEvent
  <2>1. PICK e \in [op : Ops, id : Ids] :
           /\ e = Head(ring) /\ ring' = Tail(ring)
           /\ IF e.op = "rmdir"
              THEN entry' = [entry EXCEPT ![e.id] = Tombstoned(e.id)] /\ UNCHANGED event
              ELSE event' = <<e>> /\ UNCHANGED entry
    <3>1. ring \in Seq([op : Ops, id : Ids]) /\ ring # <<>>
      BY <1>7 DEF ReadEvent, TypeOK, Ops
    <3>2. Head(ring) \in [op : Ops, id : Ids]
      BY <3>1, Taken
    <3>3. QED
      BY <1>7, <3>2 DEF ReadEvent
  <2>2. ring' \in Seq([op : Ops, id : Ids]) /\ Len(ring') =< RingSize
    <3>1. ring \in Seq([op : Ops, id : Ids]) /\ Len(ring) =< RingSize /\ ring # <<>>
      BY <1>7 DEF ReadEvent, TypeOK, Ops
    <3>2. QED
      BY <2>1, <3>1, Taken, TTLAssumption
  <2>3. entry' \in [Ids -> Absent .. Live]
    BY <2>1, EntryTyped DEF TypeOK
  <2>4. event' \in Seq([op : {"mkdir"}, id : Ids]) /\ Len(event') =< 1
    <3>1. CASE e.op = "rmdir"
      BY <2>1, <3>1 DEF TypeOK
    <3>2. CASE e.op # "rmdir"
      <4>1. e \in [op : {"mkdir"}, id : Ids] /\ event' = <<e>>
        BY <2>1, <3>2 DEF Ops
      <4>2. QED
        BY <4>1, Single
    <3>3. QED
      BY <3>1, <3>2
  <2>5. QED
    BY <1>7, <2>2, <2>3, <2>4 DEF ReadEvent, TypeOK, Ops
<1>8. CASE ResolvePath
  <2>1. event' = <<>> /\ event[1].id \in Ids
    <3>1. event \in Seq([op : {"mkdir"}, id : Ids]) /\ event # <<>> /\ event' = <<>>
      BY <1>8 DEF ResolvePath, TypeOK
    <3>2. event[1] \in [op : {"mkdir"}, id : Ids]
      BY <3>1, Taken
    <3>3. QED
      BY <3>1, <3>2
  <2>2. entry' \in [Ids -> Absent .. Live] /\ named' \in SUBSET Ids
    BY <1>8, <2>1, EntryTyped DEF ResolvePath, TypeOK
  <2>3. QED
    BY <1>8, <2>1, <2>2 DEF ResolvePath, TypeOK
<1>9. CASE Tick
  <2>1. entry' \in [Ids -> Absent .. Live]
    BY <1>9, EntryTyped DEF Tick
  <2>2. QED
    BY <1>9, <2>1 DEF Tick, TypeOK
<1>10. CASE UNCHANGED vars
  BY <1>10 DEF vars, TypeOK
<1>11. QED
  BY <1>1, <1>2, <1>3, <1>4, <1>5, <1>6, <1>7, <1>8, <1>9, <1>10 DEF Next

(* Types are kept, the ring never holds more than its size, no countdown   *)
(* passes its end, and refreshMu is held exactly while a Refresh is under  *)
(* way, with all three writers and any faults (Refresh, replace, emit).    *)
THEOREM TypeCorrect == Spec => []TypeOK
<1>1. Init => TypeOK
  <2>1. Live \in Absent .. Live /\ Absent \in Absent .. Live
    BY TTLAssumption DEF Live, Absent
  <2>2. SUFFICES ASSUME Init PROVE TypeOK
    OBVIOUS
  <2>3. \A E : <<>> \in Seq(E) /\ Len(<<>>) = 0
    OBVIOUS
  <2>4. /\ ring \in Seq([op : {"mkdir", "rmdir"}, id : Ids]) /\ Len(ring) =< RingSize
        /\ event \in Seq([op : {"mkdir"}, id : Ids]) /\ Len(event) =< 1
    BY <2>2, <2>3, TTLAssumption DEF Init
  <2>5. entry \in [Ids -> Absent .. Live]
    BY <2>1, <2>2 DEF Init
  <2>6. QED
    BY <2>2, <2>4, <2>5 DEF Init, TypeOK
<1>2. QED
  BY <1>1, TypeStep, PTL DEF Spec
=============================================================================
