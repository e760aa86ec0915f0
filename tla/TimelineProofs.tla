---------------------------- MODULE TimelineProofs ----------------------------
(***************************************************************************)
(* The timeline's ring is the log's last Buckets windows, and a read of it *)
(* is of the right windows, for any number of CPUs, cgroups, windows and   *)
(* slots and however often the ring has wrapped.                           *)
(***************************************************************************)
EXTENDS Timeline, FiniteSetTheorems, TLAPS

-----------------------------------------------------------------------------
(* Slots *)

LEMMA DivMod ==
    ASSUME NEW a \in Nat, NEW b \in Nat \ {0}
    PROVE  a = b * (a \div b) + (a % b) /\ a \div b \in Nat /\ a % b \in 0 .. b - 1
OBVIOUS

(* Two multiples of b less than b apart are the same one.                  *)
LEMMA Multiples ==
    ASSUME NEW b \in Nat \ {0}, NEW p \in Int, NEW q \in Int,
           0 =< b * p - b * q, b * p - b * q < b
    PROVE  p = q
<1>1. CASE p < q
  <2>1. b * (q - p) >= b
    BY <1>1
  <2>2. QED
    BY <2>1
<1>2. CASE p > q
  <2>1. b * (p - q) >= b
    BY <1>2
  <2>2. QED
    BY <2>1
<1>3. QED
  BY <1>1, <1>2

LEMMA SlotIn == \A e \in Nat : Slot(e) \in Slots
BY GeometryAssumption DEF Slot, Slots

(* The ring's windows are all different: of the Buckets windows up to a,   *)
(* only a itself has a's slot.                                             *)
LEMMA SameSlot ==
    ASSUME NEW a \in Nat, NEW b \in Nat, Slot(a) = Slot(b), a - Buckets < b, b =< a
    PROVE  a = b
<1>1. PICK p \in Nat : a = Buckets * p + Slot(a)
  BY DivMod, GeometryAssumption DEF Slot
<1>2. PICK q \in Nat : b = Buckets * q + Slot(b)
  BY DivMod, GeometryAssumption DEF Slot
<1>3. Buckets \in Nat \ {0} /\ Slot(a) \in Nat /\ Buckets * p \in Nat /\ Buckets * q \in Nat
  BY GeometryAssumption, SlotIn DEF Slots
<1>4. 0 =< Buckets * p - Buckets * q /\ Buckets * p - Buckets * q < Buckets
  BY <1>1, <1>2, <1>3
<1>5. p = q
  BY <1>3, <1>4, Multiples
<1>6. QED
  BY <1>1, <1>2, <1>5

-----------------------------------------------------------------------------
(* The invariant *)

Tasks == [kind : Kinds, cgroup : Cgroups]
BucketType(n) == [epoch : 0 .. n, charges : SUBSET Charges]
RingType(n) == [Cgroups -> [CPUs -> [Slots -> BucketType(n)]]]
LogType == [Cgroups -> [CPUs -> SUBSET Charges]]

Shapes ==
    /\ work \in [CPUs -> Seq(Tasks)]
    /\ IsFiniteSet(present)
    /\ series \in [Cgroups -> [Slots -> SUBSET (CPUs \X Charges)]]
    /\ settled \in [log : LogType, copied : [Cgroups -> 1 .. now], torn : [Cgroups -> SUBSET CPUs]]

(* The cgroup a handler charges, and the last window its CPU may have      *)
(* charged to.                                                             *)
Target(c) == Head(work[c]).cgroup
Top(c) == IF pc[c] = "idle" THEN now ELSE at[c]

(* What is in a slot was charged in its window, unless the slot has got    *)
(* its new epoch and is not yet zeroed.                                    *)
InSlots(g, c) ==
    \A s \in Slots : \A x \in ring[g][c][s].charges :
        /\ x \in log[g][c]
        /\ x[2] = ring[g][c][s].epoch \/ (c \in Resetting(g) /\ s = Slot(at[c]))

(* What was charged in the windows up to the handler's is in its slot; the *)
(* handler's own window is new when its slot is being reset.               *)
InLog(g, c) ==
    \A x \in log[g][c] :
        /\ x[2] =< Top(c)
        /\ x[2] > Top(c) - Buckets => x \in ring[g][c][Slot(x[2])].charges
        /\ c \in Resetting(g) => x[2] # at[c]

(* A handler that holds a bucket has stamped it.                           *)
Stamped(g, c) == held[c] /\ Target(c) = g => ring[g][c][Slot(at[c])].epoch = at[c]

RingAt(g, c) == InSlots(g, c) /\ InLog(g, c) /\ Stamped(g, c)
Rings == \A g \in Cgroups, c \in CPUs : RingAt(g, c)

(* What was settled when the reader read the clock is still there while it *)
(* copies, and of windows up to its reference.                             *)
Earlier ==
    /\ rpc = "copy" => \A g \in Cgroups, c \in CPUs : settled.log[g][c] \subseteq log[g][c]
    /\ \A g \in Cgroups, c \in CPUs : \A x \in settled.log[g][c] : x[2] =< ref

Types == TypeOK /\ Shapes
IInv == Types /\ Rings /\ Earlier /\ SettledIsRead /\ MixedOnlyInReset

USE DEF task, handler, map, reader
-----------------------------------------------------------------------------
(* Types *)

(* A map with room, or that has the key already, does not outgrow its size. *)
LEMMA AddedWithinSize ==
    ASSUME NEW S, IsFiniteSet(S), NEW n \in Nat, Cardinality(S) =< n, NEW x,
           x \in S \/ Cardinality(S) < n
    PROVE  IsFiniteSet(S \cup {x}) /\ Cardinality(S \cup {x}) =< n
<1>1. Cardinality(S) \in Nat
  BY FS_CardinalityType
<1>2. QED
  BY <1>1, FS_AddElement

LEMMA Busy ==
    ASSUME Types, NEW c \in CPUs, pc[c] # "idle"
    PROVE  /\ work[c] # <<>> /\ work[c] \in Seq(Tasks) /\ Head(work[c]) \in Tasks
           /\ Tail(work[c]) \in Seq(Tasks) /\ Target(c) \in Cgroups
           /\ Head(work[c]).kind \in Kinds
           /\ at[c] \in 1 .. now /\ Slot(at[c]) \in Slots
<1>1. work[c] # <<>> /\ work[c] \in Seq(Tasks) /\ at[c] \in 1 .. now /\ now \in Nat
  BY GeometryAssumption DEF Types, TypeOK, Shapes
<1>2. Head(work[c]) \in Tasks /\ Tail(work[c]) \in Seq(Tasks)
  BY <1>1
<1>3. QED
  BY <1>1, <1>2, SlotIn DEF Tasks, Target

(* SetBucket changes one bucket.                                           *)
LEMMA OneBucket ==
    ASSUME NEW n \in Nat, ring \in RingType(n), NEW c \in CPUs, Target(c) \in Cgroups,
           Slot(at[c]) \in Slots, NEW b \in BucketType(n)
    PROVE  /\ SetBucket(ring, c, b) \in RingType(n)
           /\ \A g \in Cgroups, d \in CPUs, s \in Slots :
                 SetBucket(ring, c, b)[g][d][s] =
                    IF g = Target(c) /\ d = c /\ s = Slot(at[c]) THEN b ELSE ring[g][d][s]
<1> DEFINE k == Target(c)  t == Slot(at[c])
<1>1. SetBucket(ring, c, b) = [ring EXCEPT ![k][c][t] = b]
  BY DEF SetBucket, Target
<1>2. k \in Cgroups /\ t \in Slots
  OBVIOUS
<1> HIDE DEF k, t
<1>3. ASSUME NEW g \in Cgroups, NEW d \in CPUs, NEW s \in Slots
      PROVE  [ring EXCEPT ![k][c][t] = b][g][d][s] = IF g = k /\ d = c /\ s = t THEN b ELSE ring[g][d][s]
  BY <1>2, <1>3 DEF RingType
<1>4. [ring EXCEPT ![k][c][t] = b] \in RingType(n)
  BY <1>2 DEF RingType
<1>5. QED
  BY <1>1, <1>3, <1>4 DEF k, t

LEMMA RingTyped == TypeOK => ring \in RingType(now)
BY DEF TypeOK, RingType, BucketType

LEMMA Typed ==
    ASSUME TypeOK
    PROVE  /\ now \in Nat /\ now \in 1 .. MaxEpoch /\ ref \in 1 .. now
           /\ at \in [CPUs -> 1 .. now] /\ log \in LogType
BY GeometryAssumption DEF TypeOK, LogType

(* A handler's bucket, and what it becomes.                                *)
LEMMA BucketTyped ==
    ASSUME Types, NEW c \in CPUs, pc[c] # "idle"
    PROVE  /\ Bucket(c) \in BucketType(now)
           /\ Bucket(c) = ring[Target(c)][c][Slot(at[c])]
<1>1. Target(c) \in Cgroups /\ Slot(at[c]) \in Slots
  BY Busy
<1>2. Bucket(c) = ring[Target(c)][c][Slot(at[c])]
  BY DEF Bucket, Target
<1>3. QED
  BY <1>1, <1>2, RingTyped DEF Types, RingType

LEMMA WakeupTypes ==
    ASSUME Types, NEW g \in Cgroups, Wakeup(g)
    PROVE  Types'
BY DEF Wakeup, Types, TypeOK, Shapes

LEMMA SwitchTypes ==
    ASSUME Types, NEW c \in CPUs, NEW next \in Cgroups \cup {Idle}, Switch(c, next)
    PROVE  Types'
<1> DEFINE w == SwitchCharges(c, next)
<1>1. w \in Seq(Tasks)
  <2>1. next \in woken => next \in Cgroups
    BY DEF Types, TypeOK
  <2>2. running[c] # Idle => running[c] \in Cgroups
    BY DEF Types, TypeOK
  <2> DEFINE cpu == [kind |-> "cpu", cgroup |-> running[c]]
             runq == [kind |-> "runq", cgroup |-> next]
  <2>3. (IF c \in started /\ running[c] # Idle THEN <<cpu>> ELSE <<>>) \in Seq(Tasks)
    <3>1. running[c] # Idle => cpu \in Tasks
      BY <2>2 DEF Tasks, Kinds
    <3> HIDE DEF cpu
    <3>2. QED
      BY <3>1
  <2>4. (IF next \in woken THEN <<runq>> ELSE <<>>) \in Seq(Tasks)
    <3>1. next \in woken => runq \in Tasks
      BY <2>1 DEF Tasks, Kinds
    <3> HIDE DEF runq
    <3>2. QED
      BY <3>1
  <2>5. QED
    BY <2>3, <2>4 DEF SwitchCharges
<1>2. /\ work' = [work EXCEPT ![c] = w]
      /\ pc' = [pc EXCEPT ![c] = IF w = <<>> THEN "idle" ELSE "look"]
      /\ at' = [at EXCEPT ![c] = IF w = <<>> THEN 1 ELSE now]
      /\ pc[c] = "idle"
      /\ running' = [running EXCEPT ![c] = next]
      /\ started' = started \cup {c} /\ woken' = woken \ {next}
      /\ UNCHANGED <<now, map, reader>>
  BY DEF Switch
<1> HIDE DEF w
<1>3. Shapes'
  BY <1>1, <1>2 DEF Types, Shapes
<1>4. at' \in [CPUs -> 1 .. now]
  BY <1>2, Typed DEF Types
<1>5. TypeOK'
  BY <1>1, <1>2, <1>4 DEF Types, TypeOK, Tasks, Shapes
<1>6. QED
  BY <1>3, <1>5 DEF Types

(* What going on to the next charge does to the handler's variables.       *)
LEMMA DoneTypes ==
    ASSUME Types, NEW c \in CPUs, pc[c] # "idle", Done(c), now' = now
    PROVE  /\ work' \in [CPUs -> Seq(Tasks)]
           /\ pc' \in [CPUs -> {"idle", "look", "zero", "add"}]
           /\ at' \in [CPUs -> 1 .. now']
           /\ \A d \in CPUs : pc'[d] = "idle" <=> work'[d] = <<>>
           /\ pc'[c] \in {"idle", "look"}
           /\ \A d \in CPUs \ {c} : pc'[d] = pc[d] /\ work'[d] = work[d] /\ at'[d] = at[d]
           /\ pc'[c] # "idle" => at'[c] = at[c]
<1>1. Tail(work[c]) \in Seq(Tasks) /\ at[c] \in 1 .. now /\ 1 \in 1 .. now
  BY Busy, Typed DEF Types
<1>2. QED
  BY <1>1 DEF Done, Types, TypeOK, Shapes

LEMMA LookTypes ==
    ASSUME Types, NEW c \in CPUs, Look(c)
    PROVE  Types'
<1>1. pc[c] = "look" /\ ~ held[c] /\ UNCHANGED <<now, task, reader>>
  BY DEF Look, Types, TypeOK
<1>2. Target(c) \in Cgroups /\ Slot(at[c]) \in Slots /\ at[c] \in 1 .. now
  BY <1>1, Busy
<1>3. CASE ~ Room(Target(c))
  <2>1. Done(c) /\ UNCHANGED map
    BY <1>3 DEF Look, Target
  <2>2. QED
    BY <1>1, <2>1, DoneTypes DEF Types, TypeOK, Shapes, Tasks
<1>4. CASE Room(Target(c))
  <2>1. /\ present' = present \cup {Target(c)}
        /\ ring' = SetBucket(ring, c, [Bucket(c) EXCEPT !.epoch = at[c]])
        /\ held' = [held EXCEPT ![c] = TRUE]
        /\ pc' = [pc EXCEPT ![c] = IF Bucket(c).epoch = at[c] THEN "add" ELSE "zero"]
        /\ UNCHANGED <<work, at, log>>
    BY <1>4 DEF Look, Target
  <2>2. [Bucket(c) EXCEPT !.epoch = at[c]] \in BucketType(now)
    BY <1>1, <1>2, BucketTyped, Typed DEF Types, BucketType
  <2>3. ring' \in RingType(now)
    BY <1>2, <2>1, <2>2, OneBucket, RingTyped, Typed DEF Types
  <2>4. IsFiniteSet(present') /\ Cardinality(present') =< Capacity
    BY <1>4, <2>1, AddedWithinSize, GeometryAssumption DEF Types, TypeOK, Shapes, Room
  <2>5. ring' \in [Cgroups -> [CPUs -> [Slots -> [epoch : 0 .. now', charges : SUBSET Charges]]]]
    BY <1>1, <2>3 DEF RingType, BucketType
  <2>6. TypeOK'
    BY <1>1, <1>2, <2>1, <2>4, <2>5 DEF Types, TypeOK
  <2>7. Shapes'
    BY <1>1, <2>1, <2>4 DEF Types, Shapes
  <2>8. QED
    BY <2>6, <2>7 DEF Types
<1>5. QED
  BY <1>3, <1>4

LEMMA ZeroTypes ==
    ASSUME Types, NEW c \in CPUs, Zero(c)
    PROVE  Types'
<1>1. /\ pc[c] = "zero" /\ pc' = [pc EXCEPT ![c] = "add"]
      /\ UNCHANGED <<now, task, work, at, held, present, log, reader>>
  BY DEF Zero
<1>2. Target(c) \in Cgroups /\ Slot(at[c]) \in Slots
  BY <1>1, Busy
<1>3. Emptied(Bucket(c)) \in BucketType(now)
  BY <1>1, BucketTyped DEF BucketType, Emptied
<1>4. ring' \in RingType(now)
  <2>1. CASE held[c]
    BY <1>2, <1>3, <2>1, OneBucket, RingTyped, Typed DEF Types, Zero
  <2>2. CASE ~ held[c]
    BY <2>2, RingTyped DEF Types, Zero
  <2>3. QED
    BY <2>1, <2>2
<1>5. ring' \in [Cgroups -> [CPUs -> [Slots -> [epoch : 0 .. now', charges : SUBSET Charges]]]]
  BY <1>1, <1>4 DEF RingType, BucketType
<1>6. TypeOK'
  BY <1>1, <1>5 DEF Types, TypeOK
<1>7. QED
  BY <1>1, <1>6 DEF Types, Shapes

LEMMA AddTypes ==
    ASSUME Types, NEW c \in CPUs, Add(c)
    PROVE  Types'
<1>1. /\ pc[c] = "add" /\ Done(c) /\ held' = [held EXCEPT ![c] = FALSE]
      /\ UNCHANGED <<now, task, present, reader>>
  BY DEF Add
<1>2. /\ Target(c) \in Cgroups /\ Slot(at[c]) \in Slots /\ at[c] \in 1 .. now
      /\ Head(work[c]).kind \in Kinds
  BY <1>1, Busy
<1> DEFINE x == <<Head(work[c]).kind, at[c]>>
<1>3. x \in Charges
  BY <1>2, Typed, GeometryAssumption DEF Charges, Types
<1>4. ring' \in RingType(now) /\ log' \in LogType
  <2>1. CASE held[c]
    <3>1. [Bucket(c) EXCEPT !.charges = @ \cup {x}] \in BucketType(now)
      BY <1>1, <1>3, BucketTyped DEF BucketType
    <3>2. /\ ring' = SetBucket(ring, c, [Bucket(c) EXCEPT !.charges = @ \cup {x}])
          /\ log' = [log EXCEPT ![Target(c)][c] = @ \cup {x}]
      BY <2>1 DEF Add, Target
    <3> HIDE DEF x
    <3>3. ring' \in RingType(now)
      BY <1>2, <3>1, <3>2, OneBucket, RingTyped, Typed DEF Types
    <3>4. log' \in LogType
      BY <1>2, <1>3, <3>2, Typed DEF Types, LogType
    <3>5. QED
      BY <3>3, <3>4
  <2>2. CASE ~ held[c]
    BY <2>2, RingTyped, Typed DEF Types, Add
  <2>3. QED
    BY <2>1, <2>2
<1>5. /\ ring' \in [Cgroups -> [CPUs -> [Slots -> [epoch : 0 .. now', charges : SUBSET Charges]]]]
      /\ log' \in [Cgroups -> [CPUs -> SUBSET Charges]]
  BY <1>1, <1>4 DEF RingType, BucketType, LogType
<1>6. TypeOK'
  BY <1>1, <1>5, DoneTypes DEF Types, TypeOK, Tasks
<1>7. Shapes'
  BY <1>1, DoneTypes DEF Types, Shapes
<1>8. QED
  BY <1>6, <1>7 DEF Types

LEMMA NothingTyped ==
    /\ NoSeries \in [Cgroups -> [Slots -> SUBSET (CPUs \X Charges)]]
    /\ NoLog \in LogType
    /\ \A n \in Nat \ {0} : NoneSettled \in
          [log : LogType, copied : [Cgroups -> 1 .. n], torn : [Cgroups -> SUBSET CPUs]]
BY DEF NoSeries, NoLog, NoneSettled, LogType

LEMMA ReadClockTypes ==
    ASSUME Types, ReadClock
    PROVE  Types'
<1>1. /\ UNCHANGED <<now, task, handler, map>> /\ series' = NoSeries
      /\ settled' = [NoneSettled EXCEPT !.log = log]
      /\ rpc' = "copy" /\ ref' = now /\ todo' = present /\ keys' = {}
  BY DEF ReadClock
<1>2. now \in Nat \ {0} /\ log \in LogType
  BY Typed DEF Types
<1>3. NoneSettled \in [log : LogType, copied : [Cgroups -> 1 .. now], torn : [Cgroups -> SUBSET CPUs]]
  BY <1>2, NothingTyped
<1>4. settled' \in [log : LogType, copied : [Cgroups -> 1 .. now], torn : [Cgroups -> SUBSET CPUs]]
  BY <1>1, <1>2, <1>3
<1>5. Shapes'
  BY <1>1, <1>4, NothingTyped DEF Types, Shapes
<1>6. ref' \in 1 .. now' /\ keys' \subseteq present' /\ todo' \subseteq present' \ keys'
  BY <1>1, <1>2
<1>7. TypeOK'
  BY <1>1, <1>6 DEF Types, TypeOK
<1>8. QED
  BY <1>5, <1>7 DEF Types

LEMMA CopyTypes ==
    ASSUME Types, NEW g \in Cgroups, Copy(g)
    PROVE  Types'
<1>1. /\ UNCHANGED <<now, task, handler, map, rpc, ref>>
      /\ series' = [series EXCEPT ![g] = Aligned(g)]
      /\ settled' = [settled EXCEPT !.copied[g] = now, !.torn[g] = Resetting(g)]
      /\ keys' = keys \cup {g} /\ todo' = todo \ {g} /\ g \in present
  BY DEF Copy
<1>2. Aligned(g) \in [Slots -> SUBSET (CPUs \X Charges)] /\ Resetting(g) \subseteq CPUs
  BY DEF Aligned, Resetting
<1>3. now \in 1 .. now
  BY Typed DEF Types
<1>4. settled' \in [log : LogType, copied : [Cgroups -> 1 .. now], torn : [Cgroups -> SUBSET CPUs]]
  BY <1>1, <1>2, <1>3 DEF Types, Shapes
<1>5. Shapes'
  BY <1>1, <1>2, <1>4 DEF Types, Shapes
<1>6. TypeOK'
  BY <1>1 DEF Types, TypeOK
<1>7. QED
  BY <1>5, <1>6 DEF Types

LEMMA ReturnTypes ==
    ASSUME Types, Return, UNCHANGED <<now, task, handler, map>>
    PROVE  Types'
<1>1. now \in Nat \ {0} /\ 1 \in 1 .. now
  BY Typed DEF Types
<1>2. Shapes'
  BY <1>1, NothingTyped DEF Return, Types, Shapes
<1>3. TypeOK'
  BY <1>1 DEF Return, Types, TypeOK
<1>4. QED
  BY <1>2, <1>3 DEF Types

LEMMA EndTypes ==
    ASSUME Types, EndCopy \/ EndDelete
    PROVE  Types'
<1>1. CASE Return /\ UNCHANGED <<now, task, handler, map>>
  BY <1>1, ReturnTypes
<1>2. CASE rpc' = "delete" /\ UNCHANGED <<now, task, handler, map, ref, series, todo, keys, settled>>
  BY <1>2 DEF Types, TypeOK, Shapes
<1>3. QED
  BY <1>1, <1>2 DEF EndCopy, EndDelete

LEMMA DeleteTypes ==
    ASSUME Types, NEW g \in Cgroups, Delete(g)
    PROVE  Types'
<1>1. /\ keys' = keys \ {g} /\ present' = present \ {g}
      /\ held' = [c \in CPUs |-> held[c] /\ Head(work[c]).cgroup # g]
      /\ log' = [log EXCEPT ![g] = NoLog[g]]
      /\ ring' = [ring EXCEPT ![g] = [c \in CPUs |-> Zeroed]]
      /\ UNCHANGED <<now, task, handler, rpc, ref, series, todo, settled>>
      /\ g \in keys
  BY DEF Delete
<1>2. IsFiniteSet(present') /\ Cardinality(present') =< Capacity
  <2>1. /\ IsFiniteSet(present') /\ Cardinality(present') =< Cardinality(present)
        /\ Cardinality(present') \in Nat /\ Cardinality(present) \in Nat
    BY <1>1, FS_Subset, FS_CardinalityType DEF Types, Shapes
  <2>2. QED
    BY <2>1, GeometryAssumption DEF Types, TypeOK
<1>3. /\ ring' \in [Cgroups -> [CPUs -> [Slots -> [epoch : 0 .. now', charges : SUBSET Charges]]]]
      /\ log' \in [Cgroups -> [CPUs -> SUBSET Charges]]
  <2>1. Zeroed \in [Slots -> [epoch : 0 .. now', charges : SUBSET Charges]]
    BY <1>1, Typed DEF Types, Zeroed
  <2>2. QED
    BY <1>1, <2>1, NothingTyped DEF Types, TypeOK, LogType
<1>4. TypeOK'
  BY <1>1, <1>2, <1>3 DEF Types, TypeOK
<1>5. QED
  BY <1>1, <1>2, <1>4 DEF Types, Shapes

LEMMA TickTypes ==
    ASSUME Types, Tick
    PROVE  Types'
<1>1. now' = now + 1 /\ now < MaxEpoch /\ UNCHANGED <<task, handler, map, reader>>
  BY DEF Tick
<1>2. 0 .. now \subseteq 0 .. now' /\ 1 .. now \subseteq 1 .. now' /\ now' \in 1 .. MaxEpoch
  BY <1>1, Typed, GeometryAssumption DEF Types
<1>3. ring' \in [Cgroups -> [CPUs -> [Slots -> [epoch : 0 .. now', charges : SUBSET Charges]]]]
  BY <1>1, <1>2 DEF Types, TypeOK
<1>4. TypeOK'
  BY <1>1, <1>2, <1>3 DEF Types, TypeOK
<1>5. Shapes'
  BY <1>1, <1>2 DEF Types, Shapes
<1>6. QED
  BY <1>4, <1>5 DEF Types

LEMMA StepTypes ==
    ASSUME Types, [Next]_vars
    PROVE  Types'
<1>1. CASE UNCHANGED vars
  BY <1>1 DEF vars, Types, TypeOK, Shapes
<1>2. QED
  BY <1>1, WakeupTypes, SwitchTypes, LookTypes, ZeroTypes, AddTypes, ReadClockTypes,
     CopyTypes, EndTypes, DeleteTypes, TickTypes DEF Next

-----------------------------------------------------------------------------
(* The ring and the log *)

LEMMA ChargeTyped ==
    ASSUME Types, NEW g \in Cgroups, NEW c \in CPUs
    PROVE  /\ \A x \in log[g][c] : x[2] \in Nat \ {0}
           /\ now \in Nat /\ at[c] \in Nat /\ Top(c) \in Nat /\ Top(c) =< now
           /\ Buckets \in Nat \ {0}
<1>1. now \in Nat /\ at[c] \in 1 .. now /\ log[g][c] \subseteq Charges
  BY Typed DEF Types, LogType
<1>2. QED
  BY <1>1, GeometryAssumption DEF Charges, Top

(* A step that leaves a ring alone, and moves its handler's window only    *)
(* forwards.                                                               *)
LEMMA RingKept ==
    ASSUME Types, Types', NEW g \in Cgroups, NEW c \in CPUs, RingAt(g, c),
           ring'[g][c] = ring[g][c], log'[g][c] = log[g][c], Top(c) =< Top(c)',
           c \in Resetting(g)' <=> c \in Resetting(g),
           c \in Resetting(g) => at'[c] = at[c],
           held'[c] /\ Target(c)' = g => held[c] /\ Target(c) = g /\ at'[c] = at[c]
    PROVE  RingAt(g, c)'
<1>1. InSlots(g, c)'
  BY DEF RingAt, InSlots
<1>2. InLog(g, c)'
  <2> SUFFICES ASSUME NEW x \in log[g][c]
               PROVE  /\ x[2] =< Top(c)'
                      /\ x[2] > Top(c)' - Buckets => x \in ring[g][c][Slot(x[2])].charges
                      /\ c \in Resetting(g)' => x[2] # at'[c]
    BY DEF InLog, Slot
  <2>1. x[2] \in Nat /\ Top(c) \in Nat /\ Top(c)' \in Nat /\ Buckets \in Nat
    <3>1. now' \in Nat /\ at'[c] \in Nat
      BY GeometryAssumption DEF Types, TypeOK
    <3>2. x[2] \in Nat /\ Top(c) \in Nat /\ Buckets \in Nat
      BY ChargeTyped
    <3>3. QED
      BY <3>1, <3>2 DEF Top
  <2>2. x[2] =< Top(c) /\ (x[2] > Top(c) - Buckets => x \in ring[g][c][Slot(x[2])].charges)
        /\ (c \in Resetting(g) => x[2] # at[c])
    BY DEF RingAt, InLog
  <2>3. QED
    BY <2>1, <2>2
<1>3. Stamped(g, c)'
  BY DEF RingAt, Stamped, Slot
<1>4. QED
  BY <1>1, <1>2, <1>3 DEF RingAt

LEMMA IsResetting ==
    \A g : \A c \in CPUs : c \in Resetting(g) <=> pc[c] = "zero" /\ held[c] /\ Target(c) = g
BY DEF Resetting, Target

(* Likewise when nothing of the handler changes.                           *)
LEMMA HandlerKept ==
    ASSUME Types, Types', NEW g \in Cgroups, NEW c \in CPUs, RingAt(g, c),
           ring'[g][c] = ring[g][c], log'[g][c] = log[g][c], now' = now \/ now' = now + 1,
           pc'[c] = pc[c], work'[c] = work[c], at'[c] = at[c], held'[c] = held[c]
    PROVE  RingAt(g, c)'
<1>1. Target(c)' = Target(c) /\ (c \in Resetting(g)' <=> c \in Resetting(g))
  BY DEF Target, Resetting
<1>2. Top(c) =< Top(c)'
  BY ChargeTyped DEF Top
<1>3. QED
  BY <1>1, <1>2, RingKept

(* A handler outside its reset that lets go of its bucket, or has none.    *)
LEMMA HandlerMoves ==
    ASSUME Types, Types', NEW g \in Cgroups, NEW c \in CPUs, RingAt(g, c),
           ring'[g][c] = ring[g][c], log'[g][c] = log[g][c], now' = now,
           c \notin Resetting(g), ~ held'[c],
           (at'[c] = at[c] /\ pc[c] # "idle") \/ pc'[c] = "idle" \/ at'[c] = now
    PROVE  RingAt(g, c)'
<1>1. Top(c) =< Top(c)'
  BY ChargeTyped DEF Top
<1>2. c \notin Resetting(g)'
  BY DEF Resetting
<1>3. QED
  BY <1>1, <1>2, RingKept

LEMMA SwitchRings ==
    ASSUME Types, Types', Rings, NEW c \in CPUs, NEW next \in Cgroups \cup {Idle}, Switch(c, next)
    PROVE  Rings'
<1> SUFFICES ASSUME NEW g \in Cgroups, NEW d \in CPUs PROVE RingAt(g, d)'
  BY DEF Rings
<1>1. RingAt(g, d)
  BY DEF Rings
<1>2. /\ pc[c] = "idle" /\ UNCHANGED <<now, ring, log, held>>
      /\ \A e \in CPUs \ {c} : pc'[e] = pc[e] /\ work'[e] = work[e] /\ at'[e] = at[e]
      /\ pc'[c] = "idle" \/ at'[c] = now
  BY DEF Switch, Types, TypeOK, Shapes
<1>3. CASE d # c
  BY <1>1, <1>2, <1>3, HandlerKept
<1>4. CASE d = c
  <2>1. ~ held'[c] /\ c \notin Resetting(g)
    BY <1>2, IsResetting DEF Types, TypeOK
  <2>2. QED
    BY <1>1, <1>2, <1>4, <2>1, HandlerMoves
<1>5. QED
  BY <1>3, <1>4

LEMMA LookRings ==
    ASSUME Types, Types', Rings, NEW c \in CPUs, Look(c)
    PROVE  Rings'
<1> SUFFICES ASSUME NEW g \in Cgroups, NEW d \in CPUs PROVE RingAt(g, d)'
  BY DEF Rings
<1>1. RingAt(g, d)
  BY DEF Rings
<1>2. pc[c] = "look" /\ ~ held[c] /\ now' = now
  BY DEF Look, Types, TypeOK
<1>3. /\ Target(c) \in Cgroups /\ Slot(at[c]) \in Slots /\ at[c] \in 1 .. now
      /\ Bucket(c) \in BucketType(now) /\ Bucket(c) = ring[Target(c)][c][Slot(at[c])]
  BY <1>2, Busy, BucketTyped
<1>4. CASE ~ Room(Target(c))
  <2>1. Done(c) /\ UNCHANGED map
    BY <1>4 DEF Look, Target
  <2>2. /\ \A e \in CPUs \ {c} : pc'[e] = pc[e] /\ work'[e] = work[e] /\ at'[e] = at[e]
        /\ pc'[c] # "idle" => at'[c] = at[c]
    BY <1>2, <2>1, DoneTypes
  <2>3. CASE d # c
    BY <1>1, <1>2, <2>1, <2>2, <2>3, HandlerKept
  <2>4. CASE d = c
    BY <1>1, <1>2, <2>1, <2>2, <2>4, HandlerMoves, IsResetting
  <2>5. QED
    BY <2>3, <2>4
<1>5. CASE Room(Target(c))
  <2> DEFINE b == [Bucket(c) EXCEPT !.epoch = at[c]]
  <2>1. /\ ring' = SetBucket(ring, c, b)
        /\ held' = [held EXCEPT ![c] = TRUE]
        /\ pc' = [pc EXCEPT ![c] = IF Bucket(c).epoch = at[c] THEN "add" ELSE "zero"]
        /\ UNCHANGED <<work, at, log>>
    BY <1>5 DEF Look, Target
  <2>2. b \in BucketType(now) /\ b.epoch = at[c] /\ b.charges = Bucket(c).charges
    BY <1>3, Typed DEF BucketType, Types
  <2> HIDE DEF b
  <2>3. /\ ring' \in RingType(now)
        /\ \A h \in Cgroups, e \in CPUs, s \in Slots :
              ring'[h][e][s] = IF h = Target(c) /\ e = c /\ s = Slot(at[c]) THEN b ELSE ring[h][e][s]
    BY <1>3, <2>1, <2>2, OneBucket, RingTyped, Typed DEF Types
  <2>4. CASE ~ (g = Target(c) /\ d = c)
    <3>1. ring'[g][d] = ring[g][d]
      BY <2>3, <2>4, RingTyped DEF Types, RingType
    <3>2. CASE d # c
      <4>1. pc'[d] = pc[d] /\ held'[d] = held[d]
        BY <2>1, <3>2 DEF Types, TypeOK
      <4>2. QED
        BY <1>1, <1>2, <2>1, <3>1, <4>1, HandlerKept
    <3>3. CASE d = c
      <4>1. Target(c)' = Target(c) /\ c \notin Resetting(g) /\ c \notin Resetting(g)'
        BY <1>2, <2>1, <2>4, <3>3 DEF Target, Resetting
      <4>2. Top(c) =< Top(c)'
        BY <1>2, <1>3, <2>1, Typed DEF Top, Types, TypeOK
      <4>3. QED
        BY <1>1, <2>1, <2>4, <3>1, <3>3, <4>1, <4>2, RingKept
    <3>4. QED
      BY <3>2, <3>3
  <2>5. CASE g = Target(c) /\ d = c
    <3>1. /\ c \notin Resetting(g) /\ Target(c)' = g /\ at'[c] = at[c] /\ held'[c]
          /\ pc'[c] = IF Bucket(c).epoch = at[c] THEN "add" ELSE "zero"
          /\ c \in Resetting(g)' <=> Bucket(c).epoch # at[c]
      BY <1>2, <2>1, <2>5 DEF Target, Resetting, Types, TypeOK
    <3>2. Top(c) = at[c] /\ Top(c)' = at[c]
      BY <1>2, <3>1 DEF Top
    <3>3. \A s \in Slots : /\ ring'[g][c][s].charges = ring[g][c][s].charges
                           /\ ring'[g][c][s].epoch = IF s = Slot(at[c]) THEN at[c] ELSE ring[g][c][s].epoch
      BY <1>3, <2>2, <2>3, <2>5
    <3>4. InSlots(g, c)'
      BY <1>1, <1>3, <2>1, <2>5, <3>1, <3>3 DEF RingAt, InSlots, Slot
    <3>5. InLog(g, c)'
      <4> SUFFICES ASSUME NEW x \in log[g][c]
                   PROVE  /\ x[2] =< Top(c)'
                          /\ x[2] > Top(c)' - Buckets => x \in ring'[g][c][Slot(x[2])].charges
                          /\ c \in Resetting(g)' => x[2] # at'[c]
        BY <2>1 DEF InLog, Slot
      <4>1. /\ x[2] =< Top(c) /\ (x[2] > Top(c) - Buckets => x \in ring[g][c][Slot(x[2])].charges)
        BY <1>1, <2>5 DEF RingAt, InLog
      <4>2. x[2] \in Nat /\ Slot(x[2]) \in Slots /\ at[c] \in Nat /\ Buckets \in Nat \ {0}
        BY ChargeTyped, SlotIn
      <4>3. ASSUME x[2] = at[c] PROVE Bucket(c).epoch = at[c]
        <5>1. x \in ring[g][c][Slot(at[c])].charges
          BY <3>2, <4>1, <4>2, <4>3
        <5>2. QED
          BY <1>1, <1>3, <2>5, <3>1, <4>3, <5>1 DEF RingAt, InSlots
      <4>4. QED
        BY <3>1, <3>2, <3>3, <4>1, <4>2, <4>3
    <3>6. Stamped(g, c)'
      BY <1>3, <3>1, <3>3 DEF Stamped, Slot
    <3>7. QED
      BY <2>5, <3>4, <3>5, <3>6 DEF RingAt
  <2>6. QED
    BY <2>4, <2>5
<1>6. QED
  BY <1>4, <1>5

LEMMA ZeroRings ==
    ASSUME Types, Types', Rings, NEW c \in CPUs, Zero(c)
    PROVE  Rings'
<1> SUFFICES ASSUME NEW g \in Cgroups, NEW d \in CPUs PROVE RingAt(g, d)'
  BY DEF Rings
<1>1. RingAt(g, d)
  BY DEF Rings
<1>2. /\ pc[c] = "zero" /\ pc' = [pc EXCEPT ![c] = "add"]
      /\ UNCHANGED <<now, work, at, held, log>>
  BY DEF Zero
<1>3. pc'[c] = "add" /\ \A e \in CPUs \ {c} : pc'[e] = pc[e]
  BY <1>2 DEF Types, TypeOK
<1>4. /\ Target(c) \in Cgroups /\ Slot(at[c]) \in Slots
      /\ Bucket(c) \in BucketType(now) /\ Bucket(c) = ring[Target(c)][c][Slot(at[c])]
  BY <1>2, Busy, BucketTyped
<1>5. Target(c)' = Target(c) /\ Top(c) = at[c] /\ Top(c)' = at[c] /\ at[c] \in Nat
  BY <1>2, <1>3, ChargeTyped DEF Target, Top
<1>6. CASE ~ held[c] \/ ~ (g = Target(c) /\ d = c)
  <2>1. ring'[g][d] = ring[g][d]
    <3>1. CASE ~ held[c]
      BY <3>1 DEF Zero
    <3>2. CASE held[c]
      <4>1. Emptied(Bucket(c)) \in BucketType(now) /\ ring' = SetBucket(ring, c, Emptied(Bucket(c)))
        BY <1>4, <3>2 DEF BucketType, Emptied, Zero
      <4>2. /\ ring' \in RingType(now)
            /\ \A s \in Slots : ring'[g][d][s] = ring[g][d][s]
        BY <1>4, <1>6, <3>2, <4>1, OneBucket, RingTyped, Typed DEF Types
      <4>3. QED
        BY <4>2, RingTyped DEF Types, RingType
    <3>3. QED
      BY <3>1, <3>2
  <2>2. CASE d # c
    BY <1>1, <1>2, <1>3, <2>1, <2>2, HandlerKept
  <2>3. CASE d = c
    <3>1. c \notin Resetting(g) /\ c \notin Resetting(g)'
      BY <1>2, <1>3, <1>6, <2>3 DEF Resetting, Target
    <3>2. QED
      BY <1>1, <1>2, <1>5, <2>1, <2>3, <3>1, RingKept
  <2>4. QED
    BY <2>2, <2>3
<1>7. CASE held[c] /\ g = Target(c) /\ d = c
  <2>1. Emptied(Bucket(c)) \in BucketType(now) /\ ring' = SetBucket(ring, c, Emptied(Bucket(c)))
        /\ Emptied(Bucket(c)).charges = {} /\ Emptied(Bucket(c)).epoch = Bucket(c).epoch
    BY <1>4, <1>7 DEF BucketType, Emptied, Zero
  <2>2. \A s \in Slots : ring'[g][c][s] = IF s = Slot(at[c]) THEN Emptied(Bucket(c)) ELSE ring[g][c][s]
    BY <1>4, <1>7, <2>1, OneBucket, RingTyped, Typed DEF Types
  <2>3. c \in Resetting(g) /\ c \notin Resetting(g)'
    BY <1>2, <1>3, <1>7 DEF Resetting, Target
  <2>4. InSlots(g, c)'
    BY <1>1, <1>2, <1>7, <2>1, <2>2 DEF RingAt, InSlots
  <2>5. InLog(g, c)'
    <3> SUFFICES ASSUME NEW x \in log[g][c]
                 PROVE  /\ x[2] =< at[c]
                        /\ x[2] > at[c] - Buckets => x \in ring'[g][c][Slot(x[2])].charges
      BY <1>2, <1>5, <2>3 DEF InLog, Slot
    <3>1. /\ x[2] =< at[c] /\ x[2] # at[c]
          /\ x[2] > at[c] - Buckets => x \in ring[g][c][Slot(x[2])].charges
      BY <1>1, <1>5, <1>7, <2>3 DEF RingAt, InLog
    <3>2. x[2] \in Nat /\ Slot(x[2]) \in Slots /\ Buckets \in Nat
      BY ChargeTyped, SlotIn
    <3>3. x[2] > at[c] - Buckets => Slot(x[2]) # Slot(at[c])
      BY <1>5, <3>1, <3>2, SameSlot
    <3>4. QED
      BY <2>2, <3>1, <3>2, <3>3
  <2>6. Stamped(g, c)'
    BY <1>1, <1>2, <1>4, <1>5, <1>7, <2>1, <2>2 DEF RingAt, Stamped, Slot
  <2>7. QED
    BY <1>7, <2>4, <2>5, <2>6 DEF RingAt
<1>8. QED
  BY <1>6, <1>7

LEMMA AddRings ==
    ASSUME Types, Types', Rings, NEW c \in CPUs, Add(c)
    PROVE  Rings'
<1> SUFFICES ASSUME NEW g \in Cgroups, NEW d \in CPUs PROVE RingAt(g, d)'
  BY DEF Rings
<1>1. RingAt(g, d)
  BY DEF Rings
<1>2. pc[c] = "add" /\ Done(c) /\ held' = [held EXCEPT ![c] = FALSE] /\ now' = now
  BY DEF Add
<1>3. /\ \A e \in CPUs \ {c} : /\ pc'[e] = pc[e] /\ work'[e] = work[e] /\ at'[e] = at[e]
                               /\ held'[e] = held[e]
      /\ pc'[c] # "idle" => at'[c] = at[c]
      /\ ~ held'[c]
  BY <1>2, DoneTypes DEF Types, TypeOK
<1>4. /\ Target(c) \in Cgroups /\ Slot(at[c]) \in Slots /\ at[c] \in 1 .. now
      /\ Head(work[c]).kind \in Kinds
      /\ Bucket(c) \in BucketType(now) /\ Bucket(c) = ring[Target(c)][c][Slot(at[c])]
  BY <1>2, Busy, BucketTyped
<1>5. c \notin Resetting(g) /\ c \notin Resetting(g)'
  BY <1>2, <1>3 DEF Resetting
<1> DEFINE x == <<Head(work[c]).kind, at[c]>>
           b == [Bucket(c) EXCEPT !.charges = @ \cup {x}]
<1>6. x \in Charges /\ x[2] = at[c]
  BY <1>4, Typed, GeometryAssumption DEF Charges, Types
<1>7. b \in BucketType(now) /\ b.charges = Bucket(c).charges \cup {x} /\ b.epoch = Bucket(c).epoch
  BY <1>4, <1>6 DEF BucketType
<1>8. held[c] => ring' = SetBucket(ring, c, b) /\ log' = [log EXCEPT ![Target(c)][c] = @ \cup {x}]
  BY DEF Add, Target
<1> HIDE DEF x, b
<1>9. CASE ~ held[c] \/ ~ (g = Target(c) /\ d = c)
  <2>1. ring'[g][d] = ring[g][d] /\ log'[g][d] = log[g][d]
    <3>1. CASE ~ held[c]
      BY <3>1 DEF Add
    <3>2. CASE held[c]
      <4>1. /\ ring' \in RingType(now)
            /\ \A s \in Slots : ring'[g][d][s] = ring[g][d][s]
        BY <1>4, <1>7, <1>8, <1>9, <3>2, OneBucket, RingTyped, Typed DEF Types
      <4>2. log'[g][d] = log[g][d]
        BY <1>4, <1>8, <1>9, <3>2, Typed DEF Types, LogType
      <4>3. QED
        BY <4>1, <4>2, RingTyped DEF Types, RingType
    <3>3. QED
      BY <3>1, <3>2
  <2>2. CASE d # c
    BY <1>1, <1>2, <1>3, <2>1, <2>2, HandlerKept
  <2>3. CASE d = c
    BY <1>1, <1>2, <1>3, <1>5, <2>1, <2>3, HandlerMoves
  <2>4. QED
    BY <2>2, <2>3
<1>10. CASE held[c] /\ g = Target(c) /\ d = c
  <2>1. \A s \in Slots : ring'[g][c][s] = IF s = Slot(at[c]) THEN b ELSE ring[g][c][s]
    BY <1>4, <1>7, <1>8, <1>10, OneBucket, RingTyped, Typed DEF Types
  <2>2. log'[g][c] = log[g][c] \cup {x}
    BY <1>4, <1>8, <1>10, Typed DEF Types, LogType
  <2>3. Bucket(c).epoch = at[c]
    BY <1>1, <1>4, <1>10 DEF RingAt, Stamped
  <2>4. InSlots(g, c)'
    <3> SUFFICES ASSUME NEW s \in Slots, NEW y \in ring'[g][c][s].charges
                 PROVE  y \in log'[g][c] /\ y[2] = ring'[g][c][s].epoch
      BY DEF InSlots
    <3>1. CASE s = Slot(at[c]) /\ y = x
      BY <1>6, <1>7, <2>1, <2>2, <2>3, <3>1
    <3>2. CASE ~ (s = Slot(at[c]) /\ y = x)
      <4>1. y \in ring[g][c][s].charges /\ ring'[g][c][s].epoch = ring[g][c][s].epoch
        BY <1>4, <1>7, <1>10, <2>1, <3>2
      <4>2. QED
        BY <1>1, <1>5, <1>10, <2>2, <4>1 DEF RingAt, InSlots
    <3>3. QED
      BY <3>1, <3>2
  <2>5. InLog(g, c)'
    <3>1. Top(c) = at[c] /\ Top(c)' \in {at[c], now} /\ at[c] \in Nat /\ now \in Nat
          /\ at[c] =< now /\ Buckets \in Nat
      BY <1>2, <1>3, <1>4, ChargeTyped DEF Top
    <3> SUFFICES ASSUME NEW y \in log'[g][c]
                 PROVE  /\ y[2] =< Top(c)'
                        /\ y[2] > Top(c)' - Buckets => y \in ring'[g][c][Slot(y[2])].charges
      BY <1>5 DEF InLog, Slot
    <3>2. CASE y = x
      BY <1>4, <1>6, <1>7, <2>1, <3>1, <3>2
    <3>3. CASE y # x
      <4>1. y \in log[g][c] /\ y[2] \in Nat /\ Slot(y[2]) \in Slots
        BY <2>2, <3>3, ChargeTyped, SlotIn
      <4>2. /\ y[2] =< at[c]
            /\ y[2] > at[c] - Buckets => y \in ring[g][c][Slot(y[2])].charges
        BY <1>1, <1>10, <3>1, <4>1 DEF RingAt, InLog
      <4>3. ring[g][c][Slot(y[2])].charges \subseteq ring'[g][c][Slot(y[2])].charges
        BY <1>4, <1>7, <1>10, <2>1, <4>1
      <4>4. QED
        BY <3>1, <4>1, <4>2, <4>3
    <3>4. QED
      BY <3>2, <3>3
  <2>6. Stamped(g, c)'
    BY <1>3 DEF Stamped
  <2>7. QED
    BY <1>10, <2>4, <2>5, <2>6 DEF RingAt
<1>11. QED
  BY <1>9, <1>10

LEMMA DeleteRings ==
    ASSUME Types, Types', Rings, NEW k \in Cgroups, Delete(k)
    PROVE  Rings'
<1> SUFFICES ASSUME NEW g \in Cgroups, NEW c \in CPUs PROVE RingAt(g, c)'
  BY DEF Rings
<1>1. RingAt(g, c)
  BY DEF Rings
<1>2. /\ held'[c] = (held[c] /\ Target(c) # k)
      /\ UNCHANGED <<now, pc, work, at>> /\ Target(c)' = Target(c)
  BY DEF Delete, Target
<1>3. CASE g = k
  <2>1. log'[g][c] = {} /\ ring'[g][c] = Zeroed
    BY <1>3 DEF Delete, NoLog, Types, TypeOK
  <2>2. \A s \in Slots : ring'[g][c][s].charges = {}
    BY <2>1 DEF Zeroed
  <2>3. InSlots(g, c)' /\ InLog(g, c)'
    BY <2>1, <2>2 DEF InSlots, InLog
  <2>4. Stamped(g, c)'
    BY <1>2, <1>3 DEF Stamped
  <2>5. QED
    BY <2>3, <2>4 DEF RingAt
<1>4. CASE g # k
  <2>1. log'[g][c] = log[g][c] /\ ring'[g][c] = ring[g][c]
    BY <1>4 DEF Delete, Types, TypeOK
  <2>2. c \in Resetting(g)' <=> c \in Resetting(g)
    BY <1>2, <1>4 DEF Resetting, Target
  <2>3. Top(c) =< Top(c)'
    BY <1>2, ChargeTyped DEF Top
  <2>4. QED
    BY <1>1, <1>2, <2>1, <2>2, <2>3, RingKept
<1>5. QED
  BY <1>3, <1>4

LEMMA StepRings ==
    ASSUME Types, Types', Rings, [Next]_vars
    PROVE  Rings'
<1>1. ASSUME UNCHANGED <<handler, map>>, now' = now \/ now' = now + 1
      PROVE  Rings'
  BY <1>1, HandlerKept DEF Rings
<1>2. ASSUME NEW g \in Cgroups, Wakeup(g) \/ Copy(g) PROVE Rings'
  BY <1>1, <1>2 DEF Wakeup, Copy
<1>3. CASE ReadClock \/ EndCopy \/ EndDelete \/ Tick \/ UNCHANGED vars
  BY <1>1, <1>3 DEF ReadClock, EndCopy, EndDelete, Tick, vars
<1>4. QED
  BY <1>2, <1>3, SwitchRings, LookRings, ZeroRings, AddRings, DeleteRings DEF Next

-----------------------------------------------------------------------------
(* The reader *)

(* Until it deletes, nothing that was charged is lost from the log.        *)
LEMMA LogGrows ==
    ASSUME Types, Types', [Next]_vars, rpc # "delete", NEW g \in Cgroups, NEW c \in CPUs
    PROVE  log[g][c] \subseteq log'[g][c]
<1>1. ASSUME NEW d \in CPUs, Add(d), held[d]
      PROVE  log[g][c] \subseteq log'[g][c]
  <2>1. Target(d) \in Cgroups
    BY <1>1, Busy DEF Add
  <2>2. log' = [log EXCEPT ![Target(d)][d] = @ \cup {<<Head(work[d]).kind, at[d]>>}]
    BY <1>1 DEF Add, Target
  <2>3. QED
    BY <2>1, <2>2, Typed DEF Types, LogType
<1>2. (\E d \in CPUs : Add(d) /\ held[d]) \/ log' = log
  BY DEF Next, vars, Wakeup, Copy, Delete, Switch, Look, Zero, Add, ReadClock, EndCopy, EndDelete, Tick
<1>3. QED
  BY <1>1, <1>2

LEMMA StepEarlier ==
    ASSUME Types, Types', Rings, Earlier, [Next]_vars
    PROVE  Earlier'
<1>1. CASE ReadClock
  <2>1. settled'.log = log /\ ref' = now /\ log' = log
    BY <1>1 DEF ReadClock, NoneSettled
  <2>2. \A g \in Cgroups, c \in CPUs : \A x \in log[g][c] : x[2] =< now
    <3> SUFFICES ASSUME NEW g \in Cgroups, NEW c \in CPUs, NEW x \in log[g][c] PROVE x[2] =< now
      OBVIOUS
    <3>1. x[2] \in Nat /\ Top(c) \in Nat /\ now \in Nat /\ Top(c) =< now
      BY ChargeTyped
    <3>2. x[2] =< Top(c)
      BY DEF Rings, RingAt, InLog
    <3>3. QED
      BY <3>1, <3>2
  <2>3. QED
    BY <2>1, <2>2 DEF Earlier
<1>2. CASE Return
  <2>1. settled'.log = NoLog /\ rpc' = "idle"
    BY <1>2 DEF Return, NoneSettled
  <2>2. QED
    BY <2>1 DEF Earlier, NoLog
<1>3. CASE settled'.log = settled.log /\ ref' = ref /\ (rpc' = "copy" => rpc = "copy")
  BY <1>3, LogGrows DEF Earlier
<1>4. ReadClock \/ Return \/ (settled'.log = settled.log /\ ref' = ref /\ (rpc' = "copy" => rpc = "copy"))
  <2>1. ASSUME NEW g \in Cgroups, Copy(g)
        PROVE  settled'.log = settled.log /\ ref' = ref /\ rpc' = rpc
    BY <2>1 DEF Copy, Types, Shapes
  <2>2. QED
    BY <2>1 DEF Next, vars, Wakeup, Delete, Switch, Look, Zero, Add, EndCopy, EndDelete, Tick
<1>5. QED
  BY <1>1, <1>2, <1>3, <1>4

(* A charge of the last Buckets windows is in its slot, under its epoch:   *)
(* the one slot that may hold an older window's is not its slot.           *)
LEMMA InItsSlot ==
    ASSUME Types, Rings, NEW g \in Cgroups, NEW c \in CPUs, NEW x \in log[g][c],
           x[2] > now - Buckets
    PROVE  /\ Slot(x[2]) \in Slots /\ x \in ring[g][c][Slot(x[2])].charges
           /\ ring[g][c][Slot(x[2])].epoch = x[2]
<1>1. /\ x[2] \in Nat /\ now \in Nat /\ at[c] \in Nat /\ Top(c) \in Nat /\ Top(c) =< now
      /\ Buckets \in Nat /\ Slot(x[2]) \in Slots
  BY ChargeTyped, SlotIn
<1>2. /\ x[2] =< Top(c) /\ (x[2] > Top(c) - Buckets => x \in ring[g][c][Slot(x[2])].charges)
      /\ (c \in Resetting(g) => x[2] # at[c])
  BY DEF Rings, RingAt, InLog
<1>3. x \in ring[g][c][Slot(x[2])].charges
  BY <1>1, <1>2
<1>4. ~ (c \in Resetting(g) /\ Slot(x[2]) = Slot(at[c]))
  <2> SUFFICES ASSUME c \in Resetting(g), Slot(x[2]) = Slot(at[c]) PROVE FALSE
    OBVIOUS
  <2>1. Top(c) = at[c]
    BY DEF Resetting, Top
  <2>2. at[c] - Buckets < x[2] /\ x[2] =< at[c]
    BY <1>1, <1>2, <2>1
  <2>3. at[c] = x[2]
    BY <1>1, <2>2, SameSlot
  <2>4. QED
    BY <1>2, <2>3
<1>5. QED
  BY <1>1, <1>3, <1>4 DEF Rings, RingAt, InSlots

LEMMA CopySettled ==
    ASSUME Types, Rings, Earlier, SettledIsRead, NEW g \in Cgroups, Copy(g)
    PROVE  SettledIsRead'
<1>1. /\ rpc = "copy" /\ ref' = ref /\ keys' = keys \cup {g}
      /\ series'[g] = Aligned(g) /\ \A h \in Cgroups \ {g} : series'[h] = series[h]
      /\ settled'.log = settled.log /\ settled'.copied[g] = now
      /\ \A h \in Cgroups \ {g} : settled'.copied[h] = settled.copied[h]
  BY DEF Copy, Types, Shapes
<1> SUFFICES ASSUME NEW h \in keys', NEW c \in CPUs, NEW x \in settled.log[h][c],
                    x[2] \in Window(settled'.copied[h])
             PROVE  <<c, x>> \in series'[h][Position(x[2])]
  BY <1>1 DEF SettledIsRead, Position
<1>2. h \in Cgroups
  BY <1>1 DEF Types, TypeOK
<1>3. CASE h # g
  BY <1>1, <1>2, <1>3 DEF SettledIsRead
<1>4. CASE h = g
  <2>1. x \in log[g][c] /\ x[2] =< ref
    BY <1>1, <1>4 DEF Earlier
  <2>2. x[2] > now - Buckets
    BY <1>1, <1>4 DEF Window
  <2>3. /\ Slot(x[2]) \in Slots /\ x \in ring[g][c][Slot(x[2])].charges
        /\ ring[g][c][Slot(x[2])].epoch = x[2]
    BY <2>1, <2>2, InItsSlot
  <2>4. x[2] \in Nat \ {0} /\ now \in Nat /\ ref \in Nat /\ ref =< now /\ Buckets \in Nat \ {0}
    BY <2>1, ChargeTyped, Typed DEF Types
  <2>5. OnAxis(ring[g][c][Slot(x[2])]) /\ Position(x[2]) \in Slots
    BY <2>1, <2>2, <2>3, <2>4 DEF OnAxis, Position, Slots
  <2>6. x \in Charges
    BY <2>1, Typed DEF Types, LogType
  <2>7. <<c, x>> \in Aligned(g)[Position(x[2])]
    BY <2>3, <2>5, <2>6 DEF Aligned
  <2>8. QED
    BY <1>1, <1>4, <2>7
<1>5. QED
  BY <1>3, <1>4

LEMMA CopyMixed ==
    ASSUME Types, Rings, MixedOnlyInReset, NEW g \in Cgroups, Copy(g)
    PROVE  MixedOnlyInReset'
<1>1. /\ ref' = ref /\ keys' = keys \cup {g}
      /\ series'[g] = Aligned(g) /\ \A h \in Cgroups \ {g} : series'[h] = series[h]
      /\ settled'.torn[g] = Resetting(g)
      /\ \A h \in Cgroups \ {g} : settled'.torn[h] = settled.torn[h]
  BY DEF Copy, Types, Shapes
<1> SUFFICES ASSUME NEW h \in keys', NEW p \in Slots, NEW x \in series'[h][p]
             PROVE  Position(x[2][2]) = p \/ x[1] \in settled'.torn[h]
  BY <1>1 DEF MixedOnlyInReset, Position
<1>2. h \in Cgroups
  BY <1>1 DEF Types, TypeOK
<1>3. CASE h # g
  BY <1>1, <1>2, <1>3 DEF MixedOnlyInReset
<1>4. CASE h = g
  <2>1. x \in CPUs \X Charges /\ x[1] \in CPUs
    BY <1>1, <1>4 DEF Aligned
  <2>2. PICK s \in Slots : /\ x[2] \in ring[g][x[1]][s].charges
                           /\ Position(ring[g][x[1]][s].epoch) = p
    BY <1>1, <1>4 DEF Aligned
  <2>3. x[2][2] = ring[g][x[1]][s].epoch \/ x[1] \in Resetting(g)
    BY <2>1, <2>2 DEF Rings, RingAt, InSlots
  <2>4. QED
    BY <1>1, <1>4, <2>2, <2>3
<1>5. QED
  BY <1>3, <1>4

LEMMA StepReader ==
    ASSUME Types, Rings, Earlier, SettledIsRead, MixedOnlyInReset, [Next]_vars
    PROVE  SettledIsRead' /\ MixedOnlyInReset'
<1>1. CASE keys' = {}
  BY <1>1 DEF SettledIsRead, MixedOnlyInReset
<1>2. CASE keys' \subseteq keys /\ UNCHANGED <<ref, series, settled>> /\ (rpc' # "idle" => rpc # "idle")
  BY <1>2 DEF SettledIsRead, MixedOnlyInReset, Position
<1>3. \/ \E g \in Cgroups : Copy(g)
      \/ keys' = {}
      \/ keys' \subseteq keys /\ UNCHANGED <<ref, series, settled>> /\ (rpc' # "idle" => rpc # "idle")
  BY DEF Next, vars, Wakeup, Delete, Switch, Look, Zero, Add, ReadClock, Return, EndCopy, EndDelete, Tick
<1>4. QED
  BY <1>1, <1>2, <1>3, CopySettled, CopyMixed

-----------------------------------------------------------------------------
LEMMA InitHolds == Init => IInv
<1> SUFFICES ASSUME Init PROVE IInv
  OBVIOUS
<1>1. now \in Nat \ {0} /\ 1 \in 1 .. now /\ now \in 1 .. MaxEpoch
  BY GeometryAssumption DEF Init
<1>2. Shapes
  BY <1>1, NothingTyped, FS_EmptySet DEF Init, Shapes
<1>3. ring \in [Cgroups -> [CPUs -> [Slots -> [epoch : 0 .. now, charges : SUBSET Charges]]]]
  <2>1. Zeroed \in [Slots -> [epoch : 0 .. now, charges : SUBSET Charges]]
    BY <1>1 DEF Zeroed
  <2>2. QED
    BY <2>1 DEF Init
<1>4. TypeOK
  <2>1. Cardinality(present) =< Capacity
    BY FS_EmptySet, GeometryAssumption DEF Init
  <2>2. QED
    BY <1>1, <1>3, <2>1, NothingTyped DEF Init, TypeOK, LogType
<1>5. Rings
  <2> SUFFICES ASSUME NEW g \in Cgroups, NEW c \in CPUs PROVE RingAt(g, c)
    BY DEF Rings
  <2>1. log[g][c] = {} /\ ~ held[c] /\ \A s \in Slots : ring[g][c][s].charges = {}
    BY DEF Init, NoLog, Zeroed
  <2>2. QED
    BY <2>1 DEF RingAt, InSlots, InLog, Stamped
<1>6. Earlier /\ SettledIsRead /\ MixedOnlyInReset
  BY DEF Init, Earlier, NoneSettled, NoLog, SettledIsRead, MixedOnlyInReset
<1>7. QED
  BY <1>2, <1>4, <1>5, <1>6 DEF IInv, Types

LEMMA Invariance == Spec => []IInv
<1>1. IInv /\ [Next]_vars => IInv'
  BY StepTypes, StepRings, StepEarlier, StepReader DEF IInv
<1>2. QED
  BY InitHolds, <1>1, PTL DEF Spec

(* The map keeps within its capacity and every bucket within the windows   *)
(* there have been (sched_timeline_map, get_timeline_bucket).              *)
THEOREM TypeCorrect == Spec => []TypeOK
<1>1. IInv => TypeOK
  BY DEF IInv, Types
<1>2. QED
  BY <1>1, Invariance, PTL

(* However often it wraps, a ring whose CPU is not in its handler holds    *)
(* the charges of its last Buckets windows, each in its slot and nothing   *)
(* else (get_timeline_bucket's lazy reset).                                *)
THEOREM RingKeepsTheLastWindows == Spec => []RingIsLog
<1>1. IInv => RingIsLog
  <2> SUFFICES ASSUME IInv, NEW g \in present, NEW c \in CPUs, pc[c] = "idle"
               PROVE  /\ \A s \in Slots : \A x \in ring[g][c][s].charges :
                            x[2] = ring[g][c][s].epoch /\ x \in log[g][c]
                      /\ \A x \in log[g][c] : x[2] \in Window(now) => x \in ring[g][c][Slot(x[2])].charges
    BY DEF RingIsLog
  <2>1. g \in Cgroups
    BY DEF IInv, Types, TypeOK
  <2>2. c \notin Resetting(g)
    BY DEF Resetting
  <2>3. ASSUME NEW x \in log[g][c], x[2] \in Window(now)
        PROVE  x \in ring[g][c][Slot(x[2])].charges
    <3>1. x[2] > now - Buckets
      BY <2>3 DEF Window
    <3>2. QED
      BY <2>1, <3>1, InItsSlot DEF IInv
  <2>4. QED
    BY <2>1, <2>2, <2>3 DEF IInv, Rings, RingAt, InSlots
<1>2. QED
  BY <1>1, Invariance, PTL

(* ReadTimeline returns every charge that was settled when it read the     *)
(* clock and is still in the ring, at its window's place on the axis.      *)
THEOREM SettledChargesAreRead == Spec => []SettledIsRead
<1>1. IInv => SettledIsRead
  BY DEF IInv
<1>2. QED
  BY <1>1, Invariance, PTL

(* Between the store of a slot's new epoch and the zeroing of its counters *)
(* is the only place where a copy can mix two windows.                     *)
THEOREM WindowsMixOnlyInReset == Spec => []MixedOnlyInReset
<1>1. IInv => MixedOnlyInReset
  BY DEF IInv
<1>2. QED
  BY <1>1, Invariance, PTL
=============================================================================
