---------------------------- MODULE ObserversProofs ----------------------------
(***************************************************************************)
(* The books of the observers balance, for any number of CPUs, cgroups,    *)
(* requests and events: no event is counted twice unless a delete failed,  *)
(* one is missing only when it raced a delete or met a full map, and the   *)
(* histogram and the count of a Read are apart by events of its moment.    *)
(***************************************************************************)
EXTENDS Observers, FiniteSums

-----------------------------------------------------------------------------
(* The invariant *)

(* The maps are finite, so that their sizes can be counted.                *)
Finite == IsFiniteSet(Begun) /\ IsFiniteSet(present)

(* What the reader holds in each of its phases.                            *)
Phases ==
    /\ rpc = "idle" => \A g \in Cgroups : seen[g] = {}
    /\ rpc = "half" => at.cpu \notin seen[at.cgroup]
    /\ rpc = "delete" => todo = {} /\ \A g \in Cgroups : Whole(g)
    /\ rpc # "delete" => \A g \in Cgroups : seen[g] = {} => out[g] = Zero

(* A copy's histogram is ahead of its count only while its CPU is between  *)
(* the two additions.                                                      *)
Between(g, c) == held[c] /\ pc[c] = "count" /\ cgroup[c] = g
SkewedAt(g, c) ==
    value[g][c].slots = value[g][c].count + (IF Between(g, c) THEN 1 ELSE 0)
Skewed == \A g \in Cgroups, c \in CPUs : SkewedAt(g, c)

(* The histogram in hand is of the copy's past: its events are in the      *)
(* count by now, but for the one being added, and what it lacks has raced. *)
HalfRead ==
    rpc = "half" =>
        LET now == value[at.cgroup][at.cpu]
            has == out[at.cgroup]
        IN  /\ at.slots =< now.count + 1
            /\ has.count + now.slots =< has.slots + at.slots + raced[at.cgroup]

(* Each copy that was read adds at most one event to the histogram alone.  *)
Ahead ==
    rpc # "delete" =>
        \A g \in Cgroups : out[g].slots =< out[g].count + Cardinality(seen[g])

(* Should the Read fail, its elements will be read again, in full.         *)
Total(g) == SumFunction([c \in CPUs |-> value[g][c].count])
Reread ==
    \A g \in Cgroups :
        seen[g] # {} => /\ out[g].count + Unread(g) =< Total(g)
                        /\ delivered[g] + Total(g) =< completed[g] + again[g]

Types == TypeOK /\ Finite /\ Phases
Apart == HalfRead /\ Ahead /\ HistogramMatchesCount
Books == NoneCountedTwice /\ LostOnlyInRace /\ Reread
IInv == Types /\ Skewed /\ Apart /\ Books

USE DEF handler, map, reader
-----------------------------------------------------------------------------
(* Totals *)

Values == [Cgroups -> [CPUs -> [slots : Nat, count : Nat]]]

(* What a charge to one field of one copy changes.                         *)
LEMMA SlotCharge ==
    ASSUME NEW v \in Values, NEW g \in Cgroups, NEW c \in CPUs,
           NEW w, w = [v EXCEPT ![g][c]["slots"] = @ + 1]
    PROVE  /\ w \in Values
           /\ \A h \in Cgroups \ {g} : w[h] = v[h]
           /\ \A d \in CPUs \ {c} : w[g][d] = v[g][d]
           /\ w[g][c].slots = v[g][c].slots + 1 /\ w[g][c].count = v[g][c].count
BY DEF Values

LEMMA CountCharge ==
    ASSUME NEW v \in Values, NEW g \in Cgroups, NEW c \in CPUs,
           NEW w, w = [v EXCEPT ![g][c]["count"] = @ + 1]
    PROVE  /\ w \in Values
           /\ \A h \in Cgroups \ {g} : w[h] = v[h]
           /\ \A d \in CPUs \ {c} : w[g][d] = v[g][d]
           /\ w[g][c].slots = v[g][c].slots /\ w[g][c].count = v[g][c].count + 1
BY DEF Values

LEMMA SumsAreNumbers ==
    ASSUME TypeOK, NEW g \in Cgroups
    PROVE  Total(g) \in Nat /\ Unread(g) \in Nat
<1>1. /\ \A c \in CPUs : [d \in CPUs |-> value[g][d].count][c] \in Nat
      /\ \A c \in CPUs : [d \in CPUs |-> IF d \in seen[g] THEN 0 ELSE value[g][d].count][c] \in Nat
  BY DEF TypeOK
<1>2. QED
  BY <1>1, SizesAssumption, SumType DEF Total, Unread, SumFunction

LEMMA SumsSame ==
    ASSUME NEW g \in Cgroups, \A c \in CPUs : value'[g][c].count = value[g][c].count
    PROVE  Total(g)' = Total(g) /\ (seen'[g] = seen[g] => Unread(g)' = Unread(g))
BY DEF Total, Unread

(* Nothing of an element is unread when all of it has been read, and all   *)
(* of it when nothing has.                                                 *)
LEMMA UnreadNone ==
    ASSUME NEW g \in Cgroups, seen[g] = CPUs
    PROVE  Unread(g) = 0
<1>1. \A c \in CPUs : [d \in CPUs |-> IF d \in seen[g] THEN 0 ELSE value[g][d].count][c] = 0
  OBVIOUS
<1>2. QED
  BY <1>1, SizesAssumption, SumZero DEF Unread, SumFunction

LEMMA UnreadAll ==
    ASSUME NEW g \in Cgroups, seen[g] = {}
    PROVE  Unread(g) = Total(g)
BY DEF Unread, Total

LEMMA UnreadAllNext ==
    ASSUME NEW g \in Cgroups, seen'[g] = {}
    PROVE  Unread(g)' = Total(g)'
BY DEF Unread, Total

LEMMA TotalZeroed ==
    ASSUME NEW g \in Cgroups, value'[g] = Zeroed
    PROVE  Total(g)' = 0
<1>1. \A c \in CPUs : [d \in CPUs |-> value'[g][d].count][c] = 0
  BY DEF Zeroed, Zero
<1>2. SumFunctionOnSet([d \in CPUs |-> value'[g][d].count], CPUs) = 0
  BY <1>1, SizesAssumption, SumZero
<1>3. QED
  BY <1>2 DEF Total, SumFunction

(* A charge to the count of one copy adds one to what the cgroup has, and  *)
(* to what is unread of it unless that copy has been read.                 *)
LEMMA SumsCharged ==
    ASSUME TypeOK, NEW g \in Cgroups, NEW c \in CPUs, seen' = seen,
           value' = [value EXCEPT ![g][c]["count"] = @ + 1]
    PROVE  /\ Total(g)' = Total(g) + 1
           /\ Unread(g)' = IF c \in seen[g] THEN Unread(g) ELSE Unread(g) + 1
<1> DEFINE f == [d \in CPUs |-> value[g][d].count]
           e == [d \in CPUs |-> value'[g][d].count]
           u == [d \in CPUs |-> IF d \in seen[g] THEN 0 ELSE value[g][d].count]
           w == [d \in CPUs |-> IF d \in seen[g] THEN 0 ELSE value'[g][d].count]
<1>1. \A d \in CPUs : /\ value[g][d].count \in Nat
                      /\ value'[g][d].count = IF d = c THEN value[g][d].count + 1
                                              ELSE value[g][d].count
  BY CountCharge DEF TypeOK, Values
<1>2. /\ f \in [CPUs -> Nat] /\ e \in [CPUs -> Nat] /\ u \in [CPUs -> Nat] /\ w \in [CPUs -> Nat]
      /\ e[c] = f[c] + 1 /\ w[c] = IF c \in seen[g] THEN u[c] ELSE u[c] + 1
      /\ \A d \in CPUs \ {c} : e[d] = f[d] /\ w[d] = u[d]
  BY <1>1
<1>3. /\ Total(g) = SumFunctionOnSet(f, CPUs) /\ Total(g)' = SumFunctionOnSet(e, CPUs)
      /\ Unread(g) = SumFunctionOnSet(u, CPUs) /\ Unread(g)' = SumFunctionOnSet(w, CPUs)
  BY DEF Total, Unread, SumFunction
<1> HIDE DEF f, e, u, w
<1>4. /\ SumFunctionOnSet(e, CPUs) + f[c] = SumFunctionOnSet(f, CPUs) + e[c]
      /\ SumFunctionOnSet(w, CPUs) + u[c] = SumFunctionOnSet(u, CPUs) + w[c]
  BY <1>2, SizesAssumption, SumChange
<1>5. /\ SumFunctionOnSet(e, CPUs) \in Nat /\ SumFunctionOnSet(f, CPUs) \in Nat
      /\ SumFunctionOnSet(w, CPUs) \in Nat /\ SumFunctionOnSet(u, CPUs) \in Nat
  BY <1>2, SizesAssumption, SumType
<1>6. f[c] \in Nat /\ u[c] \in Nat
  BY <1>2
<1>7. QED
  BY <1>2, <1>3, <1>4, <1>5, <1>6

(* To read one copy takes its count off what is unread.                    *)
LEMMA UnreadLess ==
    ASSUME TypeOK, NEW g \in Cgroups, NEW c \in CPUs, c \notin seen[g],
           value' = value, seen'[g] = seen[g] \cup {c}
    PROVE  Unread(g)' + value[g][c].count = Unread(g)
<1> DEFINE u == [d \in CPUs |-> IF d \in seen[g] THEN 0 ELSE value[g][d].count]
           w == [d \in CPUs |-> IF d \in seen[g] \cup {c} THEN 0 ELSE value[g][d].count]
<1>1. /\ u \in [CPUs -> Nat] /\ w \in [CPUs -> Nat]
      /\ u[c] = value[g][c].count /\ w[c] = 0 /\ \A d \in CPUs \ {c} : w[d] = u[d]
  BY DEF TypeOK
<1>2. Unread(g) = SumFunctionOnSet(u, CPUs) /\ Unread(g)' = SumFunctionOnSet(w, CPUs)
  BY DEF Unread, SumFunction
<1> HIDE DEF u, w
<1>3. SumFunctionOnSet(w, CPUs) + u[c] = SumFunctionOnSet(u, CPUs) + w[c]
  BY <1>1, SizesAssumption, SumChange
<1>4. SumFunctionOnSet(w, CPUs) \in Nat /\ SumFunctionOnSet(u, CPUs) \in Nat /\ u[c] \in Nat
  BY <1>1, SizesAssumption, SumType
<1>5. QED
  BY <1>1, <1>2, <1>3, <1>4

-----------------------------------------------------------------------------
(* Types and phases *)

(* A map with room, or that has the key already, does not outgrow its size. *)
LEMMA AddedWithinSize ==
    ASSUME NEW S, IsFiniteSet(S), NEW n \in Nat, Cardinality(S) =< n, NEW x,
           x \in S \/ Cardinality(S) < n
    PROVE  IsFiniteSet(S \cup {x}) /\ Cardinality(S \cup {x}) =< n
<1>1. Cardinality(S) \in Nat
  BY FS_CardinalityType
<1>2. /\ IsFiniteSet(S \cup {x})
      /\ Cardinality(S \cup {x}) = IF x \in S THEN Cardinality(S) ELSE Cardinality(S) + 1
  BY FS_AddElement
<1>3. QED
  BY <1>1, <1>2

(* A part of a finite set is finite, and no larger.                        *)
LEMMA PartOf ==
    ASSUME NEW S, IsFiniteSet(S), NEW T, T \subseteq S
    PROVE  /\ IsFiniteSet(T) /\ Cardinality(S) \in Nat /\ Cardinality(T) \in Nat
           /\ Cardinality(T) =< Cardinality(S)
<1>1. IsFiniteSet(T) /\ Cardinality(T) =< Cardinality(S)
  BY FS_Subset
<1>2. QED
  BY <1>1, FS_CardinalityType

LEMMA StampTypes ==
    ASSUME Types, NEW r \in Requests, NEW g \in Cgroups, Stamp(r, g)
    PROVE  Types'
<1>1. Begun' = Begun \cup {r}
  BY NoneAssumption DEF Types, TypeOK, Stamp, Begun
<1>2. IsFiniteSet(Begun') /\ Cardinality(Begun') =< Inflight
  BY <1>1, AddedWithinSize, SizesAssumption DEF Types, TypeOK, Finite, Stamp, StampRoom
<1>3. QED
  BY <1>2 DEF Types, TypeOK, Finite, Phases, Whole, Stamp, Begun, Zero

LEMMA CompleteTypes ==
    ASSUME Types, NEW c \in CPUs, NEW r \in Requests, Complete(c, r)
    PROVE  Types'
<1>1. Begun' \subseteq Begun
  BY DEF Types, TypeOK, Complete, Begun
<1>2. IsFiniteSet(Begun') /\ Cardinality(Begun') =< Inflight
  <2>1. /\ IsFiniteSet(Begun) /\ Cardinality(Begun) =< Inflight /\ Inflight \in Nat
    BY SizesAssumption DEF Types, TypeOK, Finite
  <2>2. /\ IsFiniteSet(Begun') /\ Cardinality(Begun) \in Nat /\ Cardinality(Begun') \in Nat
        /\ Cardinality(Begun') =< Cardinality(Begun)
    BY <1>1, <2>1, PartOf
  <2>3. QED
    BY <2>1, <2>2
<1>3. QED
  BY <1>2, NoneAssumption DEF Types, TypeOK, Finite, Phases, Whole, Complete, Begun

LEMMA LookTypes ==
    ASSUME Types, NEW c \in CPUs, Look(c)
    PROVE  Types'
<1>1. cgroup[c] \in Cgroups
  BY DEF Types, TypeOK, Look
<1>2. CASE cgroup[c] \in present \/ Cardinality(present) < Capacity
  <2>1. /\ present' = present \cup {cgroup[c]}
        /\ held' = [held EXCEPT ![c] = TRUE] /\ pc' = [pc EXCEPT ![c] = "slots"]
        /\ pc[c] = "look"
        /\ UNCHANGED <<stamped, cgroup, value, rpc, todo, at, seen, out, raced, completed, delivered, excused, again>>
    BY <1>2 DEF Look
  <2>2. IsFiniteSet(present') /\ Cardinality(present') =< Capacity
    BY <1>2, <2>1, AddedWithinSize, SizesAssumption DEF Types, TypeOK, Finite
  <2>3. QED
    BY <1>1, <2>1, <2>2 DEF Types, TypeOK, Finite, Phases, Whole, Begun
<1>3. CASE ~ (cgroup[c] \in present \/ Cardinality(present) < Capacity)
  <2>1. /\ Ended(c, TRUE) /\ pc[c] = "look"
        /\ UNCHANGED <<stamped, present, value, rpc, todo, at, seen, out, raced, delivered, again>>
    BY <1>3 DEF Look
  <2>2. completed' \in [Cgroups -> Nat] /\ excused' \in [Cgroups -> Nat]
    BY <1>1, <2>1 DEF Types, TypeOK, Ended
  <2>3. QED
    BY <1>1, <2>1, <2>2, NoneAssumption DEF Types, TypeOK, Finite, Phases, Whole, Ended, Begun
<1>4. QED
  BY <1>2, <1>3

LEMMA AddTypes ==
    ASSUME Types, NEW c \in CPUs, AddSlot(c) \/ AddCount(c)
    PROVE  Types'
<1>1. cgroup[c] \in Cgroups
  BY DEF Types, TypeOK, AddSlot, AddCount
<1>2. value \in Values
  BY DEF Types, TypeOK, Values
<1>3. CASE AddSlot(c)
  <2>1. value' \in Values
    BY <1>1, <1>2, <1>3, SlotCharge DEF AddSlot, Charge
  <2>2. QED
    BY <1>3, <2>1 DEF Types, TypeOK, Finite, Phases, Whole, AddSlot, Begun, Values
<1>4. CASE AddCount(c)
  <2>1. value' \in Values
    BY <1>1, <1>2, <1>4, CountCharge DEF AddCount, Charge
  <2>2. completed' \in [Cgroups -> Nat] /\ excused' \in [Cgroups -> Nat]
    BY <1>1, <1>4 DEF Types, TypeOK, AddCount, Ended
  <2>3. QED
    BY <1>1, <1>4, <2>1, <2>2, NoneAssumption
       DEF Types, TypeOK, Finite, Phases, Whole, AddCount, Ended, Begun, Values
<1>5. QED
  BY <1>3, <1>4

LEMMA ReaderTypes ==
    ASSUME Types, StartRead \/ EndCopy \/ EndDelete
    PROVE  Types'
<1>1. CASE StartRead
  BY <1>1 DEF Types, TypeOK, Finite, Phases, Whole, StartRead, Begun
<1>2. CASE EndCopy
  BY <1>2 DEF Types, TypeOK, Finite, Phases, Whole, EndCopy, Return, NothingRead, NoneSeen,
              NoEvents, Zero, Begun
<1>3. CASE EndDelete
  BY <1>3 DEF Types, TypeOK, Finite, Phases, Whole, EndDelete, Return, NothingRead, NoneSeen,
              NoEvents, Zero, Begun
<1>4. QED
  BY <1>1, <1>2, <1>3

LEMMA CopySlotsTypes ==
    ASSUME Types, NEW g \in Cgroups, NEW c \in CPUs, CopySlots(g, c)
    PROVE  Types'
<1>1. value[g][c].slots \in Nat
  BY DEF Types, TypeOK
<1>2. QED
  BY <1>1 DEF Types, TypeOK, Finite, Phases, Whole, CopySlots, Begun

(* What CopyCount does, with its element and CPU named.                    *)
Copied(g, c) ==
    /\ at.cgroup = g /\ at.cpu = c /\ at.slots \in Nat /\ g \in present
    /\ c \notin seen[g] /\ rpc = "half" /\ rpc' = "copy" /\ at' = None
    /\ seen'[g] = seen[g] \cup {c} /\ todo' = todo \ {g}
    /\ out'[g] = [slots |-> out[g].slots + at.slots,
                  count |-> out[g].count + value[g][c].count]
    /\ \A h \in Cgroups \ {g} : seen'[h] = seen[h] /\ out'[h] = out[h]
    /\ seen' = [h \in Cgroups |-> seen'[h]] /\ out' = [h \in Cgroups |-> out'[h]]
    /\ UNCHANGED <<stamped, pc, cgroup, held, present, value, raced, completed,
                   delivered, excused, again>>

LEMMA CopyCountStep ==
    ASSUME Types, CopyCount
    PROVE  \E g \in Cgroups, c \in CPUs : Copied(g, c)
<1>1. at \in [cgroup : present, cpu : CPUs, slots : Nat] /\ present \subseteq Cgroups
  BY DEF CopyCount, Types, TypeOK
<1>2. PICK g \in Cgroups, c \in CPUs : at.cgroup = g /\ at.cpu = c
  BY <1>1
<1>3. at.slots \in Nat /\ g \in present /\ c \notin seen[g]
  BY <1>1, <1>2 DEF CopyCount, Types, Phases
<1>4. Copied(g, c)
  BY <1>2, <1>3 DEF CopyCount, Types, TypeOK, Copied
<1>5. QED
  BY <1>4

LEMMA CopyCountTypes ==
    ASSUME Types, CopyCount
    PROVE  Types'
<1>1. PICK g \in Cgroups, c \in CPUs : Copied(g, c)
  BY CopyCountStep
<1>2. out'[g] \in [slots : Nat, count : Nat]
  <2>1. value[g][c].count \in Nat /\ out[g].slots \in Nat /\ out[g].count \in Nat
    BY DEF Types, TypeOK
  <2>2. QED
    BY <1>1, <2>1 DEF Copied
<1>3. ASSUME NEW h \in Cgroups
      PROVE  out'[h] \in [slots : Nat, count : Nat] /\ seen'[h] \in SUBSET CPUs
  <2>1. out[h] \in [slots : Nat, count : Nat] /\ seen[h] \in SUBSET CPUs
    BY DEF Types, TypeOK
  <2>2. CASE h = g
    BY <1>1, <1>2, <2>1, <2>2 DEF Copied
  <2>3. CASE h # g
    BY <1>1, <2>1, <2>3 DEF Copied
  <2>4. QED
    BY <2>2, <2>3
<1>4. out' \in [Cgroups -> [slots : Nat, count : Nat]] /\ seen' \in [Cgroups -> SUBSET CPUs]
  BY <1>1, <1>3 DEF Copied
<1>5. TypeOK'
  BY <1>1, <1>4 DEF Types, TypeOK, Begun, Copied
<1>6. Phases'
  BY <1>1 DEF Types, Phases, Copied
<1>7. QED
  BY <1>1, <1>5, <1>6 DEF Types, Finite, Begun, Copied

LEMMA DeleteTypes ==
    ASSUME Types, NEW g \in Cgroups, Delete(g)
    PROVE  Types'
<1>1. present' \subseteq present
  BY DEF Delete
<1>2. IsFiniteSet(present') /\ Cardinality(present') =< Capacity
  <2>1. IsFiniteSet(present) /\ Cardinality(present) =< Capacity /\ Capacity \in Nat
    BY SizesAssumption DEF Types, TypeOK, Finite
  <2>2. /\ IsFiniteSet(present') /\ Cardinality(present) \in Nat /\ Cardinality(present') \in Nat
        /\ Cardinality(present') =< Cardinality(present)
    BY <1>1, <2>1, PartOf
  <2>3. QED
    BY <2>1, <2>2
<1>3. again' \in [Cgroups -> Nat]
  BY DEF Types, TypeOK, Delete
<1>4. value' \in Values /\ held' \in [CPUs -> BOOLEAN]
  <2>1. value \in Values /\ held \in [CPUs -> BOOLEAN]
    BY DEF Types, TypeOK, Values
  <2>2. Zeroed \in [CPUs -> [slots : Nat, count : Nat]]
    BY DEF Zeroed, Zero
  <2>3. CASE UNCHANGED map
    BY <2>1, <2>3
  <2>4. CASE /\ value' = [value EXCEPT ![g] = Zeroed]
             /\ held' = [c \in CPUs |-> held[c] /\ cgroup[c] # g]
    <3>1. value' \in Values
      BY <2>1, <2>2, <2>4 DEF Values
    <3>2. QED
      BY <2>1, <2>4, <3>1
  <2>5. QED
    BY <2>3, <2>4 DEF Delete
<1>5. /\ rpc = "delete" /\ rpc' = "delete" /\ todo = {} /\ todo' = {} /\ at' = at /\ out' = out
      /\ seen'[g] = {} /\ seen' \in [Cgroups -> SUBSET CPUs]
      /\ \A h \in Cgroups \ {g} : seen'[h] = seen[h] /\ (h \in present' <=> h \in present)
      /\ UNCHANGED <<stamped, pc, cgroup, raced, completed, delivered, excused>>
  BY DEF Types, TypeOK, Phases, Delete
<1>6. TypeOK'
  BY <1>1, <1>2, <1>3, <1>4, <1>5 DEF Types, TypeOK, Begun, Values
<1>7. Phases'
  BY <1>5 DEF Types, Phases, Whole
<1>8. QED
  BY <1>2, <1>5, <1>6, <1>7 DEF Types, Finite, Begun

LEMMA StepTypes ==
    ASSUME Types, [Next]_vars
    PROVE  Types'
<1>1. CASE UNCHANGED vars
  BY <1>1 DEF vars, Types, TypeOK, Finite, Phases, Whole, Begun
<1>2. QED
  BY <1>1, StampTypes, CompleteTypes, LookTypes, AddTypes, ReaderTypes,
     CopySlotsTypes, CopyCountTypes, DeleteTypes DEF Next

-----------------------------------------------------------------------------
(* The histogram and the count *)

LEMMA NumbersOfCopies ==
    ASSUME TypeOK
    PROVE  \A g \in Cgroups, c \in CPUs : value[g][c].slots \in Nat /\ value[g][c].count \in Nat
BY DEF TypeOK

(* A step that neither charges a copy nor moves a handler past one addition. *)
LEMMA SkewSame ==
    ASSUME Skewed, value' = value,
           \A g \in Cgroups, c \in CPUs : Between(g, c)' <=> Between(g, c)
    PROVE  Skewed'
BY DEF Skewed, SkewedAt

LEMMA AddSlotSkewed ==
    ASSUME Types, Skewed, NEW c \in CPUs, AddSlot(c)
    PROVE  Skewed'
<1>1. /\ cgroup[c] \in Cgroups /\ value \in Values /\ pc[c] = "slots" /\ pc'[c] = "count"
      /\ \A d \in CPUs \ {c} : pc'[d] = pc[d]
      /\ UNCHANGED <<held, cgroup>>
  BY DEF AddSlot, Values, Types, TypeOK
<1>2. CASE ~ held[c]
  <2>1. value' = value
    BY <1>2 DEF AddSlot, Charge
  <2>2. QED
    BY <1>1, <1>2, <2>1, SkewSame DEF Between
<1>3. CASE held[c]
  <2>1. PICK k \in Cgroups : k = cgroup[c]
    BY <1>1
  <2>2. value' = [value EXCEPT ![k][c]["slots"] = @ + 1]
    BY <1>3, <2>1 DEF AddSlot, Charge
  <2>3. /\ \A h \in Cgroups \ {k} : value'[h] = value[h]
        /\ \A d \in CPUs \ {c} : value'[k][d] = value[k][d]
        /\ value'[k][c].slots = value[k][c].slots + 1
        /\ value'[k][c].count = value[k][c].count
    BY <1>1, <2>2 DEF Values
  <2> SUFFICES ASSUME NEW g \in Cgroups, NEW d \in CPUs PROVE SkewedAt(g, d)'
    BY DEF Skewed
  <2>4. SkewedAt(g, d) /\ SkewedAt(k, c)
    BY DEF Skewed
  <2>5. CASE g = k /\ d = c
    <3>1. ~ Between(k, c) /\ Between(k, c)'
      BY <1>1, <1>3, <2>1 DEF Between
    <3>2. value[k][c].slots \in Nat /\ value[k][c].count \in Nat
      BY NumbersOfCopies DEF Types
    <3>3. QED
      BY <2>3, <2>4, <2>5, <3>1, <3>2 DEF SkewedAt
  <2>6. CASE ~ (g = k /\ d = c)
    <3>1. Between(g, d)' <=> Between(g, d)
      BY <1>1, <2>1, <2>6 DEF Between
    <3>2. value'[g][d] = value[g][d]
      BY <2>3, <2>6
    <3>3. QED
      BY <2>4, <3>1, <3>2 DEF SkewedAt
  <2>7. QED
    BY <2>5, <2>6
<1>4. QED
  BY <1>2, <1>3

LEMMA AddCountSkewed ==
    ASSUME Types, Skewed, NEW c \in CPUs, AddCount(c)
    PROVE  Skewed'
<1>1. /\ cgroup[c] \in Cgroups /\ value \in Values /\ pc[c] = "count" /\ pc'[c] = "idle"
      /\ \A d \in CPUs \ {c} : pc'[d] = pc[d] /\ held'[d] = held[d] /\ cgroup'[d] = cgroup[d]
  BY DEF AddCount, Ended, Values, Types, TypeOK
<1>2. CASE ~ held[c]
  <2>1. value' = value
    BY <1>2 DEF AddCount, Charge
  <2>2. QED
    BY <1>1, <1>2, <2>1, SkewSame DEF Between
<1>3. CASE held[c]
  <2>1. PICK k \in Cgroups : k = cgroup[c]
    BY <1>1
  <2>2. value' = [value EXCEPT ![k][c]["count"] = @ + 1]
    BY <1>3, <2>1 DEF AddCount, Charge
  <2>3. /\ \A h \in Cgroups \ {k} : value'[h] = value[h]
        /\ \A d \in CPUs \ {c} : value'[k][d] = value[k][d]
        /\ value'[k][c].slots = value[k][c].slots
        /\ value'[k][c].count = value[k][c].count + 1
    BY <1>1, <2>2 DEF Values
  <2> SUFFICES ASSUME NEW g \in Cgroups, NEW d \in CPUs PROVE SkewedAt(g, d)'
    BY DEF Skewed
  <2>4. SkewedAt(g, d) /\ SkewedAt(k, c)
    BY DEF Skewed
  <2>5. CASE g = k /\ d = c
    <3>1. Between(k, c) /\ ~ Between(k, c)'
      BY <1>1, <1>3, <2>1 DEF Between
    <3>2. value[k][c].slots \in Nat /\ value[k][c].count \in Nat
      BY NumbersOfCopies DEF Types
    <3>3. QED
      BY <2>3, <2>4, <2>5, <3>1, <3>2 DEF SkewedAt
  <2>6. CASE ~ (g = k /\ d = c)
    <3>1. Between(g, d)' <=> Between(g, d)
      BY <1>1, <2>1, <2>6 DEF Between
    <3>2. value'[g][d] = value[g][d]
      BY <2>3, <2>6
    <3>3. QED
      BY <2>4, <3>1, <3>2 DEF SkewedAt
  <2>7. QED
    BY <2>5, <2>6
<1>4. QED
  BY <1>2, <1>3

LEMMA DeleteSkewed ==
    ASSUME Types, Skewed, NEW g \in Cgroups, Delete(g)
    PROVE  Skewed'
<1>1. UNCHANGED <<pc, cgroup>>
  BY DEF Delete
<1>2. CASE UNCHANGED <<held, value>>
  BY <1>1, <1>2, SkewSame DEF Between
<1>3. CASE ~ UNCHANGED <<held, value>>
  <2>1. /\ value'[g] = Zeroed /\ \A h \in Cgroups \ {g} : value'[h] = value[h]
        /\ \A c \in CPUs : held'[c] = (held[c] /\ cgroup[c] # g)
    BY <1>3 DEF Delete, Types, TypeOK
  <2> SUFFICES ASSUME NEW h \in Cgroups, NEW c \in CPUs PROVE SkewedAt(h, c)'
    BY DEF Skewed
  <2>2. CASE h = g
    <3>1. ~ Between(h, c)'
      BY <1>1, <2>1, <2>2 DEF Between
    <3>2. QED
      BY <2>1, <2>2, <3>1 DEF SkewedAt, Zeroed, Zero
  <2>3. CASE h # g
    <3>1. Between(h, c)' <=> Between(h, c)
      BY <1>1, <2>1, <2>3 DEF Between
    <3>2. QED
      BY <2>1, <2>3, <3>1 DEF Skewed, SkewedAt
  <2>4. QED
    BY <2>2, <2>3
<1>4. QED
  BY <1>2, <1>3

LEMMA StepSkewed ==
    ASSUME Types, Skewed, [Next]_vars
    PROVE  Skewed'
<1>1. ASSUME NEW r \in Requests, NEW g \in Cgroups, Stamp(r, g)
      PROVE  Skewed'
  BY <1>1, SkewSame DEF Stamp, Between
<1>2. ASSUME NEW c \in CPUs, NEW r \in Requests, Complete(c, r)
      PROVE  Skewed'
  <2>1. /\ value' = value /\ held' = held /\ pc[c] = "idle" /\ pc'[c] = "look"
        /\ \A d \in CPUs \ {c} : pc'[d] = pc[d] /\ cgroup'[d] = cgroup[d]
    BY <1>2 DEF Complete, Types, TypeOK
  <2>2. QED
    BY <2>1, SkewSame DEF Between
<1>3. ASSUME NEW c \in CPUs, Look(c)
      PROVE  Skewed'
  <2>1. /\ value' = value /\ pc[c] = "look" /\ pc'[c] # "count"
        /\ \A d \in CPUs \ {c} : pc'[d] = pc[d] /\ held'[d] = held[d] /\ cgroup'[d] = cgroup[d]
    BY <1>3 DEF Look, Ended, Types, TypeOK
  <2>2. QED
    BY <2>1, SkewSame DEF Between
<1>4. ASSUME NEW g \in Cgroups, NEW c \in CPUs, CopySlots(g, c)
      PROVE  Skewed'
  BY <1>4, SkewSame DEF CopySlots, Between
<1>5. CASE StartRead \/ CopyCount \/ EndCopy \/ EndDelete \/ UNCHANGED vars
  BY <1>5, SkewSame DEF StartRead, CopyCount, EndCopy, EndDelete, vars, Between
<1>6. QED
  BY <1>1, <1>2, <1>3, <1>4, <1>5, AddSlotSkewed, AddCountSkewed, DeleteSkewed DEF Next

(* The numbers a Read has got, and the histogram it has in hand.           *)
LEMMA NumbersRead ==
    ASSUME Types
    PROVE  /\ \A g \in Cgroups : /\ out[g].slots \in Nat /\ out[g].count \in Nat
                                 /\ raced[g] \in Nat /\ Cardinality(seen[g]) \in Nat
                                 /\ Cardinality(seen[g]) =< Cardinality(CPUs)
           /\ Cardinality(CPUs) \in Nat
           /\ rpc = "half" => at.cgroup \in Cgroups /\ at.cpu \in CPUs /\ at.slots \in Nat
<1>1. \A g \in Cgroups : seen[g] \subseteq CPUs
  BY DEF Types, TypeOK
<1>2. \A g \in Cgroups : Cardinality(seen[g]) \in Nat /\ Cardinality(seen[g]) =< Cardinality(CPUs)
  BY <1>1, SizesAssumption, PartOf
<1>3. Cardinality(CPUs) \in Nat
  BY SizesAssumption, FS_CardinalityType
<1>4. QED
  BY <1>2, <1>3 DEF Types, TypeOK

LEMMA SlotChargedCounts ==
    ASSUME NEW c \in CPUs, cgroup[c] \in Cgroups, value \in Values, AddSlot(c)
    PROVE  \A g \in Cgroups, d \in CPUs : value'[g][d].count = value[g][d].count
<1>1. CASE ~ held[c]
  BY <1>1 DEF AddSlot, Charge
<1>2. CASE held[c]
  <2>1. PICK k \in Cgroups : k = cgroup[c]
    OBVIOUS
  <2>2. value' = [value EXCEPT ![k][c]["slots"] = @ + 1]
    BY <1>2, <2>1 DEF AddSlot, Charge
  <2>3. /\ \A h \in Cgroups \ {k} : value'[h] = value[h]
        /\ \A d \in CPUs \ {c} : value'[k][d] = value[k][d]
        /\ value'[k][c].count = value[k][c].count
    BY <2>2 DEF Values
  <2>4. QED
    BY <2>3
<1>3. QED
  BY <1>1, <1>2

(* A step that neither reads nor charges a histogram nor ends a Read, and  *)
(* takes nothing off a count.                                              *)
LEMMA ApartSame ==
    ASSUME Types, Apart, UNCHANGED <<at, out, raced>>,
           \/ rpc' = rpc /\ \A g \in Cgroups : seen'[g] = seen[g]
           \/ rpc' = "delete"
           \/ rpc = "idle" /\ rpc' = "copy" /\ \A g \in Cgroups : seen'[g] = seen[g],
           rpc = "half" =>
               \A g \in Cgroups, c \in CPUs :
                   /\ value'[g][c].slots = value[g][c].slots
                   /\ value'[g][c].count \in Nat /\ value'[g][c].count >= value[g][c].count
    PROVE  Apart'
<1>1. HistogramMatchesCount'
  BY DEF Apart, HistogramMatchesCount
<1>2. Ahead'
  BY DEF Apart, Ahead
<1>3. ASSUME rpc' = "half" PROVE HalfRead'
  <2>1. rpc = "half"
    BY <1>3
  <2>2. PICK g \in Cgroups, c \in CPUs : g = at.cgroup /\ c = at.cpu
    BY <2>1, NumbersRead
  <2>3. /\ at.slots =< value[g][c].count + 1
        /\ out[g].count + value[g][c].slots =< out[g].slots + at.slots + raced[g]
    BY <2>1, <2>2 DEF Apart, HalfRead
  <2>4. /\ value[g][c].count \in Nat /\ value[g][c].slots \in Nat /\ at.slots \in Nat
        /\ out[g].count \in Nat /\ out[g].slots \in Nat /\ raced[g] \in Nat
    BY <2>1, NumbersRead, NumbersOfCopies DEF Types
  <2>5. /\ value'[g][c].slots = value[g][c].slots
        /\ value'[g][c].count \in Nat /\ value'[g][c].count >= value[g][c].count
    BY <2>1
  <2>6. at.slots =< value'[g][c].count + 1
    BY <2>3, <2>4, <2>5
  <2>7. QED
    BY <2>2, <2>3, <2>5, <2>6 DEF HalfRead
<1>4. QED
  BY <1>1, <1>2, <1>3 DEF Apart, HalfRead

LEMMA CopySlotsApart ==
    ASSUME Types, Skewed, Apart, NEW g \in Cgroups, NEW c \in CPUs, CopySlots(g, c)
    PROVE  Apart'
<1>1. /\ rpc = "copy" /\ rpc' = "half" /\ UNCHANGED <<value, seen, out, raced>>
      /\ at'.cgroup = g /\ at'.cpu = c /\ at'.slots = value[g][c].slots
  BY DEF CopySlots
<1>2. /\ value[g][c].slots \in Nat /\ value[g][c].count \in Nat
      /\ value[g][c].slots =< value[g][c].count + 1
  BY NumbersOfCopies DEF Types, Skewed, SkewedAt
<1>3. out[g].count \in Nat /\ out[g].slots \in Nat /\ raced[g] \in Nat
  BY NumbersRead
<1>4. out[g].count =< out[g].slots + raced[g]
  BY DEF Apart, HistogramMatchesCount
<1>5. out[g].count + value[g][c].slots =< out[g].slots + value[g][c].slots + raced[g]
  BY <1>2, <1>3, <1>4
<1>6. HalfRead'
  BY <1>1, <1>2, <1>5 DEF HalfRead
<1>7. QED
  BY <1>1, <1>6 DEF Apart, Ahead, HistogramMatchesCount

LEMMA CopyCountApart ==
    ASSUME Types, Skewed, Apart, CopyCount
    PROVE  Apart'
<1>1. PICK g \in Cgroups, c \in CPUs : Copied(g, c)
  BY CopyCountStep
<1>2. /\ value[g][c].slots \in Nat /\ value[g][c].count \in Nat
      /\ value[g][c].count =< value[g][c].slots
  BY NumbersOfCopies DEF Types, Skewed, SkewedAt
<1>3. /\ out[g].count \in Nat /\ out[g].slots \in Nat /\ raced[g] \in Nat /\ at.slots \in Nat
      /\ Cardinality(seen[g]) \in Nat /\ Cardinality(CPUs) \in Nat
  BY <1>1, NumbersRead DEF Copied
<1>4. /\ at.slots =< value[g][c].count + 1
      /\ out[g].count + value[g][c].slots =< out[g].slots + at.slots + raced[g]
      /\ out[g].slots =< out[g].count + Cardinality(seen[g])
  BY <1>1 DEF Apart, HalfRead, Ahead, Copied
<1>5. Cardinality(seen'[g]) = Cardinality(seen[g]) + 1
  <2>1. seen[g] \subseteq CPUs
    BY DEF Types, TypeOK
  <2>2. IsFiniteSet(seen[g])
    BY <2>1, SizesAssumption, PartOf
  <2>3. c \notin seen[g] /\ seen'[g] = seen[g] \cup {c}
    BY <1>1 DEF Copied
  <2>4. QED
    BY <2>2, <2>3, FS_AddElement
<1>6. seen'[g] \in SUBSET CPUs
  BY <1>1 DEF Types, TypeOK, Copied
<1>7. Cardinality(seen'[g]) =< Cardinality(CPUs)
  BY <1>6, SizesAssumption, PartOf
<1>8. out'[g].slots = out[g].slots + at.slots /\ out'[g].count = out[g].count + value[g][c].count
  BY <1>1 DEF Copied
<1>9. /\ out'[g].slots =< out'[g].count + Cardinality(seen'[g])
      /\ out'[g].count =< out'[g].slots + raced[g]
  BY <1>2, <1>3, <1>4, <1>5, <1>8
<1>10. out'[g].slots =< out'[g].count + Cardinality(CPUs)
  BY <1>2, <1>3, <1>5, <1>7, <1>8, <1>9
<1>11. QED
  BY <1>1, <1>9, <1>10 DEF Apart, HalfRead, Ahead, HistogramMatchesCount, Copied

LEMMA AddSlotApart ==
    ASSUME Types, Apart, NEW c \in CPUs, AddSlot(c)
    PROVE  Apart'
<1>1. /\ cgroup[c] \in Cgroups /\ value \in Values
      /\ UNCHANGED <<rpc, at, seen, out>>
  BY DEF AddSlot, Values, Types, TypeOK
<1>2. PICK k \in Cgroups : k = cgroup[c]
  BY <1>1
<1>3. CASE ~ (held[c] /\ Torn(k, c))
  <2>1. raced' = raced
    BY <1>2, <1>3 DEF AddSlot
  <2>2. \A g \in Cgroups, d \in CPUs : value'[g][d].count = value[g][d].count
    BY <1>1, SlotChargedCounts
  <2>3. rpc = "half" => value'[at.cgroup][at.cpu].slots = value[at.cgroup][at.cpu].slots
    <3>1. CASE ~ held[c]
      BY <3>1 DEF AddSlot, Charge
    <3>2. CASE held[c] /\ rpc = "half"
      <4>1. value' = [value EXCEPT ![k][c]["slots"] = @ + 1] /\ ~ (at.cgroup = k /\ at.cpu = c)
        BY <1>2, <1>3, <3>2 DEF AddSlot, Charge, Torn
      <4>2. at.cgroup \in Cgroups /\ at.cpu \in CPUs
        BY <3>2, NumbersRead
      <4>3. value'[at.cgroup][at.cpu] = value[at.cgroup][at.cpu]
        BY <1>1, <4>1, <4>2 DEF Values
      <4>4. QED
        BY <4>3
    <3>3. QED
      BY <3>1, <3>2
  <2>4. rpc = "half" => value'[at.cgroup][at.cpu].count = value[at.cgroup][at.cpu].count
    BY <2>2, NumbersRead
  <2>5. QED
    BY <1>1, <2>1, <2>3, <2>4 DEF Apart, HalfRead, Ahead, HistogramMatchesCount
<1>4. CASE held[c] /\ Torn(k, c)
  <2>1. /\ value' = [value EXCEPT ![k][c]["slots"] = @ + 1]
        /\ raced'[k] = raced[k] + 1 /\ \A g \in Cgroups \ {k} : raced'[g] = raced[g]
        /\ rpc = "half" /\ at.cgroup = k /\ at.cpu = c
    BY <1>2, <1>4 DEF AddSlot, Charge, Torn, Types, TypeOK
  <2>2. value'[k][c].slots = value[k][c].slots + 1 /\ value'[k][c].count = value[k][c].count
    BY <1>1, <2>1 DEF Values
  <2>3. /\ at.slots =< value[k][c].count + 1
        /\ out[k].count + value[k][c].slots =< out[k].slots + at.slots + raced[k]
        /\ \A g \in Cgroups : /\ out[g].slots =< out[g].count + Cardinality(CPUs)
                              /\ out[g].count =< out[g].slots + raced[g]
    BY <2>1 DEF Apart, HalfRead, HistogramMatchesCount
  <2>4. /\ value[k][c].count \in Nat /\ value[k][c].slots \in Nat /\ at.slots \in Nat
        /\ out[k].count \in Nat /\ out[k].slots \in Nat /\ raced[k] \in Nat
    BY <2>1, NumbersRead, NumbersOfCopies DEF Types
  <2>5. out[k].count + value'[k][c].slots =< out[k].slots + at.slots + raced'[k]
    BY <2>1, <2>2, <2>3, <2>4
  <2>6. out[k].count =< out[k].slots + raced'[k]
    BY <2>1, <2>3, <2>4
  <2>7. HalfRead'
    BY <1>1, <2>1, <2>2, <2>3, <2>5 DEF HalfRead
  <2>8. Ahead'
    BY <1>1 DEF Apart, Ahead
  <2>9. HistogramMatchesCount'
    <3> SUFFICES ASSUME NEW g \in Cgroups
                 PROVE  /\ out'[g].slots =< out'[g].count + Cardinality(CPUs)
                        /\ out'[g].count =< out'[g].slots + raced'[g]
      BY DEF HistogramMatchesCount
    <3>1. CASE g = k
      BY <1>1, <2>3, <2>6, <3>1
    <3>2. CASE g # k
      BY <1>1, <2>1, <2>3, <3>2
    <3>3. QED
      BY <3>1, <3>2
  <2>10. QED
    BY <2>7, <2>8, <2>9 DEF Apart
<1>5. QED
  BY <1>3, <1>4

LEMMA StepApart ==
    ASSUME Types, Skewed, Apart, [Next]_vars
    PROVE  Apart'
<1>1. \A g \in Cgroups, c \in CPUs : value[g][c].slots \in Nat /\ value[g][c].count \in Nat
  BY NumbersOfCopies DEF Types
<1>2. ASSUME NEW r \in Requests, NEW g \in Cgroups, Stamp(r, g)
      PROVE  Apart'
  BY <1>1, <1>2, ApartSame DEF Stamp
<1>3. ASSUME NEW c \in CPUs, NEW r \in Requests, Complete(c, r)
      PROVE  Apart'
  BY <1>1, <1>3, ApartSame DEF Complete
<1>4. ASSUME NEW c \in CPUs, Look(c)
      PROVE  Apart'
  BY <1>1, <1>4, ApartSame DEF Look
<1>5. ASSUME NEW c \in CPUs, AddCount(c)
      PROVE  Apart'
  <2>1. cgroup[c] \in Cgroups /\ value \in Values /\ UNCHANGED <<rpc, seen, at, out, raced>>
    BY <1>5 DEF AddCount, Values, Types, TypeOK
  <2>2. \A g \in Cgroups, d \in CPUs :
            /\ value'[g][d].slots = value[g][d].slots
            /\ value'[g][d].count \in Nat /\ value'[g][d].count >= value[g][d].count
    <3>1. CASE ~ held[c]
      BY <1>1, <1>5, <3>1 DEF AddCount, Charge
    <3>2. CASE held[c]
      <4>1. PICK k \in Cgroups : k = cgroup[c]
        BY <2>1
      <4>2. value' = [value EXCEPT ![k][c]["count"] = @ + 1]
        BY <1>5, <3>2, <4>1 DEF AddCount, Charge
      <4>3. /\ \A h \in Cgroups \ {k} : value'[h] = value[h]
            /\ \A d \in CPUs \ {c} : value'[k][d] = value[k][d]
            /\ value'[k][c].slots = value[k][c].slots
            /\ value'[k][c].count = value[k][c].count + 1
        BY <2>1, <4>2 DEF Values
      <4>4. QED
        BY <1>1, <4>3
    <3>3. QED
      BY <3>1, <3>2
  <2>3. QED
    BY <2>1, <2>2, ApartSame
<1>6. CASE StartRead \/ UNCHANGED vars
  BY <1>1, <1>6, ApartSame DEF StartRead, vars
<1>7. ASSUME Return PROVE Apart'
  <2>1. \A g \in Cgroups : out'[g].slots = 0 /\ out'[g].count = 0 /\ raced'[g] = 0
                           /\ seen'[g] = {}
    BY <1>7 DEF Return, NothingRead, NoEvents, NoneSeen, Zero
  <2>2. rpc' = "idle"
    BY <1>7 DEF Return
  <2>3. Cardinality(CPUs) \in Nat /\ Cardinality({}) = 0
    BY FS_EmptySet, NumbersRead
  <2>4. HistogramMatchesCount'
    BY <2>1, <2>3 DEF HistogramMatchesCount
  <2>5. Ahead'
    <3>1. \A g \in Cgroups : Cardinality(seen'[g]) = 0
      BY <2>1, <2>3
    <3>2. QED
      BY <2>1, <3>1 DEF Ahead
  <2>6. QED
    BY <2>2, <2>4, <2>5 DEF Apart, HalfRead
<1>8. CASE EndCopy
  BY <1>1, <1>7, <1>8, ApartSame DEF EndCopy
<1>9. CASE EndDelete
  BY <1>7, <1>9 DEF EndDelete
<1>10. ASSUME NEW g \in Cgroups, Delete(g)
       PROVE  Apart'
  BY <1>10, ApartSame DEF Delete
<1>11. QED
  BY <1>2, <1>3, <1>4, <1>5, <1>6, <1>8, <1>9, <1>10, AddSlotApart, CopySlotsApart,
     CopyCountApart DEF Next

-----------------------------------------------------------------------------
(* The books. What each action does to them, one cgroup at a time.         *)

(* The numbers of the books.                                               *)
LEMMA Numbers ==
    ASSUME TypeOK, NEW g \in Cgroups
    PROVE  /\ completed[g] \in Nat /\ delivered[g] \in Nat /\ excused[g] \in Nat
           /\ again[g] \in Nat /\ out[g].count \in Nat
           /\ Total(g) \in Nat /\ Unread(g) \in Nat
BY SumsAreNumbers DEF TypeOK

(* The books of one cgroup.                                                *)
BooksAt(g) ==
    /\ Counted(g) =< completed[g] + again[g] /\ completed[g] =< Counted(g) + excused[g]
    /\ seen[g] # {} => /\ out[g].count + Unread(g) =< Total(g)
                       /\ delivered[g] + Total(g) =< completed[g] + again[g]

LEMMA BooksOf ==
    ASSUME Books
    PROVE  \A g \in Cgroups : BooksAt(g)
BY DEF Books, NoneCountedTwice, LostOnlyInRace, Reread, BooksAt

LEMMA BooksOfNext ==
    ASSUME \A g \in Cgroups : BooksAt(g)'
    PROVE  Books'
BY DEF Books, NoneCountedTwice, LostOnlyInRace, Reread, BooksAt

(* Nothing changes for a cgroup that the step does not touch.              *)
LEMMA NothingBookedAt ==
    ASSUME Books, NEW g \in Cgroups, seen'[g] = seen[g], out'[g].count = out[g].count,
           completed'[g] = completed[g], delivered'[g] = delivered[g],
           excused'[g] = excused[g], again'[g] = again[g],
           \A c \in CPUs : value'[g][c].count = value[g][c].count
    PROVE  BooksAt(g)'
<1>1. Total(g)' = Total(g) /\ Unread(g)' = Unread(g)
  BY SumsSame
<1>2. BooksAt(g)
  BY BooksOf
<1>3. QED
  BY <1>1, <1>2 DEF BooksAt, Counted

(* Events on their way change nothing, the reader's start neither.         *)
LEMMA NothingBooked ==
    ASSUME Books, UNCHANGED <<seen, out, completed, delivered, excused, again>>,
           \A g \in Cgroups, c \in CPUs : value'[g][c].count = value[g][c].count
    PROVE  Books'
BY NothingBookedAt, BooksOfNext

(* An event that is charged to no copy is excused.                         *)
LEMMA ExcusedBooked ==
    ASSUME Types, Books, NEW c \in CPUs, cgroup[c] \in Cgroups, Ended(c, TRUE),
           UNCHANGED <<seen, out, value, delivered, again>>
    PROVE  Books'
<1> SUFFICES ASSUME NEW g \in Cgroups PROVE BooksAt(g)'
  BY BooksOfNext
<1>1. BooksAt(g)
  BY BooksOf
<1>2. /\ completed[g] \in Nat /\ delivered[g] \in Nat /\ excused[g] \in Nat
      /\ again[g] \in Nat /\ out[g].count \in Nat
      /\ Total(g) \in Nat /\ Unread(g) \in Nat
  BY Numbers DEF Types
<1>3. Total(g)' = Total(g) /\ Unread(g)' = Unread(g)
  BY SumsSame
<1>4. \/ completed'[g] = completed[g] + 1 /\ excused'[g] = excused[g] + 1
      \/ completed'[g] = completed[g] /\ excused'[g] = excused[g]
  BY DEF Ended, Types, TypeOK
<1>5. QED
  BY <1>1, <1>2, <1>3, <1>4 DEF BooksAt, Counted

LEMMA AddCountBooked ==
    ASSUME Types, Books, NEW c \in CPUs, AddCount(c)
    PROVE  Books'
<1>1. /\ cgroup[c] \in Cgroups /\ Ended(c, ~ held[c] \/ c \in seen[cgroup[c]])
      /\ UNCHANGED <<seen, out, delivered, again>>
  BY DEF AddCount, Types, TypeOK
<1>2. CASE ~ held[c]
  <2>1. value' = value
    BY <1>2 DEF AddCount, Charge
  <2>2. Ended(c, TRUE)
    BY <1>1, <1>2 DEF Ended
  <2>3. QED
    BY <1>1, <2>1, <2>2, ExcusedBooked
<1>3. CASE held[c]
  <2>1. PICK k \in Cgroups : k = cgroup[c]
    BY <1>1
  <2>2. value' = [value EXCEPT ![k][c]["count"] = @ + 1]
    BY <1>3, <2>1 DEF AddCount, Charge
  <2> SUFFICES ASSUME NEW g \in Cgroups PROVE BooksAt(g)'
    BY BooksOfNext
  <2>3. CASE g = k
    <3>1. /\ completed'[g] = completed[g] + 1
          /\ excused'[g] = IF c \in seen[g] THEN excused[g] + 1 ELSE excused[g]
      BY <1>1, <1>3, <2>1, <2>3 DEF Ended, Types, TypeOK
    <3>2. /\ Total(g)' = Total(g) + 1
          /\ Unread(g)' = IF c \in seen[g] THEN Unread(g) ELSE Unread(g) + 1
      BY <1>1, <2>2, <2>3, SumsCharged DEF Types
    <3>3. /\ completed[g] \in Nat /\ delivered[g] \in Nat /\ excused[g] \in Nat
          /\ again[g] \in Nat /\ out[g].count \in Nat
          /\ Total(g) \in Nat /\ Unread(g) \in Nat
      BY Numbers DEF Types
    <3>4. BooksAt(g)
      BY BooksOf
    <3>5. CASE c \in seen[g]
      BY <1>1, <3>1, <3>2, <3>3, <3>4, <3>5 DEF BooksAt, Counted
    <3>6. CASE c \notin seen[g]
      BY <1>1, <3>1, <3>2, <3>3, <3>4, <3>6 DEF BooksAt, Counted
    <3>7. QED
      BY <3>5, <3>6
  <2>4. CASE g # k
    <3>1. completed'[g] = completed[g] /\ excused'[g] = excused[g]
      BY <1>1, <2>1, <2>4 DEF Ended, Types, TypeOK
    <3>2. value'[g] = value[g]
      BY <2>2, <2>4 DEF Types, TypeOK
    <3>3. QED
      BY <1>1, <3>1, <3>2, NothingBookedAt
  <2>5. QED
    BY <2>3, <2>4
<1>4. QED
  BY <1>2, <1>3

(* What was unread is read; what will be read again is what there is.      *)
LEMMA CopyCountBooked ==
    ASSUME Types, Books, CopyCount
    PROVE  Books'
<1>1. PICK k \in Cgroups, c \in CPUs : Copied(k, c)
  BY CopyCountStep
<1>2. UNCHANGED <<value, completed, delivered, excused, again>>
  BY <1>1 DEF Copied
<1> SUFFICES ASSUME NEW g \in Cgroups PROVE BooksAt(g)'
  BY BooksOfNext
<1>3. CASE g = k
  <2>1. /\ c \notin seen[g] /\ seen'[g] = seen[g] \cup {c}
        /\ out'[g].count = out[g].count + value[g][c].count
    BY <1>1, <1>3 DEF Copied
  <2>2. Unread(g)' + value[g][c].count = Unread(g) /\ Total(g)' = Total(g)
    BY <1>2, <2>1, UnreadLess, SumsSame DEF Types
  <2>3. /\ completed[g] \in Nat /\ delivered[g] \in Nat /\ excused[g] \in Nat
        /\ again[g] \in Nat /\ out[g].count \in Nat
        /\ Total(g) \in Nat /\ Unread(g) \in Nat /\ value[g][c].count \in Nat
    BY Numbers, NumbersOfCopies DEF Types
  <2>4. Unread(g)' \in Nat
    <3>1. TypeOK'
      BY CopyCountTypes DEF Types
    <3>2. \A d \in CPUs : [e \in CPUs |-> IF e \in seen'[g] THEN 0 ELSE value'[g][e].count][d] \in Nat
      BY <3>1 DEF TypeOK
    <3>3. QED
      BY <3>2, SizesAssumption, SumType DEF Unread, SumFunction
  <2>5. BooksAt(g)
    BY BooksOf
  <2>6. seen[g] = {} => out[g].count = 0 /\ Unread(g) = Total(g)
    BY <1>1, UnreadAll DEF Types, Phases, Zero, Copied
  <2>7. Counted(g)' = Counted(g)
    BY <1>2, <2>1, <2>2, <2>3, <2>4 DEF Counted
  <2>8. out'[g].count + Unread(g)' = out[g].count + Unread(g)
    BY <2>1, <2>2, <2>3, <2>4
  <2>9. /\ out[g].count + Unread(g) =< Total(g)
        /\ delivered[g] + Total(g) =< completed[g] + again[g]
    BY <2>3, <2>5, <2>6 DEF BooksAt, Counted
  <2>10. QED
    BY <1>2, <2>2, <2>5, <2>7, <2>8, <2>9 DEF BooksAt
<1>4. CASE g # k
  <2>1. seen'[g] = seen[g] /\ out'[g] = out[g]
    BY <1>1, <1>4 DEF Copied
  <2>2. QED
    BY <1>2, <2>1, NothingBookedAt
<1>5. QED
  BY <1>3, <1>4

(* A Read that fails leaves every element where it was.                    *)
LEMMA EndCopyBooked ==
    ASSUME Types, Books, EndCopy
    PROVE  Books'
<1>1. rpc = "copy" /\ UNCHANGED <<value, completed, delivered, excused, again>>
  BY DEF EndCopy
<1>2. CASE UNCHANGED <<seen, out>>
  BY <1>1, <1>2, NothingBooked
<1>3. CASE Return
  <2> SUFFICES ASSUME NEW g \in Cgroups PROVE BooksAt(g)'
    BY BooksOfNext
  <2>1. seen'[g] = {} /\ out'[g].count = 0 /\ (seen[g] = {} => out[g].count = 0)
    BY <1>1, <1>3 DEF Return, NothingRead, NoneSeen, Zero, Types, Phases
  <2>2. /\ Total(g)' = Total(g) /\ Unread(g)' = Total(g)
        /\ seen[g] = {} => Unread(g) = Total(g)
    BY <1>1, <2>1, SumsSame, UnreadAll, UnreadAllNext
  <2>3. /\ completed[g] \in Nat /\ delivered[g] \in Nat /\ excused[g] \in Nat
        /\ again[g] \in Nat /\ out[g].count \in Nat
        /\ Total(g) \in Nat /\ Unread(g) \in Nat
    BY Numbers DEF Types
  <2>4. BooksAt(g)
    BY BooksOf
  <2>5. CASE seen[g] = {}
    BY <1>1, <2>1, <2>2, <2>3, <2>4, <2>5 DEF BooksAt, Counted
  <2>6. CASE seen[g] # {}
    BY <1>1, <2>1, <2>2, <2>3, <2>4, <2>6 DEF BooksAt, Counted
  <2>7. QED
    BY <2>5, <2>6
<1>4. QED
  BY <1>2, <1>3 DEF EndCopy

(* What was read is gone; or it is still there, and is booked as repeated. *)
LEMMA DeleteBooked ==
    ASSUME Types, Books, NEW k \in Cgroups, Delete(k)
    PROVE  Books'
<1>1. /\ seen[k] = CPUs /\ seen'[k] = {} /\ \A g \in Cgroups \ {k} : seen'[g] = seen[g]
      /\ UNCHANGED <<out, completed, delivered, excused>>
  BY DEF Delete, Keys, Types, TypeOK
<1>2. \A g \in Cgroups \ {k} : value'[g] = value[g] /\ again'[g] = again[g]
  BY DEF Delete, Types, TypeOK
<1> SUFFICES ASSUME NEW g \in Cgroups PROVE BooksAt(g)'
  BY BooksOfNext
<1>3. CASE g = k
  <2>1. Unread(g) = 0 /\ Unread(g)' = Total(g)'
    BY <1>1, <1>3, UnreadNone, UnreadAllNext
  <2>2. /\ completed[g] \in Nat /\ delivered[g] \in Nat /\ excused[g] \in Nat
        /\ again[g] \in Nat /\ out[g].count \in Nat /\ Total(g) \in Nat
    BY Numbers DEF Types
  <2>3. BooksAt(g) /\ seen[g] # {}
    BY <1>1, <1>3, BooksOf, SizesAssumption
  <2>4. CASE value'[k] = Zeroed /\ again' = again
    <3>1. Total(g)' = 0
      BY <1>3, <2>4, TotalZeroed
    <3>2. QED
      BY <1>1, <1>3, <2>1, <2>2, <2>3, <2>4, <3>1 DEF BooksAt, Counted
  <2>5. CASE value' = value /\ again' = [again EXCEPT ![k] = @ + out[k].count]
    <3>1. Total(g)' = Total(g)
      BY <2>5, SumsSame
    <3>2. again'[g] = again[g] + out[g].count
      BY <1>3, <2>5 DEF Types, TypeOK
    <3>3. QED
      BY <1>1, <1>3, <2>1, <2>2, <2>3, <3>1, <3>2 DEF BooksAt, Counted
  <2>6. QED
    BY <2>4, <2>5 DEF Delete, Types, TypeOK
<1>4. CASE g # k
  BY <1>1, <1>2, <1>4, NothingBookedAt
<1>5. QED
  BY <1>3, <1>4

LEMMA EndDeleteBooked ==
    ASSUME Types, Books, EndDelete
    PROVE  Books'
<1> SUFFICES ASSUME NEW g \in Cgroups PROVE BooksAt(g)'
  BY BooksOfNext
<1>1. /\ seen[g] = {} /\ seen'[g] = {} /\ out'[g].count = 0
      /\ delivered'[g] = delivered[g] + out[g].count
      /\ UNCHANGED <<value, completed, excused, again>>
  BY DEF EndDelete, Return, NothingRead, NoneSeen, Zero, Keys, Whole, Types, Phases
<1>2. Total(g)' = Total(g) /\ Unread(g)' = Unread(g)
  BY <1>1, SumsSame
<1>3. /\ completed[g] \in Nat /\ delivered[g] \in Nat /\ excused[g] \in Nat
      /\ again[g] \in Nat /\ out[g].count \in Nat
      /\ Total(g) \in Nat /\ Unread(g) \in Nat
  BY Numbers DEF Types
<1>4. BooksAt(g)
  BY BooksOf
<1>5. QED
  BY <1>1, <1>2, <1>3, <1>4 DEF BooksAt, Counted

LEMMA StepBooks ==
    ASSUME Types, Books, [Next]_vars
    PROVE  Books'
<1>1. ASSUME value' = value, UNCHANGED <<seen, out, completed, delivered, excused, again>>
      PROVE  Books'
  BY <1>1, NothingBooked
<1>2. ASSUME NEW r \in Requests, NEW g \in Cgroups, Stamp(r, g)
      PROVE  Books'
  BY <1>1, <1>2 DEF Stamp
<1>3. ASSUME NEW c \in CPUs, NEW r \in Requests, Complete(c, r)
      PROVE  Books'
  BY <1>1, <1>3 DEF Complete
<1>4. ASSUME NEW c \in CPUs, Look(c)
      PROVE  Books'
  <2>1. cgroup[c] \in Cgroups
    BY <1>4 DEF Look, Types, TypeOK
  <2>2. CASE Ended(c, TRUE)
    BY <1>4, <2>1, <2>2, ExcusedBooked DEF Look
  <2>3. CASE ~ Ended(c, TRUE)
    BY <1>1, <1>4, <2>3 DEF Look
  <2>4. QED
    BY <2>2, <2>3
<1>5. ASSUME NEW c \in CPUs, AddSlot(c)
      PROVE  Books'
  <2>1. cgroup[c] \in Cgroups /\ value \in Values
    BY <1>5 DEF AddSlot, Types, TypeOK, Values
  <2>2. \A g \in Cgroups, d \in CPUs : value'[g][d].count = value[g][d].count
    BY <1>5, <2>1, SlotChargedCounts
  <2>3. QED
    BY <1>5, <2>2, NothingBooked DEF AddSlot
<1>6. ASSUME NEW g \in Cgroups, NEW c \in CPUs, CopySlots(g, c)
      PROVE  Books'
  BY <1>1, <1>6 DEF CopySlots
<1>7. CASE StartRead \/ UNCHANGED vars
  BY <1>1, <1>7 DEF StartRead, vars
<1>8. QED
  BY <1>2, <1>3, <1>4, <1>5, <1>6, <1>7, AddCountBooked, CopyCountBooked, EndCopyBooked,
     DeleteBooked, EndDeleteBooked DEF Next

-----------------------------------------------------------------------------
LEMMA InitHolds == Init => IInv
<1> SUFFICES ASSUME Init PROVE IInv
  OBVIOUS
<1>1. Begun = {} /\ present = {}
  BY DEF Init, Begun
<1>2. Types
  BY <1>1, FS_EmptySet, SizesAssumption, NoneAssumption
     DEF Init, Types, TypeOK, Finite, Phases, Zeroed, Zero, NothingRead, NoneSeen, NoEvents
<1>3. \A g \in Cgroups : seen[g] = {} /\ Total(g) = 0 /\ Unread(g) = 0
  <2>1. \A g \in Cgroups : \A c \in CPUs : [d \in CPUs |-> value[g][d].count][c] = 0
    BY DEF Init, Zeroed, Zero
  <2>2. \A g \in Cgroups : Total(g) = 0
    BY <2>1, SizesAssumption, SumZero DEF Total, SumFunction
  <2>3. \A g \in Cgroups : seen[g] = {}
    BY DEF Init, NoneSeen
  <2>4. QED
    BY <2>2, <2>3, UnreadAll
<1>4. \A g \in Cgroups : out[g].slots = 0 /\ out[g].count = 0
  BY DEF Init, NothingRead, Zero
<1>5. Skewed
  BY DEF Init, Skewed, SkewedAt, Between, Zeroed, Zero
<1>6. Apart
  <2>1. Cardinality(CPUs) \in Nat /\ Cardinality({}) = 0
    BY SizesAssumption, FS_CardinalityType, FS_EmptySet
  <2>2. HistogramMatchesCount
    BY <1>4, <2>1 DEF Init, HistogramMatchesCount, NoEvents
  <2>3. Ahead
    <3>1. \A g \in Cgroups : Cardinality(seen[g]) = 0
      BY <1>3, <2>1
    <3>2. QED
      BY <1>4, <3>1 DEF Ahead
  <2>4. QED
    BY <2>2, <2>3 DEF Init, Apart, HalfRead
<1>7. Books
  BY <1>3, <1>4 DEF Init, Books, NoneCountedTwice, LostOnlyInRace, Reread, Counted, NoEvents
<1>8. QED
  BY <1>2, <1>5, <1>6, <1>7 DEF IInv

LEMMA Invariance == Spec => []IInv
<1>1. IInv /\ [Next]_vars => IInv'
  BY StepTypes, StepSkewed, StepApart, StepBooks DEF IInv
<1>2. QED
  BY InitHolds, <1>1, PTL DEF Spec

(* Both maps keep within their capacity and every counter is a number, for *)
(* any CPUs, cgroups and requests (the eBPF maps' max_entries).            *)
THEOREM TypeCorrect == Spec => []TypeOK
<1>1. IInv => TypeOK
  BY DEF IInv, Types
<1>2. QED
  BY <1>1, Invariance, PTL

(* Read-and-delete returns no event in two intervals unless the delete of  *)
(* its element failed; a Read that fails half-way and is made again does   *)
(* not.                                                                    *)
THEOREM CountedAtMostOnce == Spec => []NoneCountedTwice
<1>1. IInv => NoneCountedTwice
  BY DEF IInv, Books
<1>2. QED
  BY <1>1, Invariance, PTL

(* The only events a Read misses are those whose handler raced the copy    *)
(* and the delete of its element, or found the map full.                   *)
THEOREM LossesExplained == Spec => []LostOnlyInRace
<1>1. IInv => LostOnlyInRace
  BY DEF IInv, Books
<1>2. QED
  BY <1>1, Invariance, PTL

(* Though counters are charged and copied word by word, the histogram a    *)
(* Read returns has at most one event per CPU more than its count, and its *)
(* count no events more than were charged to a copy between the reading of *)
(* its two words.                                                          *)
THEOREM ApartByTheMoment == Spec => []HistogramMatchesCount
<1>1. IInv => HistogramMatchesCount
  BY DEF IInv, Apart
<1>2. QED
  BY <1>1, Invariance, PTL
=============================================================================
