------------------------------ MODULE FiniteSums ------------------------------
(***************************************************************************)
(* What the folds of the community modules compute on finite sets: sums    *)
(* and largest members, as lemmas for the proofs about Observers,          *)
(* Detection and Policy.                                                   *)
(*                                                                         *)
(* The fold behind a sum is a recursive function on subsets, so it is      *)
(* first shown to exist (SumUpto, by taking the least size of a set at     *)
(* which it would not), and what it computes follows by taking away one    *)
(* member after the other (ByRemoving). Induction is used in the form      *)
(* "a nonempty set has a least member", which needs no operator.           *)
(***************************************************************************)
EXTENDS Integers, FiniteSets, FiniteSetsExt, Functions, FiniteSetTheorems,
        WellFoundedInduction, TLAPS

(* A nonempty set of naturals has a least member: induction, in a form in  *)
(* which the property is a set.                                            *)
LEMMA LeastNumber ==
    ASSUME NEW T \in SUBSET Nat, T # {}
    PROVE  \E n \in T : \A m \in T : ~ (m < n)
<1>1. PICK n \in T : \A m \in T : ~ (<<m, n>> \in OpToRel(<, Nat))
  BY WFMin, NatLessThanWellFounded, Zenon
<1>2. ASSUME NEW m \in T, m < n PROVE <<m,n>> \in OpToRel(<, Nat)
  BY <1>2, Zenon DEF OpToRel
<1>3. QED
  BY <1>1, <1>2, Zenon

(* Among some subsets of a finite set one contains no other of them.       *)
LEMMA LeastSet ==
    ASSUME NEW S, IsFiniteSet(S), NEW P \in SUBSET (SUBSET S), P # {}
    PROVE  \E T \in P : \A U \in P : U \subseteq T => U = T
<1>1. IsWellFoundedOn(StrictSubsetOrdering(S), SUBSET S)
  BY FS_StrictSubsetOrderingWellFounded, FS_FiniteSubsetsOfFinite
<1>2. PICK T \in P : \A U \in P : ~ (<<U, T>> \in StrictSubsetOrdering(S))
  BY <1>1, WFMin, Zenon
<1>3. QED
  BY <1>2 DEF StrictSubsetOrdering

First(s) == CHOOSE x \in s : TRUE
SumOf(h, f, s) == IF s = {} THEN 0 ELSE f[First(s)] + h[s \ {First(s)}]
IsSum(h, f, D) == h = [s \in D |-> SumOf(h, f, s)]

(* What SumFunctionOnSet stands for once its definition is opened.         *)
LEMMA Unfold ==
    ASSUME NEW f, NEW S
    PROVE  SumFunctionOnSet(f, S) = (CHOOSE h : IsSum(h, f, SUBSET S))[S]
BY DEF SumFunctionOnSet, FoldFunctionOnSet, MapThenFoldSet, IsSum, SumOf, First

Upto(S, n) == {s \in SUBSET S : Cardinality(s) =< n}

LEMMA FirstIn == \A s : s # {} => First(s) \in s
BY DEF First

(* A sum of all subsets with at most n members exists: one of those with   *)
(* n members is made from one of those with n - 1.                         *)
LEMMA SumUpto ==
    ASSUME NEW S, IsFiniteSet(S), NEW f, NEW n \in Nat
    PROVE  \E h : IsSum(h, f, Upto(S, n))
<1> DEFINE Bad == {k \in Nat : ~ \E h : IsSum(h, f, Upto(S, k))}
<1>1. SUFFICES ASSUME Bad # {} PROVE FALSE
  OBVIOUS
<1>2. PICK k \in Bad : \A m \in Bad : ~ (m < k)
  BY <1>1, LeastNumber
<1>3. \A s \in SUBSET S : IsFiniteSet(s) /\ Cardinality(s) \in Nat
  BY FS_Subset, FS_CardinalityType
<1>4. CASE k = 0
  <2> DEFINE h == [s \in Upto(S, 0) |-> 0]
  <2>1. \A s \in Upto(S, 0) : s = {}
    BY <1>3, FS_EmptySet DEF Upto
  <2>2. IsSum(h, f, Upto(S, 0))
    BY <2>1 DEF IsSum, SumOf
  <2>3. QED
    BY <2>2, <1>4
<1>5. CASE k # 0
  <2>1. k - 1 \in Nat /\ k - 1 \notin Bad
    BY <1>2, <1>5
  <2>2. PICK g : IsSum(g, f, Upto(S, k - 1))
    BY <2>1
  <2> DEFINE h == [s \in Upto(S, k) |-> SumOf(g, f, s)]
  <2>3. \A t \in Upto(S, k - 1) : t \in Upto(S, k) /\ h[t] = g[t]
    BY <2>1, <2>2, <1>3 DEF IsSum, Upto
  <2>4. ASSUME NEW s \in Upto(S, k)
        PROVE  SumOf(g, f, s) = SumOf(h, f, s)
    <3>1. CASE s = {}
      BY <3>1 DEF SumOf
    <3>2. CASE s # {}
      <4>1. First(s) \in s
        BY <3>2, FirstIn
      <4>2. s \ {First(s)} \in Upto(S, k - 1)
        BY <4>1, <1>3, <2>1, FS_RemoveElement DEF Upto
      <4>3. QED
        BY <4>2, <2>3 DEF SumOf
    <3>3. QED
      BY <3>1, <3>2
  <2>5. IsSum(h, f, Upto(S, k))
    BY <2>4 DEF IsSum
  <2>6. QED
    BY <2>5
<1>6. QED
  BY <1>4, <1>5

(* So the recursive definition has a solution, and the sum over a set is   *)
(* one member's value plus the sum over the others.                        *)
LEMMA SumExists ==
    ASSUME NEW S, IsFiniteSet(S), NEW f
    PROVE  \E h : IsSum(h, f, SUBSET S) /\ SumFunctionOnSet(f, S) = h[S]
<1>1. Cardinality(S) \in Nat
  BY FS_CardinalityType
<1>2. SUBSET S = Upto(S, Cardinality(S))
  BY FS_Subset DEF Upto
<1>3. \E h : IsSum(h, f, SUBSET S)
  <2>1. \E h : IsSum(h, f, Upto(S, Cardinality(S)))
    BY <1>1, SumUpto
  <2>2. QED
    BY <1>2, <2>1, Zenon
<1>4. IsSum(CHOOSE h : IsSum(h, f, SUBSET S), f, SUBSET S)
  BY <1>3
<1>5. QED
  BY <1>4, Unfold

(* Induction over the subsets of a finite set: a set G of them that has the *)
(* empty one, and each one if it has that without its first, has all.      *)
LEMMA ByRemoving ==
    ASSUME NEW S, IsFiniteSet(S), NEW G,
           {} \in G,
           \A s \in SUBSET S : s # {} /\ s \ {First(s)} \in G => s \in G
    PROVE  SUBSET S \subseteq G
<1> DEFINE Bad == (SUBSET S) \ G
<1>1. SUFFICES ASSUME Bad # {} PROVE FALSE
  OBVIOUS
<1>2. PICK s \in Bad : \A u \in Bad : u \subseteq s => u = s
  <2>1. Bad \in SUBSET (SUBSET S)
    OBVIOUS
  <2> HIDE DEF Bad
  <2>2. QED
    BY <1>1, <2>1, LeastSet
<1>3. s # {}
  OBVIOUS
<1>4. First(s) \in s
  BY <1>3, FirstIn
<1>5. s \ {First(s)} \in G
  BY <1>2, <1>4
<1>6. QED
  BY <1>3, <1>5

(* Sums of naturals are naturals.                                          *)
LEMMA SumType ==
    ASSUME NEW S, IsFiniteSet(S), NEW f, \A x \in S : f[x] \in Nat
    PROVE  SumFunctionOnSet(f, S) \in Nat
<1>1. PICK h : IsSum(h, f, SUBSET S) /\ SumFunctionOnSet(f, S) = h[S]
  BY SumExists
<1> DEFINE G == {s \in SUBSET S : h[s] \in Nat}
<1>2. {} \in G
  BY <1>1 DEF IsSum, SumOf
<1>3. ASSUME NEW s \in SUBSET S, s # {}, s \ {First(s)} \in G PROVE s \in G
  <2>1. h[s] = f[First(s)] + h[s \ {First(s)}]
    BY <1>1, <1>3 DEF IsSum, SumOf
  <2>2. f[First(s)] \in Nat
    BY <1>3, FirstIn
  <2>3. QED
    BY <1>3, <2>1, <2>2
<1>4. SUBSET S \subseteq G
  <2> HIDE DEF G
  <2>1. QED
    BY <1>2, <1>3, ByRemoving
<1>5. QED
  BY <1>1, <1>4

(* A sum of zeros is zero.                                                 *)
LEMMA SumZero ==
    ASSUME NEW S, IsFiniteSet(S), NEW f, \A x \in S : f[x] = 0
    PROVE  SumFunctionOnSet(f, S) = 0
<1>1. PICK h : IsSum(h, f, SUBSET S) /\ SumFunctionOnSet(f, S) = h[S]
  BY SumExists
<1> DEFINE G == {s \in SUBSET S : h[s] = 0}
<1>2. {} \in G
  BY <1>1 DEF IsSum, SumOf
<1>3. ASSUME NEW s \in SUBSET S, s # {}, s \ {First(s)} \in G PROVE s \in G
  BY <1>1, <1>3, FirstIn DEF IsSum, SumOf
<1>4. SUBSET S \subseteq G
  <2> HIDE DEF G
  <2>1. QED
    BY <1>2, <1>3, ByRemoving
<1>5. QED
  BY <1>1, <1>4

(* When one summand changes, the sum changes by as much.                   *)
LEMMA SumChange ==
    ASSUME NEW S, IsFiniteSet(S), NEW c \in S, NEW f \in [S -> Nat], NEW e \in [S -> Nat],
           \A x \in S \ {c} : e[x] = f[x]
    PROVE  SumFunctionOnSet(e, S) + f[c] = SumFunctionOnSet(f, S) + e[c]
<1>1. PICK h : IsSum(h, f, SUBSET S) /\ SumFunctionOnSet(f, S) = h[S]
  BY SumExists
<1>2. PICK k : IsSum(k, e, SUBSET S) /\ SumFunctionOnSet(e, S) = k[S]
  BY SumExists
<1> DEFINE G == {s \in SUBSET S : /\ h[s] \in Nat /\ k[s] \in Nat
                                  /\ c \notin s => k[s] = h[s]
                                  /\ c \in s => k[s] + f[c] = h[s] + e[c]}
<1>3. {} \in G
  BY <1>1, <1>2 DEF IsSum, SumOf
<1>4. ASSUME NEW s \in SUBSET S, s # {}, s \ {First(s)} \in G PROVE s \in G
  <2>1. First(s) \in s
    BY <1>4, FirstIn
  <2>2. h[s] = f[First(s)] + h[s \ {First(s)}] /\ k[s] = e[First(s)] + k[s \ {First(s)}]
    BY <1>1, <1>2, <1>4 DEF IsSum, SumOf
  <2>3. /\ f[First(s)] \in Nat /\ e[First(s)] \in Nat /\ f[c] \in Nat /\ e[c] \in Nat
        /\ First(s) # c => e[First(s)] = f[First(s)]
    BY <2>1
  <2>4. QED
    BY <1>4, <2>1, <2>2, <2>3
<1>5. SUBSET S \subseteq G
  <2> HIDE DEF G
  <2>1. QED
    BY <1>3, <1>4, ByRemoving
<1>6. QED
  BY <1>1, <1>2, <1>5

(* MapThenSumSet of a function's values is the same sum.                   *)
LEMMA MapThenSum ==
    ASSUME NEW f, NEW S
    PROVE  MapThenSumSet(LAMBDA k : f[k], S) = SumFunctionOnSet(f, S)
BY DEF MapThenSumSet, MapThenFoldSet, SumFunctionOnSet, FoldFunctionOnSet

-----------------------------------------------------------------------------
(* Largest and smallest members *)

LEMMA MaxOfTwo ==
    ASSUME NEW a \in Int, NEW b \in Int
    PROVE  Max({a, b}) = IF a >= b THEN a ELSE b
BY DEF Max

LEMMA MinOfTwo ==
    ASSUME NEW a \in Int, NEW b \in Int
    PROVE  Min({a, b}) = IF a =< b THEN a ELSE b
BY DEF Min

LEMMA MinOfThree ==
    ASSUME NEW a \in Int, NEW b \in Int, NEW c \in Int
    PROVE  LET m == Min({a, b, c})
           IN  m \in {a, b, c} /\ m =< a /\ m =< b /\ m =< c
BY DEF Min

LEMMA MinOfNaturals ==
    ASSUME NEW T \in SUBSET Nat, T # {}
    PROVE  Min(T) \in T /\ \A x \in T : Min(T) =< x
<1>1. PICK n \in T : \A m \in T : ~ (m < n)
  BY LeastNumber
<1>2. \A m \in T : n =< m
  BY <1>1
<1>3. QED
  BY <1>2 DEF Min

(* A finite nonempty set of integers has a largest member.                 *)
LEMMA MaxOfFinite ==
    ASSUME NEW T \in SUBSET Int, IsFiniteSet(T), T # {}
    PROVE  Max(T) \in T /\ \A x \in T : Max(T) >= x
<1> DEFINE G == {s \in SUBSET T : s = {} \/ \E m \in s : \A x \in s : m >= x}
<1>1. {} \in G
  OBVIOUS
<1>2. ASSUME NEW s \in SUBSET T, s # {}, s \ {First(s)} \in G
      PROVE  s \in G
  <2>1. First(s) \in s
    BY <1>2, FirstIn
  <2>2. PICK a : a = First(s)
    OBVIOUS
  <2>3. CASE s \ {a} = {}
    <3>1. a \in s /\ a \in Int /\ \A x \in s : x = a
      BY <2>1, <2>2, <2>3
    <3>2. QED
      BY <3>1
  <2>4. CASE s \ {a} # {}
    <3>1. PICK m \in s \ {a} : \A x \in s \ {a} : m >= x
      BY <1>2, <2>2, <2>4
    <3>2. m \in Int /\ a \in Int /\ a \in s /\ s \subseteq Int
      BY <2>1, <2>2
    <3>3. CASE m >= a
      <4>1. \A x \in s : m >= x
        BY <3>1, <3>3
      <4>2. QED
        BY <3>1, <4>1
    <3>4. CASE ~ (m >= a)
      <4>1. \A x \in s : a >= x
        BY <3>1, <3>2, <3>4
      <4>2. QED
        BY <3>2, <4>1
    <3>5. QED
      BY <3>3, <3>4
  <2>5. QED
    BY <2>3, <2>4
<1>3. SUBSET T \subseteq G
  <2> HIDE DEF G
  <2>1. QED
    BY <1>1, <1>2, ByRemoving
<1>4. \E m \in T : \A x \in T : m >= x
  BY <1>3
<1>5. QED
  BY <1>4 DEF Max
=============================================================================
