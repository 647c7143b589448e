------------------------------ MODULE Folding -------------------------------
(***************************************************************************)
(* What the folds of the community modules compute, for the proofs.  They  *)
(* are recursive functions on the subsets of a finite set: Pick(s) is the  *)
(* element of s that is folded in last.  The step is a parameter of the    *)
(* module, with arguments a, b and c for what else it depends on.          *)
(***************************************************************************)
EXTENDS Integers, FiniteSets, FiniteSetTheorems, WellFoundedInduction, TLAPS

CONSTANTS Step(_, _, _, _, _), Pick(_)

Fold(a, b, c, base, S) ==
  LET iter[s \in SUBSET S] ==
        IF s = {} THEN base ELSE Step(a, b, c, Pick(s), iter[s \ {Pick(s)}])
  IN iter[S]

(* g is the function of a fold on the sets of D.                           *)
IsFold(a, b, c, base, D, g) ==
  g = [s \in D |-> IF s = {} THEN base ELSE Step(a, b, c, Pick(s), g[s \ {Pick(s)}])]

Small(S, n) == {s \in SUBSET S : Cardinality(s) <= n}

(***************************************************************************)
(* A non-empty set of natural numbers has a least element.                 *)
(***************************************************************************)
LEMMA LeastNatural ==
  ASSUME NEW T, T \subseteq Nat, T # {}
  PROVE  \E x \in T : \A y \in T : ~ (y < x)
<1>1. PICK x \in T : \A y \in T : ~ (<<y, x>> \in OpToRel(<, Nat))
  BY NatLessThanWellFounded, WFMin
<1>2. \A y \in T : ~ (y < x)
  BY <1>1 DEF OpToRel
<1> QED
  BY <1>2

LEMMA SmallerSet ==
  ASSUME NEW S, IsFiniteSet(S), NEW s \in SUBSET S, s # {}, NEW x \in s
  PROVE  /\ s \ {x} \in SUBSET S
         /\ Cardinality(s \ {x}) = Cardinality(s) - 1
         /\ Cardinality(s) \in Nat /\ Cardinality(s) >= 1
<1>1. IsFiniteSet(s)
  BY FS_Subset
<1>2. Cardinality(s) \in Nat /\ Cardinality(s) # 0
  BY <1>1, FS_CardinalityType, FS_EmptySet
<1>3. Cardinality(s \ {x}) = Cardinality(s) - 1
  BY <1>1, FS_RemoveElement
<1> QED
  BY <1>2, <1>3

(***************************************************************************)
(* The recursion has a solution, by induction on the number of elements.   *)
(***************************************************************************)
LEMMA FoldExists ==
  ASSUME NEW a, NEW b, NEW c, NEW base, NEW S, IsFiniteSet(S),
         \A s \in SUBSET S : s # {} => Pick(s) \in s
  PROVE  \E g : IsFold(a, b, c, base, SUBSET S, g)
<1> DEFINE E(n) == \E g : IsFold(a, b, c, base, Small(S, n), g)
<1>1. E(0)
  <2>1. Small(S, 0) = {{}}
    <3>1. ASSUME NEW s \in SUBSET S, Cardinality(s) <= 0 PROVE s = {}
      <4> SUFFICES ASSUME s # {} PROVE FALSE
        OBVIOUS
      <4>1. PICK x \in s : TRUE
        OBVIOUS
      <4>2. Cardinality(s) \in Nat /\ Cardinality(s) >= 1
        BY <4>1, SmallerSet
      <4> QED
        BY <3>1, <4>2
    <3>2. Cardinality({}) = 0
      BY FS_EmptySet
    <3> QED
      BY <3>1, <3>2 DEF Small
  <2> DEFINE g == [s \in {{}} |-> base]
  <2>2. IsFold(a, b, c, base, {{}}, g)
    BY DEF IsFold
  <2> QED
    BY <2>1, <2>2
<1>2. ASSUME NEW n \in Nat, E(n) PROVE E(n + 1)
  <2>1. PICK g : IsFold(a, b, c, base, Small(S, n), g)
    BY <1>2
  <2> DEFINE h == [s \in Small(S, n + 1) |->
                     IF s = {} THEN base ELSE Step(a, b, c, Pick(s), g[s \ {Pick(s)}])]
  <2>2. ASSUME NEW s \in Small(S, n + 1), s # {}
        PROVE  s \ {Pick(s)} \in Small(S, n) /\ s \ {Pick(s)} \in Small(S, n + 1)
    <3>1. Pick(s) \in s /\ s \in SUBSET S /\ Cardinality(s) <= n + 1
      BY <2>2 DEF Small
    <3> DEFINE r == s \ {Pick(s)}
    <3>2. r \in SUBSET S /\ Cardinality(r) = Cardinality(s) - 1 /\ Cardinality(s) \in Nat
      BY <2>2, <3>1, SmallerSet
    <3> QED
      BY <3>1, <3>2 DEF Small
  <2>3. ASSUME NEW s \in Small(S, n), s \in Small(S, n + 1) PROVE h[s] = g[s]
    BY <2>1, <2>3 DEF IsFold
  <2>4. \A s \in Small(S, n + 1) :
          h[s] = IF s = {} THEN base ELSE Step(a, b, c, Pick(s), h[s \ {Pick(s)}])
    BY <2>2, <2>3
  <2> HIDE DEF h
  <2>5. DOMAIN h = Small(S, n + 1) /\ h = [s \in Small(S, n + 1) |-> h[s]]
    BY DEF h
  <2>6. IsFold(a, b, c, base, Small(S, n + 1), h)
    BY <2>4, <2>5 DEF IsFold
  <2> QED
    BY <2>6
<1>3. \A n \in Nat : E(n)
  <2> DEFINE T == {n \in Nat : ~ E(n)}
  <2> SUFFICES ASSUME T # {} PROVE FALSE
    OBVIOUS
  <2>1. PICK x \in T : \A y \in T : ~ (y < x)
    <3> HIDE DEF E
    <3>1. T \subseteq Nat
      OBVIOUS
    <3> HIDE DEF T
    <3> QED
      BY <3>1, LeastNatural
  <2> HIDE DEF E
  <2>2. x \in Nat /\ x # 0 /\ ~ E(x)
    BY <1>1, <2>1
  <2>3. x - 1 \in Nat /\ x - 1 < x /\ (x - 1) + 1 = x
    BY <2>2
  <2>4. E(x - 1)
    BY <2>1, <2>3
  <2>5. E((x - 1) + 1)
    BY <1>2, <2>3, <2>4
  <2> QED
    BY <2>2, <2>3, <2>5
<1>4. Cardinality(S) \in Nat /\ Small(S, Cardinality(S)) = SUBSET S
  BY FS_CardinalityType, FS_Subset DEF Small
<1>5. E(Cardinality(S))
  <2> HIDE DEF E
  <2> QED
    BY <1>3, <1>4
<1> QED
  BY <1>4, <1>5

(***************************************************************************)
(* A fold from the left visits 1, 2, ..., n: acc[j] is what it has got     *)
(* after j steps.                                                          *)
(***************************************************************************)
FromLeft(n) ==
  /\ \A j \in 1..n : Pick(1..j) = j
  /\ \A s \in SUBSET (1..n) : s # {} => Pick(s) \in s

Unfolds(a, b, c, base, n) ==
  \E acc : /\ acc[0] = base
           /\ \A j \in 1..n : acc[j] = Step(a, b, c, j, acc[j - 1])
           /\ Fold(a, b, c, base, 1..n) = acc[n]

(***************************************************************************)
(* The folds over transactions and heights are iterations of their steps,  *)
(* one index after the other.                                              *)
(***************************************************************************)
THEOREM FoldUnfolds ==
  ASSUME NEW a, NEW b, NEW c, NEW base, NEW n \in Nat, FromLeft(n)
  PROVE  Unfolds(a, b, c, base, n)
<1> DEFINE S == 1..n
           g == CHOOSE f : IsFold(a, b, c, base, SUBSET S, f)
           acc == [j \in 0..n |-> g[1..j]]
<1>1. IsFold(a, b, c, base, SUBSET S, g)
  <2>1. IsFiniteSet(S)
    BY FS_Interval
  <2>2. \E f : IsFold(a, b, c, base, SUBSET S, f)
    BY <2>1, FoldExists DEF FromLeft
  <2> QED
    BY <2>2
<1>2. Fold(a, b, c, base, S) = g[S]
  BY DEF Fold, IsFold
<1> HIDE DEF g
<1>3. acc[0] = base
  <2>1. 1..0 = {} /\ 0 \in 0..n
    OBVIOUS
  <2>2. g[{}] = base
    BY <1>1 DEF IsFold
  <2> QED
    BY <2>1, <2>2
<1>4. ASSUME NEW j \in 1..n
      PROVE  acc[j] = Step(a, b, c, j, acc[j - 1])
  <2>1. /\ 1..j \in SUBSET S /\ 1..j # {} /\ j \in 0..n /\ j - 1 \in 0..n
        /\ (1..j) \ {j} = 1..(j - 1)
    OBVIOUS
  <2>2. g[1..j] = Step(a, b, c, j, g[(1..j) \ {j}])
    BY <1>1, <2>1 DEF IsFold, FromLeft
  <2> QED
    BY <2>1, <2>2
<1>5. acc[n] = g[S]
  OBVIOUS
<1> HIDE DEF acc
<1> QED
  BY <1>2, <1>3, <1>4, <1>5 DEF Unfolds
=============================================================================
