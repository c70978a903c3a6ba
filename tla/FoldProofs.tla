----------------------------- MODULE FoldProofs -----------------------------
(***************************************************************************)
(* Proofs about folds, for any step and any invariant of the step.  The    *)
(* recursion of MapThenFoldSet is over the subsets of a finite set; that   *)
(* there is a function that satisfies it, and what the function returns,   *)
(* is shown by induction on their number of elements.                      *)
(*                                                                         *)
(* Instances of this module replace Op and Inv by the step and the         *)
(* invariant of a fold: the theorems then hold for it.                     *)
(***************************************************************************)
EXTENDS Integers, FiniteSets, Sequences, FiniteSetTheorems, SequenceTheorems,
        WellFoundedInduction, TLAPS

CONSTANTS
    Op(_, _, _, _),    \* the step: from what there is and an element, with two
                       \* parameters that do not change
    Inv(_, _, _)       \* what holds after a number of steps, with a parameter

\* A set of natural numbers has a least element.
LEMMA LeastNat ==
    ASSUME NEW T \in SUBSET Nat, T /= {}
    PROVE  \E x \in T : \A y \in T : x <= y
<1> DEFINE R == OpToRel(<, Nat)
<1>1. IsWellFoundedOn(R, Nat)
  BY NatLessThanWellFounded
<1>2. \A x, y \in Nat : x < y => <<x, y>> \in R
  BY DEF OpToRel
<1> HIDE DEF R
<1>3. PICK x \in T : \A y \in T : ~(<<y, x>> \in R)
  BY <1>1, WFMin
<1>4. \A y \in T : x <= y
  <2> SUFFICES ASSUME NEW y \in T PROVE x <= y
    OBVIOUS
  <2>1. x \in Nat /\ y \in Nat
    OBVIOUS
  <2>2. ~(y < x)
    BY <1>2, <1>3, <2>1
  <2> QED BY <2>1, <2>2
<1> QED
  BY <1>4

\* Induction, on a set of numbers.
LEMMA SetInduction ==
    ASSUME NEW T \in SUBSET Nat, 0 \in T, \A n \in T : n + 1 \in T
    PROVE  T = Nat
<1> SUFFICES ASSUME Nat \ T /= {} PROVE FALSE
  OBVIOUS
<1>1. PICK n \in Nat \ T : \A y \in Nat \ T : n <= y
  BY LeastNat
<1>2. n - 1 \in Nat /\ ~(n <= n - 1) /\ (n - 1) + 1 = n
  BY <1>1
<1>3. n - 1 \in T
  BY <1>1, <1>2
<1> QED
  BY <1>2, <1>3

\* f is the function of a fold over D that takes the elements in the order of
\* ch, the last one first.
Folds(f, D, ch, b, q, o, u) ==
    f = [s \in SUBSET D |-> IF s = {} THEN b
                            ELSE Op(f[s \ {ch[s]}], q[ch[s]], o, u)]

\* There is such a function.
Solvable(D, ch, b, q, o, u) == \E f : Folds(f, D, ch, b, q, o, u)

\* The subsets of D of at most n elements.
Upto(D, n) == {s \in SUBSET D : Cardinality(s) <= n}

\* Without one element a set is smaller.
LEMMA Smaller ==
    ASSUME NEW D, IsFiniteSet(D), NEW s \in SUBSET D, NEW x \in s
    PROVE  /\ IsFiniteSet(s) /\ Cardinality(s) \in Nat /\ Cardinality(s) > 0
           /\ s \ {x} \in SUBSET D /\ Cardinality(s \ {x}) = Cardinality(s) - 1
<1>1. IsFiniteSet(s)
  BY FS_Subset
<1>2. Cardinality(s) \in Nat /\ Cardinality(s) /= 0
  BY <1>1, FS_CardinalityType, FS_EmptySet
<1>3. Cardinality(s \ {x}) = Cardinality(s) - 1
  BY <1>1, FS_RemoveElement
<1> QED
  BY <1>1, <1>2, <1>3

\* The recursion of a fold has a solution.
THEOREM FoldExists ==
    ASSUME NEW D, IsFiniteSet(D),
           NEW ch, \A s \in SUBSET D : s /= {} => ch[s] \in s,
           NEW b, NEW q, NEW o, NEW u
    PROVE  Solvable(D, ch, b, q, o, u)
<1> DEFINE Step(g, s) == IF s = {} THEN b ELSE Op(g[s \ {ch[s]}], q[ch[s]], o, u)
           Solved == {n \in Nat : \E g : g = [s \in Upto(D, n) |-> Step(g, s)]}
<1>1. 0 \in Solved
  <2>1. \A s \in Upto(D, 0) : s = {}
    <3> SUFFICES ASSUME NEW s \in Upto(D, 0) PROVE s = {}
      OBVIOUS
    <3>1. IsFiniteSet(s) /\ Cardinality(s) <= 0
      BY FS_Subset DEF Upto
    <3> QED BY <3>1, FS_EmptySet, FS_CardinalityType
  <2> DEFINE g == [s \in Upto(D, 0) |-> b]
  <2>2. g = [s \in Upto(D, 0) |-> Step(g, s)]
    BY <2>1
  <2> QED BY <2>2
<1>2. ASSUME NEW n \in Solved PROVE n + 1 \in Solved
  <2>1. n \in Nat
    OBVIOUS
  <2>2. PICK g : g = [s \in Upto(D, n) |-> Step(g, s)]
    OBVIOUS
  <2> DEFINE h == [s \in Upto(D, n + 1) |-> Step(g, s)]
  <2>3. ASSUME NEW s \in Upto(D, n + 1) PROVE Step(g, s) = Step(h, s)
    <3>1. CASE s = {}
      BY <3>1
    <3>2. CASE s /= {}
      <4> DEFINE t == s \ {ch[s]}
      <4>1. /\ s \in SUBSET D /\ Cardinality(s) <= n + 1 /\ ch[s] \in s
        BY <3>2 DEF Upto
      <4>2. /\ t \in SUBSET D /\ Cardinality(t) = Cardinality(s) - 1 /\ Cardinality(s) \in Nat
        BY <4>1, Smaller
      <4>3. t \in Upto(D, n) /\ t \in Upto(D, n + 1)
        BY <2>1, <4>1, <4>2 DEF Upto
      <4> HIDE DEF t
      <4>4. g[t] = Step(g, t)
        BY <2>2, <4>3
      <4>5. h[t] = Step(g, t)
        BY <4>3
      <4>6. g[s \ {ch[s]}] = h[s \ {ch[s]}]
        BY <4>4, <4>5 DEF t
      <4> QED BY <4>6
    <3> QED BY <3>1, <3>2
  <2>4. h = [s \in Upto(D, n + 1) |-> Step(h, s)]
    BY <2>3
  <2>5. n + 1 \in Nat
    BY <2>1
  <2> QED BY <2>4, <2>5
<1>3. Solved = Nat
  <2> HIDE DEF Solved
  <2>1. Solved \in SUBSET Nat
    BY DEF Solved
  <2> QED BY <1>1, <1>2, <2>1, SetInduction
<1>4. Cardinality(D) \in Solved
  BY <1>3, FS_CardinalityType
<1>5. PICK f : f = [s \in Upto(D, Cardinality(D)) |-> Step(f, s)]
  BY <1>4
<1>6. Upto(D, Cardinality(D)) = SUBSET D
  BY FS_Subset DEF Upto
<1> QED
  BY <1>5, <1>6 DEF Folds, Solvable

\* A set of numbers up to n has a greatest element.
LEMMA Greatest ==
    ASSUME NEW n \in Nat, NEW T \in SUBSET (1..n), T /= {}
    PROVE  \E x \in T : \A y \in T : x >= y
<1> DEFINE R == {n - x : x \in T}
<1>1. R \in SUBSET Nat /\ R /= {}
  <2>1. \A x \in T : x \in 1..n
    OBVIOUS
  <2>2. \A x \in T : n - x \in Nat
    BY <2>1
  <2> QED BY <2>2
<1>2. PICK d \in R : \A e \in R : d <= e
  BY <1>1, LeastNat
<1>3. PICK x \in T : d = n - x
  OBVIOUS
<1>4. \A y \in T : n - x <= n - y
  BY <1>2, <1>3
<1>5. \A y \in T : x >= y
  BY <1>4
<1> QED
  BY <1>5

\* The last element.
Last(s) == CHOOSE x \in s : \A y \in s : x >= y

\* What FoldLeft returns, with its definition written out.
FoldOf(b, q, o, u) ==
    LET iter[s \in SUBSET DOMAIN q] ==
          IF s = {} THEN b
          ELSE LET x == CHOOSE x \in s : \A y \in s : x >= y
               IN  Op(iter[s \ {x}], q[x], o, u)
    IN  iter[DOMAIN q]

\* It takes the elements of a sequence one by one.
THEOREM FoldKeeps ==
    ASSUME NEW n \in Nat, NEW q, DOMAIN q = 1..n, NEW b, NEW o, NEW u, NEW p,
           Inv(b, 0, p),
           \A t : \A k \in 1..n : Inv(t, k - 1, p) => Inv(Op(t, q[k], o, u), k, p)
    PROVE  Inv(FoldOf(b, q, o, u), n, p)
<1> DEFINE D == 1..n
           ch == [s \in SUBSET D |-> Last(s)]
<1>1. IsFiniteSet(D)
  BY FS_Interval
<1>2. \A s \in SUBSET D : s /= {} => ch[s] \in s /\ \A y \in s : ch[s] >= y
  <2> SUFFICES ASSUME NEW s \in SUBSET D, s /= {}
               PROVE  Last(s) \in s /\ \A y \in s : Last(s) >= y
    OBVIOUS
  <2>1. \E x \in s : \A y \in s : x >= y
    BY Greatest
  <2> QED BY <2>1 DEF Last
<1>3. \E f : Folds(f, D, ch, b, q, o, u)
  <2> HIDE DEF ch, D
  <2>1. Solvable(D, ch, b, q, o, u)
    BY <1>1, <1>2, FoldExists
  <2> QED BY <2>1 DEF Solvable
<1> DEFINE F(f) == f = [s \in SUBSET D |-> IF s = {} THEN b
                                           ELSE Op(f[s \ {Last(s)}], q[Last(s)], o, u)]
<1>4. \E f : F(f)
  <2>1. PICK f : Folds(f, D, ch, b, q, o, u)
    BY <1>3
  <2>2. F(f)
    BY <2>1 DEF Folds
  <2> QED BY <2>2
<1> DEFINE g == CHOOSE f : F(f)
<1>5. F(g)
  BY <1>4
<1>6. FoldOf(b, q, o, u) = g[D]
  BY DEF FoldOf, Last
<1> HIDE DEF g
<1>7. g[{}] = b
  BY <1>5
<1>8. ASSUME NEW k \in D PROVE g[1..k] = Op(g[1..(k - 1)], q[k], o, u)
  <2>1. 1..k \in SUBSET D /\ k \in 1..k
    OBVIOUS
  <2>2. 1..k /= {}
    BY <2>1
  <2>3. Last(1..k) = k
    <3>1. ch[1..k] \in 1..k /\ \A y \in 1..k : ch[1..k] >= y
      BY <1>2, <2>1, <2>2
    <3>2. Last(1..k) \in 1..k /\ Last(1..k) >= k
      BY <2>1, <3>1
    <3> QED BY <3>2
  <2>4. (1..k) \ {k} = 1..(k - 1)
    OBVIOUS
  <2>5. g[1..k] = Op(g[(1..k) \ {Last(1..k)}], q[Last(1..k)], o, u)
    BY <1>5, <2>1, <2>2
  <2> QED BY <2>3, <2>4, <2>5
<1> DEFINE Kept == {k \in Nat : k <= n => Inv(g[1..k], k, p)}
<1>9. 0 \in Kept
  <2>1. 1..0 = {}
    OBVIOUS
  <2> QED BY <1>7, <2>1
<1>10. ASSUME NEW k \in Kept PROVE k + 1 \in Kept
  <2>1. k \in Nat /\ k + 1 \in Nat /\ (k + 1) - 1 = k
    OBVIOUS
  <2>2. CASE k + 1 <= n
    <3>1. k + 1 \in D /\ k <= n
      BY <2>1, <2>2
    <3>2. Inv(g[1..k], k, p)
      BY <3>1
    <3>3. g[1..(k + 1)] = Op(g[1..k], q[k + 1], o, u)
      BY <1>8, <2>1, <3>1
    <3>4. Inv(Op(g[1..k], q[k + 1], o, u), k + 1, p)
      BY <2>1, <3>1, <3>2
    <3> QED BY <2>1, <3>3, <3>4
  <2>3. CASE ~(k + 1 <= n)
    BY <2>1, <2>3
  <2> QED BY <2>2, <2>3
<1>11. Kept = Nat
  <2>1. Kept \in SUBSET Nat
    OBVIOUS
  <2> HIDE DEF Kept
  <2> QED BY <1>9, <1>10, <2>1, SetInduction
<1>12. n \in Kept
  BY <1>11
<1> QED
  BY <1>6, <1>12
=============================================================================
