-------------------------- MODULE InputChunkProofs --------------------------
(***************************************************************************)
(* Proofs about InputChunk: the lists of chunks and the hash table, the    *)
(* pausing of inputs, the bound on the memory they use and what outputs    *)
(* are charged for, in every reachable state, for any number of inputs,    *)
(* outputs and chunks, any sizes and any settings.                         *)
(*                                                                         *)
(* An append is one step of the specification that goes through many       *)
(* helpers on the state as a record.  The invariant is therefore stated of *)
(* such a record, and each helper is shown to keep it; for the loops of    *)
(* the helpers this is an instance of FoldProofs!FoldKeeps.                *)
(***************************************************************************)
EXTENDS InputChunk, FiniteSetTheorems, SequenceTheorems, TLAPS

(***************************************************************************)
(* The invariant.                                                          *)
(***************************************************************************)
State == [chunk : [Chunks -> Chunk], chunks : [Inputs -> Seq(Chunks)],
          ht : [Inputs -> Chunks \cup {None}], fs : [Limited -> Int],
          mem : [Inputs -> Nat], mem_st : [Inputs -> Status],
          fs_st : [Inputs -> Status], coll : [Inputs -> BOOLEAN]]

\* No chunk is twice in a list.
Once(q) == \A j, k \in DOMAIN q : q[j] = q[k] => j = k

\* Every chunk can be loaded, so that destroying it finds its hash entry.
Hashed == "load" \notin Faults /\ unloadable = {}

ListOK(s, i) ==
    /\ \A k \in DOMAIN s.chunks[i] : s.chunk[s.chunks[i][k]].in = i
    /\ \A c \in Chunks : s.chunk[c].in = i => \E k \in DOMAIN s.chunks[i] : s.chunks[i][k] = c
    /\ Once(s.chunks[i])
    /\ Hashed /\ s.ht[i] /= None => s.chunk[s.ht[i]].in = i

\* An input is paused for one reason only, the one of its storage type.
PauseOK(s, i) ==
    /\ s.mem_st[i] = "PAUSED" => Type[i] = "mem"
    /\ s.fs_st[i] = "PAUSED" => Type[i] = "fs"
    /\ s.coll[i] <=> ingestion /\ ~Paused(s, i)

\* A chunk that is full takes no more data.
FullLocked(s) == \A c \in Chunks : s.chunk[c].size > MaxContent => s.chunk[c].locked

BaseInv(s) ==
    /\ s \in State
    /\ \A i \in Inputs : ListOK(s, i) /\ PauseOK(s, i)
    /\ FullLocked(s)

\* What an input without a file system buffer keeps in memory was measured
\* and is bounded, and an input that pauses at its limit is paused there.
Bounded(i) == MemLimit[i] > 0 /\ (Type[i] = "memrb" => ~Grows)
MemOK(s, i) ==
    /\ \A c \in Chunks : s.chunk[c].in = i => s.chunk[c].up
    /\ total_size(s, i) <= s.mem[i]
    /\ Bounded(i) => total_size(s, i) < MemLimit[i] + Max(Sizes)
AtLimit(s, i) ==
    Type[i] = "mem" /\ MemLimit[i] > 0 /\ s.mem[i] >= MemLimit[i] => s.mem_st[i] = "PAUSED"

MemInv(s) == \A i \in Inputs : Type[i] /= "fs" => MemOK(s, i) /\ AtLimit(s, i)

\* What an output is charged for.
Charged(s, o) ==
    SumFunction([c \in {c \in Chunks \ Free(s) : s.chunk[c].fs_counted /\ o \in s.chunk[c].mask}
                 |-> real_size(s.chunk[c])])

\* A chunk with data for an output with a limit is counted, and what is locked
\* was trimmed.
CountOK(r) ==
    /\ r.in = None => ~r.task /\ ~r.users /\ ~r.fs_counted
    /\ r.users => r.locked
    /\ r.size = 0 => ~r.fs_counted
    /\ r.in /= None /\ r.size > 0 /\ r.mask \cap Limited /= {} => r.fs_counted
    /\ r.in /= None /\ Type[r.in] = "fs" /\ Trim /\ r.locked => r.file = r.size + 1

\* Without conditional routes and failing writes the charges are exact, and
\* no chunk is empty but the one data is appended to, in X.
CountInv(s, X) ==
    /\ \A o \in Limited : s.fs[o] = Charged(s, o)
    /\ \A c \in Chunks : CountOK(s.chunk[c])
    /\ \A c \in Chunks \ X : s.chunk[c].in /= None => s.chunk[c].size > 0

FullInv(s, X) == BaseInv(s) /\ MemInv(s) /\ (Countable => CountInv(s, X))

(***************************************************************************)
(* Lists.                                                                  *)
(***************************************************************************)
SelectStep(t, x, S, u) == IF x \in S THEN Append(t, x) ELSE t

\* The first k elements of p.q that are in p.S were selected.
SelectInv(t, k, p) ==
    /\ t \in Seq(p.A)
    /\ \A j \in DOMAIN t : t[j] \in p.S /\ \E m \in 1..k : p.q[m] = t[j]
    /\ \A m \in 1..k : p.q[m] \in p.S => \E j \in DOMAIN t : t[j] = p.q[m]
    /\ Once(p.q) => Once(t)

FS1 == INSTANCE FoldProofs WITH Op <- SelectStep, Inv <- SelectInv

\* Selected returns the elements in S, each as often as the list has it.
LEMMA SelectedList ==
    ASSUME NEW A, NEW q \in Seq(A), NEW S
    PROVE  /\ Selected(q, S) \in Seq(A)
           /\ \A j \in DOMAIN Selected(q, S) :
                 Selected(q, S)[j] \in S /\ \E m \in DOMAIN q : q[m] = Selected(q, S)[j]
           /\ \A m \in DOMAIN q : q[m] \in S =>
                 \E j \in DOMAIN Selected(q, S) : Selected(q, S)[j] = q[m]
           /\ Once(q) => Once(Selected(q, S))
<1> DEFINE p == [A |-> A, q |-> q, S |-> S]
           n == Len(q)
<1>1. n \in Nat /\ DOMAIN q = 1..n /\ \A m \in 1..n : q[m] \in A
  OBVIOUS
<1>2. p.A = A /\ p.q = q /\ p.S = S
  OBVIOUS
<1> HIDE DEF p, n
<1>3. SelectInv(<<>>, 0, p)
  BY <1>2 DEF SelectInv, Once
<1>4. ASSUME NEW t, NEW k \in 1..n, SelectInv(t, k - 1, p)
      PROVE  SelectInv(SelectStep(t, q[k], S, None), k, p)
  <2>1. /\ t \in Seq(A)
        /\ \A j \in DOMAIN t : t[j] \in S /\ \E m \in 1..(k - 1) : q[m] = t[j]
        /\ \A m \in 1..(k - 1) : q[m] \in S => \E j \in DOMAIN t : t[j] = q[m]
        /\ Once(q) => Once(t)
    BY <1>2, <1>4 DEF SelectInv
  <2>2. q[k] \in A /\ k \in Nat /\ 1..(k - 1) \subseteq 1..k /\ k \in 1..k /\ \A m \in 1..k : m \in 1..(k - 1) \/ m = k
    BY <1>1
  <2>3. CASE q[k] \notin S
    <3>1. SelectStep(t, q[k], S, None) = t
      BY <2>3 DEF SelectStep
    <3>2. \A m \in 1..k : q[m] \in S => \E j \in DOMAIN t : t[j] = q[m]
      BY <2>1, <2>2, <2>3
    <3>3. \A j \in DOMAIN t : t[j] \in S /\ \E m \in 1..k : q[m] = t[j]
      BY <2>1, <2>2
    <3> QED BY <1>2, <2>1, <3>1, <3>2, <3>3 DEF SelectInv
  <2>4. CASE q[k] \in S
    <3> DEFINE u == Append(t, q[k])
    <3>1. SelectStep(t, q[k], S, None) = u
      BY <2>4 DEF SelectStep
    <3>2. /\ u \in Seq(A) /\ DOMAIN u = 1..(Len(t) + 1) /\ DOMAIN t = 1..Len(t) /\ Len(t) \in Nat
          /\ u[Len(t) + 1] = q[k]
          /\ \A j \in DOMAIN t : u[j] = t[j] /\ j \in DOMAIN u
          /\ \A j \in DOMAIN u : j \in DOMAIN t \/ j = Len(t) + 1
      BY <2>1, <2>2
    <3> HIDE DEF u
    <3>3. ASSUME NEW j \in DOMAIN u PROVE u[j] \in S /\ \E m \in 1..k : q[m] = u[j]
      <4>1. CASE j \in DOMAIN t
        BY <2>1, <2>2, <3>2, <4>1
      <4>2. CASE j = Len(t) + 1
        BY <2>2, <2>4, <3>2, <4>2
      <4> QED BY <3>2, <4>1, <4>2
    <3>4. ASSUME NEW m \in 1..k, q[m] \in S PROVE \E j \in DOMAIN u : u[j] = q[m]
      <4>1. CASE m \in 1..(k - 1)
        BY <2>1, <3>2, <3>4, <4>1
      <4>2. CASE m = k
        <5>1. Len(t) + 1 \in DOMAIN u
          BY <3>2
        <5> QED BY <3>2, <4>2, <5>1
      <4> QED BY <2>2, <4>1, <4>2
    <3>5. ASSUME Once(q) PROVE Once(u)
      <4> SUFFICES ASSUME NEW i \in DOMAIN u, NEW j \in DOMAIN u, u[i] = u[j] PROVE i = j
        BY DEF Once
      <4>1. \A m \in 1..(k - 1) : q[m] /= q[k]
        <5> SUFFICES ASSUME NEW m \in 1..(k - 1) PROVE q[m] /= q[k]
          OBVIOUS
        <5>1. m \in DOMAIN q /\ k \in DOMAIN q /\ m /= k
          BY <1>1
        <5> QED BY <3>5, <5>1 DEF Once
      <4>2. \A l \in DOMAIN t : t[l] /= q[k]
        BY <2>1, <4>1
      <4> QED BY <2>1, <3>2, <3>5, <4>2 DEF Once
    <3> QED BY <1>2, <3>1, <3>2, <3>3, <3>4, <3>5 DEF SelectInv
  <2> QED BY <2>3, <2>4
<1>5. Selected(q, S) = FS1!FoldOf(<<>>, q, S, None)
  BY DEF Selected, FoldLeft, MapThenFoldSet, FS1!FoldOf, SelectStep, Max
<1>6. SelectInv(Selected(q, S), n, p)
  BY <1>1, <1>3, <1>4, <1>5, FS1!FoldKeeps
<1> DEFINE t == Selected(q, S)
<1> HIDE DEF t
<1>7. SelectInv(t, n, p)
  BY <1>6 DEF t
<1>8. /\ t \in Seq(A)
      /\ \A j \in DOMAIN t : t[j] \in S /\ \E m \in 1..n : q[m] = t[j]
      /\ \A m \in 1..n : q[m] \in S => \E j \in DOMAIN t : t[j] = q[m]
      /\ Once(q) => Once(t)
  BY <1>2, <1>7 DEF SelectInv
<1> QED
  BY <1>1, <1>8 DEF t

(***************************************************************************)
(* Sums.                                                                   *)
(***************************************************************************)
SomeOf(T) == CHOOSE x \in T : TRUE
SumStep(t, x, o, u) == x + t

FS2 == INSTANCE FoldProofs WITH Op <- SumStep, Inv <- SelectInv

\* g sums up f over the subsets of D.
Sums(g, D, f) ==
    g = [T \in SUBSET D |-> IF T = {} THEN 0 ELSE f[SomeOf(T)] + g[T \ {SomeOf(T)}]]

\* There is such a g, and SumFunction takes its value from it.
LEMMA SumExists ==
    ASSUME NEW D, IsFiniteSet(D), NEW f, DOMAIN f = D
    PROVE  \E g : Sums(g, D, f) /\ SumFunction(f) = g[D]
<1> DEFINE ch == [T \in SUBSET D |-> SomeOf(T)]
<1>1. \A T \in SUBSET D : T /= {} => ch[T] \in T
  BY DEF SomeOf
<1> HIDE DEF ch
<1>2. PICK h : FS2!Folds(h, D, ch, 0, f, None, None)
  <2>0. FS2!IsFiniteSet(D)
    BY DEF FS2!IsFiniteSet, IsFiniteSet
  <2>1. FS2!Solvable(D, ch, 0, f, None, None)
    BY <1>1, <2>0, FS2!FoldExists
  <2> QED BY <2>1 DEF FS2!Solvable
<1>3. Sums(h, D, f)
  BY <1>2 DEF FS2!Folds, SumStep, Sums, ch
<1> DEFINE g == CHOOSE g : Sums(g, D, f)
<1>4. Sums(g, D, f)
  BY <1>3
<1>5. SumFunction(f) = g[D]
  BY DEF SumFunction, SumFunctionOnSet, FoldFunctionOnSet, MapThenFoldSet, Sums, SomeOf
<1> QED
  BY <1>4, <1>5

\* What holds of every set of n elements if it holds of the smaller ones,
\* holds of every subset of a finite set.
LEMMA SmallerFirst ==
    ASSUME NEW D, IsFiniteSet(D), NEW G,
           \A T \in SUBSET D : (\A x \in T : T \ {x} \in G) => T \in G
    PROVE  SUBSET D \subseteq G
<1> SUFFICES ASSUME NEW B \in SUBSET D, B \notin G PROVE FALSE
  OBVIOUS
<1> DEFINE N == {n \in Nat : \E T \in SUBSET D : T \notin G /\ Cardinality(T) = n}
<1>1. \A T \in SUBSET D : IsFiniteSet(T) /\ Cardinality(T) \in Nat
  BY FS_Subset, FS_CardinalityType
<1>2. Cardinality(B) \in N
  BY <1>1
<1>3. PICK n \in N : \A m \in N : n <= m
  <2> HIDE DEF N
  <2>1. N \in SUBSET Nat
    BY DEF N
  <2> QED BY <1>2, <2>1, FS2!LeastNat
<1>4. PICK T \in SUBSET D : T \notin G /\ Cardinality(T) = n
  OBVIOUS
<1>5. PICK x \in T : T \ {x} \notin G
  BY <1>4
<1>6. Cardinality(T \ {x}) = Cardinality(T) - 1 /\ T \ {x} \in SUBSET D
  BY <1>1, FS_RemoveElement
<1>7. Cardinality(T \ {x}) \in N
  BY <1>1, <1>5, <1>6
<1>8. n <= Cardinality(T \ {x}) /\ n \in Nat
  BY <1>3, <1>7
<1>9. n <= n - 1
  BY <1>4, <1>6, <1>8
<1> QED
  BY <1>8, <1>9

\* Two sums of the same numbers are the same.
LEMMA SumSame ==
    ASSUME NEW D, IsFiniteSet(D), NEW E, D \subseteq E, NEW f, NEW e,
           \A x \in D : f[x] = e[x],
           NEW g, NEW h, Sums(g, D, f), Sums(h, E, e)
    PROVE  \A T \in SUBSET D : g[T] = h[T]
<1> DEFINE G == {T \in SUBSET D : g[T] = h[T]}
<1>1. ASSUME NEW T \in SUBSET D, \A x \in T : T \ {x} \in G PROVE T \in G
  <2>1. T \in SUBSET E
    OBVIOUS
  <2>2. CASE T = {}
    BY <2>1, <2>2 DEF Sums
  <2>3. CASE T /= {}
    <3>1. SomeOf(T) \in T
      BY <2>3 DEF SomeOf
    <3>2. g[T \ {SomeOf(T)}] = h[T \ {SomeOf(T)}] /\ f[SomeOf(T)] = e[SomeOf(T)]
      BY <1>1, <3>1
    <3>3. g[T] = f[SomeOf(T)] + g[T \ {SomeOf(T)}]
      BY <2>3 DEF Sums
    <3>4. h[T] = e[SomeOf(T)] + h[T \ {SomeOf(T)}]
      BY <2>1, <2>3 DEF Sums
    <3> QED BY <3>2, <3>3, <3>4
  <2> QED BY <2>2, <2>3
<1>2. SUBSET D \subseteq G
  <2> HIDE DEF G
  <2> QED BY <1>1, SmallerFirst
<1> QED
  BY <1>2

\* A sum of numbers of a kind is of that kind.
LEMMA SumType ==
    ASSUME NEW D, IsFiniteSet(D), NEW N, 0 \in N, \A i, j \in N : i + j \in N,
           NEW f \in [D -> N], NEW g, Sums(g, D, f)
    PROVE  \A T \in SUBSET D : g[T] \in N
<1> DEFINE G == {T \in SUBSET D : g[T] \in N}
<1>1. ASSUME NEW T \in SUBSET D, \A x \in T : T \ {x} \in G PROVE T \in G
  <2>2. CASE T = {}
    BY <2>2 DEF Sums
  <2>3. CASE T /= {}
    <3>1. SomeOf(T) \in T
      BY <2>3 DEF SomeOf
    <3>2. g[T] = f[SomeOf(T)] + g[T \ {SomeOf(T)}]
      BY <2>3 DEF Sums
    <3>3. g[T \ {SomeOf(T)}] \in N /\ f[SomeOf(T)] \in N
      BY <1>1, <3>1
    <3> QED BY <3>2, <3>3
  <2> QED BY <2>2, <2>3
<1>2. SUBSET D \subseteq G
  <2> HIDE DEF G
  <2> QED BY <1>1, SmallerFirst
<1> QED
  BY <1>2

\* The sum does not depend on the order.
LEMMA SumTake ==
    ASSUME NEW D, IsFiniteSet(D), NEW f \in [D -> Int], NEW g, Sums(g, D, f)
    PROVE  \A T \in SUBSET D : /\ g[T] \in Int
                               /\ \A x \in T : g[T] = f[x] + g[T \ {x}]
<1> DEFINE G == {T \in SUBSET D : g[T] \in Int /\ \A x \in T : g[T] = f[x] + g[T \ {x}]}
<1>1. ASSUME NEW T \in SUBSET D, \A x \in T : T \ {x} \in G PROVE T \in G
  <2>2. CASE T = {}
    BY <2>2 DEF Sums
  <2>3. CASE T /= {}
    <3> DEFINE a == SomeOf(T)
    <3>1. a \in T
      BY <2>3 DEF SomeOf
    <3>2. g[T] = f[a] + g[T \ {a}]
      BY <2>3 DEF Sums
    <3> HIDE DEF a
    <3>3. f[a] \in Int /\ g[T \ {a}] \in Int
      BY <1>1, <3>1
    <3>4. ASSUME NEW x \in T PROVE g[T] = f[x] + g[T \ {x}]
      <4>1. CASE x = a
        BY <3>2, <4>1
      <4>2. CASE x /= a
        <5>1. x \in T \ {a} /\ a \in T \ {x} /\ (T \ {a}) \ {x} = (T \ {x}) \ {a}
          BY <3>1, <4>2
        <5>2. T \ {a} \in G /\ T \ {x} \in G
          BY <1>1, <3>1
        <5>3. g[T \ {a}] = f[x] + g[(T \ {a}) \ {x}]
          BY <5>1, <5>2
        <5>4. g[T \ {x}] = f[a] + g[(T \ {x}) \ {a}]
          BY <5>1, <5>2
        <5>5. (T \ {a}) \ {x} \in SUBSET D /\ f[x] \in Int
          OBVIOUS
        <5>6. g[T \ {x}] \in Int
          BY <5>2
        <5> DEFINE r == g[(T \ {x}) \ {a}]
                   v == g[T \ {a}]
                   w == g[T \ {x}]
        <5>7. v = f[x] + r /\ w = f[a] + r /\ g[T] = f[a] + v
          BY <3>2, <5>1, <5>3, <5>4
        <5>8. r \in Int
          BY <5>5, SumType, \A i, j \in Int : i + j \in Int, 0 \in Int
        <5> HIDE DEF r, v, w
        <5> QED BY <3>3, <5>5, <5>7, <5>8 DEF w
      <4> QED BY <4>1, <4>2
    <3>5. g[T] \in Int
      BY <3>2, <3>3
    <3> QED BY <3>4, <3>5
  <2> QED BY <2>2, <2>3
<1>2. SUBSET D \subseteq G
  <2> HIDE DEF G
  <2> QED BY <1>1, SmallerFirst
<1> QED
  BY <1>2

\* The sum of no numbers.
LEMMA SumEmpty ==
    ASSUME NEW f, DOMAIN f = {}
    PROVE  SumFunction(f) = 0
<1>1. PICK g : Sums(g, {}, f) /\ SumFunction(f) = g[{}]
  BY SumExists, FS_EmptySet
<1> QED
  BY <1>1 DEF Sums

\* Sums of natural numbers and of integers.
LEMMA SumNat ==
    ASSUME NEW D, IsFiniteSet(D), NEW f \in [D -> Nat]
    PROVE  SumFunction(f) \in Nat
<1>1. PICK g : Sums(g, D, f) /\ SumFunction(f) = g[D]
  BY SumExists
<1>2. \A T \in SUBSET D : g[T] \in Nat
  BY <1>1, SumType, \A i, j \in Nat : i + j \in Nat, 0 \in Nat
<1> QED
  BY <1>1, <1>2

\* The sum of integers is one.
LEMMA SumInt ==
    ASSUME NEW D, IsFiniteSet(D), NEW f \in [D -> Int]
    PROVE  SumFunction(f) \in Int
<1>1. PICK g : Sums(g, D, f) /\ SumFunction(f) = g[D]
  BY SumExists
<1>2. \A T \in SUBSET D : g[T] \in Int
  BY <1>1, SumTake
<1> QED
  BY <1>1, <1>2

\* One of the numbers and the sum of the others.
LEMMA SumPart ==
    ASSUME NEW D, IsFiniteSet(D), NEW f \in [D -> Int], NEW x \in D,
           NEW e, DOMAIN e = D \ {x}, \A y \in D \ {x} : e[y] = f[y]
    PROVE  SumFunction(f) = f[x] + SumFunction(e)
<1>1. PICK g : Sums(g, D, f) /\ SumFunction(f) = g[D]
  BY SumExists
<1>2. IsFiniteSet(D \ {x})
  BY FS_Subset
<1>3. PICK h : Sums(h, D \ {x}, e) /\ SumFunction(e) = h[D \ {x}]
  BY <1>2, SumExists
<1>4. h[D \ {x}] = g[D \ {x}]
  <2> DEFINE E == D \ {x}
  <2>1. E \subseteq D /\ IsFiniteSet(E) /\ Sums(h, E, e) /\ \A y \in E : e[y] = f[y]
    BY <1>2, <1>3
  <2> HIDE DEF E
  <2>2. \A T \in SUBSET E : h[T] = g[T]
    BY <1>1, <2>1, SumSame
  <2> QED BY <2>2 DEF E
<1>5. g[D] = f[x] + g[D \ {x}]
  <2>1. \A T \in SUBSET D : /\ g[T] \in Int
                             /\ \A y \in T : g[T] = f[y] + g[T \ {y}]
    BY <1>1, SumTake
  <2>2. D \in SUBSET D
    OBVIOUS
  <2> QED BY <2>1, <2>2
<1> QED
  BY <1>1, <1>3, <1>4, <1>5

(***************************************************************************)
(* What the helpers change.                                                *)
(***************************************************************************)
\* The parts of a setting.
LEMMA SettingParts ==
    ASSUME setting \in Settings
    PROVE  /\ Type \in [Inputs -> {"fs", "mem", "memrb"}]
           /\ Routes \in [Inputs -> SUBSET Outputs]
           /\ MemLimit \in [Inputs -> Nat] /\ Limited \in SUBSET Outputs
           /\ Limit \in [Outputs -> Nat] /\ Trim \in BOOLEAN
           /\ Sizes \in SUBSET (1..MaxSize) /\ Sizes /= {}
<1>1. setting \in Setting /\ setting.Sizes /= {}
  BY InputChunkAssumption
<1> QED
  BY <1>1 DEF Setting, Type, Routes, MemLimit, Limited, Limit, Trim, Sizes

\* The fields that two states have in common.
SameLists(s, t) == t.chunks = s.chunks /\ t.ht = s.ht
OnlyChunk(s, t, c) == \A d \in Chunks \ {c} : t.chunk[d] = s.chunk[d]
SameLimits(s, t) == t.mem = s.mem /\ t.mem_st = s.mem_st /\ t.fs_st = s.fs_st /\ t.coll = s.coll

\* One chunk changes.
LEMMA SetChunk ==
    ASSUME NEW s \in State, NEW c \in Chunks, NEW r \in Chunk,
           NEW t, t = [s EXCEPT !.chunk[c] = r]
    PROVE  /\ t \in State /\ t.chunk = [s.chunk EXCEPT ![c] = r]
           /\ t.fs = s.fs /\ SameLists(s, t) /\ SameLimits(s, t)
BY DEF State, SameLists, SameLimits

\* A chunk of the same input in its place keeps the invariant.
LEMMA SetChunkKeeps ==
    ASSUME NEW s, BaseInv(s), NEW c \in Chunks, NEW r \in Chunk,
           NEW t, t \in State, t.chunk = [s.chunk EXCEPT ![c] = r],
           SameLists(s, t), SameLimits(s, t),
           r.in = s.chunk[c].in, r.size > MaxContent => r.locked
    PROVE  BaseInv(t)
<1>1. /\ s \in State /\ DOMAIN s.chunk = Chunks
      /\ \A i \in Inputs : ListOK(s, i) /\ PauseOK(s, i)
      /\ FullLocked(s)
  BY DEF BaseInv, State
<1>2. \A d \in Chunks : t.chunk[d].in = s.chunk[d].in
  BY <1>1
<1>3. FullLocked(t)
  BY <1>1 DEF FullLocked
<1>4. ASSUME NEW i \in Inputs PROVE ListOK(t, i)
  <2>1. s.chunks[i] \in Seq(Chunks) /\ s.ht[i] \in Chunks \cup {None}
    BY <1>1 DEF State
  <2>2. \A k \in DOMAIN s.chunks[i] : s.chunks[i][k] \in Chunks
    BY <2>1
  <2> QED BY <1>1, <1>2, <2>1, <2>2 DEF ListOK, SameLists
<1>5. ASSUME NEW i \in Inputs PROVE PauseOK(t, i)
  BY <1>1 DEF PauseOK, Paused, SameLimits
<1> QED
  BY <1>3, <1>4, <1>5 DEF BaseInv

\* flb_input_chunk_update_output_instances
LEMMA UpdateOutputs ==
    ASSUME NEW s \in State, NEW c \in Chunks, NEW diff \in Int,
           NEW t, t = update_outputs(s, c, diff)
    PROVE  /\ t \in State
           /\ t.chunk = [s.chunk EXCEPT ![c].fs_counted =
                            @ \/ s.chunk[c].mask \cap Limited /= {}]
           /\ t.chunk[c] \in Chunk
           /\ \A o \in Limited : t.fs[o] = IF o \in s.chunk[c].mask THEN s.fs[o] + diff ELSE s.fs[o]
           /\ SameLists(s, t) /\ SameLimits(s, t)
<1> DEFINE charged == s.chunk[c].mask \cap Limited
           r == [s.chunk[c] EXCEPT !.fs_counted = @ \/ charged /= {}]
           fs == [o \in Limited |-> IF o \in charged THEN s.fs[o] + diff ELSE s.fs[o]]
<1>1. t = [s EXCEPT !.fs = fs, !.chunk[c].fs_counted = @ \/ charged /= {}]
  BY DEF update_outputs
<1>2. s.chunk \in [Chunks -> Chunk] /\ s.chunk[c] \in Chunk /\ s.fs \in [Limited -> Int]
  BY DEF State
<1>3. r \in Chunk
  BY <1>2 DEF Chunk
<1>4. fs \in [Limited -> Int]
  BY <1>2
<1>5. /\ t.chunk = [s.chunk EXCEPT ![c] = r] /\ t.fs = fs
      /\ SameLists(s, t) /\ SameLimits(s, t)
  BY <1>1, <1>2 DEF State, SameLists, SameLimits
<1>6. t \in State
  <2> DEFINE X == [s.chunk EXCEPT ![c] = r]
  <2>1. X \in [Chunks -> Chunk]
    BY <1>2, <1>3
  <2>2. t = [s EXCEPT !.fs = fs, !.chunk = X]
    BY <1>1, <1>2 DEF State
  <2> HIDE DEF X, fs, r
  <2> QED BY <1>4, <2>1, <2>2 DEF State
<1> QED
  BY <1>2, <1>3, <1>5, <1>6

\* Charging a chunk (flb_input_chunk_update_output_instances) leaves lists and
\* pausing alone.
LEMMA UpdateOutputsKeeps ==
    ASSUME NEW s, BaseInv(s), NEW c \in Chunks, NEW diff \in Int,
           NEW t, t = update_outputs(s, c, diff)
    PROVE  BaseInv(t)
<1>1. s \in State /\ s.chunk \in [Chunks -> Chunk] /\ FullLocked(s)
  BY DEF BaseInv, State
<1> DEFINE r == [s.chunk[c] EXCEPT !.fs_counted = @ \/ s.chunk[c].mask \cap Limited /= {}]
<1>2. /\ t \in State /\ t.chunk = [s.chunk EXCEPT ![c] = r] /\ t.chunk[c] \in Chunk
      /\ SameLists(s, t) /\ SameLimits(s, t)
  BY <1>1, UpdateOutputs
<1>3. r \in Chunk /\ r.in = s.chunk[c].in /\ r.size = s.chunk[c].size /\ r.locked = s.chunk[c].locked
  BY <1>1, <1>2 DEF Chunk
<1>4. r.size > MaxContent => r.locked
  BY <1>1, <1>3 DEF FullLocked
<1> HIDE DEF r
<1> QED
  BY <1>2, <1>3, <1>4, SetChunkKeeps

\* The size of a chunk is a number.
LEMMA RealSize ==
    ASSUME NEW r \in Chunk
    PROVE  real_size(r) \in Nat
BY InputChunkAssumption DEF Chunk, real_size

\* A chunk object that is not in use is free and empty.
LEMMA NoChunkType == NoChunk \in Chunk /\ NoChunk.in = None /\ NoChunk.size = 0
BY InputChunkAssumption, FS_CardinalityType DEF NoChunk, Chunk

\* flb_input_chunk_destroy
IsDestroyed(s, c, t) ==
    /\ t \in State /\ t.chunk = [s.chunk EXCEPT ![c] = NoChunk]
    /\ \A i \in Inputs :
         /\ t.chunks[i] = IF s.chunk[c].in = i THEN Selected(s.chunks[i], Chunks \ {c})
                         ELSE s.chunks[i]
         /\ t.ht[i] = s.ht[i] \/ t.ht[i] = None
         /\ Hashed /\ s.chunk[c].in = i => t.ht[i] /= c
    /\ \A o \in Limited : t.fs[o] = IF s.chunk[c].fs_counted /\ o \in s.chunk[c].mask
                                    THEN s.fs[o] - real_size(s.chunk[c]) ELSE s.fs[o]
    /\ SameLimits(s, t)

\* A chunk is closed: it leaves its list, and what it was charged for is given
\* back.  The hash entry stays or goes; it goes if every chunk can be loaded.
LEMMA Closed ==
    ASSUME NEW s \in State, NEW c \in Chunks, NEW t, NEW del \in BOOLEAN,
           t = IF del THEN unhashed(closed(s, c), s.chunk[c].in, c) ELSE closed(s, c),
           Hashed => del
    PROVE  IsDestroyed(s, c, t)
<1> DEFINE r == s.chunk[c]
           charged == IF r.fs_counted THEN r.mask \cap Limited ELSE {}
           fs == [o \in Limited |-> IF o \in charged THEN s.fs[o] - real_size(r) ELSE s.fs[o]]
           L == [s.chunks EXCEPT ![r.in] = Selected(@, Chunks \ {c})]
           H == IF del THEN [s.ht EXCEPT ![r.in] = IF @ = c THEN None ELSE @] ELSE s.ht
           X == [s.chunk EXCEPT ![c] = NoChunk]
           u == [s EXCEPT !.fs = fs, !.chunks = L, !.chunk = X]
<1>1. t = [s EXCEPT !.fs = fs, !.chunks = L, !.ht = H, !.chunk = X]
  <2>1. closed(s, c) = u
    <3>1. closed(s, c) = [s EXCEPT !.fs = fs, !.chunks[r.in] = Selected(@, Chunks \ {c}),
                                   !.chunk[c] = NoChunk]
      BY DEF closed
    <3> QED BY <3>1 DEF State
  <2>2. u = [s EXCEPT !.fs = fs, !.chunks = L, !.ht = s.ht, !.chunk = X] /\ u.ht = s.ht
    <3> HIDE DEF fs, L, X
    <3> QED BY DEF State
  <2>3. CASE del
    <3>1. t = [u EXCEPT !.ht[r.in] = IF @ = c THEN None ELSE @]
      BY <2>1, <2>3 DEF unhashed
    <3>2. H = [s.ht EXCEPT ![r.in] = IF @ = c THEN None ELSE @]
      BY <2>3
    <3>3. t = [u EXCEPT !.ht = H]
      BY <2>2, <3>1, <3>2
    <3> HIDE DEF fs, L, X, H
    <3> QED BY <3>3 DEF State
  <2>4. CASE ~del
    BY <2>1, <2>2, <2>4
  <2> QED BY <2>3, <2>4
<1> HIDE DEF u
<1>2. /\ s.chunk \in [Chunks -> Chunk] /\ r \in Chunk /\ s.fs \in [Limited -> Int]
      /\ s.chunks \in [Inputs -> Seq(Chunks)] /\ s.ht \in [Inputs -> Chunks \cup {None}]
  BY DEF State
<1>3. fs \in [Limited -> Int]
  BY <1>2, RealSize
<1>4. L \in [Inputs -> Seq(Chunks)]
  <2>1. \A i \in Inputs : Selected(s.chunks[i], Chunks \ {c}) \in Seq(Chunks)
    BY <1>2, SelectedList
  <2> QED BY <1>2, <2>1
<1>5. H \in [Inputs -> Chunks \cup {None}]
  BY <1>2
<1>6. X \in [Chunks -> Chunk]
  BY <1>2, NoChunkType
<1>7. t.fs = fs /\ t.chunks = L /\ t.ht = H /\ t.chunk = X /\ SameLimits(s, t)
  <2> HIDE DEF fs, L, H, X
  <2> QED BY <1>1 DEF State, SameLimits
<1>8. t \in State
  <2> HIDE DEF fs, L, H, X
  <2> QED BY <1>1, <1>3, <1>4, <1>5, <1>6 DEF State
<1>9. ASSUME NEW i \in Inputs
      PROVE  /\ t.chunks[i] = IF r.in = i THEN Selected(s.chunks[i], Chunks \ {c})
                               ELSE s.chunks[i]
             /\ t.ht[i] = s.ht[i] \/ t.ht[i] = None
             /\ Hashed /\ r.in = i => t.ht[i] /= c
  <2>1. t.chunks[i] = IF r.in = i THEN Selected(s.chunks[i], Chunks \ {c}) ELSE s.chunks[i]
    BY <1>2, <1>7
  <2>2. t.ht[i] = IF del /\ r.in = i /\ s.ht[i] = c THEN None ELSE s.ht[i]
    BY <1>2, <1>7
  <2>3. None /= c
    BY InputChunkAssumption
  <2> QED BY <2>1, <2>2, <2>3
<1>10. \A o \in Limited : t.fs[o] = IF r.fs_counted /\ o \in r.mask
                                   THEN s.fs[o] - real_size(r) ELSE s.fs[o]
  BY <1>7
<1>11. t.chunk = [s.chunk EXCEPT ![c] = NoChunk] /\ SameLimits(s, t)
  BY <1>7
<1> HIDE DEF fs, L, H, X
<1>12. \A i \in Inputs :
         /\ t.chunks[i] = IF s.chunk[c].in = i THEN Selected(s.chunks[i], Chunks \ {c})
                         ELSE s.chunks[i]
         /\ t.ht[i] = s.ht[i] \/ t.ht[i] = None
         /\ Hashed /\ s.chunk[c].in = i => t.ht[i] /= c
  BY <1>9
<1> QED
  BY <1>8, <1>10, <1>11, <1>12 DEF IsDestroyed

\* flb_input_chunk_destroy: the entry goes if the tag of the chunk can be read.
LEMMA Destroyed ==
    ASSUME NEW s \in State, NEW c \in Chunks, NEW t, t = destroyed(s, c)
    PROVE  IsDestroyed(s, c, t)
<1> DEFINE del == IF Loads(s, c) THEN TRUE ELSE FALSE
<1>1. del \in BOOLEAN /\ (Hashed => del)
  BY DEF Hashed, Loads
<1>2. t = IF del THEN unhashed(closed(s, c), s.chunk[c].in, c) ELSE closed(s, c)
  BY DEF destroyed
<1> HIDE DEF del
<1> QED
  BY <1>1, <1>2, Closed

\* It takes the chunk off the list of its input and out of the hash table.
LEMMA DestroyedKeeps ==
    ASSUME NEW s, BaseInv(s), NEW c \in Chunks, NEW t, IsDestroyed(s, c, t)
    PROVE  BaseInv(t)
<1>1. /\ s \in State /\ s.chunk \in [Chunks -> Chunk]
      /\ s.chunks \in [Inputs -> Seq(Chunks)] /\ s.ht \in [Inputs -> Chunks \cup {None}]
      /\ \A i \in Inputs : ListOK(s, i) /\ PauseOK(s, i)
      /\ FullLocked(s)
  BY DEF BaseInv, State
<1>2. /\ t \in State /\ t.chunk = [s.chunk EXCEPT ![c] = NoChunk]
      /\ \A i \in Inputs :
           /\ t.chunks[i] = IF s.chunk[c].in = i THEN Selected(s.chunks[i], Chunks \ {c})
                           ELSE s.chunks[i]
           /\ t.ht[i] = s.ht[i] \/ t.ht[i] = None
           /\ Hashed /\ s.chunk[c].in = i => t.ht[i] /= c
      /\ SameLimits(s, t)
  BY DEF IsDestroyed
<1>3. FullLocked(t)
  BY <1>1, <1>2, NoChunkType, InputChunkAssumption DEF FullLocked
<1>4. ASSUME NEW i \in Inputs PROVE PauseOK(t, i)
  BY <1>1, <1>2 DEF PauseOK, Paused, SameLimits
<1>5. ASSUME NEW i \in Inputs PROVE ListOK(t, i)
  <2>1. /\ ListOK(s, i) /\ s.chunks[i] \in Seq(Chunks) /\ s.ht[i] \in Chunks \cup {None}
        /\ \A k \in DOMAIN s.chunks[i] : s.chunks[i][k] \in Chunks
    BY <1>1
  <2>2. /\ t.chunk[c].in /= i /\ OnlyChunk(s, t, c)
        /\ None \notin Chunks
    BY <1>1, <1>2, NoChunkType, InputChunkAssumption DEF OnlyChunk
  <2>3. CASE s.chunk[c].in = i
    <3> DEFINE q == s.chunks[i]
               S == Chunks \ {c}
               u == Selected(q, S)
    <3>1. t.chunks[i] = u /\ (t.ht[i] = s.ht[i] \/ t.ht[i] = None) /\ (Hashed => t.ht[i] /= c)
      BY <1>1, <1>2, <2>3
    <3>2. /\ \A j \in DOMAIN u : u[j] \in Chunks \ {c} /\ \E m \in DOMAIN q : q[m] = u[j]
          /\ \A m \in DOMAIN q : q[m] \in Chunks \ {c} => \E j \in DOMAIN u : u[j] = q[m]
          /\ Once(q) => Once(u)
      <4>1. q \in Seq(Chunks)
        BY <2>1
      <4> HIDE DEF q, S
      <4>2. /\ \A j \in DOMAIN u : u[j] \in S /\ \E m \in DOMAIN q : q[m] = u[j]
            /\ \A m \in DOMAIN q : q[m] \in S => \E j \in DOMAIN u : u[j] = q[m]
            /\ Once(q) => Once(u)
        BY <4>1, SelectedList
      <4> HIDE DEF u
      <4> QED BY <4>2 DEF S
    <3> HIDE DEF q, u, S
    <3>3. /\ \A k \in DOMAIN q : s.chunk[q[k]].in = i
          /\ \A d \in Chunks : s.chunk[d].in = i => \E k \in DOMAIN q : q[k] = d
          /\ Once(q)
          /\ Hashed /\ s.ht[i] /= None => s.chunk[s.ht[i]].in = i
      BY <2>1 DEF ListOK, q
    <3>4. \A k \in DOMAIN u : t.chunk[u[k]].in = i
      BY <2>2, <3>2, <3>3 DEF OnlyChunk
    <3>5. ASSUME NEW d \in Chunks, t.chunk[d].in = i PROVE \E k \in DOMAIN u : u[k] = d
      <4>1. d /= c /\ s.chunk[d].in = i
        BY <2>2, <3>5 DEF OnlyChunk
      <4>2. PICK m \in DOMAIN q : q[m] = d
        BY <3>3, <4>1
      <4> QED BY <3>2, <4>1, <4>2
    <3>6. Hashed /\ t.ht[i] /= None => t.chunk[t.ht[i]].in = i
      BY <2>1, <2>2, <3>1, <3>3 DEF OnlyChunk
    <3> QED BY <3>1, <3>2, <3>3, <3>4, <3>5, <3>6 DEF ListOK
  <2>4. CASE s.chunk[c].in /= i
    <3>1. t.chunks[i] = s.chunks[i] /\ (t.ht[i] = s.ht[i] \/ t.ht[i] = None)
      BY <1>1, <1>2, <2>4
    <3>2. \A d \in Chunks : t.chunk[d].in = i <=> s.chunk[d].in = i
      BY <2>2, <2>4 DEF OnlyChunk
    <3> QED BY <2>1, <3>1, <3>2 DEF ListOK
  <2> QED BY <2>3, <2>4
<1> QED
  BY <1>2, <1>3, <1>4, <1>5 DEF BaseInv

\* The data of the chunks that are up is a number.
LEMMA TotalSize ==
    ASSUME NEW s \in State, NEW i
    PROVE  total_size(s, i) \in Nat
<1> DEFINE T == {c \in Of(s, i) : s.chunk[c].up}
           f == [c \in T |-> s.chunk[c].size]
<1>1. IsFiniteSet(T)
  BY FS_Subset, InputChunkAssumption DEF Of
<1>2. f \in [T -> Nat]
  BY InputChunkAssumption DEF State, Chunk, Of
<1>3. total_size(s, i) = SumFunction(f)
  BY DEF total_size
<1> HIDE DEF T, f
<1> QED
  BY <1>1, <1>2, <1>3, SumNat

\* flb_input_chunk_set_limits
IsMeasured(s, i, t) ==
    /\ t \in State /\ t.chunk = s.chunk /\ t.fs = s.fs /\ SameLists(s, t)
    /\ t.mem = [s.mem EXCEPT ![i] = total_size(s, i)]
    /\ \A j \in Inputs \ {i} : /\ t.mem_st[j] = s.mem_st[j] /\ t.fs_st[j] = s.fs_st[j]
                               /\ t.coll[j] = s.coll[j]
    /\ i \in Inputs =>
         \E m, f \in BOOLEAN :
           /\ m <=> ingestion /\ s.mem_st[i] = "PAUSED"
                    /\ ~(MemLimit[i] > 0 /\ total_size(s, i) >= MemLimit[i])
           /\ f => ingestion /\ s.fs_st[i] = "PAUSED"
           /\ t.mem_st[i] = IF m THEN "RUNNING" ELSE s.mem_st[i]
           /\ t.fs_st[i] = IF f THEN "RUNNING" ELSE s.fs_st[i]
           /\ t.coll[i] = (s.coll[i] \/ m \/ f)

\* flb_input_chunk_set_limits measures the input, and resumes it only below
\* its limit and while ingestion is active.
LEMMA SetLimits ==
    ASSUME NEW s \in State, NEW i, NEW t, t = set_limits(s, i)
    PROVE  IsMeasured(s, i, t)
<1> DEFINE u == [s EXCEPT !.mem[i] = total_size(s, i)]
           m == ingestion /\ ~is_mem_overlimit(u, i) /\ u.mem_st[i] = "PAUSED"
           f == ingestion /\ ~is_storage_overlimit(u, i) /\ u.fs_st[i] = "PAUSED"
<1>1. t = [u EXCEPT !.mem_st[i] = IF m THEN "RUNNING" ELSE @,
                    !.fs_st[i]  = IF f THEN "RUNNING" ELSE @,
                    !.coll[i]   = @ \/ m \/ f]
  BY DEF set_limits
<1> DEFINE M == [s.mem EXCEPT ![i] = total_size(s, i)]
<1>2. u = [s EXCEPT !.mem = M] /\ M \in [Inputs -> Nat]
  BY TotalSize DEF State
<1>3. /\ u \in State /\ u.mem = M /\ u.chunk = s.chunk /\ u.fs = s.fs /\ SameLists(s, u)
      /\ u.mem_st = s.mem_st /\ u.fs_st = s.fs_st /\ u.coll = s.coll
  <2> HIDE DEF M
  <2> QED BY <1>2 DEF State, SameLists
<1>4. m \in BOOLEAN /\ f \in BOOLEAN
  OBVIOUS
<1>5. i \in Inputs => u.mem[i] = total_size(s, i)
  BY <1>3 DEF State
<1>6. i \in Inputs => /\ m <=> ingestion /\ s.mem_st[i] = "PAUSED"
                               /\ ~(MemLimit[i] > 0 /\ total_size(s, i) >= MemLimit[i])
                      /\ f => ingestion /\ s.fs_st[i] = "PAUSED"
  BY <1>3, <1>5 DEF is_mem_overlimit
<1> HIDE DEF u, m, f, M
<1> DEFINE A == [u.mem_st EXCEPT ![i] = IF m THEN "RUNNING" ELSE @]
           B == [u.fs_st EXCEPT ![i] = IF f THEN "RUNNING" ELSE @]
           C == [u.coll EXCEPT ![i] = @ \/ m \/ f]
<1>7. t = [u EXCEPT !.mem_st = A, !.fs_st = B, !.coll = C]
  BY <1>1, <1>3 DEF State
<1>8. A \in [Inputs -> Status] /\ B \in [Inputs -> Status]
  BY <1>3 DEF State, Status
<1>9. C \in [Inputs -> BOOLEAN]
  BY <1>3, <1>4 DEF State
<1>10. /\ t \in State /\ t.mem_st = A /\ t.fs_st = B /\ t.coll = C
       /\ t.mem = M /\ t.chunk = u.chunk /\ t.fs = u.fs /\ SameLists(u, t)
  <2> HIDE DEF A, B, C
  <2> QED BY <1>3, <1>7, <1>8, <1>9 DEF State, SameLists
<1>11. SameLists(s, t) /\ t.chunk = s.chunk /\ t.fs = s.fs
  BY <1>3, <1>10 DEF SameLists
<1>12. \A j \in Inputs \ {i} : /\ t.mem_st[j] = s.mem_st[j] /\ t.fs_st[j] = s.fs_st[j]
                               /\ t.coll[j] = s.coll[j]
  BY <1>3, <1>10 DEF State
<1>13. i \in Inputs => /\ t.mem_st[i] = IF m THEN "RUNNING" ELSE s.mem_st[i]
                       /\ t.fs_st[i] = IF f THEN "RUNNING" ELSE s.fs_st[i]
                       /\ t.coll[i] = (s.coll[i] \/ m \/ f)
  BY <1>3, <1>10 DEF State
<1> QED
  BY <1>4, <1>6, <1>10, <1>11, <1>12, <1>13 DEF M, IsMeasured

\* Measuring an input never resumes it for one reason while it is paused for
\* another.
LEMMA SetLimitsKeeps ==
    ASSUME NEW s, BaseInv(s), NEW i, NEW t, t = set_limits(s, i)
    PROVE  BaseInv(t)
<1>1. /\ s \in State /\ \A j \in Inputs : ListOK(s, j) /\ PauseOK(s, j)
      /\ FullLocked(s)
  BY DEF BaseInv
<1>2. IsMeasured(s, i, t)
  BY <1>1, SetLimits
<1>3. FullLocked(t)
  BY <1>1, <1>2 DEF IsMeasured, FullLocked
<1>4. ASSUME NEW j \in Inputs PROVE ListOK(t, j)
  BY <1>1, <1>2 DEF IsMeasured, ListOK, SameLists
<1>5. ASSUME NEW j \in Inputs PROVE PauseOK(t, j)
  <2>1. CASE j /= i
    BY <1>1, <1>2, <2>1 DEF IsMeasured, PauseOK, Paused
  <2>2. CASE j = i
    <3>1. PICK m, f \in BOOLEAN :
            /\ m => ingestion /\ s.mem_st[i] = "PAUSED"
            /\ f => ingestion /\ s.fs_st[i] = "PAUSED"
            /\ t.mem_st[i] = IF m THEN "RUNNING" ELSE s.mem_st[i]
            /\ t.fs_st[i] = IF f THEN "RUNNING" ELSE s.fs_st[i]
            /\ t.coll[i] = (s.coll[i] \/ m \/ f)
      BY <1>2, <2>2 DEF IsMeasured
    <3>2. PauseOK(s, i) /\ s.mem_st[i] \in Status /\ s.fs_st[i] \in Status
      BY <1>1, <2>2 DEF State
    <3>3. ~(s.mem_st[i] = "PAUSED" /\ s.fs_st[i] = "PAUSED")
      BY <3>2 DEF PauseOK
    <3>4. t.mem_st[i] = "PAUSED" => s.mem_st[i] = "PAUSED" /\ ~m
      BY <3>1
    <3>5. t.fs_st[i] = "PAUSED" => s.fs_st[i] = "PAUSED" /\ ~f
      BY <3>1
    <3>6. t.coll[i] <=> ingestion /\ ~Paused(t, i)
      BY <3>1, <3>2, <3>3, <3>4, <3>5 DEF PauseOK, Paused
    <3> QED BY <2>2, <3>2, <3>4, <3>5, <3>6 DEF PauseOK
  <2> QED BY <2>1, <2>2
<1>6. t \in State
  BY <1>2 DEF IsMeasured
<1> QED
  BY <1>3, <1>4, <1>5, <1>6 DEF BaseInv

\* flb_input_chunk_protect
IsProtected(s, i, t) ==
    /\ t \in State /\ t.chunk = s.chunk /\ t.fs = s.fs /\ SameLists(s, t) /\ t.mem = s.mem
    /\ \A j \in Inputs \ {i} : /\ t.mem_st[j] = s.mem_st[j] /\ t.fs_st[j] = s.fs_st[j]
                               /\ t.coll[j] = s.coll[j]
    /\ \/ /\ Type[i] = "fs" /\ t.fs_st[i] = "PAUSED" /\ t.mem_st[i] = s.mem_st[i] /\ ~t.coll[i]
       \/ /\ Type[i] = "mem" /\ t.mem_st[i] = "PAUSED" /\ t.fs_st[i] = s.fs_st[i] /\ ~t.coll[i]
       \/ /\ t = s /\ ~(Type[i] = "mem" /\ MemLimit[i] > 0 /\ s.mem[i] >= MemLimit[i])

\* flb_input_chunk_protect pauses the input for the reason of its type, or it
\* is below its limit.
LEMMA Protect ==
    ASSUME NEW s \in State, NEW i \in Inputs, NEW t, t = protect(s, i)
    PROVE  IsProtected(s, i, t)
<1>1. CASE is_storage_overlimit(s, i)
  <2>1. t = [s EXCEPT !.fs_st[i] = "PAUSED", !.coll[i] = FALSE] /\ Type[i] = "fs"
    BY <1>1 DEF protect, is_storage_overlimit, FS
  <2> DEFINE A == [s.fs_st EXCEPT ![i] = "PAUSED"]
             C == [s.coll EXCEPT ![i] = FALSE]
  <2>2. t = [s EXCEPT !.fs_st = A, !.coll = C]
    BY <2>1 DEF State
  <2>3. A \in [Inputs -> Status] /\ C \in [Inputs -> BOOLEAN]
    BY DEF State, Status
  <2>4. t \in State /\ t.fs_st = A /\ t.coll = C /\ t.chunk = s.chunk /\ t.fs = s.fs
        /\ SameLists(s, t) /\ t.mem = s.mem /\ t.mem_st = s.mem_st
    <3> HIDE DEF A, C
    <3> QED BY <2>2, <2>3 DEF State, SameLists
  <2>5. t.fs_st[i] = "PAUSED" /\ t.coll[i] = FALSE
        /\ \A j \in Inputs \ {i} : t.fs_st[j] = s.fs_st[j] /\ t.coll[j] = s.coll[j]
    BY <2>4 DEF State
  <2> QED BY <2>1, <2>4, <2>5 DEF IsProtected
<1>2. CASE ~is_storage_overlimit(s, i) /\ Type[i] = "mem" /\ is_mem_overlimit(s, i)
  <2>1. t = [s EXCEPT !.mem_st[i] = "PAUSED", !.coll[i] = FALSE]
    BY <1>2 DEF protect
  <2> DEFINE A == [s.mem_st EXCEPT ![i] = "PAUSED"]
             C == [s.coll EXCEPT ![i] = FALSE]
  <2>2. t = [s EXCEPT !.mem_st = A, !.coll = C]
    BY <2>1 DEF State
  <2>3. A \in [Inputs -> Status] /\ C \in [Inputs -> BOOLEAN]
    BY DEF State, Status
  <2>4. t \in State /\ t.mem_st = A /\ t.coll = C /\ t.chunk = s.chunk /\ t.fs = s.fs
        /\ SameLists(s, t) /\ t.mem = s.mem /\ t.fs_st = s.fs_st
    <3> HIDE DEF A, C
    <3> QED BY <2>2, <2>3 DEF State, SameLists
  <2>5. t.mem_st[i] = "PAUSED" /\ t.coll[i] = FALSE
        /\ \A j \in Inputs \ {i} : t.mem_st[j] = s.mem_st[j] /\ t.coll[j] = s.coll[j]
    BY <2>4 DEF State
  <2> QED BY <1>2, <2>4, <2>5 DEF IsProtected
<1>3. CASE ~is_storage_overlimit(s, i) /\ ~(Type[i] = "mem" /\ is_mem_overlimit(s, i))
  <2>1. t = s
    BY <1>3 DEF protect
  <2> QED BY <1>3, <2>1 DEF IsProtected, is_mem_overlimit, SameLists
<1> QED
  BY <1>1, <1>2, <1>3

\* Pausing in flb_input_chunk_protect keeps status and collectors together.
LEMMA ProtectKeeps ==
    ASSUME NEW s, BaseInv(s), NEW i \in Inputs, NEW t, t = protect(s, i)
    PROVE  BaseInv(t)
<1>1. /\ s \in State /\ \A j \in Inputs : ListOK(s, j) /\ PauseOK(s, j)
      /\ FullLocked(s)
  BY DEF BaseInv
<1>2. IsProtected(s, i, t)
  BY <1>1, Protect
<1>3. FullLocked(t)
  BY <1>1, <1>2 DEF IsProtected, FullLocked
<1>4. ASSUME NEW j \in Inputs PROVE ListOK(t, j)
  BY <1>1, <1>2 DEF IsProtected, ListOK, SameLists
<1>5. ASSUME NEW j \in Inputs PROVE PauseOK(t, j)
  <2>1. CASE j /= i
    BY <1>1, <1>2, <2>1 DEF IsProtected, PauseOK, Paused
  <2>2. CASE j = i
    BY <1>1, <1>2, <2>2 DEF IsProtected, PauseOK, Paused
  <2> QED BY <2>1, <2>2
<1>6. t \in State
  BY <1>2 DEF IsProtected
<1> QED
  BY <1>3, <1>4, <1>5, <1>6 DEF BaseInv

(***************************************************************************)
(* What a change of one chunk does to the sums.                            *)
(***************************************************************************)
\* The set summed over and the numbers differ in one element.
LEMMA SumChange ==
    ASSUME NEW D, IsFiniteSet(D), NEW c, NEW T \in SUBSET D, NEW U \in SUBSET D,
           T \ {c} = U \ {c}, NEW f \in [T -> Int], NEW g \in [U -> Int],
           \A d \in T \ {c} : f[d] = g[d]
    PROVE  SumFunction(g) = SumFunction(f) + (IF c \in U THEN g[c] ELSE 0)
                                           - (IF c \in T THEN f[c] ELSE 0)
<1> DEFINE e == [d \in T \ {c} |-> f[d]]
<1>1. IsFiniteSet(T) /\ IsFiniteSet(U) /\ IsFiniteSet(T \ {c})
  BY FS_Subset
<1>2. DOMAIN e = T \ {c} /\ DOMAIN e = U \ {c} /\ e \in [T \ {c} -> Int]
      /\ (\A d \in T \ {c} : e[d] = f[d]) /\ (\A d \in U \ {c} : e[d] = g[d])
  OBVIOUS
<1> HIDE DEF e
<1>3. SumFunction(e) \in Int
  BY <1>1, <1>2, SumInt
<1>4. SumFunction(f) = SumFunction(e) + (IF c \in T THEN f[c] ELSE 0)
      /\ (c \in T => f[c] \in Int)
  <2>1. CASE c \in T
    <3>1. SumFunction(f) = f[c] + SumFunction(e)
      BY <1>1, <1>2, <2>1, SumPart
    <3> QED BY <1>3, <2>1, <3>1
  <2>2. CASE c \notin T
    <3>1. T = T \ {c}
      BY <2>2
    <3>2. f = e
      BY <1>2, <3>1
    <3> QED BY <1>3, <2>2, <3>2
  <2> QED BY <2>1, <2>2
<1>5. SumFunction(g) = SumFunction(e) + (IF c \in U THEN g[c] ELSE 0)
      /\ (c \in U => g[c] \in Int)
  <2>1. CASE c \in U
    <3>1. SumFunction(g) = g[c] + SumFunction(e)
      BY <1>1, <1>2, <2>1, SumPart
    <3> QED BY <1>3, <2>1, <3>1
  <2>2. CASE c \notin U
    <3>1. U = U \ {c}
      BY <2>2
    <3>2. g = e
      BY <1>2, <3>1
    <3> QED BY <1>3, <2>2, <3>2
  <2> QED BY <2>1, <2>2
<1> QED
  BY <1>3, <1>4, <1>5

\* The part of a chunk in the data of an input and in what an output is
\* charged for.
Data(r, i) == IF r.in = i /\ r.up THEN r.size ELSE 0
Cost(r, o) == IF r.in /= None /\ r.fs_counted /\ o \in r.mask THEN real_size(r) ELSE 0

\* Both parts are numbers.
LEMMA PartTypes ==
    ASSUME NEW r \in Chunk, NEW i, NEW o
    PROVE  Data(r, i) \in Nat /\ Cost(r, o) \in Nat
BY RealSize, InputChunkAssumption DEF Data, Cost, Chunk

\* When one chunk changes, the data of an input changes by its part in it.
LEMMA TotalChange ==
    ASSUME NEW s \in State, NEW t \in State, NEW c \in Chunks,
           OnlyChunk(s, t, c), NEW i
    PROVE  total_size(t, i) = total_size(s, i) + Data(t.chunk[c], i) - Data(s.chunk[c], i)
<1> DEFINE T == {d \in Of(s, i) : s.chunk[d].up}
           U == {d \in Of(t, i) : t.chunk[d].up}
           f == [d \in T |-> s.chunk[d].size]
           g == [d \in U |-> t.chunk[d].size]
<1>1. total_size(s, i) = SumFunction(f) /\ total_size(t, i) = SumFunction(g)
  BY DEF total_size
<1>2. \A d \in Chunks : s.chunk[d].size \in Int /\ t.chunk[d].size \in Int
  BY SMTT(60), InputChunkAssumption DEF State, Chunk
<1>3. T \in SUBSET Chunks /\ U \in SUBSET Chunks /\ T \ {c} = U \ {c} /\ IsFiniteSet(Chunks)
  BY InputChunkAssumption DEF Of, OnlyChunk
<1>4. f \in [T -> Int] /\ g \in [U -> Int] /\ \A d \in T \ {c} : f[d] = g[d]
  BY <1>2, <1>3 DEF Of, OnlyChunk
<1>5. /\ (IF c \in U THEN g[c] ELSE 0) = Data(t.chunk[c], i)
      /\ (IF c \in T THEN f[c] ELSE 0) = Data(s.chunk[c], i)
  BY DEF Data, Of
<1> HIDE DEF T, U, f, g
<1>6. SumFunction(g) = SumFunction(f) + (IF c \in U THEN g[c] ELSE 0)
                                      - (IF c \in T THEN f[c] ELSE 0)
  BY <1>3, <1>4, SumChange
<1> QED
  BY <1>1, <1>5, <1>6

\* When one chunk changes, so does the charge of an output, by its part in it.
LEMMA ChargedChange ==
    ASSUME NEW s \in State, NEW t \in State, NEW c \in Chunks,
           OnlyChunk(s, t, c), NEW o
    PROVE  /\ Charged(t, o) = Charged(s, o) + Cost(t.chunk[c], o) - Cost(s.chunk[c], o)
           /\ Charged(s, o) \in Int
<1> DEFINE T == {d \in Chunks \ Free(s) : s.chunk[d].fs_counted /\ o \in s.chunk[d].mask}
           U == {d \in Chunks \ Free(t) : t.chunk[d].fs_counted /\ o \in t.chunk[d].mask}
           f == [d \in T |-> real_size(s.chunk[d])]
           g == [d \in U |-> real_size(t.chunk[d])]
<1>1. Charged(s, o) = SumFunction(f) /\ Charged(t, o) = SumFunction(g)
  BY DEF Charged
<1>2. \A d \in Chunks : real_size(s.chunk[d]) \in Int /\ real_size(t.chunk[d]) \in Int
  BY RealSize DEF State
<1>3. T \in SUBSET Chunks /\ U \in SUBSET Chunks /\ T \ {c} = U \ {c} /\ IsFiniteSet(Chunks)
  BY InputChunkAssumption DEF Of, Free, OnlyChunk
<1>4. f \in [T -> Int] /\ g \in [U -> Int] /\ \A d \in T \ {c} : f[d] = g[d]
  BY <1>2, <1>3 DEF OnlyChunk
<1>5. /\ (IF c \in U THEN g[c] ELSE 0) = Cost(t.chunk[c], o)
      /\ (IF c \in T THEN f[c] ELSE 0) = Cost(s.chunk[c], o)
  BY DEF Cost, Of, Free
<1> HIDE DEF T, U, f, g
<1>6. SumFunction(g) = SumFunction(f) + (IF c \in U THEN g[c] ELSE 0)
                                      - (IF c \in T THEN f[c] ELSE 0)
  BY <1>3, <1>4, SumChange
<1>7. SumFunction(f) \in Int
  BY <1>3, <1>4, SumInt, FS_Subset
<1> QED
  BY <1>1, <1>5, <1>6, <1>7

(***************************************************************************)
(* The helpers keep the invariant.                                         *)
(***************************************************************************)
\* No append is larger than the largest.
LEMMA LargestAppend ==
    ASSUME setting \in Settings
    PROVE  Max(Sizes) \in Nat /\ \A n \in Sizes : n \in 1..MaxSize /\ n <= Max(Sizes)
<1>1. Sizes \in SUBSET (1..MaxSize) /\ Sizes /= {} /\ MaxSize \in Nat
  BY SettingParts, InputChunkAssumption
<1>2. \E x \in Sizes : \A y \in Sizes : x >= y
  BY <1>1, FS2!Greatest
<1>3. Max(Sizes) \in Sizes /\ \A y \in Sizes : Max(Sizes) >= y
  BY <1>2 DEF Max
<1>4. \A y \in Sizes : y \in 1..MaxSize
  BY <1>1
<1>5. Max(Sizes) \in 1..MaxSize
  BY <1>3, <1>4
<1> DEFINE m == Max(Sizes)
<1>6. m \in 1..MaxSize /\ \A y \in Sizes : m >= y
  BY <1>3, <1>5
<1> HIDE DEF m
<1>7. m \in Nat /\ \A n \in Sizes : n \in 1..MaxSize /\ n <= m
  BY <1>1, <1>4, <1>6
<1> QED
  BY <1>7 DEF m

\* Less data of one chunk.
NoMoreData(q, r) ==
    \A i \in Inputs : Type[i] /= "fs" => Data(r, i) <= Data(q, i) /\ (r.in = i => r.up)

\* With less data of one chunk an input stays within its limit.
LEMMA ShrinkOne ==
    ASSUME NEW s \in State, NEW t \in State, NEW c \in Chunks, OnlyChunk(s, t, c),
           SameLimits(s, t), NEW i \in Inputs, Type[i] /= "fs", MemOK(s, i),
           setting \in Settings, NoMoreData(s.chunk[c], t.chunk[c])
    PROVE  MemOK(t, i)
<1>2. total_size(t, i) = total_size(s, i) + Data(t.chunk[c], i) - Data(s.chunk[c], i)
  BY TotalChange
<1>3. /\ Data(t.chunk[c], i) \in Nat /\ Data(s.chunk[c], i) \in Nat
      /\ total_size(t, i) \in Nat /\ total_size(s, i) \in Nat /\ s.mem[i] \in Nat
  BY PartTypes, TotalSize DEF State
<1>4. total_size(t, i) <= total_size(s, i) /\ (t.chunk[c].in = i => t.chunk[c].up)
  BY <1>2, <1>3 DEF NoMoreData
<1>5. MemLimit[i] \in Nat /\ Max(Sizes) \in Nat
  BY SettingParts, LargestAppend
<1> QED
  BY <1>3, <1>4, <1>5 DEF MemOK, SameLimits, OnlyChunk

\* With less data of one chunk all inputs do.
LEMMA ShrinkKeeps ==
    ASSUME NEW s \in State, NEW t \in State, NEW c \in Chunks,
           OnlyChunk(s, t, c),
           SameLimits(s, t), MemInv(s), setting \in Settings,
           NoMoreData(s.chunk[c], t.chunk[c])
    PROVE  MemInv(t)
<1> SUFFICES ASSUME NEW i \in Inputs, Type[i] /= "fs" PROVE MemOK(t, i) /\ AtLimit(t, i)
  BY DEF MemInv
<1>1. MemOK(s, i) /\ AtLimit(s, i)
  BY DEF MemInv
<1>2. MemOK(t, i)
  BY <1>1, ShrinkOne
<1> QED
  BY <1>1, <1>2 DEF AtLimit, SameLimits

\* A change of one chunk with what it costs.
LEMMA CostKeeps ==
    ASSUME NEW s \in State, NEW t \in State, NEW c \in Chunks,
           OnlyChunk(s, t, c),
           NEW X, NEW Y, X \ {c} \subseteq Y, CountInv(s, X),
           \A o \in Limited : t.fs[o] = s.fs[o] + Cost(t.chunk[c], o) - Cost(s.chunk[c], o),
           CountOK(t.chunk[c]),
           c \notin Y /\ t.chunk[c].in /= None => t.chunk[c].size > 0
    PROVE  CountInv(t, Y)
<1>1. ASSUME NEW o \in Limited PROVE t.fs[o] = Charged(t, o)
  <2>1. Charged(t, o) = Charged(s, o) + Cost(t.chunk[c], o) - Cost(s.chunk[c], o)
    BY ChargedChange
  <2>2. s.fs[o] = Charged(s, o)
    BY DEF CountInv
  <2> QED BY <2>1, <2>2
<1>2. ASSUME NEW d \in Chunks PROVE CountOK(t.chunk[d])
  <2>1. CASE d = c
    BY <2>1
  <2>2. CASE d /= c
    <3>1. t.chunk[d] = s.chunk[d] /\ CountOK(s.chunk[d])
      BY <2>2 DEF CountInv, OnlyChunk
    <3> QED BY <3>1
  <2> QED BY <2>1, <2>2
<1>3. ASSUME NEW d \in Chunks \ Y, t.chunk[d].in /= None PROVE t.chunk[d].size > 0
  <2>1. CASE d = c
    BY <1>3, <2>1
  <2>2. CASE d /= c
    <3>1. t.chunk[d] = s.chunk[d] /\ d \in Chunks \ X
      BY <2>2 DEF OnlyChunk
    <3> QED BY <1>3, <3>1 DEF CountInv
  <2> QED BY <2>1, <2>2
<1> QED
  BY <1>1, <1>2, <1>3 DEF CountInv

\* Without the chunk that is destroyed, X may be smaller.
LEMMA GoneFull ==
    ASSUME setting \in Settings, NEW s, NEW X, FullInv(s, X), NEW c \in Chunks,
           NEW t, IsDestroyed(s, c, t)
    PROVE  FullInv(t, X) /\ FullInv(t, X \ {c})
           /\ OnlyChunk(s, t, c) /\ t.chunk[c] = NoChunk
<1>1. BaseInv(s) /\ MemInv(s) /\ (Countable => CountInv(s, X)) /\ s \in State
  BY DEF FullInv, BaseInv
<1>2. BaseInv(t)
  BY <1>1, DestroyedKeeps
<1>3. IsDestroyed(s, c, t)
  OBVIOUS
<1>4. /\ t \in State /\ SameLimits(s, t) /\ t.chunk[c] = NoChunk
      /\ OnlyChunk(s, t, c)
      /\ s.chunk[c] \in Chunk /\ t.chunk[c] \in Chunk
  BY <1>1, <1>3, NoChunkType DEF IsDestroyed, State, OnlyChunk
<1>5. MemInv(t)
  <2>1. \A i \in Inputs : Data(t.chunk[c], i) = 0 /\ t.chunk[c].in /= i
    BY <1>4, NoChunkType, InputChunkAssumption DEF Data
  <2>2. \A i \in Inputs : Data(t.chunk[c], i) <= Data(s.chunk[c], i)
    BY <1>4, <2>1, PartTypes
  <2>3. NoMoreData(s.chunk[c], t.chunk[c])
    BY <2>1, <2>2 DEF NoMoreData
  <2> QED BY <1>1, <1>4, <2>3, ShrinkKeeps
<1>6. ASSUME Countable PROVE CountInv(t, X \ {c}) /\ CountInv(t, X)
  <2>1. CountInv(s, X) /\ CountOK(s.chunk[c])
    BY <1>1, <1>6 DEF CountInv
  <2>2. CountOK(t.chunk[c]) /\ t.chunk[c].in = None
    BY <1>4 DEF CountOK, NoChunk
  <2>3. ASSUME NEW o \in Limited
        PROVE  t.fs[o] = s.fs[o] + Cost(t.chunk[c], o) - Cost(s.chunk[c], o)
    <3>1. t.fs[o] = IF s.chunk[c].fs_counted /\ o \in s.chunk[c].mask
                    THEN s.fs[o] - real_size(s.chunk[c]) ELSE s.fs[o]
      BY <1>3 DEF IsDestroyed
    <3>2. Cost(t.chunk[c], o) = 0
      BY <2>2 DEF Cost
    <3>3. Cost(s.chunk[c], o) = IF s.chunk[c].fs_counted /\ o \in s.chunk[c].mask
                                THEN real_size(s.chunk[c]) ELSE 0
      BY <2>1 DEF Cost, CountOK
    <3>4. s.fs[o] \in Int /\ real_size(s.chunk[c]) \in Nat
      BY <1>1, <1>4, RealSize DEF State
    <3> QED BY <3>1, <3>2, <3>3, <3>4
  <2>4. X \ {c} \subseteq X \ {c} /\ X \ {c} \subseteq X
    OBVIOUS
  <2>5. CountInv(t, X \ {c})
    <3> DEFINE Y == X \ {c}
    <3>1. X \ {c} \subseteq Y
      OBVIOUS
    <3> HIDE DEF Y
    <3>2. CountInv(t, Y)
      BY <1>1, <1>4, <2>1, <2>2, <2>3, <3>1, CostKeeps
    <3> QED BY <3>2 DEF Y
  <2>6. CountInv(t, X)
    BY <1>1, <1>4, <2>1, <2>2, <2>3, <2>4, CostKeeps
  <2> QED BY <2>5, <2>6
<1> QED
  BY <1>2, <1>4, <1>5, <1>6 DEF FullInv

\* flb_input_chunk_destroy keeps the invariant.
LEMMA DestroyedFull ==
    ASSUME setting \in Settings, NEW s, NEW X, FullInv(s, X), NEW c \in Chunks,
           NEW t, t = destroyed(s, c)
    PROVE  FullInv(t, X) /\ FullInv(t, X \ {c})
           /\ OnlyChunk(s, t, c) /\ t.chunk[c] = NoChunk
<1>1. s \in State
  BY DEF FullInv, BaseInv
<1>2. IsDestroyed(s, c, t)
  BY <1>1, Destroyed
<1> QED
  BY <1>2, GoneFull

\* The sums are sums over the chunks.
LEMMA SameSums ==
    ASSUME NEW s, NEW t, t.chunk = s.chunk, NEW x
    PROVE  total_size(t, x) = total_size(s, x) /\ Charged(t, x) = Charged(s, x)
BY DEF total_size, Charged, Of, Free

\* A measurement makes up for data that was added.
LEMMA Measures ==
    ASSUME setting \in Settings, NEW s, BaseInv(s), NEW i, NEW t, t = set_limits(s, i),
           \A j \in Inputs \ {i} : Type[j] /= "fs" => MemOK(s, j) /\ AtLimit(s, j),
           i \in Inputs /\ Type[i] /= "fs" =>
              /\ \A c \in Chunks : s.chunk[c].in = i => s.chunk[c].up
              /\ Bounded(i) => total_size(s, i) < MemLimit[i] + Max(Sizes)
    PROVE  /\ \A j \in Inputs \ {i} : Type[j] /= "fs" => MemOK(t, j) /\ AtLimit(t, j)
           /\ i \in Inputs /\ Type[i] /= "fs" => MemOK(t, i)
<1>1. IsMeasured(s, i, t) /\ s \in State
  BY SetLimits DEF BaseInv
<1>2. \A j : total_size(t, j) = total_size(s, j) /\ total_size(s, j) \in Nat
  BY <1>1, SameSums, TotalSize DEF IsMeasured
<1>3. ASSUME NEW j \in Inputs \ {i}, Type[j] /= "fs" PROVE MemOK(t, j) /\ AtLimit(t, j)
  <2>1. t.mem[j] = s.mem[j] /\ t.mem_st[j] = s.mem_st[j] /\ t.chunk = s.chunk
    BY <1>1 DEF IsMeasured, State
  <2> QED BY <1>2, <1>3, <2>1 DEF MemOK, AtLimit
<1>4. ASSUME i \in Inputs, Type[i] /= "fs" PROVE MemOK(t, i)
  <2>1. t.mem[i] = total_size(s, i) /\ t.chunk = s.chunk
    BY <1>1, <1>4 DEF IsMeasured, State
  <2> QED BY <1>2, <1>4, <2>1 DEF MemOK
<1> QED
  BY <1>3, <1>4

\* Measuring at any time.
LEMMA SetLimitsFull ==
    ASSUME setting \in Settings, NEW s, NEW X, FullInv(s, X), NEW i, NEW t, t = set_limits(s, i)
    PROVE  FullInv(t, X) /\ t.chunk = s.chunk
<1>1. BaseInv(s) /\ MemInv(s) /\ (Countable => CountInv(s, X)) /\ s \in State
  BY DEF FullInv, BaseInv
<1>2. BaseInv(t) /\ IsMeasured(s, i, t)
  BY <1>1, SetLimitsKeeps, SetLimits
<1>3. /\ \A j \in Inputs \ {i} : Type[j] /= "fs" => MemOK(t, j) /\ AtLimit(t, j)
      /\ i \in Inputs /\ Type[i] /= "fs" => MemOK(t, i)
  BY <1>1, Measures DEF MemInv, MemOK
<1>4. ASSUME i \in Inputs, Type[i] /= "fs" PROVE AtLimit(t, i)
  <2>1. MemOK(s, i) /\ AtLimit(s, i)
    BY <1>1, <1>4 DEF MemInv
  <2>2. t.mem[i] = total_size(s, i) /\ total_size(s, i) \in Nat /\ s.mem[i] \in Nat
        /\ MemLimit[i] \in Nat
    BY <1>1, <1>2, <1>4, TotalSize, SettingParts DEF IsMeasured, State
  <2>3. PICK m \in BOOLEAN :
          /\ m <=> ingestion /\ s.mem_st[i] = "PAUSED"
                   /\ ~(MemLimit[i] > 0 /\ total_size(s, i) >= MemLimit[i])
          /\ t.mem_st[i] = IF m THEN "RUNNING" ELSE s.mem_st[i]
    BY <1>2, <1>4 DEF IsMeasured
  <2> SUFFICES ASSUME Type[i] = "mem", MemLimit[i] > 0, t.mem[i] >= MemLimit[i]
               PROVE  t.mem_st[i] = "PAUSED"
    BY DEF AtLimit
  <2>4. s.mem[i] >= MemLimit[i]
    BY <2>1, <2>2 DEF MemOK
  <2>5. s.mem_st[i] = "PAUSED"
    BY <2>1, <2>4 DEF AtLimit
  <2>6. ~m
    BY <2>2, <2>3
  <2> QED BY <2>3, <2>5, <2>6
<1>5. MemInv(t)
  BY <1>3, <1>4 DEF MemInv
<1>6. t.chunk = s.chunk /\ t.fs = s.fs
  BY <1>2 DEF IsMeasured
<1>7. Countable => CountInv(t, X)
  BY <1>1, <1>6, SameSums DEF CountInv
<1> QED
  BY <1>2, <1>5, <1>6, <1>7 DEF FullInv

\* flb_task_destroy
LEMMA TaskDestroyFull ==
    ASSUME setting \in Settings, NEW s, NEW X, FullInv(s, X), NEW c \in Chunks,
           NEW t, t = task_destroy(s, c)
    PROVE  FullInv(t, X) /\ OnlyChunk(s, t, c) /\ t.chunk[c] = NoChunk
<1> DEFINE u == destroyed(s, c)
<1>2. t = set_limits(u, s.chunk[c].in) /\ u = destroyed(s, c)
  BY DEF task_destroy
<1> HIDE DEF u
<1>1. FullInv(u, X) /\ OnlyChunk(s, u, c) /\ u.chunk[c] = NoChunk
  BY <1>2, DestroyedFull
<1>3. FullInv(t, X) /\ t.chunk = u.chunk
  BY <1>1, <1>2, SetLimitsFull
<1> QED
  BY <1>1, <1>3 DEF OnlyChunk

(***************************************************************************)
(* Making room.                                                            *)
(***************************************************************************)
\* The chunk loses a route it has, or goes; the other chunks stay as they are.
LEMMA EvictedFull ==
    ASSUME setting \in Settings, NEW s, NEW X, FullInv(s, X), NEW c \in Chunks \ X,
           NEW o \in Limited, s.chunk[c].in /= None, o \in s.chunk[c].mask,
           NEW t, t = evicted(s, c, o)
    PROVE  FullInv(t, X) /\ OnlyChunk(s, t, c)
<1> DEFINE r == [s.chunk[c] EXCEPT !.mask = @ \ {o}]
           u == [s EXCEPT !.chunk[c].mask = @ \ {o}, !.fs[o] = @ - real_size(s.chunk[c])]
<1>1. /\ s \in State /\ s.chunk \in [Chunks -> Chunk] /\ s.fs \in [Limited -> Int]
      /\ BaseInv(s) /\ FullLocked(s) /\ MemInv(s) /\ (Countable => CountInv(s, X))
  BY DEF FullInv, BaseInv, State
<1>2. /\ r \in Chunk /\ r.in = s.chunk[c].in /\ r.size = s.chunk[c].size /\ r.up = s.chunk[c].up
      /\ r.locked = s.chunk[c].locked /\ r.file = s.chunk[c].file /\ r.task = s.chunk[c].task
      /\ r.users = s.chunk[c].users /\ r.fs_counted = s.chunk[c].fs_counted
      /\ r.mask = s.chunk[c].mask \ {o} /\ s.chunk[c] \in Chunk
  BY <1>1 DEF Chunk
<1> DEFINE X0 == [s.chunk EXCEPT ![c] = r]
           F == [s.fs EXCEPT ![o] = @ - real_size(s.chunk[c])]
<1>3. u = [s EXCEPT !.chunk = X0, !.fs = F]
  BY <1>1 DEF State
<1>4. X0 \in [Chunks -> Chunk] /\ F \in [Limited -> Int]
  BY <1>1, <1>2, RealSize
<1>5. u \in State /\ u.chunk = X0 /\ u.fs = F /\ SameLists(s, u) /\ SameLimits(s, u)
  <2> HIDE DEF X0, F, u
  <2> QED BY <1>1, <1>3, <1>4 DEF State, SameLists, SameLimits
<1>6. BaseInv(u)
  <2>1. r.size > MaxContent => r.locked
    BY <1>1, <1>2 DEF FullLocked
  <2>2. u.chunk = [s.chunk EXCEPT ![c] = r]
    BY <1>5
  <2> HIDE DEF r, u
  <2> QED BY <1>1, <1>2, <1>5, <2>1, <2>2, SetChunkKeeps
<1>7. OnlyChunk(s, u, c) /\ u.chunk[c] = r
  BY <1>1, <1>5 DEF OnlyChunk
<1>8. t = u \/ t = task_destroy(u, c) \/ t = destroyed(u, c)
  BY DEF evicted
<1>9. u.fs[o] = s.fs[o] - real_size(s.chunk[c]) /\ \A p \in Limited \ {o} : u.fs[p] = s.fs[p]
  BY <1>1, <1>5
<1> HIDE DEF u, r
<1>10. MemInv(u)
  <2>1. \A i \in Inputs : Data(r, i) = Data(s.chunk[c], i) /\ Data(r, i) \in Nat
    BY <1>2, PartTypes DEF Data
  <2>2. \A i \in Inputs : Type[i] /= "fs" => (r.in = i => r.up)
    BY <1>1, <1>2 DEF MemInv, MemOK
  <2>3. NoMoreData(s.chunk[c], u.chunk[c])
    BY <1>7, <2>1, <2>2 DEF NoMoreData
  <2> QED BY <1>1, <1>5, <1>7, <2>3, ShrinkKeeps
<1>11. ASSUME Countable PROVE CountInv(u, X)
  <2>1. CountInv(s, X) /\ CountOK(s.chunk[c]) /\ s.chunk[c].size > 0
    BY <1>1, <1>11 DEF CountInv
  <2>2. s.chunk[c].fs_counted
    BY <2>1 DEF CountOK
  <2>3. CountOK(r) /\ r.size > 0
    BY <1>2, <2>1, <2>2 DEF CountOK
  <2>4. ASSUME NEW p \in Limited PROVE u.fs[p] = s.fs[p] + Cost(r, p) - Cost(s.chunk[c], p)
    <3>1. real_size(r) = real_size(s.chunk[c]) /\ real_size(r) \in Nat /\ s.fs[p] \in Int
      BY <1>1, <1>2, RealSize DEF real_size
    <3>2. CASE p = o
      <4>1. Cost(r, p) = 0 /\ Cost(s.chunk[c], p) = real_size(s.chunk[c])
        BY <1>2, <2>2, <3>2 DEF Cost
      <4> QED BY <1>9, <3>1, <3>2, <4>1
    <3>3. CASE p /= o
      <4>1. Cost(r, p) = Cost(s.chunk[c], p) /\ Cost(r, p) \in Nat
        BY <1>2, <3>1, <3>3, PartTypes DEF Cost
      <4> QED BY <1>9, <3>1, <3>3, <4>1
    <3> QED BY <3>2, <3>3
  <2>5. X \ {c} \subseteq X
    OBVIOUS
  <2> QED BY <1>1, <1>5, <1>7, <2>1, <2>3, <2>4, <2>5, CostKeeps
<1>12. FullInv(u, X)
  BY <1>6, <1>10, <1>11 DEF FullInv
<1>13. CASE t = u
  BY <1>7, <1>12, <1>13
<1>14. CASE t = task_destroy(u, c)
  <2>1. FullInv(t, X) /\ OnlyChunk(u, t, c)
    BY <1>12, <1>14, TaskDestroyFull
  <2> QED BY <1>7, <2>1 DEF OnlyChunk
<1>15. CASE t = destroyed(u, c)
  <2>1. FullInv(t, X) /\ OnlyChunk(u, t, c)
    BY <1>12, <1>15, DestroyedFull
  <2> QED BY <1>7, <2>1 DEF OnlyChunk
<1> QED
  BY <1>8, <1>13, <1>14, <1>15

\* Enough takes the first elements of a list.
LEMMA EnoughList ==
    ASSUME NEW s, NEW q \in Seq(Chunks), NEW required
    PROVE  /\ Enough(s, q, required) \in Seq(Chunks)
           /\ Len(Enough(s, q, required)) <= Len(q)
           /\ \A j \in DOMAIN Enough(s, q, required) :
                 j \in DOMAIN q /\ Enough(s, q, required)[j] = q[j]
<1> DEFINE K == {k \in 1..Len(q) : SizeOf(s, SubSeq(q, 1, k)) >= required}
           m == IF K = {} THEN Len(q) ELSE Min(K)
<1>1. Enough(s, q, required) = SubSeq(q, 1, m)
  BY DEF Enough
<1>2. m \in 0..Len(q)
  <2>1. CASE K = {}
    BY <2>1
  <2>2. CASE K /= {}
    <3>1. K \in SUBSET Nat
      OBVIOUS
    <3>2. \E x \in K : \A y \in K : x <= y
      <4> HIDE DEF K
      <4> QED BY <2>2, <3>1, FS2!LeastNat
    <3>3. Min(K) \in K
      <4> HIDE DEF K
      <4> QED BY <3>2 DEF Min
    <3> QED BY <2>2, <3>3
  <2> QED BY <2>1, <2>2
<1> HIDE DEF m
<1>3. SubSeq(q, 1, m) \in Seq(Chunks) /\ Len(SubSeq(q, 1, m)) = m
      /\ \A j \in 1..m : SubSeq(q, 1, m)[j] = q[j]
  BY <1>2
<1> DEFINE u == SubSeq(q, 1, m)
<1>4. u \in Seq(Chunks) /\ Len(u) = m /\ \A j \in 1..m : u[j] = q[j]
  BY <1>3
<1> HIDE DEF u
<1>5. Len(u) <= Len(q) /\ \A j \in DOMAIN u : j \in DOMAIN q /\ u[j] = q[j]
  BY <1>2, <1>4
<1> QED
  BY <1>1, <1>4, <1>5 DEF u

\* X is what may be empty: more may.
LEMMA FullMore ==
    ASSUME NEW s, NEW X, NEW Y, X \subseteq Y, FullInv(s, X)
    PROVE  FullInv(s, Y)
BY DEF FullInv, CountInv

EvictStep(t, c, o, u) == evicted(t, c, o)
EvictLoop(s, q, o) == FoldLeft(LAMBDA t, c : evicted(t, c, o), s, q)

\* After k chunks of p.q: the others are as they were, and so is the new one.
EvictInv(t, k, p) ==
    /\ FullInv(t, {p.new})
    /\ \A j \in DOMAIN p.q : j > k => t.chunk[p.q[j]] = p.s.chunk[p.q[j]]
    /\ t.chunk[p.new] = p.s.chunk[p.new]

FS3 == INSTANCE FoldProofs WITH Op <- EvictStep, Inv <- EvictInv

\* Chunks of a list of their own lose a route that they have.
LEMMA EvictAll ==
    ASSUME setting \in Settings, NEW s, NEW new \in Chunks, FullInv(s, {new}),
           NEW o \in Limited, NEW q \in Seq(Chunks), Once(q),
           \A j \in DOMAIN q : /\ q[j] /= new /\ s.chunk[q[j]].in /= None
                               /\ o \in s.chunk[q[j]].mask,
           NEW t, t = EvictLoop(s, q, o)
    PROVE  FullInv(t, {new}) /\ t.chunk[new] = s.chunk[new]
<1> DEFINE p == [new |-> new, q |-> q, s |-> s]
           n == Len(q)
<1>1. n \in Nat /\ DOMAIN q = 1..n /\ \A m \in 1..n : q[m] \in Chunks
  OBVIOUS
<1>2. p.new = new /\ p.q = q /\ p.s = s
  OBVIOUS
<1> HIDE DEF p, n
<1>3. EvictInv(s, 0, p)
  BY <1>2 DEF EvictInv
<1>4. ASSUME NEW v, NEW k \in 1..n, EvictInv(v, k - 1, p)
      PROVE  EvictInv(EvictStep(v, q[k], o, None), k, p)
  <2> DEFINE w == evicted(v, q[k], o)
             c == q[k]
  <2>1. w = evicted(v, c, o) /\ EvictStep(v, q[k], o, None) = w
    BY DEF EvictStep
  <2>2. /\ FullInv(v, {new}) /\ v.chunk[new] = s.chunk[new]
        /\ \A j \in 1..n : j > k - 1 => v.chunk[q[j]] = s.chunk[q[j]]
    BY <1>1, <1>2, <1>4 DEF EvictInv
  <2>3. /\ c \in Chunks \ {new} /\ v.chunk[c] = s.chunk[c] /\ s.chunk[c].in /= None
        /\ o \in s.chunk[c].mask
    BY <1>1, <2>2
  <2>4. \A j \in 1..n : j > k => q[j] \in Chunks \ {c} /\ j > k - 1
    BY <1>1 DEF Once
  <2> HIDE DEF w, c
  <2>5. v.chunk[c].in /= None /\ o \in v.chunk[c].mask
    BY <2>3
  <2>6. FullInv(w, {new}) /\ OnlyChunk(v, w, c)
    BY <2>1, <2>2, <2>3, <2>5, EvictedFull
  <2>7. w.chunk[new] = s.chunk[new]
    BY <2>2, <2>3, <2>6 DEF OnlyChunk
  <2>8. \A j \in DOMAIN q : j > k => w.chunk[q[j]] = s.chunk[q[j]]
    BY <1>1, <2>2, <2>4, <2>6 DEF OnlyChunk
  <2> QED BY <1>2, <2>1, <2>6, <2>7, <2>8 DEF EvictInv
<1>5. t = FS3!FoldOf(s, q, o, None)
  BY DEF EvictLoop, FoldLeft, MapThenFoldSet, FS3!FoldOf, EvictStep, Max
<1>6. EvictInv(t, n, p)
  BY <1>1, <1>3, <1>4, <1>5, FS3!FoldKeeps
<1> QED
  BY <1>2, <1>6 DEF EvictInv

\* flb_input_chunk_release_space
LEMMA ReleaseSpace ==
    ASSUME setting \in Settings, NEW s, NEW new \in Chunks, FullInv(s, {new}),
           NEW i \in Inputs, NEW o \in Limited, NEW required,
           NEW a, a = release_space(s, new, i, o, required)
    PROVE  FullInv(a.s, {new}) /\ a.s.chunk[new] = s.chunk[new]
<1> DEFINE S == {c \in Chunks : /\ o \in s.chunk[c].mask /\ c /= new
                                /\ s.chunk[c].users => o \notin s.chunk[c].active}
           l == Selected(s.chunks[i], S)
           q == Enough(s, l, required)
<1>1. a.s = EvictLoop(s, q, o)
  BY DEF release_space, EvictLoop
<1>2. ListOK(s, i) /\ s.chunks[i] \in Seq(Chunks)
  BY DEF FullInv, BaseInv, State
<1>3. Once(s.chunks[i]) /\ \A k \in DOMAIN s.chunks[i] : s.chunk[s.chunks[i][k]].in = i
  BY <1>2 DEF ListOK
<1> HIDE DEF S
<1>4. /\ l \in Seq(Chunks) /\ Once(l)
      /\ \A j \in DOMAIN l : l[j] \in S /\ \E m \in DOMAIN s.chunks[i] : s.chunks[i][m] = l[j]
  <2> DEFINE z == s.chunks[i]
  <2>1. z \in Seq(Chunks) /\ Once(z)
    BY <1>2, <1>3
  <2> HIDE DEF z
  <2>2. /\ Selected(z, S) \in Seq(Chunks) /\ Once(Selected(z, S))
        /\ \A j \in DOMAIN Selected(z, S) :
              Selected(z, S)[j] \in S /\ \E m \in DOMAIN z : z[m] = Selected(z, S)[j]
    BY <2>1, SelectedList
  <2> QED BY <2>2 DEF z
<1> HIDE DEF l
<1>5. q \in Seq(Chunks) /\ \A j \in DOMAIN q : j \in DOMAIN l /\ q[j] = l[j]
  BY <1>4, EnoughList
<1> HIDE DEF q
<1>6. Once(q)
  BY <1>4, <1>5 DEF Once
<1>7. ASSUME NEW j \in DOMAIN q
      PROVE  q[j] /= new /\ s.chunk[q[j]].in /= None /\ o \in s.chunk[q[j]].mask
  <2>1. q[j] \in S /\ s.chunk[q[j]].in = i
    BY <1>3, <1>4, <1>5
  <2> QED BY <2>1, InputChunkAssumption DEF S
<1> DEFINE t == a.s
<1>8. t = EvictLoop(s, q, o)
  BY <1>1
<1> HIDE DEF t
<1>9. FullInv(t, {new}) /\ t.chunk[new] = s.chunk[new]
  BY ZenonT(60), <1>5, <1>6, <1>7, <1>8, EvictAll
<1> QED
  BY <1>9 DEF t

\* The instances are numbered.
LEMMA InOrderList ==
    ASSUME NEW S, IsFiniteSet(S), S = 1..Cardinality(S)
    PROVE  InOrder(S) \in Seq(S)
<1>1. Cardinality(S) \in Nat
  BY FS_CardinalityType
<1>2. InOrder(S) \in [1..Cardinality(S) -> S]
  BY DEF InOrder
<1> QED
  BY <1>1, <1>2

CompoundStep(a, i, new, o) ==
    IF a.required > 0 THEN release_space(a.s, new, i, o, a.required) ELSE a
CompoundLoop(a, q, new, o) ==
    FoldLeft(LAMBDA b, i : IF b.required > 0
                           THEN release_space(b.s, new, i, o, b.required) ELSE b, a, q)
CompoundInv(a, k, p) == FullInv(a.s, {p.new}) /\ a.s.chunk[p.new] = p.r

FS4 == INSTANCE FoldProofs WITH Op <- CompoundStep, Inv <- CompoundInv

\* flb_input_chunk_release_space_compound
LEMMA ReleaseSpaceCompound ==
    ASSUME setting \in Settings, NEW s, NEW new \in Chunks, FullInv(s, {new}),
           s.chunk[new].in \in Inputs, NEW o \in Limited,
           NEW a, a = release_space_compound(s, new, o)
    PROVE  FullInv(a.s, {new}) /\ a.s.chunk[new] = s.chunk[new]
<1> DEFINE own == s.chunk[new].in
           l == Selected(InOrder(Inputs), Inputs \ {own})
           q == <<own>> \o l
           b == [s |-> s, required |-> real_size(s.chunk[new])]
           p == [new |-> new, r |-> s.chunk[new]]
           n == Len(q)
<1>1. a = CompoundLoop(b, q, new, o)
  BY DEF release_space_compound, CompoundLoop
<1>2. q \in Seq(Inputs)
  <2>1. InOrder(Inputs) \in Seq(Inputs)
    BY InOrderList, InputChunkAssumption
  <2>2. l \in Seq(Inputs)
    BY <2>1, SelectedList
  <2> HIDE DEF l
  <2> QED BY <2>2
<1>3. b.s = s /\ p.new = new /\ p.r = s.chunk[new]
  OBVIOUS
<1> HIDE DEF q, b, p
<1>4. n \in Nat /\ DOMAIN q = 1..n /\ \A m \in 1..n : q[m] \in Inputs
  BY <1>2
<1> HIDE DEF n
<1>5. CompoundInv(b, 0, p)
  BY <1>3 DEF CompoundInv
<1>6. ASSUME NEW v, NEW k \in 1..n, CompoundInv(v, k - 1, p)
      PROVE  CompoundInv(CompoundStep(v, q[k], new, o), k, p)
  <2> DEFINE w == release_space(v.s, new, q[k], o, v.required)
             z == v.s
  <2>1. FullInv(z, {new}) /\ z.chunk[new] = s.chunk[new]
    BY <1>3, <1>6 DEF CompoundInv
  <2>2. w = release_space(z, new, q[k], o, v.required) /\ q[k] \in Inputs
    BY <1>4
  <2> HIDE DEF w, z
  <2>3. FullInv(w.s, {new}) /\ w.s.chunk[new] = z.chunk[new]
    BY <2>1, <2>2, ReleaseSpace
  <2>4. CompoundStep(v, q[k], new, o) = w \/ CompoundStep(v, q[k], new, o) = v
    BY DEF CompoundStep, w
  <2> QED BY <1>3, <1>6, <2>1, <2>3, <2>4 DEF CompoundInv
<1>7. a = FS4!FoldOf(b, q, new, o)
  BY <1>1 DEF CompoundLoop, FoldLeft, MapThenFoldSet, FS4!FoldOf, CompoundStep, Max
<1>8. CompoundInv(a, n, p)
  BY <1>4, <1>5, <1>6, <1>7, FS4!FoldKeeps
<1> QED
  BY <1>3, <1>8 DEF CompoundInv

PlaceStep(a, o, c, todo) ==
    LET r == release_space_compound(a.s, c, o) IN
    IF o \in todo THEN [s |-> r.s, ok |-> a.ok /\ r.required <= 0] ELSE a
PlaceLoop(a, q, c, todo) == FoldLeft(LAMBDA b, o : PlaceStep(b, o, c, todo), a, q)
PlaceInv(a, k, p) == FullInv(a.s, {p.new}) /\ a.s.chunk[p.new] = p.r

FS5 == INSTANCE FoldProofs WITH Op <- PlaceStep, Inv <- PlaceInv

Appending(s, c) == FullInv(s, {c})
IsPlaced(s, c, m, a) == a = place_new_chunk(s, c, m)

\* flb_input_chunk_place_new_chunk makes room without touching the chunk.
LEMMA PlaceNewChunk ==
    ASSUME setting \in Settings, NEW s, NEW c \in Chunks, Appending(s, c),
           s.chunk[c].in \in Inputs, NEW m, NEW a, IsPlaced(s, c, m, a)
    PROVE  /\ Appending(a.s, c) /\ a.s.chunk[c] = s.chunk[c]
           /\ Type[s.chunk[c].in] /= "fs" => a.s = s
<1> DEFINE over == has_overlimit_routes(s, c, m)
           todo == {o \in s.chunk[c].mask \cap Limited : Bit(o) \in over}
           q == InOrder(Outputs)
           b == [s |-> s, ok |-> TRUE]
           p == [new |-> c, r |-> s.chunk[c]]
           n == Len(q)
<1>1. a = IF FS(s.chunk[c].in) THEN PlaceLoop(b, q, c, todo) ELSE b
  BY DEF IsPlaced, place_new_chunk, PlaceLoop, PlaceStep
<1>2. q \in Seq(Outputs)
  BY InOrderList, InputChunkAssumption
<1>3. b.s = s /\ p.new = c /\ p.r = s.chunk[c] /\ todo \subseteq Limited
  OBVIOUS
<1> HIDE DEF q, p, todo
<1>4. n \in Nat /\ DOMAIN q = 1..n
  BY <1>2
<1>5. PlaceInv(b, 0, p)
  BY <1>3 DEF PlaceInv, Appending
<1> HIDE DEF n
<1>6. ASSUME NEW v, NEW k \in 1..n, PlaceInv(v, k - 1, p)
      PROVE  PlaceInv(PlaceStep(v, q[k], c, todo), k, p)
  <2> DEFINE z == v.s
             w == release_space_compound(z, c, q[k])
  <2>1. FullInv(z, {c}) /\ z.chunk[c] = s.chunk[c]
    BY <1>3, <1>6 DEF PlaceInv
  <2>2. CASE q[k] \in todo
    <3>1. w = release_space_compound(z, c, q[k]) /\ q[k] \in Limited /\ z.chunk[c].in \in Inputs
      BY <1>3, <2>1, <2>2
    <3> HIDE DEF z, w
    <3>2. FullInv(w.s, {c}) /\ w.s.chunk[c] = z.chunk[c]
      BY <2>1, <3>1, ReleaseSpaceCompound
    <3>3. PlaceStep(v, q[k], c, todo).s = w.s
      BY <2>2 DEF PlaceStep, w, z
    <3> QED BY <1>3, <2>1, <3>2, <3>3 DEF PlaceInv
  <2>3. CASE q[k] \notin todo
    BY <1>6, <2>3 DEF PlaceStep, PlaceInv
  <2> QED BY <2>2, <2>3
<1>7. PlaceLoop(b, q, c, todo) = FS5!FoldOf(b, q, c, todo)
  BY DEF PlaceLoop, FoldLeft, MapThenFoldSet, FS5!FoldOf, Max
<1>8. PlaceInv(PlaceLoop(b, q, c, todo), n, p)
  <2> HIDE DEF b
  <2> QED BY <1>4, <1>5, <1>6, <1>7, FS5!FoldKeeps
<1>9. CASE FS(s.chunk[c].in)
  <2>1. PlaceInv(a, n, p)
    BY <1>1, <1>8, <1>9
  <2>2. Appending(a.s, c) /\ a.s.chunk[c] = s.chunk[c]
    <3> HIDE DEF b
    <3> QED BY <1>3, <2>1 DEF PlaceInv, Appending
  <2>3. Type[s.chunk[c].in] = "fs"
    BY <1>9 DEF FS
  <2> QED BY <2>2, <2>3
<1>10. CASE ~FS(s.chunk[c].in)
  <2>1. a = b
    BY <1>1, <1>10
  <2> QED BY <2>1
<1> QED
  BY <1>9, <1>10

RingStep(t, c, o, u) == IF t.chunk[c].task THEN task_destroy(t, c) ELSE destroyed(t, c)
RingLoop(s, q) == FoldLeft(LAMBDA t, c : RingStep(t, c, None, None), s, q)

\* After k chunks of p.q the input has so much data less.
RingInv(t, k, p) ==
    /\ FullInv(t, {})
    /\ \A j \in DOMAIN p.q : j > k => t.chunk[p.q[j]] = p.s.chunk[p.q[j]]
    /\ total_size(t, p.i) + SizeOf(p.s, SubSeq(p.q, 1, k)) = total_size(p.s, p.i)

FS6 == INSTANCE FoldProofs WITH Op <- RingStep, Inv <- RingInv

\* The last number of a list.
LEMMA SumLast ==
    ASSUME NEW k \in Nat \ {0}, NEW f \in [1..k -> Int], NEW e \in [1..(k - 1) -> Int],
           \A y \in 1..(k - 1) : e[y] = f[y]
    PROVE  SumFunction(f) = f[k] + SumFunction(e)
<1> DEFINE D == 1..k
           x == k
<1>1. IsFiniteSet(D) /\ x \in D
  BY FS_Interval
<1>2. D \ {x} = 1..(k - 1)
  OBVIOUS
<1>3. f \in [D -> Int] /\ DOMAIN e = D \ {x} /\ \A y \in D \ {x} : e[y] = f[y]
  BY <1>2
<1>4. e \in [D \ {x} -> Int]
  BY <1>2
<1> HIDE DEF D, x
<1>5. SumFunction(e) = SumFunction(f) + (IF x \in D \ {x} THEN e[x] ELSE 0)
                                      - (IF x \in D THEN f[x] ELSE 0)
  BY <1>1, <1>3, <1>4, SumChange, SMTT(30)
<1>6. IsFiniteSet(D \ {x})
  BY <1>1, FS_Subset
<1>7. SumFunction(f) \in Int /\ f[x] \in Int
  BY <1>1, <1>3, SumInt
<1>8. SumFunction(e) \in Int
  BY <1>4, <1>6, SumInt
<1> DEFINE v == SumFunction(e)
           w == SumFunction(f)
<1>9. v = w + 0 - f[x]
  BY <1>1, <1>5
<1> HIDE DEF v, w
<1>10. w = f[x] + v
  BY <1>7, <1>8, <1>9 DEF v, w
<1> QED
  BY <1>10 DEF x, v, w

\* The sizes of the first chunks of a list.
LEMMA SizeOfList ==
    ASSUME NEW s \in State, NEW q \in Seq(Chunks)
    PROVE  /\ SizeOf(s, SubSeq(q, 1, 0)) = 0
           /\ \A k \in 0..Len(q) : SizeOf(s, SubSeq(q, 1, k)) \in Nat
           /\ \A k \in 1..Len(q) : SizeOf(s, SubSeq(q, 1, k)) =
                 SizeOf(s, SubSeq(q, 1, k - 1)) + real_size(s.chunk[q[k]])
<1> DEFINE f(k) == [j \in 1..k |-> real_size(s.chunk[q[j]])]
<1>1. \A j \in 1..Len(q) : real_size(s.chunk[q[j]]) \in Nat
  BY RealSize DEF State
<1>2. ASSUME NEW k \in 0..Len(q)
      PROVE  SizeOf(s, SubSeq(q, 1, k)) = SumFunction(f(k)) /\ f(k) \in [1..k -> Nat]
  <2> DEFINE u == SubSeq(q, 1, k)
  <2>1. DOMAIN u = 1..k /\ \A j \in 1..k : u[j] = q[j]
    <3>1. u \in Seq(Chunks) /\ Len(u) = k /\ \A j \in 1..k : u[j] = q[j]
      OBVIOUS
    <3> HIDE DEF u
    <3> QED BY <3>1
  <2> HIDE DEF u
  <2>2. [j \in DOMAIN u |-> real_size(s.chunk[u[j]])] = f(k)
    BY <2>1
  <2>3. f(k) \in [1..k -> Nat]
    BY <1>1
  <2> QED BY <2>2, <2>3 DEF SizeOf, u
<1>3. \A k \in 0..Len(q) : IsFiniteSet(1..k)
  BY FS_Interval
<1>4. ASSUME NEW k \in 0..Len(q) PROVE SumFunction(f(k)) \in Nat
  <2>1. IsFiniteSet(1..k) /\ f(k) \in [1..k -> Nat]
    BY <1>2, <1>3
  <2> HIDE DEF f
  <2> QED BY <2>1, SumNat
<1>5. SizeOf(s, SubSeq(q, 1, 0)) = 0
  <2>1. DOMAIN f(0) = {} /\ 0 \in 0..Len(q)
    OBVIOUS
  <2>2. SumFunction(f(0)) = 0
    <3> HIDE DEF f
    <3> QED BY <2>1, SumEmpty
  <2> QED BY <1>2, <2>1, <2>2
<1>6. ASSUME NEW k \in 1..Len(q)
      PROVE  SumFunction(f(k)) = SumFunction(f(k - 1)) + real_size(s.chunk[q[k]])
  <2>1. k \in 0..Len(q) /\ k - 1 \in 0..Len(q) /\ (1..k) \ {k} = 1..(k - 1) /\ k \in 1..k
    OBVIOUS
  <2>2. /\ f(k) \in [1..k -> Int] /\ f(k)[k] = real_size(s.chunk[q[k]])
        /\ DOMAIN f(k - 1) = (1..k) \ {k} /\ \A y \in (1..k) \ {k} : f(k - 1)[y] = f(k)[y]
    BY <1>1, <2>1
  <2>3. IsFiniteSet(1..k) /\ SumFunction(f(k - 1)) \in Nat
    BY <1>3, <1>4, <2>1
  <2> HIDE DEF f
  <2>4. SumFunction(f(k)) = f(k)[k] + SumFunction(f(k - 1))
    <3> DEFINE g == f(k)
               e == f(k - 1)
    <3>1. k \in Nat \ {0} /\ g \in [1..k -> Int] /\ e \in [1..(k - 1) -> Int]
          /\ \A y \in 1..(k - 1) : e[y] = g[y]
      BY <1>2, <2>1, <2>2
    <3> HIDE DEF g, e
    <3>2. SumFunction(g) = g[k] + SumFunction(e)
      BY <3>1, SumLast
    <3> QED BY <3>2 DEF g, e
  <2> QED BY <1>1, <2>2, <2>3, <2>4
<1>7. ASSUME NEW k \in 1..Len(q)
      PROVE  SizeOf(s, SubSeq(q, 1, k)) = SizeOf(s, SubSeq(q, 1, k - 1)) + real_size(s.chunk[q[k]])
  <2>1. k \in 0..Len(q) /\ k - 1 \in 0..Len(q)
    OBVIOUS
  <2> QED BY <1>2, <1>6, <2>1
<1> QED
  BY <1>2, <1>4, <1>5, <1>7

\* memrb_input_chunk_release_space makes the room it reports.
LEMMA MemrbReleaseSpace ==
    ASSUME setting \in Settings, NEW s, FullInv(s, {}), NEW i \in Inputs, Type[i] /= "fs",
           NEW n \in Nat, NEW a, a = memrb_release_space(s, i, n)
    PROVE  /\ FullInv(a.s, {})
           /\ a.ok => total_size(a.s, i) + n <= total_size(s, i)
<1> DEFINE S == {c \in Chunks : ~s.chunk[c].users}
           l == Selected(s.chunks[i], S)
           q == Enough(s, l, n)
           p == [s |-> s, q |-> q, i |-> i]
           m == Len(q)
<1>1. a.s = RingLoop(s, q) /\ a.ok = (SizeOf(s, q) >= n)
  BY DEF memrb_release_space, RingLoop, RingStep
<1>2. ListOK(s, i) /\ s.chunks[i] \in Seq(Chunks) /\ s \in State /\ MemOK(s, i)
  BY DEF FullInv, BaseInv, State, MemInv
<1>3. Once(s.chunks[i]) /\ \A k \in DOMAIN s.chunks[i] : s.chunk[s.chunks[i][k]].in = i
  BY <1>2 DEF ListOK
<1> HIDE DEF S
<1>4. /\ l \in Seq(Chunks) /\ Once(l)
      /\ \A j \in DOMAIN l : \E k \in DOMAIN s.chunks[i] : s.chunks[i][k] = l[j]
  <2> DEFINE z == s.chunks[i]
  <2>1. z \in Seq(Chunks) /\ Once(z)
    BY <1>2, <1>3
  <2> HIDE DEF z
  <2>2. /\ Selected(z, S) \in Seq(Chunks) /\ Once(Selected(z, S))
        /\ \A j \in DOMAIN Selected(z, S) :
              Selected(z, S)[j] \in S /\ \E k \in DOMAIN z : z[k] = Selected(z, S)[j]
    BY <2>1, SelectedList
  <2> QED BY <2>2 DEF z
<1> HIDE DEF l
<1>5. q \in Seq(Chunks) /\ \A j \in DOMAIN q : j \in DOMAIN l /\ q[j] = l[j]
  BY <1>4, EnoughList
<1> HIDE DEF q
<1>6. Once(q) /\ \A j \in DOMAIN q : s.chunk[q[j]].in = i
  BY <1>3, <1>4, <1>5 DEF Once
<1>7. m \in Nat /\ DOMAIN q = 1..m /\ \A k \in 1..m : q[k] \in Chunks
  BY <1>5
<1>8. p.s = s /\ p.q = q /\ p.i = i
  OBVIOUS
<1> DEFINE Z(k) == SizeOf(s, SubSeq(q, 1, k))
<1>9. /\ Z(0) = 0 /\ \A k \in 0..m : Z(k) \in Nat
      /\ \A k \in 1..m : Z(k) = Z(k - 1) + real_size(s.chunk[q[k]])
  BY <1>2, <1>5, SizeOfList
<1>10. SubSeq(q, 1, m) = q
  BY <1>5
<1> HIDE DEF p, m
<1>11. RingInv(s, 0, p)
  <2>1. Z(0) = 0 /\ total_size(s, i) \in Nat
    BY <1>2, <1>9, TotalSize
  <2> QED BY <1>8, <2>1 DEF RingInv
<1>12. ASSUME NEW v, NEW k \in 1..m, RingInv(v, k - 1, p)
       PROVE  RingInv(RingStep(v, q[k], None, None), k, p)
  <2> DEFINE c == q[k]
             w == RingStep(v, c, None, None)
  <2>1. /\ FullInv(v, {}) /\ v \in State
        /\ \A j \in 1..m : j > k - 1 => v.chunk[q[j]] = s.chunk[q[j]]
        /\ total_size(v, i) + Z(k - 1) = total_size(s, i)
    BY <1>7, <1>8, <1>12 DEF RingInv, FullInv, BaseInv
  <2>2. c \in Chunks /\ v.chunk[c] = s.chunk[c] /\ s.chunk[c].in = i /\ s.chunk[c] \in Chunk
    <3>1. k \in DOMAIN q /\ k > k - 1 /\ c \in Chunks
      BY <1>7
    <3>2. v.chunk[c] = s.chunk[c] /\ s.chunk[c].in = i
      BY <1>6, <1>7, <2>1, <3>1
    <3>3. s.chunk \in [Chunks -> Chunk]
      BY <1>2 DEF State
    <3> HIDE DEF c
    <3> QED BY <3>1, <3>2, <3>3
  <2>3. \A j \in 1..m : j > k => q[j] \in Chunks \ {c} /\ j > k - 1
    BY <1>6, <1>7 DEF Once
  <2> HIDE DEF c
  <2>4. w = task_destroy(v, c) \/ w = destroyed(v, c)
    BY DEF RingStep
  <2> HIDE DEF w
  <2>5. FullInv(w, {}) /\ OnlyChunk(v, w, c) /\ w.chunk[c] = NoChunk
    <3>1. CASE w = task_destroy(v, c)
      BY <2>1, <2>2, <3>1, TaskDestroyFull
    <3>2. CASE w = destroyed(v, c)
      BY <2>1, <2>2, <3>2, DestroyedFull
    <3> QED BY <2>4, <3>1, <3>2
  <2>6. \A j \in DOMAIN q : j > k => w.chunk[q[j]] = s.chunk[q[j]]
    BY <1>7, <2>1, <2>3, <2>5 DEF OnlyChunk
  <2>7. w \in State
    BY <2>5 DEF FullInv, BaseInv
  <2>8. total_size(w, i) = total_size(v, i) + Data(w.chunk[c], i) - Data(v.chunk[c], i)
    BY <2>1, <2>2, <2>5, <2>7, TotalChange
  <2>9. Data(w.chunk[c], i) = 0 /\ Data(v.chunk[c], i) = s.chunk[c].size
    BY <1>2, <2>2, <2>5, NoChunkType, InputChunkAssumption DEF Data, MemOK
  <2>10. real_size(s.chunk[c]) = s.chunk[c].size /\ s.chunk[c].size \in Nat
    BY <2>2, RealSize DEF real_size, FS
  <2>11. Z(k) = Z(k - 1) + s.chunk[c].size /\ Z(k - 1) \in Nat
    BY <1>7, <1>9, <2>10 DEF c
  <2>12. total_size(v, i) \in Nat /\ total_size(w, i) \in Nat
    BY <2>1, <2>7, TotalSize
  <2>13. total_size(w, i) + Z(k) = total_size(s, i)
    <3> HIDE DEF Z
    <3> QED BY <2>1, <2>8, <2>9, <2>10, <2>11, <2>12
  <2> QED BY <1>8, <2>5, <2>6, <2>13 DEF RingInv, w, c
<1> DEFINE t == RingLoop(s, q)
<1>13. t = FS6!FoldOf(s, q, None, None)
  BY DEF RingLoop, FoldLeft, MapThenFoldSet, FS6!FoldOf, Max
<1> HIDE DEF t
<1>14. RingInv(t, m, p)
  BY <1>7, <1>11, <1>12, <1>13, FS6!FoldKeeps
<1>15. FullInv(t, {}) /\ total_size(t, i) + SizeOf(s, q) = total_size(s, i)
  BY <1>8, <1>10, <1>14 DEF RingInv
<1>16. t \in State /\ a.s = t
  BY <1>1, <1>15 DEF FullInv, BaseInv, t
<1>17. total_size(t, i) \in Nat /\ SizeOf(s, q) \in Nat
  <2>1. m \in 0..m
    BY <1>7
  <2>3. Z(m) = SizeOf(s, q)
    BY <1>10
  <2>2. Z(m) \in Nat
    BY <1>9, <2>1
  <2> HIDE DEF Z
  <2> QED BY <1>16, <2>2, <2>3, TotalSize
<1>18. ASSUME a.ok PROVE total_size(a.s, i) + n <= total_size(s, i)
  <2>1. SizeOf(s, q) >= n
    BY <1>1, <1>18
  <2> QED BY <1>15, <1>16, <1>17, <2>1
<1> QED
  BY <1>15, <1>16, <1>18

(***************************************************************************)
(* Appending.                                                              *)
(***************************************************************************)
\* A chunk r may stand in the place of q: it is of the same input, with no
\* more data in memory, and at the same cost.
Fits(r, q) ==
    /\ r \in Chunk /\ r.in = q.in /\ (r.size > MaxContent => r.locked)
    /\ NoMoreData(q, r)
SameCost(r, q) == CountOK(r) /\ \A o \in Limited : Cost(r, o) = Cost(q, o)
MayBeEmpty(r, c, Y) == c \in Y \/ r.in = None \/ r.size > 0
IsPut(s, c, e, t) == t = [s EXCEPT !.chunk[c] = e]

\* Putting a chunk in the place of one it fits keeps the invariant.
LEMMA ChunkFull ==
    ASSUME setting \in Settings, NEW s, NEW X, FullInv(s, X), NEW c \in Chunks, NEW r,
           NEW Y, X \ {c} \subseteq Y, NEW t, IsPut(s, c, r, t),
           Fits(r, s.chunk[c]), Countable => SameCost(r, s.chunk[c]) /\ MayBeEmpty(r, c, Y)
    PROVE  FullInv(t, Y) /\ OnlyChunk(s, t, c) /\ t.chunk[c] = r /\ SameLimits(s, t)
<1>1. BaseInv(s) /\ MemInv(s) /\ (Countable => CountInv(s, X)) /\ s \in State /\ r \in Chunk
  BY DEF FullInv, BaseInv, Fits
<1>2. /\ t \in State /\ t.chunk = [s.chunk EXCEPT ![c] = r]
      /\ t.fs = s.fs /\ SameLists(s, t) /\ SameLimits(s, t)
  BY <1>1 DEF IsPut, State, SameLists, SameLimits
<1>3. BaseInv(t)
  <2>1. r.in = s.chunk[c].in /\ (r.size > MaxContent => r.locked)
    BY DEF Fits
  <2> QED BY <1>1, <1>2, <2>1, SetChunkKeeps
<1>4. OnlyChunk(s, t, c) /\ t.chunk[c] = r
  BY <1>1, <1>2 DEF OnlyChunk, State
<1>5. MemInv(t)
  <2>2. NoMoreData(s.chunk[c], t.chunk[c])
    BY <1>4 DEF Fits
  <2> QED BY <1>1, <1>2, <1>4, <2>2, ShrinkKeeps
<1>6. ASSUME Countable PROVE CountInv(t, Y)
  <2>1. ASSUME NEW o \in Limited
        PROVE  t.fs[o] = s.fs[o] + Cost(t.chunk[c], o) - Cost(s.chunk[c], o)
    <3>1. Cost(t.chunk[c], o) = Cost(s.chunk[c], o) /\ Cost(r, o) \in Nat /\ s.fs[o] \in Int
      BY <1>1, <1>4, <1>6, PartTypes DEF State, SameCost
    <3> QED BY <1>2, <1>4, <3>1
  <2>2. CountInv(s, X) /\ CountOK(t.chunk[c])
        /\ (c \notin Y /\ t.chunk[c].in /= None => t.chunk[c].size > 0)
    BY <1>1, <1>4, <1>6 DEF SameCost, MayBeEmpty
  <2> QED BY ZenonT(60), <1>1, <1>2, <1>4, <2>1, <2>2, CostKeeps
<1> QED
  BY <1>2, <1>3, <1>4, <1>5, <1>6 DEF FullInv

\* A chunk is brought up.
IsUp(s, c, t) == t = [s EXCEPT !.chunk[c].up = TRUE]
SameButUp(r, q) ==
    /\ r \in Chunk /\ r.in = q.in /\ r.size = q.size /\ r.up = TRUE
    /\ r.locked = q.locked /\ r.file = q.file /\ r.task = q.task
    /\ r.users = q.users /\ r.fs_counted = q.fs_counted /\ r.mask = q.mask

\* Bringing a chunk up (cio_chunk_up) changes nothing an input without files
\* is measured by, and no charge.
LEMMA BringUp ==
    ASSUME setting \in Settings, NEW s, NEW X, FullInv(s, X), NEW c \in Chunks,
           s.chunk[c].in \in Inputs, NEW t, IsUp(s, c, t)
    PROVE  /\ FullInv(t, X) /\ OnlyChunk(s, t, c) /\ SameLimits(s, t)
           /\ SameButUp(t.chunk[c], s.chunk[c])
           /\ \A j \in Inputs : Type[j] /= "fs" => total_size(t, j) = total_size(s, j)
<1>1. BaseInv(s) /\ MemInv(s) /\ (Countable => CountInv(s, X)) /\ s \in State /\ FullLocked(s)
      /\ s.chunk \in [Chunks -> Chunk]
  BY DEF FullInv, BaseInv, State
<1> DEFINE q == s.chunk[c]
           r == [q EXCEPT !.up = TRUE]
<1>2. q \in Chunk /\ q.in /= None
  BY <1>1, InputChunkAssumption
<1>3. SameButUp(r, q)
  <2> HIDE DEF q
  <2> QED BY <1>2 DEF Chunk, SameButUp
<1>4. IsPut(s, c, r, t)
  BY <1>1 DEF State, IsUp, IsPut
<1> HIDE DEF r
<1>5. ASSUME NEW j \in Inputs, Type[j] /= "fs"
      PROVE  Data(r, j) = Data(q, j) /\ Data(r, j) \in Nat
  <2>1. q.in = j => q.up
    BY <1>1, <1>5 DEF MemInv, MemOK
  <2>2. Data(r, j) = Data(q, j)
    BY <1>3, <2>1 DEF Data, SameButUp
  <2> QED BY <1>3, <2>2, PartTypes DEF SameButUp
<1>6. Fits(r, q)
  <2>1. r.size > MaxContent => r.locked
    BY <1>1, <1>3 DEF FullLocked, SameButUp
  <2>2. NoMoreData(q, r)
    BY <1>3, <1>5 DEF NoMoreData, SameButUp
  <2> QED BY <1>3, <2>1, <2>2 DEF Fits, SameButUp
<1>7. ASSUME Countable PROVE SameCost(r, q) /\ MayBeEmpty(r, c, X)
  <2>1. CountOK(q) /\ (c \in X \/ q.size > 0)
    BY <1>1, <1>2, <1>7 DEF CountInv
  <2>2. CountOK(r)
    BY <1>3, <2>1 DEF CountOK, SameButUp
  <2>3. \A o \in Limited : Cost(r, o) = Cost(q, o)
    BY <1>3 DEF Cost, real_size, SameButUp
  <2>4. MayBeEmpty(r, c, X)
    BY <1>3, <2>1 DEF MayBeEmpty, SameButUp
  <2> QED BY <2>2, <2>3, <2>4 DEF SameCost
<1>8. FullInv(t, X) /\ OnlyChunk(s, t, c) /\ t.chunk[c] = r /\ SameLimits(s, t)
  <2> DEFINE Y == X
  <2>1. X \ {c} \subseteq Y /\ (Countable => SameCost(r, s.chunk[c]) /\ MayBeEmpty(r, c, Y))
        /\ Fits(r, s.chunk[c])
    BY <1>6, <1>7
  <2> HIDE DEF Y, q
  <2>2. FullInv(t, Y) /\ OnlyChunk(s, t, c) /\ t.chunk[c] = r /\ SameLimits(s, t)
    BY <1>4, <2>1, ChunkFull
  <2> QED BY <2>2 DEF Y
<1>9. ASSUME NEW j \in Inputs, Type[j] /= "fs" PROVE total_size(t, j) = total_size(s, j)
  <2>1. t \in State
    BY <1>8 DEF FullInv, BaseInv
  <2>2. total_size(t, j) = total_size(s, j) + Data(t.chunk[c], j) - Data(s.chunk[c], j)
    BY <1>1, <1>8, <2>1, TotalChange
  <2>3. total_size(s, j) \in Nat
    BY <1>1, TotalSize
  <2> QED BY <1>5, <1>8, <1>9, <2>2, <2>3
<1> QED
  BY <1>3, <1>8, <1>9

\* What input_chunk_get returns: a chunk of the input that is not full.
Taken(s, i, c, t) ==
    /\ Appending(t, c) /\ t.chunk[c] \in Chunk /\ t.chunk[c].in = i /\ SameLimits(s, t)
    /\ t.chunk[c].size <= MaxContent /\ ~t.chunk[c].locked
    /\ Type[i] /= "fs" => total_size(t, i) = total_size(s, i)
    /\ Reused(s, i) /\ Countable => t.chunk[c].size > 0

\* The last chunk of the tag, brought up.
LEMMA TakeLast ==
    ASSUME setting \in Settings, NEW s, FullInv(s, {}), NEW i \in Inputs, Reused(s, i),
           s.ht[i] \in Of(s, i) \cup {None}, NEW c, c = Target(s, i), NEW t, t = with_target(s, i)
    PROVE  c \in Chunks /\ Taken(s, i, c, t)
<1>1. BaseInv(s) /\ (Countable => CountInv(s, {})) /\ s \in State /\ FullLocked(s)
  BY DEF FullInv, BaseInv
<1>2. c = s.ht[i] /\ c \in Chunks /\ s.chunk[c].in = i /\ ~s.chunk[c].locked
      /\ s.chunk[c] \in Chunk
  BY <1>1 DEF Target, Reused, Candidate, Of, State
<1>3. IsUp(s, c, t)
  BY DEF with_target, IsUp
<1>4. /\ FullInv(t, {}) /\ OnlyChunk(s, t, c) /\ SameLimits(s, t)
      /\ SameButUp(t.chunk[c], s.chunk[c])
      /\ \A j \in Inputs : Type[j] /= "fs" => total_size(t, j) = total_size(s, j)
  <2> DEFINE X == {}
  <2>1. FullInv(s, X)
    OBVIOUS
  <2> HIDE DEF X
  <2>2. /\ FullInv(t, X) /\ OnlyChunk(s, t, c) /\ SameLimits(s, t)
        /\ SameButUp(t.chunk[c], s.chunk[c])
        /\ \A j \in Inputs : Type[j] /= "fs" => total_size(t, j) = total_size(s, j)
    BY <1>2, <1>3, <2>1, BringUp
  <2> QED BY <2>2 DEF X
<1>5. s.chunk[c].size <= MaxContent
  <2>1. s.chunk[c].size \in Int /\ MaxContent \in Int
    BY <1>2, InputChunkAssumption DEF Chunk
  <2> QED BY <1>1, <1>2, <2>1 DEF FullLocked
<1>6. Countable => s.chunk[c].size > 0
  BY <1>1, <1>2, InputChunkAssumption DEF CountInv
<1>7. FullInv(t, {c})
  BY <1>4 DEF FullInv, CountInv
<1> QED
  BY <1>2, <1>4, <1>5, <1>6, <1>7 DEF Taken, SameButUp, Appending

\* A new chunk, the last of the list of its input.
LEMMA TakeNew ==
    ASSUME setting \in Settings, NEW s, FullInv(s, {}), NEW i \in Inputs, ~Reused(s, i),
           Free(s) /= {}, NEW c, c = Target(s, i), NEW t, t = with_target(s, i)
    PROVE  c \in Chunks /\ Taken(s, i, c, t)
<1>1. /\ BaseInv(s) /\ MemInv(s) /\ (Countable => CountInv(s, {})) /\ s \in State
      /\ FullLocked(s) /\ \A j \in Inputs : ListOK(s, j) /\ PauseOK(s, j)
  BY DEF FullInv, BaseInv
<1>2. c \in Chunks /\ s.chunk[c].in = None
  <2>1. Free(s) \in SUBSET Nat
    <3>1. Chunks \in SUBSET Nat
      <4>1. Chunks = 1..Cardinality(Chunks) /\ Cardinality(Chunks) \in Nat
        BY InputChunkAssumption, FS_CardinalityType
      <4> QED BY <4>1
    <3> QED BY <3>1 DEF Free, Of
  <2>2. \E x \in Free(s) : \A y \in Free(s) : x <= y
    BY <2>1, FS2!LeastNat
  <2>3. Min(Free(s)) \in Free(s)
    BY <2>2 DEF Min
  <2> QED BY <2>3 DEF Target, Free, Of
<1>3. None \notin Inputs /\ None \notin Chunks
  BY InputChunkAssumption
<1> DEFINE up == ~CreatedDown(s, i)
           mask == IF i \in Direct THEN {} ELSE Routes[i]
           file == IF FS(i) THEN 1 ELSE 0
           r == [NoChunk EXCEPT !.in = i, !.file = file, !.up = up, !.mask = mask]
<1>4. /\ r.in = i /\ r.size = 0 /\ r.file = file /\ r.up = up /\ r.locked = FALSE
      /\ r.task = FALSE /\ r.users = FALSE /\ r.mask = mask /\ r.fs_counted = FALSE
  BY DEF NoChunk
<1>5. r \in Chunk
  <2>1. mask \in SUBSET Outputs /\ up \in BOOLEAN
    BY SettingParts DEF CreatedDown, FS
  <2>2. file \in 0..(MaxContent + MaxSize + Realloc)
    BY InputChunkAssumption
  <2> HIDE DEF mask, file, up
  <2> QED BY <2>1, <2>2, NoChunkType DEF Chunk, NoChunk
<1>6. FS(i) \/ up
  BY DEF CreatedDown
<1> DEFINE A == [s.chunk EXCEPT ![c] = r]
           L == [s.chunks EXCEPT ![i] = Append(@, c)]
           H == [s.ht EXCEPT ![i] = c]
<1>7. t = [s EXCEPT !.chunk = A, !.chunks = L, !.ht = H]
  <2>1. t = [s EXCEPT !.chunk[c] = r, !.chunks[i] = Append(@, c), !.ht[i] = c]
    BY DEF with_target
  <2> HIDE DEF r
  <2> QED BY <1>1, <2>1 DEF State
<1> HIDE DEF r, mask, file, up
<1>8. /\ s.chunk \in [Chunks -> Chunk] /\ s.chunks \in [Inputs -> Seq(Chunks)]
      /\ s.ht \in [Inputs -> Chunks \cup {None}]
  BY <1>1 DEF State
<1>9. /\ A \in [Chunks -> Chunk] /\ H \in [Inputs -> Chunks \cup {None}]
      /\ L \in [Inputs -> Seq(Chunks)]
  BY <1>2, <1>5, <1>8
<1>10. /\ t \in State /\ t.chunk = A /\ t.chunks = L /\ t.ht = H /\ t.fs = s.fs
       /\ SameLimits(s, t)
  <2> HIDE DEF A, L, H
  <2> QED BY <1>1, <1>7, <1>9 DEF State, SameLimits
<1>11. /\ OnlyChunk(s, t, c) /\ t.chunk[c] = r
       /\ t.chunks[i] = Append(s.chunks[i], c) /\ t.ht[i] = c
       /\ \A j \in Inputs \ {i} : t.chunks[j] = s.chunks[j] /\ t.ht[j] = s.ht[j]
  BY <1>2, <1>8, <1>10 DEF OnlyChunk
<1> HIDE DEF A, L, H
<1>12. BaseInv(t)
  <2>1. FullLocked(t)
    BY <1>1, <1>4, <1>11, InputChunkAssumption DEF FullLocked, OnlyChunk
  <2>2. ASSUME NEW j \in Inputs PROVE PauseOK(t, j)
    BY <1>1, <1>10 DEF PauseOK, Paused, SameLimits
  <2>3. ASSUME NEW j \in Inputs, j /= i PROVE ListOK(t, j)
    <3>1. ListOK(s, j) /\ t.chunks[j] = s.chunks[j] /\ t.ht[j] = s.ht[j]
      BY <1>1, <1>11, <2>3
    <3>2. \A d \in Chunks : t.chunk[d].in = j <=> s.chunk[d].in = j
      BY <1>2, <1>3, <1>4, <1>11, <2>3 DEF OnlyChunk
    <3>3. s.chunks[j] \in Seq(Chunks) /\ s.ht[j] \in Chunks \cup {None}
          /\ \A k \in DOMAIN s.chunks[j] : s.chunks[j][k] \in Chunks
      BY <1>8
    <3> QED BY <3>1, <3>2, <3>3 DEF ListOK
  <2>4. ListOK(t, i)
    <3> DEFINE q == s.chunks[i]
               w == Append(q, c)
    <3>1. /\ ListOK(s, i) /\ q \in Seq(Chunks) /\ Len(q) \in Nat /\ DOMAIN q = 1..Len(q)
          /\ \A k \in DOMAIN q : q[k] \in Chunks
      BY <1>1, <1>8
    <3> HIDE DEF q
    <3>2. /\ DOMAIN w = 1..(Len(q) + 1) /\ w[Len(q) + 1] = c
          /\ \A k \in DOMAIN q : w[k] = q[k]
      BY <1>2, <3>1
    <3> HIDE DEF w
    <3>3. /\ \A k \in DOMAIN q : s.chunk[q[k]].in = i /\ q[k] /= c
          /\ \A d \in Chunks : s.chunk[d].in = i => \E k \in DOMAIN q : q[k] = d
          /\ Once(q)
      BY <1>2, <1>3, <3>1 DEF ListOK, q
    <3>4. \A k \in DOMAIN w : k \in DOMAIN q \/ k = Len(q) + 1
      BY <3>1, <3>2
    <3>5. \A k \in DOMAIN w : t.chunk[w[k]].in = i
      BY <1>4, <1>11, <3>1, <3>2, <3>3, <3>4 DEF OnlyChunk
    <3>6. ASSUME NEW d \in Chunks, t.chunk[d].in = i PROVE \E k \in DOMAIN w : w[k] = d
      <4>1. CASE d = c
        <5>1. Len(q) + 1 \in DOMAIN w
          BY <3>1, <3>2
        <5> QED BY <3>2, <4>1, <5>1
      <4>2. CASE d /= c
        <5>1. PICK k \in DOMAIN q : q[k] = d
          BY <1>11, <3>3, <3>6, <4>2 DEF OnlyChunk
        <5>2. k \in DOMAIN w
          BY <3>1, <3>2
        <5> QED BY <3>2, <5>1, <5>2
      <4> QED BY <4>1, <4>2
    <3>7. Once(w)
      BY <3>2, <3>3, <3>4 DEF Once
    <3>8. t.chunks[i] = w
      BY <1>11 DEF w, q
    <3> QED BY <1>4, <1>11, <3>5, <3>6, <3>7, <3>8 DEF ListOK
  <2> QED BY <1>10, <2>1, <2>2, <2>3, <2>4 DEF BaseInv
<1>13. \A j \in Inputs : Data(r, j) = 0 /\ Data(s.chunk[c], j) = 0
  BY <1>2, <1>3, <1>4 DEF Data
<1>14. MemInv(t)
  <2>1. NoMoreData(s.chunk[c], t.chunk[c])
    BY <1>4, <1>6, <1>11, <1>13 DEF NoMoreData, FS
  <2> QED BY <1>1, <1>2, <1>10, <1>11, <2>1, ShrinkKeeps
<1>15. ASSUME Countable PROVE CountInv(t, {c})
  <2> DEFINE X == {}
             Y == {c}
  <2>1. CountOK(t.chunk[c])
    BY <1>3, <1>4, <1>11 DEF CountOK
  <2>2. ASSUME NEW o \in Limited
        PROVE  t.fs[o] = s.fs[o] + Cost(t.chunk[c], o) - Cost(s.chunk[c], o)
    <3>1. Cost(t.chunk[c], o) = 0 /\ Cost(s.chunk[c], o) = 0 /\ s.fs[o] \in Int
      BY <1>1, <1>2, <1>4, <1>11 DEF Cost, State
    <3> QED BY <1>10, <3>1
  <2>3. X \ {c} \subseteq Y /\ CountInv(s, X) /\ c \in Y
    BY <1>1, <1>15
  <2> HIDE DEF X, Y
  <2>4. CountInv(t, Y)
    BY <1>1, <1>2, <1>10, <1>11, <2>1, <2>2, <2>3, CostKeeps
  <2> QED BY <2>4 DEF Y
<1>16. total_size(t, i) = total_size(s, i)
  <2>1. total_size(t, i) = total_size(s, i) + Data(t.chunk[c], i) - Data(s.chunk[c], i)
    BY <1>1, <1>2, <1>10, <1>11, TotalChange
  <2>2. total_size(s, i) \in Nat
    BY <1>1, TotalSize
  <2> QED BY <1>11, <1>13, <2>1, <2>2
<1>17. r.size <= MaxContent /\ FullInv(t, {c})
  BY <1>4, <1>12, <1>14, <1>15, InputChunkAssumption DEF FullInv
<1> QED
  BY <1>2, <1>4, <1>5, <1>10, <1>11, <1>16, <1>17 DEF Taken, Appending

\* But for c, the chunks and the charges are the same.
Beside(s, t, c) == t \in State /\ OnlyChunk(s, t, c) /\ t.fs = s.fs

\* Putting a chunk of the same input in its place leaves lists and pausing.
LEMMA PutIn ==
    ASSUME NEW s, BaseInv(s), NEW c \in Chunks, NEW e \in Chunk, e.in = s.chunk[c].in,
           e.size > MaxContent => e.locked, NEW t, IsPut(s, c, e, t)
    PROVE  BaseInv(t) /\ Beside(s, t, c) /\ t.chunk[c] = e /\ SameLimits(s, t)
<1>1. s \in State
  BY DEF BaseInv
<1>2. /\ t \in State /\ t.chunk = [s.chunk EXCEPT ![c] = e]
      /\ t.fs = s.fs /\ SameLists(s, t) /\ SameLimits(s, t)
  BY <1>1 DEF IsPut, State, SameLists, SameLimits
<1>3. BaseInv(t)
  BY <1>2, SetChunkKeeps
<1> QED
  BY <1>1, <1>2, <1>3 DEF Beside, OnlyChunk, State

\* The chunk with its data, in the place of r.
Ready(e, r, i) ==
    /\ e \in Chunk /\ e.in = i /\ e.size > 0 /\ (e.size > MaxContent => e.locked)
    /\ e.mask = r.mask /\ e.fs_counted = r.fs_counted
    /\ Countable /\ e.users => e.locked
    /\ Type[i] = "fs" /\ Trim /\ e.locked => e.file = e.size + 1
    /\ r.size = 0 => real_size(e) > 0
    /\ Type[i] /= "fs" => e.up

\* A chunk on disk that is put down, and trimmed, still has its data.
LEMMA ReadyDown ==
    ASSUME NEW i \in Inputs, NEW e, NEW r, Ready(e, r, i), Type[i] = "fs", NEW d, d = down(e)
    PROVE  Ready(d, r, i) /\ d.size = e.size
<1>1. e \in Chunk /\ e.in = i /\ FS(e.in)
  BY DEF Ready, FS
<1> DEFINE x == synced(e)
<1>2. /\ x \in Chunk /\ x.in = i /\ x.size = e.size /\ x.locked = e.locked /\ x.mask = e.mask
      /\ x.fs_counted = e.fs_counted /\ x.users = e.users
      /\ x.file = IF Trim THEN e.size + 1 ELSE e.file
  <2>1. CASE Trim
    <3>1. e.size + 1 \in 0..(MaxContent + MaxSize + Realloc)
      BY <1>1, InputChunkAssumption DEF Chunk
    <3>2. x = [e EXCEPT !.file = e.size + 1]
      BY <1>1, <2>1 DEF synced
    <3> QED BY <1>1, <2>1, <3>1, <3>2 DEF Chunk
  <2>2. CASE ~Trim
    BY <1>1, <2>2 DEF synced
  <2> QED BY <2>1, <2>2
<1>3. d = [x EXCEPT !.up = FALSE]
  BY <1>1 DEF down
<1> HIDE DEF x
<1>4. /\ d \in Chunk /\ d.in = i /\ d.size = e.size /\ d.locked = e.locked /\ d.mask = e.mask
      /\ d.fs_counted = e.fs_counted /\ d.users = e.users
      /\ d.file = IF Trim THEN e.size + 1 ELSE e.file
  BY <1>2, <1>3 DEF Chunk
<1>5. e.size \in Nat
  BY <1>1, InputChunkAssumption DEF Chunk
<1>6. r.size = 0 => real_size(d) > 0
  BY <1>1, <1>4, <1>5 DEF real_size, Ready
<1> QED
  BY <1>4, <1>6 DEF Ready

\* The limits while data was added to input i and it may have to be paused.
Measured(s, i) ==
    /\ \A j \in Inputs \ {i} : Type[j] /= "fs" => MemOK(s, j) /\ AtLimit(s, j)
    /\ Type[i] /= "fs" => MemOK(s, i)

\* Less data of a chunk, while the limits of input i are being looked at.
LEMMA ShrinkMeasured ==
    ASSUME NEW s \in State, NEW t \in State, NEW c \in Chunks, OnlyChunk(s, t, c),
           SameLimits(s, t), NEW i \in Inputs, Measured(s, i), setting \in Settings,
           NoMoreData(s.chunk[c], t.chunk[c])
    PROVE  Measured(t, i)
<1>1. ASSUME NEW j \in Inputs, Type[j] /= "fs", MemOK(s, j) PROVE MemOK(t, j)
  BY <1>1, ShrinkOne
<1>2. \A j \in Inputs : AtLimit(s, j) => AtLimit(t, j)
  BY DEF AtLimit, SameLimits
<1> QED
  BY <1>1, <1>2 DEF Measured

\* What the append adds to the data of its input.
Room(s, c, d, i) ==
    Type[i] /= "fs" /\ Bounded(i) =>
        total_size(s, i) + d.size - Data(s.chunk[c], i) < MemLimit[i] + Max(Sizes)

\* The chunk takes its data and may be put down; the input is measured.
HasLimits(s, i, t) == t = set_limits(s, i)

\* After the append has measured its input, its data is bounded.
LEMMA FinishMeasured ==
    ASSUME setting \in Settings, NEW s, NEW c \in Chunks, Appending(s, c),
           NEW i \in Inputs, s.chunk[c].in = i, NEW d, Ready(d, s.chunk[c], i),
           Room(s, c, d, i), NEW u, IsPut(s, c, d, u), NEW t, HasLimits(u, i, t)
    PROVE  BaseInv(t) /\ Beside(s, t, c) /\ t.chunk[c] = d /\ Measured(t, i)
<1>1. BaseInv(s) /\ MemInv(s) /\ s \in State
  BY DEF Appending, FullInv, BaseInv
<1>2. d \in Chunk /\ d.in = i /\ (d.size > MaxContent => d.locked)
      /\ (Type[i] /= "fs" => d.up)
  BY DEF Ready
<1>3. BaseInv(u) /\ Beside(s, u, c) /\ u.chunk[c] = d /\ SameLimits(s, u)
  BY <1>1, <1>2, PutIn
<1>4. u \in State /\ OnlyChunk(s, u, c) /\ u.fs = s.fs
  BY <1>3 DEF Beside
<1>5. BaseInv(t) /\ IsMeasured(u, i, t)
  BY <1>3, <1>4, SetLimitsKeeps, SetLimits DEF HasLimits
<1>6. ASSUME NEW j \in Inputs \ {i}, Type[j] /= "fs" PROVE MemOK(u, j) /\ AtLimit(u, j)
  <2>1. MemOK(s, j) /\ AtLimit(s, j)
    BY <1>1, <1>6 DEF MemInv
  <2>2. total_size(u, j) = total_size(s, j) + Data(d, j) - Data(s.chunk[c], j)
    BY <1>1, <1>3, <1>4, TotalChange
  <2>3. Data(d, j) = 0 /\ Data(s.chunk[c], j) = 0
    BY <1>2 DEF Data
  <2>4. total_size(s, j) \in Nat
    BY <1>1, TotalSize
  <2>5. total_size(u, j) = total_size(s, j)
    BY <2>2, <2>3, <2>4
  <2> QED BY <1>2, <1>3, <1>4, <2>1, <2>5 DEF MemOK, AtLimit, SameLimits, OnlyChunk
<1>7. ASSUME Type[i] /= "fs"
      PROVE  /\ \A x \in Chunks : u.chunk[x].in = i => u.chunk[x].up
             /\ Bounded(i) => total_size(u, i) < MemLimit[i] + Max(Sizes)
  <2>1. MemOK(s, i)
    BY <1>1, <1>7 DEF MemInv
  <2>2. total_size(u, i) = total_size(s, i) + Data(d, i) - Data(s.chunk[c], i)
    BY <1>1, <1>3, <1>4, TotalChange
  <2>3. Data(d, i) = d.size
    BY <1>2, <1>7 DEF Data
  <2> QED BY <1>2, <1>3, <1>4, <1>7, <2>1, <2>2, <2>3 DEF MemOK, OnlyChunk, Room
<1>8. Measured(t, i)
  <2>1. /\ \A j \in Inputs \ {i} : Type[j] /= "fs" => MemOK(u, j) /\ AtLimit(u, j)
        /\ i \in Inputs /\ Type[i] /= "fs" =>
              /\ \A x \in Chunks : u.chunk[x].in = i => u.chunk[x].up
              /\ Bounded(i) => total_size(u, i) < MemLimit[i] + Max(Sizes)
    BY <1>6, <1>7
  <2> QED BY <1>3, <2>1, Measures DEF Measured, HasLimits
<1>9. t \in State /\ t.chunk = u.chunk /\ t.fs = u.fs
  BY <1>5 DEF IsMeasured
<1> QED
  BY <1>3, <1>4, <1>5, <1>8, <1>9 DEF Beside, OnlyChunk

\* The accounting: the difference to what the chunk was charged for.
SizeBefore(r) == IF r.size = 0 THEN 0 ELSE real_size(r)
IsDiff(s, v, c, diff) == diff = real_size(v.chunk[c]) - SizeBefore(s.chunk[c])
IsCharged(s, c, diff, t) == t = IF diff /= 0 THEN update_outputs(s, c, diff) ELSE s
CountBeside(s, c) == CountInv(s, {c})

\* After the append has charged the difference, the charges are exact again.
LEMMA FinishCharged ==
    ASSUME setting \in Settings, NEW s \in State, NEW c \in Chunks, NEW i \in Inputs,
           s.chunk[c].in = i, Countable => CountBeside(s, c),
           NEW v, BaseInv(v), Beside(s, v, c), Ready(v.chunk[c], s.chunk[c], i), Measured(v, i),
           NEW diff, IsDiff(s, v, c, diff), NEW t, IsCharged(v, c, diff, t)
    PROVE  BaseInv(t) /\ Measured(t, i) /\ (Countable => CountInv(t, {})) /\ t.chunk[c].in = i
<1> DEFINE r == s.chunk[c]
           e == v.chunk[c]
           pre == SizeBefore(s.chunk[c])
<1> diff = real_size(e) - pre
  BY DEF IsDiff
<1>1. /\ v \in State /\ OnlyChunk(s, v, c) /\ v.fs = s.fs /\ r \in Chunk /\ e \in Chunk
      /\ e.in = i /\ e.size > 0 /\ e.mask = r.mask /\ e.fs_counted = r.fs_counted
      /\ i /= None
  BY InputChunkAssumption DEF Beside, Ready, State
<1>2. real_size(e) \in Nat /\ pre \in Nat /\ diff \in Int /\ e.size \in Nat
  <2>1. real_size(e) \in Nat /\ pre \in Nat
    BY <1>1, RealSize DEF SizeBefore
  <2>2. e.size \in Nat
    BY <1>1, InputChunkAssumption DEF Chunk
  <2> QED BY <2>1, <2>2
<1>3. /\ BaseInv(t) /\ t \in State /\ OnlyChunk(v, t, c) /\ SameLimits(v, t)
      /\ t.chunk[c] \in Chunk
      /\ t.chunk[c].in = i /\ t.chunk[c].size = e.size /\ t.chunk[c].up = e.up
      /\ t.chunk[c].locked = e.locked /\ t.chunk[c].users = e.users
      /\ t.chunk[c].file = e.file /\ t.chunk[c].mask = e.mask
      /\ t.chunk[c].fs_counted = (e.fs_counted \/ (diff /= 0 /\ e.mask \cap Limited /= {}))
      /\ \A o \in Limited : t.fs[o] = IF o \in e.mask THEN s.fs[o] + diff ELSE s.fs[o]
  <2>1. CASE diff = 0
    <3>1. t = v
      BY <2>1 DEF IsCharged
    <3>2. \A o \in Limited : s.fs[o] \in Int
      BY DEF State
    <3>3. e.fs_counted \in BOOLEAN
      BY <1>1 DEF Chunk
    <3> QED BY <1>1, <2>1, <3>1, <3>2, <3>3 DEF OnlyChunk, SameLimits
  <2>2. CASE diff /= 0
    <3>1. t = update_outputs(v, c, diff)
      BY <2>2 DEF IsCharged
    <3>2. BaseInv(t)
      BY <1>2, <3>1, UpdateOutputsKeeps
    <3> DEFINE new == [v.chunk EXCEPT ![c].fs_counted = @ \/ v.chunk[c].mask \cap Limited /= {}]
    <3>3. /\ t \in State /\ t.chunk = new /\ t.chunk[c] \in Chunk
          /\ \A o \in Limited : t.fs[o] = IF o \in v.chunk[c].mask THEN v.fs[o] + diff ELSE v.fs[o]
          /\ SameLists(v, t) /\ SameLimits(v, t)
      BY <1>1, <1>2, <3>1, UpdateOutputs
    <3>4. OnlyChunk(v, t, c)
      BY <1>1, <3>3 DEF OnlyChunk, State
    <3>5. t.chunk[c] = [e EXCEPT !.fs_counted = e.fs_counted \/ e.mask \cap Limited /= {}]
      BY <1>1, <3>3 DEF State
    <3>6. /\ t.chunk[c].in = e.in /\ t.chunk[c].size = e.size /\ t.chunk[c].up = e.up
          /\ t.chunk[c].locked = e.locked /\ t.chunk[c].users = e.users
          /\ t.chunk[c].file = e.file /\ t.chunk[c].mask = e.mask
          /\ t.chunk[c].fs_counted = (e.fs_counted \/ e.mask \cap Limited /= {})
      <4> HIDE DEF e
      <4> QED BY <1>1, <3>5 DEF Chunk
    <3> HIDE DEF new
    <3> QED BY <1>1, <2>2, <3>2, <3>3, <3>4, <3>6
  <2> QED BY <2>1, <2>2
<1>4. Measured(t, i)
  <2>1. NoMoreData(v.chunk[c], t.chunk[c])
    <3>1. \A j \in Inputs : Data(t.chunk[c], j) = Data(e, j) /\ Data(e, j) \in Nat
      BY <1>1, <1>3, PartTypes DEF Data
    <3>2. Type[i] /= "fs" => e.up
      BY DEF Ready
    <3> QED BY <1>3, <3>1, <3>2 DEF NoMoreData
  <2> QED BY <1>1, <1>3, <2>1, ShrinkMeasured
<1>5. ASSUME Countable PROVE CountInv(t, {})
  <2>1. CountInv(s, {c}) /\ CountOK(r)
    BY <1>5 DEF CountBeside, CountInv
  <2>2. real_size(t.chunk[c]) = real_size(e)
    BY <1>1, <1>3 DEF real_size
  <2>3. e.mask \cap Limited /= {} => t.chunk[c].fs_counted
    <3>1. CASE r.size = 0
      <4>1. diff /= 0
        BY <1>2, <3>1 DEF Ready, SizeBefore
      <4> QED BY <1>3, <4>1
    <3>2. CASE r.size /= 0
      <4>1. r.size > 0
        BY <1>1, <3>2, InputChunkAssumption DEF Chunk
      <4>2. e.mask \cap Limited /= {} => r.fs_counted
        BY <1>1, <2>1, <4>1 DEF CountOK
      <4> QED BY <1>1, <1>3, <4>2
    <3> QED BY <3>1, <3>2
  <2>4. CountOK(t.chunk[c])
    BY <1>1, <1>2, <1>3, <1>5, <2>3 DEF CountOK, Ready
  <2>5. ASSUME NEW o \in Limited PROVE t.fs[o] = s.fs[o] + Cost(t.chunk[c], o) - Cost(s.chunk[c], o)
    <3>1. s.fs[o] \in Int
      BY DEF State
    <3>2. CASE o \in e.mask
      <4>1. t.fs[o] = s.fs[o] + diff
        BY <1>3, <3>2
      <4>2. Cost(t.chunk[c], o) = real_size(e)
        BY <1>1, <1>3, <2>2, <2>3, <3>2 DEF Cost
      <4>3. Cost(r, o) = pre
        <5>1. CASE r.size = 0
          BY <2>1, <5>1 DEF CountOK, Cost, SizeBefore
        <5>2. CASE r.size /= 0
          <6>1. r.size > 0
            BY <1>1, <5>2, InputChunkAssumption DEF Chunk
          <6>2. r.fs_counted
            BY <1>1, <2>1, <3>2, <6>1 DEF CountOK
          <6> QED BY <1>1, <3>2, <5>2, <6>2 DEF Cost, SizeBefore
        <5> QED BY <5>1, <5>2
      <4> QED BY <1>2, <3>1, <4>1, <4>2, <4>3
    <3>3. CASE o \notin e.mask
      <4>1. t.fs[o] = s.fs[o] /\ Cost(t.chunk[c], o) = 0 /\ Cost(r, o) = 0
        BY <1>1, <1>3, <3>3 DEF Cost
      <4> QED BY <3>1, <4>1
    <3> QED BY <3>2, <3>3
  <2>6. OnlyChunk(s, t, c)
    BY <1>1, <1>3 DEF OnlyChunk
  <2> DEFINE X == {c}
             Y == {}
  <2>7. X \ {c} \subseteq Y /\ CountInv(s, X) /\ t.chunk[c].size > 0
    BY <1>1, <1>3, <2>1
  <2> HIDE DEF X, Y, r, e
  <2>8. CountInv(t, Y)
    BY <1>3, <2>4, <2>5, <2>6, <2>7, CostKeeps
  <2> QED BY <2>8 DEF Y
<1> QED
  BY <1>3, <1>4, <1>5

\* Protection: the input is paused at its limit.
LEMMA ProtectFull ==
    ASSUME NEW s, BaseInv(s), NEW i \in Inputs, Measured(s, i),
           Countable => CountInv(s, {}), NEW t, t = protect(s, i)
    PROVE  FullInv(t, {}) /\ t.chunk = s.chunk
<1>1. BaseInv(t) /\ IsProtected(s, i, t)
  BY ProtectKeeps, Protect DEF BaseInv
<1>2. t.chunk = s.chunk /\ t.fs = s.fs /\ t.mem = s.mem
  BY <1>1 DEF IsProtected
<1>3. \A j : total_size(t, j) = total_size(s, j) /\ Charged(t, j) = Charged(s, j)
  BY <1>2, SameSums
<1>4. ASSUME NEW j \in Inputs, Type[j] /= "fs" PROVE MemOK(t, j) /\ AtLimit(t, j)
  <2>1. MemOK(s, j)
    BY <1>4 DEF Measured
  <2>2. MemOK(t, j)
    BY <1>2, <1>3, <2>1 DEF MemOK
  <2>3. CASE j = i
    BY <1>1, <1>2, <1>4, <2>2, <2>3 DEF IsProtected, AtLimit
  <2>4. CASE j /= i
    <3>1. AtLimit(s, j) /\ t.mem_st[j] = s.mem_st[j]
      BY <1>1, <1>4, <2>4 DEF Measured, IsProtected
    <3> QED BY <1>2, <2>2, <3>1 DEF AtLimit
  <2> QED BY <2>3, <2>4
<1>5. Countable => CountInv(t, {})
  BY <1>2, <1>3 DEF CountInv
<1> QED
  BY <1>1, <1>2, <1>4, <1>5 DEF FullInv, MemInv

OnFile(sd, i) == sd => Type[i] = "fs"
IsFinished(s, c, u, sd, t) == t = finish(u, c, sd, SizeBefore(s.chunk[c]))

\* finish restores the invariant once the chunk has its data.
LEMMA Finish ==
    ASSUME setting \in Settings, NEW s, NEW c \in Chunks, Appending(s, c),
           NEW i \in Inputs, s.chunk[c].in = i, NEW d, Ready(d, s.chunk[c], i),
           Room(s, c, d, i), NEW u, IsPut(s, c, d, u), NEW sd, OnFile(sd, i),
           NEW t, IsFinished(s, c, u, sd, t)
    PROVE  FullInv(t, {}) /\ t.chunk[c].in = i
<1>1. BaseInv(s) /\ s \in State /\ (Countable => CountBeside(s, c))
  BY DEF Appending, FullInv, BaseInv, CountBeside
<1>2. d \in Chunk /\ d.in = i /\ (d.size > MaxContent => d.locked)
  BY DEF Ready
<1>3. u \in State /\ u.chunk[c] = d
  BY <1>1, <1>2, PutIn DEF Beside
<1> DEFINE s1 == IF sd THEN [u EXCEPT !.chunk[c] = down(@)] ELSE u
           s2 == set_limits(s1, i)
           s3 == IF FS(i) /\ is_mem_overlimit(s2, i) /\ NearlyFull(s2.chunk[c])
                 THEN [s2 EXCEPT !.chunk[c] = down(@)] ELSE s2
           diff == real_size(s3.chunk[c]) - SizeBefore(s.chunk[c])
           s4 == IF diff /= 0 THEN update_outputs(s3, c, diff) ELSE s3
           d1 == IF sd THEN down(d) ELSE d
<1>4. t = protect(s4, i)
  BY <1>2, <1>3, SMTT(30) DEF finish, IsFinished
<1>5. IsPut(s, c, d1, s1)
  <2>1. u = [s EXCEPT !.chunk[c] = d]
    BY DEF IsPut
  <2>2. [u EXCEPT !.chunk[c] = down(@)] = [s EXCEPT !.chunk[c] = down(d)]
    BY <1>1, <1>3, <2>1 DEF State
  <2> QED BY <2>1, <2>2 DEF IsPut
<1>6. Ready(d1, s.chunk[c], i) /\ Room(s, c, d1, i)
  <2>1. CASE ~sd
    BY <2>1
  <2>2. CASE sd
    <3>1. Ready(down(d), s.chunk[c], i)
      BY <2>2, ReadyDown DEF OnFile
    <3>2. Room(s, c, down(d), i)
      BY <2>2 DEF Room, OnFile
    <3> QED BY <2>2, <3>1, <3>2
  <2> QED BY <2>1, <2>2
<1>7. HasLimits(s1, i, s2)
  BY DEF HasLimits
<1> HIDE DEF s1, d1
<1>8. BaseInv(s2) /\ Beside(s, s2, c) /\ s2.chunk[c] = d1 /\ Measured(s2, i)
  BY <1>5, <1>6, <1>7, FinishMeasured
<1>9. s3 = s2 \/ (Type[i] = "fs" /\ IsPut(s2, c, down(d1), s3))
  BY <1>8 DEF IsPut, FS
<1>10. IsDiff(s, s3, c, diff) /\ IsCharged(s3, c, diff, s4)
  BY DEF IsDiff, IsCharged
<1> HIDE DEF s2, s3, s4, diff
<1>11. BaseInv(s3) /\ Beside(s, s3, c) /\ Ready(s3.chunk[c], s.chunk[c], i) /\ Measured(s3, i)
  <2>1. CASE s3 = s2
    BY <1>6, <1>8, <2>1
  <2>2. CASE Type[i] = "fs" /\ IsPut(s2, c, down(d1), s3)
    <3> DEFINE e == down(d1)
    <3>1. Ready(e, s.chunk[c], i)
      BY <1>6, <2>2, ReadyDown
    <3>2. e \in Chunk /\ e.in = i /\ (e.size > MaxContent => e.locked) /\ d1 \in Chunk /\ d1.in = i
      BY <1>6, <3>1 DEF Ready
    <3> HIDE DEF e
    <3>3. BaseInv(s3) /\ Beside(s2, s3, c) /\ s3.chunk[c] = e /\ SameLimits(s2, s3)
      BY <1>8, <2>2, <3>2, PutIn DEF e
    <3>4. NoMoreData(s2.chunk[c], s3.chunk[c])
      BY <1>8, <2>2, <3>2, <3>3 DEF NoMoreData, Data
    <3>5. Measured(s3, i)
      BY <1>8, <3>3, <3>4, ShrinkMeasured DEF Beside
    <3>6. Beside(s, s3, c)
      BY <1>8, <3>3 DEF Beside, OnlyChunk
    <3> QED BY <3>1, <3>3, <3>5, <3>6
  <2> QED BY <1>9, <2>1, <2>2
<1>12. BaseInv(s4) /\ Measured(s4, i) /\ (Countable => CountInv(s4, {})) /\ s4.chunk[c].in = i
  BY <1>1, <1>10, <1>11, FinishCharged
<1> QED
  BY <1>4, <1>12, ProtectFull

(***************************************************************************)
(* Writing.                                                                *)
(***************************************************************************)
\* A file grows in steps, and no more than it has to.
LEMMA GrowsInSteps ==
    ASSUME NEW x \in Nat, NEW b \in Nat \ {0}
    PROVE  b * ((x + b - 1) \div b) \in x..(x + b - 1)
<1>1. b * ((x + b - 1) \div b) >= x /\ b * ((x + b - 1) \div b) <= x + b - 1
  OBVIOUS
<1>2. b * ((x + b - 1) \div b) \in Int
  OBVIOUS
<1> QED
  BY <1>1, <1>2

\* Data goes to a chunk that is not full, and one that is full then is locked.
LEMMA Written ==
    ASSUME setting \in Settings, NEW i \in Inputs, NEW r \in Chunk, r.in = i, r.up,
           r.size <= MaxContent, ~r.locked, Countable => ~r.users, NEW n \in Sizes,
           NEW d, d = locked(written(r, n))
    PROVE  Ready(d, r, i) /\ d.size = r.size + n
<1> DEFINE need == 1 + r.size + n
           grow == Realloc * ((need - r.file + Realloc - 1) \div Realloc)
           file == IF FS(r.in) /\ r.file < need THEN r.file + grow ELSE r.file
           w == [r EXCEPT !.size = r.size + n, !.file = file]
<1>1. written(r, n) = w
  BY DEF written
<1>2. /\ n \in 1..MaxSize /\ MaxContent \in Nat /\ MaxSize \in Nat /\ Realloc \in Nat \ {0}
      /\ r.size \in Nat /\ r.file \in 0..(MaxContent + MaxSize + Realloc)
  BY LargestAppend, InputChunkAssumption DEF Chunk
<1>3. need \in Nat /\ need <= MaxContent + MaxSize + 1
  BY <1>2
<1>4. file \in 0..(MaxContent + MaxSize + Realloc) /\ (FS(i) => file > 0)
  <2>1. CASE FS(r.in) /\ r.file < need
    <3> DEFINE x == need - r.file
    <3>1. x \in Nat
      BY <1>2, <1>3, <2>1
    <3>2. file = r.file + grow
      BY <2>1
    <3>3. grow \in x..(x + Realloc - 1)
      <4> HIDE DEF x
      <4>1. Realloc * ((x + Realloc - 1) \div Realloc) \in x..(x + Realloc - 1)
        BY <1>2, <3>1, GrowsInSteps
      <4> QED BY <4>1 DEF x
    <3> HIDE DEF grow
    <3>4. file >= need /\ file <= need + Realloc - 1 /\ file \in Int
      <4> HIDE DEF need, file
      <4> QED BY <1>2, <1>3, <3>1, <3>2, <3>3
    <3> HIDE DEF file, x
    <3> QED BY <1>2, <1>3, <3>4
  <2>2. CASE ~(FS(r.in) /\ r.file < need)
    BY <1>2, <2>2
  <2> QED BY <2>1, <2>2
<1> HIDE DEF file
<1>5. r.size + n \in 0..(MaxContent + MaxSize) /\ r.size + n > 0
  BY <1>2
<1>6. /\ w \in Chunk /\ w.in = i /\ w.size = r.size + n /\ w.file = file /\ w.up = r.up
      /\ w.locked = r.locked /\ w.users = r.users /\ w.mask = r.mask
      /\ w.fs_counted = r.fs_counted
  BY <1>4, <1>5 DEF Chunk
<1> HIDE DEF w
<1> DEFINE x == synced(w)
<1>7. /\ x \in Chunk /\ x.in = i /\ x.size = w.size /\ x.up = w.up /\ x.users = w.users
      /\ x.mask = w.mask /\ x.fs_counted = w.fs_counted
      /\ x.file = IF Trim /\ FS(i) THEN w.size + 1 ELSE file
  <2>1. CASE Trim /\ FS(i)
    <3>1. w.size + 1 \in 0..(MaxContent + MaxSize + Realloc)
      BY <1>2, <1>6
    <3>2. x = [w EXCEPT !.file = w.size + 1]
      BY <1>6, <2>1 DEF synced
    <3> QED BY <1>6, <2>1, <3>1, <3>2 DEF Chunk
  <2>2. CASE ~(Trim /\ FS(i))
    BY <1>6, <2>2 DEF synced
  <2> QED BY <2>1, <2>2
<1>8. d = IF w.size > MaxContent THEN [x EXCEPT !.locked = TRUE] ELSE w
  BY <1>1 DEF locked, lock
<1> HIDE DEF x
<1>9. CASE w.size > MaxContent
  <2>1. /\ d \in Chunk /\ d.in = i /\ d.size = x.size /\ d.up = x.up /\ d.users = x.users
        /\ d.mask = x.mask /\ d.fs_counted = x.fs_counted /\ d.file = x.file /\ d.locked = TRUE
    BY <1>7, <1>8, <1>9 DEF Chunk
  <2>2. real_size(d) > 0
    BY <1>4, <1>5, <1>6, <1>7, <2>1 DEF real_size
  <2> QED BY <1>5, <1>6, <1>7, <2>1, <2>2 DEF Ready, FS
<1>10. CASE ~(w.size > MaxContent)
  <2>1. d = w
    BY <1>8, <1>10
  <2>2. real_size(w) > 0
    BY <1>4, <1>5, <1>6 DEF real_size
  <2> QED BY <1>5, <1>6, <1>10, <2>1, <2>2 DEF Ready
<1> QED
  BY <1>9, <1>10

(***************************************************************************)
(* append_raw.                                                             *)
(***************************************************************************)
\* The accounting of a chunk leaves its data and the limits alone.
SameFields(r, q) ==
    /\ r \in Chunk /\ r.in = q.in /\ r.size = q.size /\ r.up = q.up /\ r.locked = q.locked
    /\ r.task = q.task /\ r.users = q.users /\ r.mask = q.mask

\* Charging a chunk leaves its data and the limits of the inputs alone.
LEMMA UpdateOutputsMem ==
    ASSUME setting \in Settings, NEW s, BaseInv(s), MemInv(s), NEW c \in Chunks,
           NEW diff \in Int, NEW t, t = update_outputs(s, c, diff)
    PROVE  BaseInv(t) /\ MemInv(t) /\ SameFields(t.chunk[c], s.chunk[c])
<1>1. s \in State /\ s.chunk \in [Chunks -> Chunk]
  BY DEF BaseInv, State
<1>2. BaseInv(t)
  BY <1>1, UpdateOutputsKeeps
<1> DEFINE new == [s.chunk EXCEPT ![c].fs_counted = @ \/ s.chunk[c].mask \cap Limited /= {}]
<1>3. t \in State /\ t.chunk = new /\ SameLimits(s, t)
  BY <1>1, UpdateOutputs
<1>4. OnlyChunk(s, t, c)
  BY <1>1, <1>3 DEF OnlyChunk
<1>5. t.chunk[c] = [s.chunk[c] EXCEPT !.fs_counted = s.chunk[c].fs_counted
                                                   \/ s.chunk[c].mask \cap Limited /= {}]
  BY <1>1, <1>3
<1>6. SameFields(t.chunk[c], s.chunk[c]) /\ s.chunk[c] \in Chunk
  BY ZenonT(60), <1>1, <1>5 DEF Chunk, SameFields
<1> HIDE DEF new
<1>7. NoMoreData(s.chunk[c], t.chunk[c])
  <2>1. \A j \in Inputs : Data(t.chunk[c], j) = Data(s.chunk[c], j) /\ Data(s.chunk[c], j) \in Nat
    BY <1>6, PartTypes DEF Data, SameFields
  <2>2. \A j \in Inputs : Type[j] /= "fs" => (t.chunk[c].in = j => t.chunk[c].up)
    BY <1>1, <1>6 DEF MemInv, MemOK, SameFields
  <2> QED BY <2>1, <2>2 DEF NoMoreData
<1>8. MemInv(t)
  BY <1>1, <1>3, <1>4, <1>7, ShrinkKeeps
<1> QED
  BY <1>2, <1>6, <1>8

\* Charging a chunk keeps the invariant where the charges are not exact.
LEMMA UpdateOutputsFull ==
    ASSUME setting \in Settings, NEW s, FullInv(s, {}), ~Countable, NEW c \in Chunks,
           NEW diff \in Int, NEW t, t = update_outputs(s, c, diff)
    PROVE  FullInv(t, {})
BY UpdateOutputsMem DEF FullInv

\* route_payload_apply_outputs.  What is charged then is not exact.
LEMMA ApplyOutputs ==
    ASSUME setting \in Settings, NEW s, FullInv(s, {}), ~Countable, NEW c \in Chunks,
           s.chunk[c].in \in Inputs, NEW t, t = apply_outputs(s, c)
    PROVE  FullInv(t, {})
<1>1. BaseInv(s) /\ MemInv(s) /\ s \in State /\ s.chunk \in [Chunks -> Chunk] /\ FullLocked(s)
  BY DEF FullInv, BaseInv, State
<1> DEFINE q == s.chunk[c]
           r == [q EXCEPT !.mask = Routes[q.in]]
           u == [s EXCEPT !.chunk[c].mask = Routes[s.chunk[c].in]]
<1>2. t = u \/ t = update_outputs(u, c, real_size(q))
  BY DEF apply_outputs
<1>3. IsPut(s, c, r, u)
  BY <1>1 DEF IsPut, State
<1>4. q \in Chunk /\ Routes[q.in] \in SUBSET Outputs /\ real_size(q) \in Int
  BY <1>1, SettingParts, RealSize
<1>5. r \in Chunk /\ r.in = q.in /\ r.size = q.size /\ r.up = q.up /\ r.locked = q.locked
  <2> DEFINE m == Routes[q.in]
  <2>1. m \in SUBSET Outputs /\ r = [q EXCEPT !.mask = m]
    BY <1>4
  <2> HIDE DEF q, r, m
  <2> QED BY <1>4, <2>1 DEF Chunk
<1> HIDE DEF r, u
<1>6. Fits(r, s.chunk[c])
  <2>1. \A j \in Inputs : Data(r, j) = Data(q, j) /\ Data(q, j) \in Nat
    BY <1>4, <1>5, PartTypes DEF Data
  <2>2. \A j \in Inputs : Type[j] /= "fs" => (r.in = j => r.up)
    BY <1>1, <1>5 DEF MemInv, MemOK
  <2>3. r.size > MaxContent => r.locked
    BY <1>1, <1>5 DEF FullLocked
  <2> QED BY <1>5, <2>1, <2>2, <2>3 DEF Fits, NoMoreData
<1>7. FullInv(u, {})
  <2> DEFINE X == {}
             Y == {}
  <2>1. FullInv(s, X) /\ X \ {c} \subseteq Y
    OBVIOUS
  <2> HIDE DEF X, Y
  <2>2. FullInv(u, Y)
    BY <1>3, <1>6, <2>1, ChunkFull
  <2> QED BY <2>2 DEF Y
<1>8. CASE t = u
  BY <1>7, <1>8
<1>9. CASE t = update_outputs(u, c, real_size(q))
  <2> HIDE DEF q
  <2> QED BY <1>4, <1>7, <1>9, UpdateOutputsFull
<1> QED
  BY <1>2, <1>8, <1>9

\* The chunk is not empty, or goes.
LEMMA FullLess ==
    ASSUME NEW s, NEW c \in Chunks, Appending(s, c), Countable => s.chunk[c].size > 0
    PROVE  FullInv(s, {})
BY DEF Appending, FullInv, CountInv

\* An append that got no room frees the chunk it had created.
LEMMA AppendingGone ==
    ASSUME setting \in Settings, NEW s, NEW c \in Chunks, Appending(s, c),
           NEW t, t = destroyed(s, c)
    PROVE  FullInv(t, {})
<1> DEFINE X == {c}
<1>1. FullInv(s, X) /\ X \ {c} = {}
  BY DEF Appending
<1> HIDE DEF X
<1>2. FullInv(t, X \ {c})
  BY <1>1, DestroyedFull
<1> QED
  BY <1>1, <1>2

\* There is room for n, or else the limit is passed by less than an append.
Below(s, i, n) ==
    Type[i] /= "fs" /\ Bounded(i) => total_size(s, i) + n < MemLimit[i] + Max(Sizes)

\* input_chunk_append_raw, with its target chunk at hand.
LEMMA AppendFull ==
    ASSUME setting \in Settings, NEW s, FullInv(s, {}), NEW i \in Inputs, NEW n,
           NEW m \in Sizes \cup {0}, NEW sd, OnFile(sd, i),
           NEW out, out = "fails" => "write" \in Faults, out = "down" => "reload" \in Faults,
           s.ht[i] \in Of(s, i) \cup {None},
           Reused(s, i) \/ Free(s) /= {}, Below(s, i, m),
           NEW t, t = append_raw(s, i, n, m, out, sd)
    PROVE  FullInv(t, {})
<1> DEFINE c == Target(s, i)
           w == with_target(s, i)
           pos == place_new_chunk(w, c, n)
           s2 == [pos.s EXCEPT !.chunk[c].up = TRUE]
           r == s2.chunk[c]
           data == IF m = 0 THEN r ELSE locked(written(r, m))
           u == [s2 EXCEPT !.chunk[c] = data]
           s3 == finish(u, c, sd, SizeBefore(r))
           none == ~Reused(s, i) /\ ~CanCreate(s, i)
           full == w.chunk[c].mask /= {} /\ ~pos.ok
           left == out = "down" /\ ~pos.s.chunk[c].up
           bad == out = "fails" /\ m > 0
<1>1. t = IF none THEN s
          ELSE IF full
          THEN IF Reused(s, i) THEN pos.s ELSE destroyed(pos.s, c)
          ELSE IF left THEN pos.s
          ELSE IF bad THEN s2
          ELSE IF data.size = 0 THEN set_limits(destroyed(s2, c), i)
          ELSE IF i \in Direct THEN apply_outputs(s3, c) ELSE s3
  BY DEF append_raw, SizeBefore
<1>2. c \in Chunks /\ Taken(s, i, c, w)
  <2>1. c = Target(s, i) /\ w = with_target(s, i)
    OBVIOUS
  <2> HIDE DEF c, w
  <2> QED BY <2>1, TakeLast, TakeNew
<1>3. IsPlaced(w, c, n, pos) /\ IsUp(pos.s, c, s2) /\ IsPut(s2, c, data, u)
      /\ IsFinished(s2, c, u, sd, s3)
  BY DEF IsPlaced, IsUp, IsPut, IsFinished
<1>4. (left => ~Countable) /\ (bad => ~Countable)
  BY DEF Countable
<1> HIDE DEF c, w, pos, s2, u, s3, none, full, left, bad
<1>5. /\ Appending(w, c) /\ w.chunk[c] \in Chunk /\ w.chunk[c].in = i
      /\ w.chunk[c].size <= MaxContent /\ ~w.chunk[c].locked
      /\ Type[i] /= "fs" => total_size(w, i) = total_size(s, i)
      /\ Reused(s, i) /\ Countable => w.chunk[c].size > 0
  BY <1>2 DEF Taken
<1>6. /\ Appending(pos.s, c) /\ pos.s.chunk[c] = w.chunk[c]
      /\ Type[i] /= "fs" => pos.s = w
  <2>1. IsPlaced(w, c, n, pos) /\ w.chunk[c].in \in Inputs /\ Appending(w, c) /\ c \in Chunks
    BY <1>2, <1>3, <1>5
  <2>2. /\ Appending(pos.s, c) /\ pos.s.chunk[c] = w.chunk[c]
        /\ Type[w.chunk[c].in] /= "fs" => pos.s = w
    BY <2>1, PlaceNewChunk
  <2> QED BY <1>5, <2>2
<1>7. Type[i] /= "fs" => total_size(pos.s, i) = total_size(s, i)
  BY <1>5, <1>6
<1>8. /\ Appending(s2, c) /\ SameButUp(r, w.chunk[c])
      /\ Type[i] /= "fs" => total_size(s2, i) = total_size(s, i)
  <2> DEFINE X == {c}
             v == pos.s
  <2>1. FullInv(v, X) /\ v.chunk[c].in \in Inputs /\ IsUp(v, c, s2) /\ v.chunk[c] = w.chunk[c]
    BY <1>3, <1>5, <1>6 DEF Appending
  <2> HIDE DEF X, v
  <2>2. /\ FullInv(s2, X) /\ SameButUp(s2.chunk[c], v.chunk[c])
        /\ \A j \in Inputs : Type[j] /= "fs" => total_size(s2, j) = total_size(v, j)
    BY <1>2, <2>1, BringUp
  <2> QED BY <1>7, <2>1, <2>2 DEF X, v, Appending
<1>9. /\ r \in Chunk /\ r.in = i /\ r.up /\ r.size <= MaxContent /\ ~r.locked
      /\ r.size = w.chunk[c].size /\ s2 \in State
  BY <1>5, <1>8 DEF SameButUp, Appending, FullInv, BaseInv
<1>10. Countable => ~r.users
  BY <1>2, <1>8, <1>9 DEF Appending, FullInv, CountInv, CountOK
<1>15. CASE none
  BY <1>1, <1>15
<1>16. CASE ~none /\ ~full /\ left
  <2>1. t = pos.s /\ ~Countable
    BY <1>1, <1>4, <1>16
  <2> QED BY <1>2, <1>6, <2>1, FullLess
<1>11. CASE ~none /\ full
  <2>1. CASE Reused(s, i)
    <3>1. t = pos.s /\ (Countable => t.chunk[c].size > 0)
      BY <1>1, <1>5, <1>6, <1>11, <2>1
    <3> QED BY <1>2, <1>6, <3>1, FullLess
  <2>2. CASE ~Reused(s, i)
    <3>1. t = destroyed(pos.s, c)
      BY <1>1, <1>11, <2>2
    <3> QED BY <1>2, <1>6, <3>1, AppendingGone
  <2> QED BY <2>1, <2>2
<1>12. CASE ~none /\ ~full /\ ~left /\ bad
  <2>1. t = s2 /\ ~Countable
    BY <1>1, <1>4, <1>12
  <2> QED BY <1>2, <1>8, <2>1, FullLess
<1>13. CASE ~none /\ ~full /\ ~left /\ ~bad /\ data.size = 0
  <2> DEFINE v == destroyed(s2, c)
  <2>1. t = set_limits(v, i) /\ v = destroyed(s2, c)
    BY <1>1, <1>13
  <2> HIDE DEF v
  <2>2. FullInv(v, {})
    BY <1>2, <1>8, <2>1, AppendingGone
  <2> DEFINE X == {}
  <2>3. FullInv(v, X)
    BY <2>2
  <2> HIDE DEF X
  <2>4. FullInv(t, X)
    BY <2>1, <2>3, SetLimitsFull
  <2> QED BY <2>4 DEF X
<1>14. CASE ~none /\ ~full /\ ~left /\ ~bad /\ data.size /= 0
  <2>1. m \in Nat /\ r.size \in Nat
    BY SMTT(60), <1>9, LargestAppend, InputChunkAssumption DEF Chunk
  <2>2. Ready(data, r, i) /\ data.size \in Nat /\ data.size <= r.size + m
    <3>1. CASE m = 0
      <4>1. data = r /\ r.size > 0
        BY <1>14, <2>1, <3>1
      <4>2. Ready(r, r, i)
        <5>1. ~(r.size > MaxContent)
          BY <1>9, <2>1, InputChunkAssumption
        <5> HIDE DEF r
        <5> QED BY <1>9, <1>10, <4>1, <5>1 DEF Ready
      <4> QED BY <2>1, <4>1, <4>2
    <3>2. CASE m /= 0
      <4>1. data = locked(written(r, m)) /\ m \in Sizes
        BY <3>2
      <4> HIDE DEF data, r
      <4>2. Ready(data, r, i) /\ data.size = r.size + m
        BY <1>9, <1>10, <4>1, Written
      <4> QED BY <2>1, <4>2
    <3> QED BY <3>1, <3>2
  <2> HIDE DEF data
  <2>3. Room(s2, c, data, i)
    <3> SUFFICES ASSUME Type[i] /= "fs", Bounded(i)
                 PROVE  total_size(s2, i) + data.size - Data(s2.chunk[c], i) < MemLimit[i] + Max(Sizes)
      BY DEF Room
    <3>1. Data(s2.chunk[c], i) = r.size
      BY <1>9 DEF Data
    <3>2. total_size(s2, i) = total_size(s, i) /\ total_size(s2, i) \in Nat
      BY <1>8, <1>9, TotalSize
    <3>3. total_size(s, i) + m < MemLimit[i] + Max(Sizes)
      BY DEF Below
    <3>4. MemLimit[i] \in Nat /\ Max(Sizes) \in Nat
      BY SettingParts, LargestAppend
    <3> HIDE DEF r
    <3> QED BY <2>1, <2>2, <3>1, <3>2, <3>3, <3>4
  <2>4. FullInv(s3, {}) /\ s3.chunk[c].in = i
    <3>1. /\ Appending(s2, c) /\ s2.chunk[c].in = i /\ Ready(data, s2.chunk[c], i)
          /\ IsPut(s2, c, data, u) /\ IsFinished(s2, c, u, sd, s3)
      BY <1>3, <1>8, <1>9, <2>2
    <3> HIDE DEF r
    <3> QED BY <1>2, <1>4, <2>3, <3>1, Finish
  <2>5. CASE i \in Direct
    <3>1. t = apply_outputs(s3, c) /\ ~Countable
      BY <1>1, <1>14, <2>5 DEF Countable
    <3> QED BY <1>2, <2>4, <3>1, ApplyOutputs
  <2>6. CASE i \notin Direct
    BY <1>1, <1>14, <2>4, <2>6
  <2> QED BY <2>5, <2>6
<1> QED
  BY <1>11, <1>12, <1>13, <1>14, <1>15, <1>16

(***************************************************************************)
(* Tasks and the engine.                                                   *)
(***************************************************************************)
\* A chunk is brought up and locked: the fields after a flush.
SameButFlushed(r, q) ==
    /\ r \in Chunk /\ r.in = q.in /\ r.size = q.size /\ r.up = TRUE /\ r.locked = TRUE
    /\ r.task = q.task /\ r.users = q.users /\ r.mask = q.mask

\* flb_input_chunk_flush brings the chunk up and locks it, which trims it.
LEMMA Locked ==
    ASSUME NEW q \in Chunk, NEW x, x = lock([q EXCEPT !.up = TRUE])
    PROVE  /\ SameButFlushed(x, q) /\ x.fs_counted = q.fs_counted
           /\ x.file = IF Trim /\ FS(q.in) THEN q.size + 1 ELSE q.file
<1> DEFINE y == [q EXCEPT !.up = TRUE]
           z == synced(y)
<1>1. /\ y \in Chunk /\ y.in = q.in /\ y.size = q.size /\ y.up = TRUE /\ y.task = q.task
      /\ y.users = q.users /\ y.mask = q.mask /\ y.file = q.file /\ y.fs_counted = q.fs_counted
  BY DEF Chunk
<1>2. x = [z EXCEPT !.locked = TRUE]
  BY DEF lock
<1> HIDE DEF y
<1>3. /\ z \in Chunk /\ z.in = q.in /\ z.size = q.size /\ z.up = TRUE /\ z.task = q.task
      /\ z.users = q.users /\ z.mask = q.mask /\ z.fs_counted = q.fs_counted
      /\ z.file = IF Trim /\ FS(q.in) THEN q.size + 1 ELSE q.file
  <2>1. CASE Trim /\ FS(q.in)
    <3>1. q.size + 1 \in 0..(MaxContent + MaxSize + Realloc)
      BY InputChunkAssumption DEF Chunk
    <3>2. z = [y EXCEPT !.file = q.size + 1]
      BY <1>1, <2>1 DEF synced
    <3> QED BY <1>1, <2>1, <3>1, <3>2 DEF Chunk
  <2>2. CASE ~(Trim /\ FS(q.in))
    BY <1>1, <2>2 DEF synced
  <2> QED BY <2>1, <2>2
<1> HIDE DEF z
<1> QED
  BY <1>2, <1>3 DEF Chunk, SameButFlushed

\* flb_input_chunk_flush
LEMMA Flushed ==
    ASSUME setting \in Settings, NEW s, FullInv(s, {}), NEW c \in Chunks,
           Countable => s.chunk[c].in /= None, NEW t, t = flushed(s, c)
    PROVE  FullInv(t, {}) /\ SameButFlushed(t.chunk[c], s.chunk[c])
<1>1. /\ BaseInv(s) /\ MemInv(s) /\ (Countable => CountInv(s, {})) /\ s \in State
      /\ s.chunk \in [Chunks -> Chunk]
  BY DEF FullInv, BaseInv, State
<1> DEFINE q == s.chunk[c]
           x == lock([q EXCEPT !.up = TRUE])
           v == [s EXCEPT !.chunk[c] = lock([@ EXCEPT !.up = TRUE])]
           diff == real_size(v.chunk[c]) - real_size(s.chunk[c])
<1>2. t = IF diff /= 0 THEN update_outputs(v, c, diff) ELSE v
  BY DEF flushed
<1>3. IsPut(s, c, x, v)
  BY <1>1 DEF IsPut, State
<1>4. q \in Chunk
  BY <1>1
<1>5. /\ SameButFlushed(x, q) /\ x.fs_counted = q.fs_counted
      /\ x.file = IF Trim /\ FS(q.in) THEN q.size + 1 ELSE q.file
  <2>1. x = lock([q EXCEPT !.up = TRUE])
    OBVIOUS
  <2> HIDE DEF x, q
  <2> QED BY <1>4, <2>1, Locked
<1>6. IsCharged(v, c, diff, t)
  BY <1>2 DEF IsCharged
<1>7. diff = real_size(v.chunk[c]) - real_size(q)
  OBVIOUS
<1> HIDE DEF x, v, diff
<1>8. x \in Chunk /\ x.in = q.in /\ x.size = q.size /\ x.up /\ x.locked
  BY <1>5 DEF SameButFlushed
<1>9. BaseInv(v) /\ Beside(s, v, c) /\ v.chunk[c] = x /\ SameLimits(s, v)
  BY <1>1, <1>3, <1>8, PutIn
<1>10. v \in State /\ OnlyChunk(s, v, c)
  BY <1>9 DEF Beside
<1>11. MemInv(v)
  <2>1. \A j \in Inputs : Type[j] /= "fs" => (q.in = j => q.up)
    BY <1>1 DEF MemInv, MemOK
  <2>2. \A j \in Inputs : Type[j] /= "fs" => Data(x, j) = Data(q, j) /\ Data(q, j) \in Nat
    BY <1>4, <1>8, <2>1, PartTypes DEF Data
  <2>3. NoMoreData(s.chunk[c], v.chunk[c])
    BY <1>8, <1>9, <2>2 DEF NoMoreData
  <2> QED BY <1>1, <1>9, <1>10, <2>3, ShrinkKeeps
<1>12. diff \in Int
  BY <1>4, <1>7, <1>8, <1>9, RealSize
<1>13. BaseInv(t) /\ MemInv(t) /\ SameFields(t.chunk[c], x)
  <2>1. CASE diff = 0
    <3>1. t = v /\ SameFields(x, x)
      BY <1>6, <1>8, <2>1 DEF IsCharged, SameFields
    <3> QED BY <1>6, <1>9, <1>11, <3>1
  <2>2. CASE diff /= 0
    <3>1. t = update_outputs(v, c, diff)
      BY <1>6, <2>2 DEF IsCharged
    <3> QED BY <1>9, <1>11, <1>12, <3>1, UpdateOutputsMem
  <2> QED BY <2>1, <2>2
<1>14. SameButFlushed(t.chunk[c], q)
  BY <1>5, <1>13 DEF SameButFlushed, SameFields
<1>15. ASSUME Countable PROVE CountInv(t, {})
  <2> DEFINE i == q.in
  <2>1. CountInv(s, {}) /\ q.in /= None /\ q.size > 0 /\ CountBeside(s, c)
    BY <1>1, <1>15 DEF CountInv, CountBeside
  <2>2. i \in Inputs /\ s.chunk[c].in = i
    BY <1>4, <2>1 DEF Chunk
  <2>3. Ready(x, q, i)
    BY <1>5, <1>8, <2>1 DEF Ready, SameButFlushed, FS
  <2>4. Measured(v, i)
    BY <1>11, <2>2 DEF Measured, MemInv
  <2>5. IsDiff(s, v, c, diff)
    BY <1>7, <2>1 DEF IsDiff, SizeBefore
  <2>6. Ready(v.chunk[c], s.chunk[c], i)
    BY <1>9, <2>3
  <2> HIDE DEF i, q
  <2> QED BY <1>1, <1>6, <1>9, <1>15, <2>1, <2>2, <2>4, <2>5, <2>6, FinishCharged
<1> QED
  BY <1>13, <1>14, <1>15 DEF FullInv

(***************************************************************************)
(* The steps of the specification.                                         *)
(***************************************************************************)
\* The invariant of a record depends on the setting and on ingestion only.
LEMMA FrameParts ==
    ASSUME NEW CONSTANT s, setting' = setting, Hashed' => Hashed
    PROVE  /\ (s \in State)' <=> s \in State
           /\ MemInv(s)' <=> MemInv(s)
           /\ (Countable => CountInv(s, {}))' <=> (Countable => CountInv(s, {}))
           /\ FullLocked(s)' <=> FullLocked(s)
           /\ \A i : ListOK(s, i) => ListOK(s, i)'
<1>1. /\ Type' = Type /\ Limited' = Limited /\ MemLimit' = MemLimit /\ Sizes' = Sizes
      /\ Trim' = Trim /\ Direct' = Direct /\ Faults' = Faults /\ Grows' = Grows
  BY DEF Type, Limited, MemLimit, Sizes, Trim, Direct, Faults, Grows
<1>2. (s \in State)' <=> s \in State
  BY <1>1 DEF State
<1>3. \A i : MemOK(s, i)' <=> MemOK(s, i)
  BY <1>1 DEF MemOK, Bounded
<1>4. \A i : AtLimit(s, i)' <=> AtLimit(s, i)
  BY <1>1 DEF AtLimit
<1>5. MemInv(s)' <=> MemInv(s)
  BY <1>1, <1>3, <1>4 DEF MemInv
<1>6. \A r : real_size(r)' = real_size(r)
  BY <1>1 DEF real_size, FS
<1>7. \A o : Charged(s, o)' = Charged(s, o)
  BY <1>6 DEF Charged
<1>8. \A r : CountOK(r)' <=> CountOK(r)
  BY <1>1 DEF CountOK
<1>9. CountInv(s, {})' <=> CountInv(s, {})
  BY <1>1, <1>7, <1>8 DEF CountInv
<1>10. Countable' <=> Countable
  BY <1>1 DEF Countable
<1>11. FullLocked(s)' <=> FullLocked(s)
  BY DEF FullLocked
<1>12. \A i : ListOK(s, i) => ListOK(s, i)'
  BY DEF ListOK
<1> QED
  BY <1>2, <1>5, <1>9, <1>10, <1>11, <1>12

\* With the same setting and ingestion, the invariant of a record stays.
LEMMA Frame ==
    ASSUME NEW CONSTANT s, setting' = setting, ingestion' = ingestion, Hashed' => Hashed
    PROVE  FullInv(s, {}) => FullInv(s, {})'
<1>1. \A i : PauseOK(s, i)' <=> PauseOK(s, i)
  BY DEF PauseOK, Type
<1>2. BaseInv(s) => BaseInv(s)'
  BY <1>1, FrameParts DEF BaseInv
<1>3. /\ MemInv(s)' <=> MemInv(s)
      /\ (Countable => CountInv(s, {}))' <=> (Countable => CountInv(s, {}))
  BY FrameParts
<1> QED
  BY <1>2, <1>3 DEF FullInv

\* A step to a state that satisfies the invariant.
Same == setting' = setting /\ ingestion' = ingestion /\ unloadable' = unloadable

\* A step to a record that satisfies the invariant keeps it.
LEMMA StepKeeps ==
    ASSUME NEW CONSTANT u, FullInv(u, {}), Now' = u, Same
    PROVE  FullInv(Now, {})'
<1>1. Hashed' => Hashed
  BY DEF Same, Hashed, Faults
<1>2. FullInv(u, {})'
  BY <1>1, Frame DEF Same
<1> QED
  BY <1>2

\* So does an action that assigns the fields of such a record.
LEMMA Becoming ==
    ASSUME NEW CONSTANT u, FullInv(u, {}), Becomes(u)
    PROVE  FullInv(Now, {})' /\ Same
<1>1. u \in State
  BY DEF FullInv, BaseInv
<1>2. Now' = u /\ Same
  BY <1>1 DEF Becomes, Now, Same, State
<1> QED
  BY <1>2, StepKeeps

\* The state as a record, field by field.
LEMMA NowFields ==
    /\ Now.chunk = chunk /\ Now.chunks = chunks /\ Now.ht = ht /\ Now.fs = fs_chunks_size
    /\ Now.mem = mem_chunks_size /\ Now.mem_st = mem_buf_status
    /\ Now.fs_st = storage_buf_status /\ Now.coll = collecting
BY DEF Now

\* The chunk of an input that is corrupted goes, with or without its entry.
LEMMA CorruptedGone ==
    ASSUME setting \in Settings, FullInv(Now, {}), NEW i \in Inputs, "load" \in Faults,
           ht[i] \in Of(Now, i), NEW t,
           t = unhashed(closed(Now, ht[i]), i, ht[i]) \/ t = destroyed_corrupted(Now, ht[i])
    PROVE  /\ FullInv(t, {})
           /\ t = unhashed(closed(Now, ht[i]), i, ht[i]) => t.ht[i] = None
<1> DEFINE c == ht[i]
           X == {}
<1>1. c \in Chunks /\ Now.chunk[c].in = i /\ Now.ht = ht /\ Now \in State /\ FullInv(Now, X)
  BY NowFields DEF Of, FullInv, BaseInv
<1>2. \E del \in BOOLEAN :
         t = IF del THEN unhashed(closed(Now, c), Now.chunk[c].in, c) ELSE closed(Now, c)
  BY <1>1 DEF destroyed_corrupted
<1>3. ~Hashed
  BY DEF Hashed
<1>4. ASSUME t = unhashed(closed(Now, c), i, c) PROVE t.ht[i] = None
  <2> DEFINE v == closed(Now, c)
  <2>1. IsDestroyed(Now, c, v)
    <3>1. FALSE \in BOOLEAN /\ v = IF FALSE THEN unhashed(closed(Now, c), Now.chunk[c].in, c)
                                   ELSE closed(Now, c)
      OBVIOUS
    <3> HIDE DEF v, c
    <3> QED BY <1>1, <1>3, <3>1, Closed
  <2>2. v \in State /\ (v.ht[i] = c \/ v.ht[i] = None)
    BY <1>1, <2>1 DEF IsDestroyed
  <2> HIDE DEF v, c
  <2>3. v.ht \in [Inputs -> Chunks \cup {None}] /\ DOMAIN v.ht = Inputs
    BY <2>2 DEF State
  <2>4. t = [v EXCEPT !.ht[i] = IF @ = c THEN None ELSE @]
    BY <1>4 DEF unhashed, v
  <2>5. t.ht = [v.ht EXCEPT ![i] = IF @ = c THEN None ELSE @]
    BY <2>2, <2>4 DEF State
  <2> QED BY <2>2, <2>3, <2>5
<1> HIDE DEF c, X
<1>5. IsDestroyed(Now, c, t)
  BY <1>1, <1>2, <1>3, Closed
<1>6. FullInv(t, X)
  BY <1>1, <1>5, GoneFull
<1> QED
  BY <1>4, <1>6 DEF X, c

\* An append.
LEMMA AppendKeeps ==
    ASSUME setting \in Settings, FullInv(Now, {}), NEW i \in Inputs, NEW n \in Sizes,
           NEW m \in Sizes \cup {0}, NEW out, AppendRaw(i, n, m, out)
    PROVE  FullInv(Now, {})' /\ Same
<1> DEFINE memrb == Type[i] = "memrb" /\ is_mem_overlimit(Now, i)
           room == IF memrb THEN memrb_release_space(Now, i, n) ELSE [s |-> Now, ok |-> TRUE]
           v == room.s
           bad == out = "corrupted"
           s == IF bad THEN unhashed(closed(Now, ht[i]), i, ht[i]) ELSE v
           sd == WasDown(v, i) \/ (~Reused(s, i) /\ CreatedDown(s, i))
           a == append_raw(s, i, n, m, out, sd)
           new == IF ~room.ok \/ Paused(v, i) THEN v
                  ELSE IF bad /\ ~CanCreate(s, i) THEN destroyed_corrupted(Now, ht[i]) ELSE a
<1>1. /\ out = "fails" => "write" \in Faults
      /\ out = "down" => "reload" \in Faults
      /\ bad => "load" \in Faults /\ FS(i) /\ WasDown(Now, i)
      /\ m > n => Grows
      /\ v.ht[i] \in Of(v, i) \cup {None}
      /\ Reused(s, i) \/ Free(s) /= {}
      /\ Becomes(new)
  BY DEF AppendRaw
<1>2. /\ Type[i] \in {"fs", "mem", "memrb"} /\ MemLimit[i] \in Nat
      /\ Max(Sizes) \in Nat /\ n \in Nat /\ m \in Nat /\ m <= Max(Sizes)
  BY SettingParts, LargestAppend
<1>3. /\ Now \in State /\ (Type[i] /= "fs" => MemOK(Now, i) /\ AtLimit(Now, i))
      /\ Now.mem[i] \in Nat /\ total_size(Now, i) \in Nat
  <2>1. Now \in State /\ MemInv(Now)
    BY DEF FullInv, BaseInv
  <2> QED BY <2>1, TotalSize DEF MemInv, State
<1>4. FullInv(v, {}) /\ (room.ok /\ ~Paused(v, i) => Below(v, i, m))
  <2>1. CASE memrb
    <3>1. room = memrb_release_space(Now, i, n) /\ Type[i] = "memrb"
      BY <2>1
    <3> HIDE DEF room, memrb
    <3>2. /\ FullInv(room.s, {})
          /\ room.ok => total_size(room.s, i) + n <= total_size(Now, i)
      BY <1>2, <3>1, MemrbReleaseSpace
    <3>3. total_size(v, i) \in Nat
      BY <3>2, TotalSize DEF FullInv, BaseInv
    <3>4. Bounded(i) => total_size(Now, i) < MemLimit[i] + Max(Sizes)
      BY <1>3, <3>1 DEF MemOK
    <3>6. Bounded(i) => m <= n
      BY <1>1, <1>2, <3>1 DEF Bounded
    <3>5. room.ok => Below(v, i, m)
      BY <1>2, <1>3, <3>2, <3>3, <3>4, <3>6 DEF Below
    <3> QED BY <3>2, <3>5
  <2>2. CASE ~memrb
    <3>1. v = Now
      BY <2>2
    <3>2. ASSUME ~Paused(Now, i) PROVE Below(Now, i, m)
      <4> SUFFICES ASSUME Type[i] /= "fs", Bounded(i)
                   PROVE  total_size(Now, i) + m < MemLimit[i] + Max(Sizes)
        BY DEF Below
      <4>3. MemLimit[i] > 0
        BY DEF Bounded
      <4>1. Now.mem[i] < MemLimit[i]
        <5>1. CASE Type[i] = "mem"
          BY <1>2, <1>3, <3>2, <4>3, <5>1 DEF AtLimit, Paused
        <5>2. CASE Type[i] = "memrb"
          BY <1>2, <1>3, <2>2, <4>3, <5>2 DEF is_mem_overlimit
        <5> QED BY <1>2, <5>1, <5>2
      <4>2. total_size(Now, i) <= Now.mem[i]
        BY <1>3 DEF MemOK
      <4> QED BY <1>2, <1>3, <4>1, <4>2
    <3> HIDE DEF v
    <3> QED BY <3>1, <3>2
  <2> QED BY <2>1, <2>2
<1>6. /\ ~bad => s = v
      /\ bad => /\ v = Now /\ "load" \in Faults /\ Type[i] = "fs" /\ ht[i] \in Of(Now, i)
                /\ s = unhashed(closed(Now, ht[i]), i, ht[i])
  <2>1. ASSUME bad PROVE v = Now /\ Type[i] = "fs" /\ ht[i] \in Of(Now, i)
    <3>1. Type[i] = "fs" /\ Candidate(Now, i) /\ v = Now
      BY <1>1, <2>1 DEF FS, WasDown
    <3>2. ht[i] /= None
      BY <3>1, NowFields DEF Candidate
    <3> QED BY <1>1, <3>1, <3>2, NowFields
  <2> QED BY <1>1, <2>1
<1>7. OnFile(sd, i) /\ a = append_raw(s, i, n, m, out, sd)
  BY DEF OnFile, WasDown, CreatedDown, FS
<1>8. /\ out = "fails" => "write" \in Faults
      /\ out = "down" => "reload" \in Faults
      /\ v.ht[i] \in Of(v, i) \cup {None}
      /\ Reused(s, i) \/ Free(s) /= {}
      /\ Becomes(new)
  BY <1>1
<1>9. \/ (~room.ok \/ Paused(v, i)) /\ new = v
      \/ ~(~room.ok \/ Paused(v, i)) /\ bad /\ new = destroyed_corrupted(Now, ht[i])
      \/ ~(~room.ok \/ Paused(v, i)) /\ new = a
  OBVIOUS
<1> HIDE DEF room, v, memrb, bad, s, sd, a, new
<1>10. /\ FullInv(s, {}) /\ s.ht[i] \in Of(s, i) \cup {None}
       /\ room.ok /\ ~Paused(v, i) => Below(s, i, m)
  <2>1. CASE bad
    <3>1. FullInv(s, {}) /\ s.ht[i] = None
      BY <1>6, <2>1, CorruptedGone
    <3>2. Below(s, i, m)
      BY <1>6, <2>1 DEF Below
    <3> QED BY <3>1, <3>2
  <2>2. CASE ~bad
    BY <1>4, <1>6, <1>8, <2>2
  <2> QED BY <2>1, <2>2
<1>5. FullInv(new, {})
  <2>1. CASE (~room.ok \/ Paused(v, i)) /\ new = v
    BY <1>4, <2>1
  <2>2. CASE bad /\ new = destroyed_corrupted(Now, ht[i])
    BY <1>6, <2>2, CorruptedGone
  <2>3. CASE ~(~room.ok \/ Paused(v, i)) /\ new = a
    BY <1>7, <1>8, <1>10, <2>3, AppendFull
  <2> QED BY <1>9, <2>1, <2>2, <2>3
<1> QED
  BY <1>5, <1>8, Becoming

\* A change of the task of a chunk.
Relabels(r, q) ==
    /\ r \in Chunk /\ r.in = q.in /\ r.size = q.size /\ r.up = q.up /\ r.file = q.file
    /\ r.locked = q.locked /\ r.mask = q.mask /\ r.fs_counted = q.fs_counted
    /\ Countable /\ r.users => r.locked
    /\ Countable /\ r.in = None => ~r.task /\ ~r.users

\* Changing the task of a chunk keeps the invariant.
LEMMA Relabel ==
    ASSUME setting \in Settings, NEW s, FullInv(s, {}), NEW c \in Chunks,
           NEW r, Relabels(r, s.chunk[c]), NEW t, IsPut(s, c, r, t)
    PROVE  FullInv(t, {})
<1>1. /\ BaseInv(s) /\ MemInv(s) /\ (Countable => CountInv(s, {})) /\ s \in State
      /\ s.chunk \in [Chunks -> Chunk] /\ FullLocked(s)
  BY DEF FullInv, BaseInv, State
<1> DEFINE q == s.chunk[c]
<1>2. q \in Chunk
  BY <1>1
<1>3. Fits(r, s.chunk[c])
  <2>1. \A j \in Inputs : Data(r, j) = Data(q, j) /\ Data(q, j) \in Nat
    BY <1>2, PartTypes DEF Data, Relabels
  <2>2. \A j \in Inputs : Type[j] /= "fs" => (r.in = j => r.up)
    BY <1>1 DEF MemInv, MemOK, Relabels
  <2>3. r.size > MaxContent => r.locked
    BY <1>1 DEF FullLocked, Relabels
  <2> QED BY <2>1, <2>2, <2>3 DEF Fits, NoMoreData, Relabels
<1> DEFINE X == {}
           Y == {}
<1>4. ASSUME Countable PROVE SameCost(r, s.chunk[c]) /\ MayBeEmpty(r, c, Y)
  <2>1. CountOK(q) /\ (q.in /= None => q.size > 0)
    BY <1>1, <1>4 DEF CountInv
  <2>2. CountOK(r)
    BY <1>4, <2>1 DEF CountOK, Relabels
  <2>3. \A o \in Limited : Cost(r, o) = Cost(q, o)
    BY DEF Cost, real_size, Relabels
  <2> QED BY <2>1, <2>2, <2>3 DEF SameCost, MayBeEmpty, Relabels
<1>5. FullInv(s, X) /\ X \ {c} \subseteq Y
  OBVIOUS
<1> HIDE DEF X, Y
<1>6. FullInv(t, Y)
  BY <1>3, <1>4, <1>5, ChunkFull
<1> QED
  BY <1>6 DEF Y

\* cio_chunk_down for a chunk that is locked: it was trimmed before.
LEMMA PutDown ==
    ASSUME setting \in Settings, NEW s, FullInv(s, {}), NEW c \in Chunks,
           Countable => s.chunk[c].locked /\ s.chunk[c].in /= None,
           NEW t, IsPut(s, c, down(s.chunk[c]), t)
    PROVE  FullInv(t, {})
<1>1. /\ BaseInv(s) /\ MemInv(s) /\ (Countable => CountInv(s, {})) /\ s \in State
      /\ s.chunk \in [Chunks -> Chunk] /\ FullLocked(s)
  BY DEF FullInv, BaseInv, State
<1> DEFINE q == s.chunk[c]
           r == down(q)
           x == synced(q)
<1>2. q \in Chunk /\ q.size \in Nat
  BY <1>1, InputChunkAssumption DEF Chunk
<1>3. /\ x \in Chunk /\ x.in = q.in /\ x.size = q.size /\ x.locked = q.locked
      /\ x.mask = q.mask /\ x.fs_counted = q.fs_counted /\ x.users = q.users /\ x.task = q.task
      /\ x.file = IF Trim /\ FS(q.in) THEN q.size + 1 ELSE q.file
  <2>1. CASE Trim /\ FS(q.in)
    <3>1. q.size + 1 \in 0..(MaxContent + MaxSize + Realloc)
      BY SMTT(60), <1>2, InputChunkAssumption DEF Chunk
    <3>2. x = [q EXCEPT !.file = q.size + 1]
      BY <2>1 DEF synced
    <3> HIDE DEF q
    <3> QED BY <1>2, <2>1, <3>1, <3>2 DEF Chunk
  <2>2. CASE ~(Trim /\ FS(q.in))
    BY <1>2, <2>2 DEF synced
  <2> QED BY <2>1, <2>2
<1>4. r = IF FS(q.in) THEN [x EXCEPT !.up = FALSE] ELSE q
  BY DEF down
<1> HIDE DEF x
<1>5. /\ r \in Chunk /\ r.in = q.in /\ r.size = q.size /\ r.locked = q.locked
      /\ r.mask = q.mask /\ r.fs_counted = q.fs_counted /\ r.users = q.users /\ r.task = q.task
      /\ r.file = IF Trim /\ FS(q.in) THEN q.size + 1 ELSE q.file
      /\ r.up = IF FS(q.in) THEN FALSE ELSE q.up
  <2>1. CASE FS(q.in)
    <3>1. r = [x EXCEPT !.up = FALSE]
      BY <1>4, <2>1
    <3> HIDE DEF r, q
    <3> QED BY <1>3, <2>1, <3>1 DEF Chunk
  <2>2. CASE ~FS(q.in)
    BY <1>2, <1>4, <2>2
  <2> QED BY <2>1, <2>2
<1>6. IsPut(s, c, r, t)
  OBVIOUS
<1> HIDE DEF r
<1>7. Fits(r, s.chunk[c])
  <2>1. \A j \in Inputs : Type[j] /= "fs" => Data(r, j) = Data(q, j) /\ Data(q, j) \in Nat
    BY <1>2, <1>5, PartTypes DEF Data, FS
  <2>2. \A j \in Inputs : Type[j] /= "fs" => (r.in = j => r.up)
    BY <1>1, <1>5 DEF MemInv, MemOK, FS
  <2>3. r.size > MaxContent => r.locked
    BY <1>1, <1>5 DEF FullLocked
  <2> QED BY <1>5, <2>1, <2>2, <2>3 DEF Fits, NoMoreData
<1> DEFINE X == {}
           Y == {}
<1>8. ASSUME Countable PROVE SameCost(r, s.chunk[c]) /\ MayBeEmpty(r, c, Y)
  <2>1. CountOK(q) /\ (q.in /= None => q.size > 0) /\ q.locked /\ q.in /= None
    BY <1>1, <1>8 DEF CountInv
  <2>2. r.file = q.file
    BY <1>5, <2>1 DEF CountOK, FS
  <2>3. CountOK(r)
    BY <1>5, <2>1, <2>2 DEF CountOK
  <2>4. \A o \in Limited : Cost(r, o) = Cost(q, o)
    BY <1>5, <2>2 DEF Cost, real_size
  <2> QED BY <1>5, <2>1, <2>3, <2>4 DEF SameCost, MayBeEmpty
<1>9. FullInv(s, X) /\ X \ {c} \subseteq Y
  OBVIOUS
<1> HIDE DEF X, Y
<1>10. FullInv(t, Y)
  BY <1>6, <1>7, <1>8, <1>9, ChunkFull
<1> QED
  BY <1>10 DEF Y

\* The input is measured, and neither paused nor resumed.
LEMMA Remeasure ==
    ASSUME setting \in Settings, NEW s, FullInv(s, {}), NEW i,
           NEW t, t = [s EXCEPT !.mem[i] = total_size(s, i)]
    PROVE  FullInv(t, {}) /\ t.chunk = s.chunk
<1>1. /\ BaseInv(s) /\ MemInv(s) /\ (Countable => CountInv(s, {})) /\ s \in State
      /\ FullLocked(s) /\ \A j \in Inputs : ListOK(s, j) /\ PauseOK(s, j)
  BY DEF FullInv, BaseInv
<1> DEFINE M == [s.mem EXCEPT ![i] = total_size(s, i)]
<1>2. M \in [Inputs -> Nat] /\ t = [s EXCEPT !.mem = M]
  BY <1>1, TotalSize DEF State
<1> HIDE DEF M
<1>3. /\ t \in State /\ t.mem = M /\ t.chunk = s.chunk /\ t.fs = s.fs /\ SameLists(s, t)
      /\ t.mem_st = s.mem_st /\ t.fs_st = s.fs_st /\ t.coll = s.coll
  BY <1>1, <1>2 DEF State, SameLists
<1>4. BaseInv(t)
  <2>1. FullLocked(t)
    BY <1>1, <1>3 DEF FullLocked
  <2>2. \A j \in Inputs : ListOK(t, j)
    BY <1>1, <1>3 DEF ListOK, SameLists
  <2>3. \A j \in Inputs : PauseOK(t, j)
    BY <1>1, <1>3 DEF PauseOK, Paused
  <2> QED BY <1>3, <2>1, <2>2, <2>3 DEF BaseInv
<1>5. \A j : total_size(t, j) = total_size(s, j) /\ Charged(t, j) = Charged(s, j)
  BY <1>3, SameSums
<1>6. ASSUME NEW j \in Inputs, Type[j] /= "fs" PROVE MemOK(t, j) /\ AtLimit(t, j)
  <2>1. MemOK(s, j) /\ AtLimit(s, j)
    BY <1>1, <1>6 DEF MemInv
  <2>2. t.mem[j] = IF j = i THEN total_size(s, j) ELSE s.mem[j]
    BY <1>1, <1>3 DEF M, State
  <2>3. total_size(s, j) \in Nat /\ s.mem[j] \in Nat /\ MemLimit[j] \in Nat
    BY <1>1, TotalSize, SettingParts DEF State
  <2>4. t.mem[j] <= s.mem[j] /\ total_size(s, j) <= t.mem[j] /\ t.mem[j] \in Nat
    BY <2>1, <2>2, <2>3 DEF MemOK
  <2>5. MemOK(t, j)
    BY <1>3, <1>5, <2>1, <2>4 DEF MemOK
  <2>6. AtLimit(t, j)
    BY <1>3, <2>1, <2>3, <2>4 DEF AtLimit
  <2> QED BY <2>5, <2>6
<1>7. Countable => CountInv(t, {})
  BY <1>1, <1>3, <1>5 DEF CountInv
<1> QED
  BY <1>3, <1>4, <1>6, <1>7 DEF FullInv, MemInv

\* A step that changes the chunk c in place.
LEMMA StepRelabels ==
    ASSUME setting \in Settings, FullInv(Now, {}), NEW c \in Chunks, NEW r,
           Relabels(r, chunk[c]), chunk' = [chunk EXCEPT ![c] = r],
           UNCHANGED <<setting, chunks, ht, fs_chunks_size, mem_chunks_size, mem_buf_status,
                       storage_buf_status, collecting, ingestion, unloadable>>
    PROVE  FullInv(Now, {})' /\ Same
<1> DEFINE u == [Now EXCEPT !.chunk[c] = r]
<1>1. Now' = u /\ Same
  BY DEF Now, Same
<1>2. IsPut(Now, c, r, u) /\ Relabels(r, Now.chunk[c])
  BY NowFields DEF IsPut
<1> HIDE DEF u
<1>3. FullInv(u, {})
  BY <1>2, Relabel
<1> QED
  BY <1>1, <1>3, StepKeeps

\* What is known of the chunks now.
LEMMA NowChunks ==
    ASSUME FullInv(Now, {}), NEW c \in Chunks
    PROVE  /\ chunk \in [Chunks -> Chunk] /\ chunk[c] \in Chunk
           /\ Countable => CountOK(chunk[c]) /\ (chunk[c].in /= None => chunk[c].size > 0)
<1>1. Now \in State /\ (Countable => CountInv(Now, {}))
  BY DEF FullInv, BaseInv
<1> QED
  BY <1>1, NowFields DEF State, CountInv

\* A callback starts.
LEMMA RouteStartKeeps ==
    ASSUME setting \in Settings, FullInv(Now, {}), NEW c \in Chunks, NEW o \in Outputs,
           RouteStart(c, o)
    PROVE  FullInv(Now, {})' /\ Same
<1> DEFINE r == [chunk[c] EXCEPT !.active = @ \cup {o}]
<1>1. /\ chunk \in [Chunks -> Chunk] /\ chunk[c] \in Chunk
      /\ Countable => CountOK(chunk[c])
  BY NowChunks
<1>2. chunk' = [chunk EXCEPT ![c] = r]
  BY <1>1 DEF RouteStart
<1>3. Relabels(r, chunk[c])
  <2>1. /\ r \in Chunk /\ r.in = chunk[c].in /\ r.size = chunk[c].size /\ r.up = chunk[c].up
        /\ r.file = chunk[c].file /\ r.locked = chunk[c].locked /\ r.mask = chunk[c].mask
        /\ r.fs_counted = chunk[c].fs_counted /\ r.users = chunk[c].users
        /\ r.task = chunk[c].task
    BY <1>1 DEF Chunk
  <2> HIDE DEF r
  <2> QED BY <1>1, <2>1 DEF Relabels, CountOK
<1> HIDE DEF r
<1> QED
  BY <1>2, <1>3, StepRelabels DEF RouteStart

\* A callback returns.
LEMMA RouteReturnKeeps ==
    ASSUME setting \in Settings, FullInv(Now, {}), NEW c \in Chunks, NEW o \in Outputs,
           RouteReturn(c, o)
    PROVE  FullInv(Now, {})' /\ Same
<1> DEFINE r == [chunk[c] EXCEPT !.active = @ \ {o}]
<1>1. /\ chunk \in [Chunks -> Chunk] /\ chunk[c] \in Chunk
      /\ Countable => CountOK(chunk[c])
  BY NowChunks
<1>2. chunk' = [chunk EXCEPT ![c] = r]
  BY <1>1 DEF RouteReturn
<1>3. Relabels(r, chunk[c])
  <2>1. /\ r \in Chunk /\ r.in = chunk[c].in /\ r.size = chunk[c].size /\ r.up = chunk[c].up
        /\ r.file = chunk[c].file /\ r.locked = chunk[c].locked /\ r.mask = chunk[c].mask
        /\ r.fs_counted = chunk[c].fs_counted /\ r.users = chunk[c].users
        /\ r.task = chunk[c].task
    BY <1>1 DEF Chunk
  <2> HIDE DEF r
  <2> QED BY <1>1, <2>1 DEF Relabels, CountOK
<1> HIDE DEF r
<1> QED
  BY <1>2, <1>3, StepRelabels DEF RouteReturn

\* A flush of an empty chunk: there is none unless a write has failed.
LEMMA FlushEmptyKeeps ==
    ASSUME setting \in Settings, FullInv(Now, {}), NEW c \in Chunks, FlushEmpty(c)
    PROVE  FullInv(Now, {})' /\ Same
<1> DEFINE q == chunk[c]
           r == [q EXCEPT !.up = TRUE, !.locked = TRUE]
           u == [Now EXCEPT !.chunk[c] = r]
<1>1. /\ BaseInv(Now) /\ MemInv(Now) /\ Now \in State /\ Now.chunk = chunk
      /\ chunk \in [Chunks -> Chunk] /\ q \in Chunk
      /\ Countable => (q.in /= None => q.size > 0)
  BY NowChunks, NowFields DEF FullInv, BaseInv
<1>2. chunk' = [chunk EXCEPT ![c] = r] /\ q.in /= None /\ q.size = 0
  BY <1>1 DEF FlushEmpty
<1>3. ~Countable
  BY <1>1, <1>2
<1>4. r \in Chunk /\ r.in = q.in /\ r.size = q.size /\ r.up /\ r.locked
  <2> HIDE DEF q
  <2> QED BY <1>1 DEF Chunk
<1>5. Now' = u /\ Same
  <2>1. /\ chunks' = chunks /\ ht' = ht /\ fs_chunks_size' = fs_chunks_size
        /\ mem_chunks_size' = mem_chunks_size /\ mem_buf_status' = mem_buf_status
        /\ storage_buf_status' = storage_buf_status /\ collecting' = collecting /\ Same
    BY DEF FlushEmpty, Same
  <2> HIDE DEF r, q
  <2> QED BY <1>2, <2>1 DEF Now
<1>6. IsPut(Now, c, r, u)
  BY DEF IsPut
<1> HIDE DEF r, u
<1>7. Fits(r, Now.chunk[c])
  <2>1. \A j \in Inputs : Data(r, j) = 0 /\ Data(q, j) = 0
    BY <1>2, <1>4 DEF Data
  <2> QED BY <1>1, <1>4, <2>1 DEF Fits, NoMoreData
<1> DEFINE X == {}
           Y == {}
<1>8. FullInv(Now, X) /\ X \ {c} \subseteq Y
  OBVIOUS
<1> HIDE DEF X, Y
<1>9. FullInv(u, Y)
  BY <1>3, <1>6, <1>7, <1>8, ChunkFull
<1>10. FullInv(u, {})
  BY <1>9 DEF Y
<1> QED
  BY <1>5, <1>10, StepKeeps

\* The end of a task.
LEMMA TaskEndKeeps ==
    ASSUME setting \in Settings, FullInv(Now, {}), NEW c \in Chunks, TaskEnd(c)
    PROVE  FullInv(Now, {})' /\ Same
<1> DEFINE u == task_destroy(Now, c)
           X == {}
<1>1. Becomes(u) /\ u = task_destroy(Now, c) /\ FullInv(Now, X)
  BY DEF TaskEnd
<1> HIDE DEF u, X
<1>2. FullInv(u, X)
  BY <1>1, TaskDestroyFull
<1>3. FullInv(u, {})
  BY <1>2 DEF X
<1> QED
  BY <1>1, <1>3, Becoming

\* A new task.
LEMMA TaskCreateKeeps ==
    ASSUME setting \in Settings, FullInv(Now, {}), NEW c \in Chunks, TaskCreate(c)
    PROVE  FullInv(Now, {})' /\ Same
<1> DEFINE t == flushed(Now, c)
           m == Cardinality(chunk[c].mask)
           r == [t.chunk[c] EXCEPT !.task = TRUE, !.users = TRUE, !.routes = m]
           w == [t EXCEPT !.chunk[c].task = TRUE, !.chunk[c].users = TRUE, !.chunk[c].routes = m]
           new == IF t.chunk[c].mask = {} THEN task_destroy(t, c) ELSE w
<1>1. chunk[c].in /= None /\ Becomes(new)
  BY DEF TaskCreate
<1>2. Now.chunk = chunk /\ chunk[c] \in Chunk
  BY NowFields, NowChunks
<1>3. FullInv(t, {}) /\ SameButFlushed(t.chunk[c], chunk[c])
  <2>1. t = flushed(Now, c) /\ Now.chunk[c].in /= None
    BY <1>1, <1>2
  <2> HIDE DEF t
  <2>2. FullInv(t, {}) /\ SameButFlushed(t.chunk[c], Now.chunk[c])
    BY <2>1, Flushed
  <2> QED BY <1>2, <2>2
<1> HIDE DEF t
<1>4. t \in State /\ t.chunk \in [Chunks -> Chunk] /\ t.chunk[c] \in Chunk
  BY <1>3 DEF FullInv, BaseInv, State
<1>5. m \in 0..Cardinality(Outputs)
  <2>1. chunk[c].mask \in SUBSET Outputs
    BY <1>2 DEF Chunk
  <2>2. IsFiniteSet(Outputs) /\ IsFiniteSet(chunk[c].mask) /\ m <= Cardinality(Outputs)
    BY <2>1, FS_Subset, InputChunkAssumption
  <2> QED BY <2>2, FS_CardinalityType
<1>6. IsPut(t, c, r, w)
  BY <1>4 DEF IsPut, State
<1> HIDE DEF m
<1>7. Relabels(r, t.chunk[c])
  <2> DEFINE q == t.chunk[c]
  <2>1. /\ r \in Chunk /\ r.in = q.in /\ r.size = q.size /\ r.up = q.up
        /\ r.file = q.file /\ r.locked = q.locked /\ r.mask = q.mask
        /\ r.fs_counted = q.fs_counted
    <3>1. r = [q EXCEPT !.task = TRUE, !.users = TRUE, !.routes = m] /\ q \in Chunk
      BY <1>4
    <3> HIDE DEF r, q
    <3> QED BY <1>5, <3>1 DEF Chunk
  <2>2. q.locked /\ q.in /= None
    BY <1>1, <1>3 DEF SameButFlushed
  <2> HIDE DEF r, q
  <2>3. Relabels(r, q)
    BY <2>1, <2>2 DEF Relabels
  <2> QED BY <2>3 DEF q
<1> HIDE DEF r, w
<1>8. FullInv(w, {})
  BY <1>3, <1>6, <1>7, Relabel
<1>9. FullInv(new, {})
  <2>1. CASE t.chunk[c].mask = {}
    <3> DEFINE d == task_destroy(t, c)
               X == {}
    <3>1. new = d /\ d = task_destroy(t, c) /\ FullInv(t, X)
      BY <1>3, <2>1
    <3> HIDE DEF d, X, new
    <3>2. FullInv(d, X)
      BY <3>1, TaskDestroyFull
    <3> QED BY <3>1, <3>2 DEF X
  <2>2. CASE t.chunk[c].mask /= {}
    BY <1>8, <2>2
  <2> QED BY <2>1, <2>2
<1> HIDE DEF new
<1> QED
  BY <1>1, <1>9, Becoming

\* A retry is dispatched.
LEMMA TaskRetryKeeps ==
    ASSUME setting \in Settings, FullInv(Now, {}), NEW c \in Chunks, TaskRetry(c)
    PROVE  FullInv(Now, {})' /\ Same
<1> DEFINE t == flushed(Now, c)
           r == [t.chunk[c] EXCEPT !.users = TRUE]
           w == [t EXCEPT !.chunk[c].users = TRUE]
<1>1. chunk[c].task /\ Becomes(w)
  BY DEF TaskRetry
<1>2. Now.chunk = chunk /\ chunk[c] \in Chunk /\ (Countable => CountOK(chunk[c]))
  BY NowFields, NowChunks
<1>3. Countable => chunk[c].in /= None
  BY <1>1, <1>2 DEF CountOK
<1>4. FullInv(t, {}) /\ SameButFlushed(t.chunk[c], chunk[c])
  <2>1. t = flushed(Now, c) /\ (Countable => Now.chunk[c].in /= None)
    BY <1>2, <1>3
  <2> HIDE DEF t
  <2>2. FullInv(t, {}) /\ SameButFlushed(t.chunk[c], Now.chunk[c])
    BY <2>1, Flushed
  <2> QED BY <1>2, <2>2
<1> HIDE DEF t
<1>5. t \in State /\ t.chunk \in [Chunks -> Chunk] /\ t.chunk[c] \in Chunk
  BY <1>4 DEF FullInv, BaseInv, State
<1>6. IsPut(t, c, r, w)
  BY <1>5 DEF IsPut, State
<1>7. Relabels(r, t.chunk[c])
  <2> DEFINE q == t.chunk[c]
  <2>1. /\ r \in Chunk /\ r.in = q.in /\ r.size = q.size /\ r.up = q.up
        /\ r.file = q.file /\ r.locked = q.locked /\ r.mask = q.mask
        /\ r.fs_counted = q.fs_counted
    <3>1. r = [q EXCEPT !.users = TRUE] /\ q \in Chunk
      BY <1>5
    <3> HIDE DEF r, q
    <3> QED BY <3>1 DEF Chunk
  <2>2. q.locked /\ (Countable => q.in /= None)
    BY <1>3, <1>4 DEF SameButFlushed
  <2> HIDE DEF r, q
  <2>3. Relabels(r, q)
    BY <2>1, <2>2 DEF Relabels
  <2> QED BY <2>3 DEF q
<1> HIDE DEF r, w
<1>8. FullInv(w, {})
  BY <1>4, <1>6, <1>7, Relabel
<1> QED
  BY <1>1, <1>8, Becoming

\* The last user of a task asks for a retry.
LEMMA TaskRetryWaitKeeps ==
    ASSUME setting \in Settings, FullInv(Now, {}), NEW c \in Chunks, TaskRetryWait(c)
    PROVE  FullInv(Now, {})' /\ Same
<1> DEFINE i == chunk[c].in
           r == [chunk[c] EXCEPT !.users = FALSE]
           m == [Now EXCEPT !.mem[i] = total_size(Now, i)]
           s == [Now EXCEPT !.mem[i] = total_size(Now, i), !.chunk[c].users = FALSE]
           over == is_mem_overlimit(s, i)
           t == IF over \/ chunk[c].routes = 1 THEN [s EXCEPT !.chunk[c] = down(@)] ELSE s
           w == [t EXCEPT !.mem[i] = total_size(t, i)]
           new == IF over /\ FS(i) THEN w ELSE t
<1>1. chunk[c].users /\ Becomes(new)
  BY DEF TaskRetryWait
<1>2. /\ Now \in State /\ Now.chunk = chunk /\ chunk \in [Chunks -> Chunk] /\ chunk[c] \in Chunk
      /\ Countable => CountOK(chunk[c])
  BY NowFields, NowChunks DEF FullInv, BaseInv
<1>3. IsPut(m, c, r, s)
  BY <1>2 DEF IsPut, State
<1>4. m = [Now EXCEPT !.mem[i] = total_size(Now, i)]
  OBVIOUS
<1> HIDE DEF m, i
<1>5. FullInv(m, {}) /\ m.chunk = chunk
  BY <1>2, <1>4, Remeasure
<1>6. /\ r \in Chunk /\ r.in = chunk[c].in /\ r.size = chunk[c].size /\ r.up = chunk[c].up
      /\ r.file = chunk[c].file /\ r.locked = chunk[c].locked /\ r.mask = chunk[c].mask
      /\ r.fs_counted = chunk[c].fs_counted /\ r.users = FALSE /\ r.task = chunk[c].task
  BY <1>2 DEF Chunk
<1>7. Countable => r.locked /\ r.in /= None
  BY <1>1, <1>2, <1>6 DEF CountOK
<1>8. t = s \/ IsPut(s, c, down(s.chunk[c]), t)
  BY DEF IsPut
<1>9. w = [t EXCEPT !.mem[i] = total_size(t, i)] /\ (new = w \/ new = t)
  OBVIOUS
<1> HIDE DEF r, s, over, t, w, new
<1>10. Relabels(r, m.chunk[c])
  BY <1>5, <1>6, <1>7 DEF Relabels
<1>11. FullInv(s, {}) /\ s.chunk[c] = r
  <2>1. FullInv(s, {})
    BY <1>3, <1>5, <1>10, Relabel
  <2>2. BaseInv(m) /\ m \in State /\ m.chunk \in [Chunks -> Chunk]
    BY <1>5 DEF FullInv, BaseInv, State
  <2>3. s.chunk = [m.chunk EXCEPT ![c] = r]
    BY <1>3, <2>2 DEF IsPut, State
  <2> QED BY <2>1, <2>2, <2>3
<1>12. FullInv(t, {})
  <2>1. CASE t = s
    BY <1>11, <2>1
  <2>2. CASE IsPut(s, c, down(s.chunk[c]), t)
    BY <1>7, <1>11, <2>2, PutDown
  <2> QED BY <1>8, <2>1, <2>2
<1>13. FullInv(w, {})
  BY <1>9, <1>12, Remeasure
<1>14. FullInv(new, {})
  BY <1>9, <1>12, <1>13
<1> QED
  BY <1>1, <1>14, Becoming

\* Ingestion stops: no input is collected from any more.
LEMMA StopIngestionKeeps ==
    ASSUME setting \in Settings, FullInv(Now, {}), StopIngestion
    PROVE  FullInv(Now, {})' /\ setting' = setting
<1> DEFINE C == [i \in Inputs |-> FALSE]
           u == [Now EXCEPT !.coll = C]
<1>1. setting' = setting /\ ingestion' = FALSE /\ Now' = u
  <2>1. /\ collecting' = C /\ chunk' = chunk /\ chunks' = chunks /\ ht' = ht
        /\ fs_chunks_size' = fs_chunks_size /\ mem_chunks_size' = mem_chunks_size
        /\ mem_buf_status' = mem_buf_status /\ storage_buf_status' = storage_buf_status
        /\ setting' = setting /\ ingestion' = FALSE
    BY DEF StopIngestion
  <2> HIDE DEF C
  <2> QED BY <2>1 DEF Now
<1>11. Hashed' => Hashed
  BY DEF StopIngestion, Hashed, Faults
<1>2. /\ Now \in State /\ MemInv(Now) /\ (Countable => CountInv(Now, {})) /\ FullLocked(Now)
      /\ \A i \in Inputs : ListOK(Now, i) /\ PauseOK(Now, i)
  BY DEF FullInv, BaseInv
<1>3. C \in [Inputs -> BOOLEAN]
  OBVIOUS
<1>4. /\ u \in State /\ u.coll = C /\ u.chunk = Now.chunk /\ u.fs = Now.fs /\ u.mem = Now.mem
      /\ SameLists(Now, u) /\ u.mem_st = Now.mem_st /\ u.fs_st = Now.fs_st
  <2> HIDE DEF C
  <2> QED BY <1>2, <1>3 DEF State, SameLists
<1> HIDE DEF u, C
<1>5. \A j : total_size(u, j) = total_size(Now, j) /\ Charged(u, j) = Charged(Now, j)
  BY <1>4, SameSums
<1>6. MemInv(u)
  BY <1>2, <1>4, <1>5 DEF MemInv, MemOK, AtLimit
<1>7. Countable => CountInv(u, {})
  BY <1>2, <1>4, <1>5 DEF CountInv
<1>8. FullLocked(u) /\ \A i \in Inputs : ListOK(u, i)
  BY <1>2, <1>4 DEF FullLocked, ListOK, SameLists
<1>9. ASSUME NEW i \in Inputs PROVE PauseOK(Now, i)'
  <2>1. u.coll[i] = FALSE
    BY <1>4 DEF C
  <2>2. /\ u.mem_st[i] = "PAUSED" => Type[i] = "mem"
        /\ u.fs_st[i] = "PAUSED" => Type[i] = "fs"
    BY <1>2, <1>4 DEF PauseOK
  <2> QED BY <1>1, <2>1, <2>2 DEF PauseOK, Type
<1>10. /\ (Now \in State)' /\ MemInv(Now)' /\ (Countable => CountInv(Now, {}))'
       /\ FullLocked(Now)' /\ \A i \in Inputs : ListOK(Now, i)'
  <2>1. ASSUME NEW CONSTANT x, x \in State, MemInv(x), Countable => CountInv(x, {}),
               FullLocked(x), \A i \in Inputs : ListOK(x, i), Now' = x
        PROVE  /\ (Now \in State)' /\ MemInv(Now)' /\ (Countable => CountInv(Now, {}))'
               /\ FullLocked(Now)' /\ \A i \in Inputs : ListOK(Now, i)'
    <3>1. /\ (x \in State)' /\ MemInv(x)' /\ (Countable => CountInv(x, {}))'
          /\ FullLocked(x)' /\ \A i \in Inputs : ListOK(x, i)'
      BY <1>1, <1>11, <2>1, FrameParts
    <3> QED BY <2>1, <3>1
  <2> QED BY <1>1, <1>4, <1>6, <1>7, <1>8, <2>1
<1> QED
  BY <1>1, <1>9, <1>10 DEF FullInv, BaseInv

(***************************************************************************)
(* The specification keeps the invariant.                                  *)
(***************************************************************************)
\* Loading fails only where that is one of the faults.
Loading == unloadable \subseteq Chunks /\ ("load" \notin Faults => unloadable = {})

\* Files become loadable or not: the hash table is exact only without that.
LEMMA LoadingKeeps ==
    ASSUME FullInv(Now, {}), NEW S \in SUBSET Chunks, LoadingChanges(S)
    PROVE  FullInv(Now, {})' /\ setting' = setting /\ ingestion' = ingestion /\ Loading'
<1>1. /\ setting' = setting /\ ingestion' = ingestion /\ Now' = Now
      /\ "load" \in Faults /\ Faults' = Faults /\ unloadable' = S
  BY DEF LoadingChanges, Now, Faults
<1>2. Hashed' => Hashed
  BY <1>1 DEF Hashed
<1>3. ASSUME NEW CONSTANT x, FullInv(x, {}), Now' = x PROVE FullInv(Now, {})'
  <2>1. FullInv(x, {})'
    BY <1>1, <1>2, <1>3, Frame
  <2> QED BY <1>3, <2>1
<1>4. FullInv(Now, {})'
  BY <1>1, <1>3
<1> QED
  BY <1>1, <1>4 DEF Loading

\* At the start there are no chunks.
LEMMA InitInv ==
    Init => setting \in Settings /\ ingestion \in BOOLEAN /\ Loading /\ FullInv(Now, {})
<1> SUFFICES ASSUME Init
             PROVE  setting \in Settings /\ ingestion \in BOOLEAN /\ Loading /\ FullInv(Now, {})
  OBVIOUS
<1>1. /\ setting \in Settings /\ ingestion = TRUE
      /\ chunk = [c \in Chunks |-> NoChunk] /\ chunks = [i \in Inputs |-> <<>>]
      /\ ht = [i \in Inputs |-> None] /\ fs_chunks_size = [o \in Limited |-> 0]
      /\ mem_chunks_size = [i \in Inputs |-> 0]
      /\ mem_buf_status = [i \in Inputs |-> "RUNNING"]
      /\ storage_buf_status = [i \in Inputs |-> "RUNNING"]
      /\ collecting = [i \in Inputs |-> TRUE]
  BY DEF Init
<1>2. NoChunk \in Chunk /\ NoChunk.in = None /\ NoChunk.size = 0
  BY NoChunkType
<1>3. /\ chunk \in [Chunks -> Chunk] /\ chunks \in [Inputs -> Seq(Chunks)]
      /\ ht \in [Inputs -> Chunks \cup {None}] /\ fs_chunks_size \in [Limited -> Int]
      /\ mem_chunks_size \in [Inputs -> Nat] /\ mem_buf_status \in [Inputs -> Status]
      /\ storage_buf_status \in [Inputs -> Status] /\ collecting \in [Inputs -> BOOLEAN]
  BY <1>1, <1>2 DEF Status
<1>4. Now \in State
  BY <1>3 DEF Now, State
<1>5. \A c \in Chunks : chunk[c] = NoChunk
  BY <1>1
<1>6. ASSUME NEW i \in Inputs PROVE ListOK(Now, i)
  <2>1. chunks[i] = <<>> /\ DOMAIN chunks[i] = {} /\ ht[i] = None
    BY <1>1
  <2>2. \A c \in Chunks : chunk[c].in /= i
    BY <1>2, <1>5, InputChunkAssumption
  <2> QED BY <2>1, <2>2, NowFields DEF ListOK, Once
<1>7. ASSUME NEW i \in Inputs PROVE PauseOK(Now, i)
  <2>1. /\ mem_buf_status[i] = "RUNNING" /\ storage_buf_status[i] = "RUNNING"
        /\ collecting[i] = TRUE
    BY <1>1
  <2> QED BY <1>1, <2>1, NowFields DEF PauseOK, Paused
<1>8. FullLocked(Now)
  BY <1>2, <1>5, NowFields, InputChunkAssumption DEF FullLocked
<1>9. \A i \in Inputs : total_size(Now, i) = 0
  <2> SUFFICES ASSUME NEW i \in Inputs PROVE total_size(Now, i) = 0
    OBVIOUS
  <2> DEFINE T == {c \in Of(Now, i) : Now.chunk[c].up}
             f == [c \in T |-> Now.chunk[c].size]
  <2>1. T = {}
    BY <1>2, <1>5, NowFields, InputChunkAssumption DEF Of
  <2>2. total_size(Now, i) = SumFunction(f)
    BY DEF total_size
  <2>3. DOMAIN f = {}
    BY <2>1
  <2> HIDE DEF f, T
  <2> QED BY <2>2, <2>3, SumEmpty
<1>10. \A o \in Limited : Charged(Now, o) = 0
  <2> SUFFICES ASSUME NEW o \in Limited PROVE Charged(Now, o) = 0
    OBVIOUS
  <2> DEFINE T == {c \in Chunks \ Free(Now) : Now.chunk[c].fs_counted /\ o \in Now.chunk[c].mask}
             f == [c \in T |-> real_size(Now.chunk[c])]
  <2>1. T = {}
    BY <1>2, <1>5, NowFields DEF Of, Free
  <2>2. Charged(Now, o) = SumFunction(f)
    BY DEF Charged
  <2>3. DOMAIN f = {}
    BY <2>1
  <2> HIDE DEF f, T
  <2> QED BY <2>2, <2>3, SumEmpty
<1>11. MemInv(Now)
  <2> SUFFICES ASSUME NEW i \in Inputs PROVE MemOK(Now, i) /\ AtLimit(Now, i)
    BY DEF MemInv
  <2>1. mem_chunks_size[i] = 0 /\ total_size(Now, i) = 0
    BY <1>1, <1>9
  <2>2. MemLimit[i] \in Nat /\ Max(Sizes) \in Nat
    BY <1>1, SettingParts, LargestAppend
  <2>3. \A c \in Chunks : chunk[c].in /= i
    BY <1>2, <1>5, InputChunkAssumption
  <2>4. MemOK(Now, i)
    BY <2>1, <2>2, <2>3, NowFields DEF MemOK, Bounded
  <2>5. AtLimit(Now, i)
    BY <2>1, <2>2, NowFields DEF AtLimit
  <2> QED BY <2>4, <2>5
<1>12. CountInv(Now, {})
  <2>1. \A o \in Limited : fs_chunks_size[o] = 0
    BY <1>1
  <2>2. CountOK(NoChunk)
    BY DEF CountOK, NoChunk
  <2> QED BY <1>2, <1>5, <1>10, <2>1, <2>2, NowFields DEF CountInv
<1>13. Loading
  BY DEF Init, Loading
<1> QED
  BY <1>1, <1>4, <1>6, <1>7, <1>8, <1>11, <1>12, <1>13 DEF FullInv, BaseInv

\* Every step of the engine keeps it.
LEMMA NextInv ==
    ASSUME setting \in Settings, ingestion \in BOOLEAN, Loading, FullInv(Now, {}), [Next]_vars
    PROVE  (setting \in Settings)' /\ (ingestion \in BOOLEAN)' /\ Loading' /\ FullInv(Now, {})'
<1>1. ASSUME NEW i \in Inputs, NEW n \in Sizes, NEW m \in Sizes \cup {0},
             NEW out \in {"ok", "fails", "down", "corrupted"}, AppendRaw(i, n, m, out)
      PROVE  FullInv(Now, {})' /\ Same
  BY <1>1, AppendKeeps
<1>2. ASSUME NEW c \in Chunks, TaskCreate(c) PROVE FullInv(Now, {})' /\ Same
  BY <1>2, TaskCreateKeeps
<1>3. ASSUME NEW c \in Chunks, FlushEmpty(c) PROVE FullInv(Now, {})' /\ Same
  BY <1>3, FlushEmptyKeeps
<1>4. ASSUME NEW c \in Chunks, TaskRetryWait(c) PROVE FullInv(Now, {})' /\ Same
  BY <1>4, TaskRetryWaitKeeps
<1>5. ASSUME NEW c \in Chunks, TaskRetry(c) PROVE FullInv(Now, {})' /\ Same
  BY <1>5, TaskRetryKeeps
<1>6. ASSUME NEW c \in Chunks, TaskEnd(c) PROVE FullInv(Now, {})' /\ Same
  BY <1>6, TaskEndKeeps
<1>7. ASSUME NEW c \in Chunks, NEW o \in Outputs, RouteStart(c, o)
      PROVE  FullInv(Now, {})' /\ Same
  BY <1>7, RouteStartKeeps
<1>8. ASSUME NEW c \in Chunks, NEW o \in Outputs, RouteReturn(c, o)
      PROVE  FullInv(Now, {})' /\ Same
  BY <1>8, RouteReturnKeeps
<1>9. CASE StopIngestion
  <2>1. FullInv(Now, {})' /\ setting' = setting
    BY <1>9, StopIngestionKeeps
  <2>2. ingestion' = FALSE /\ Loading'
    BY <1>9 DEF StopIngestion, Loading, Faults
  <2> QED BY <2>1, <2>2
<1>10. CASE UNCHANGED vars
  <2>1. Now' = Now /\ Same
    BY <1>10 DEF vars, Now, Same
  <2>2. FullInv(Now, {})'
    BY <2>1, StepKeeps
  <2>3. Loading'
    BY <1>10 DEF vars, Loading, Faults
  <2> QED BY <2>1, <2>2, <2>3 DEF Same
<1>11. Same => (setting \in Settings)' /\ (ingestion \in BOOLEAN)' /\ Loading'
  BY DEF Same, Loading, Faults
<1>12. ASSUME NEW S \in SUBSET Chunks, LoadingChanges(S)
       PROVE  (setting \in Settings)' /\ (ingestion \in BOOLEAN)' /\ Loading' /\ FullInv(Now, {})'
  BY <1>12, LoadingKeeps
<1> HIDE DEF FullInv, Same, Loading
<1> QED
  BY <1>1, <1>2, <1>3, <1>4, <1>5, <1>6, <1>7, <1>8, <1>9, <1>10, <1>11, <1>12 DEF Next

\* In every reachable state the lists, the hash table, the pausing, the memory
\* measured and the charges are what the invariant says, through appends,
\* evictions, flushes, retries, failing writes and failing loads: the hash table
\* where loading cannot fail, the memory of a ring buffer where filters do not make
\* data larger, the charges without conditional routes and failing writes.
THEOREM FullInvHolds ==
    Spec => [](setting \in Settings /\ ingestion \in BOOLEAN /\ Loading /\ FullInv(Now, {}))
<1> DEFINE Good == setting \in Settings /\ ingestion \in BOOLEAN /\ Loading /\ FullInv(Now, {})
<1>1. Init => Good
  BY InitInv
<1>2. Good /\ [Next]_vars => Good'
  BY NextInv
<1> QED
  BY <1>1, <1>2, PTL DEF Spec

(***************************************************************************)
(* What follows from it.                                                   *)
(***************************************************************************)
\* A list without repetitions is as long as the set of its elements.
LEMMA OnceLength ==
    ASSUME NEW S, NEW q \in Seq(S), Once(q)
    PROVE  Len(q) = Cardinality(Range(q))
<1> DEFINE D == 1..Len(q)
           R == Range(q)
<1>1. Len(q) \in Nat /\ DOMAIN q = D /\ q \in [D -> S]
  OBVIOUS
<1>2. IsFiniteSet(D) /\ Cardinality(D) = Len(q)
  BY <1>1, FS_Interval
<1>3. R = {q[j] : j \in D}
  BY <1>1 DEF Range
<1> HIDE DEF D, R
<1>4. q \in [D -> R]
  BY <1>1, <1>3
<1>5. q \in Surjection(D, R)
  BY <1>3, <1>4 DEF Surjection
<1>6. q \in Injection(D, R)
  BY <1>1, <1>4 DEF Injection, IsInjective, Once
<1>7. Cardinality(R) = Cardinality(D)
  BY <1>2, <1>5, <1>6, FS_Surjection
<1> QED
  BY <1>2, <1>7 DEF R

\* The lists of the invariant are the ones of the property.
LEMMA ListsFollow ==
    ASSUME setting \in Settings, ingestion \in BOOLEAN, Loading, FullInv(Now, {})
    PROVE  ListsConsistent
<1>1. Now \in State /\ \A i \in Inputs : ListOK(Now, i)
  BY DEF FullInv, BaseInv
<1>2. TypeOK
  BY <1>1, NowFields DEF State, TypeOK, Loading
<1>3. ASSUME NEW i \in Inputs
      PROVE  /\ Range(chunks[i]) = Of(Now, i)
             /\ Len(chunks[i]) = Cardinality(Of(Now, i))
             /\ ("load" \notin Faults => ht[i] \in Of(Now, i) \cup {None})
  <2> DEFINE q == chunks[i]
             R == Range(q)
             O == Of(Now, i)
  <2>1. /\ q \in Seq(Chunks) /\ Once(q) /\ ht[i] \in Chunks \cup {None}
        /\ \A k \in DOMAIN q : chunk[q[k]].in = i
        /\ \A c \in Chunks : chunk[c].in = i => \E k \in DOMAIN q : q[k] = c
        /\ "load" \notin Faults /\ ht[i] /= None => chunk[ht[i]].in = i
    BY <1>1, <1>2, NowFields DEF ListOK, TypeOK, Hashed, Loading
  <2>2. \A k \in DOMAIN q : q[k] \in Chunks
    BY <2>1
  <2>3. \A c : c \in O <=> c \in Chunks /\ chunk[c].in = i
    BY NowFields DEF Of
  <2>4. \A c : c \in R <=> \E k \in DOMAIN q : q[k] = c
    BY DEF Range
  <2> HIDE DEF q, R, O
  <2>5. R = O
    BY <2>1, <2>2, <2>3, <2>4
  <2>6. Len(q) = Cardinality(R)
    BY <2>1, OnceLength DEF R
  <2>7. "load" \notin Faults => ht[i] \in O \cup {None}
    BY <2>1, <2>3
  <2> QED BY <2>5, <2>6, <2>7 DEF q, R, O
<1> QED
  BY <1>2, <1>3 DEF ListsConsistent, ListsExact

\* Appends, evictions, flushes, failed writes and failed loads leave every list
\* with the chunks of its input once each and every counter in its range, and, as
\* long as files can be loaded, the hash table without freed chunks
\* (flb_input_chunk_destroy, whoever calls it).
THEOREM ListsAlwaysConsistent == Spec => []ListsConsistent
<1>1. setting \in Settings /\ ingestion \in BOOLEAN /\ Loading /\ FullInv(Now, {}) => ListsConsistent
  BY ListsFollow
<1> QED
  BY <1>1, FullInvHolds, PTL

\* The plugin collects exactly when the core takes its data: whatever evicts,
\* ends or retries tasks resumes a paused input only below its limits and
\* never after ingestion was stopped (flb_input_chunk_set_limits, protect).
THEOREM PluginAlwaysAgrees == Spec => []PluginAgrees
<1>1. setting \in Settings /\ ingestion \in BOOLEAN /\ Loading /\ FullInv(Now, {}) => PluginAgrees
  BY NowFields DEF FullInv, BaseInv, PauseOK, PluginAgrees
<1> QED
  BY <1>1, FullInvHolds, PTL

\* What an input without a file system buffer keeps in memory is below its
\* limit plus one append, whatever other inputs and tasks do between the
\* measurements, and whatever filters make of the data; a memory ring buffer only
\* if they do not make it larger than what room was made for.
THEOREM MemAlwaysBounded == Spec => []MemBounded
<1>1. setting \in Settings /\ ingestion \in BOOLEAN /\ Loading /\ FullInv(Now, {}) => MemBounded
  BY DEF FullInv, MemInv, MemOK, MemBounded, Bounded, FS
<1> QED
  BY <1>1, FullInvHolds, PTL

\* With static routes and writes that do not fail, an output is charged for
\* the real size of the chunks routed to it, through growth in steps,
\* trimming, eviction for any output, deletion and files that cannot be loaded.
THEOREM SizesAlwaysAccounted == Spec => []SizesAccounted
<1>1. ASSUME FullInv(Now, {}), Countable
      PROVE  \A o \in Limited :
                fs_chunks_size[o] =
                    SumFunction([c \in {c \in Chunks \ Free(Now) :
                                  chunk[c].fs_counted /\ o \in chunk[c].mask}
                         |-> real_size(chunk[c])])
  <2>1. \A o \in Limited : fs_chunks_size[o] = Charged(Now, o)
    BY <1>1, NowFields DEF FullInv, CountInv
  <2>2. \A o : Charged(Now, o) =
            SumFunction([c \in {c \in Chunks \ Free(Now) :
                          chunk[c].fs_counted /\ o \in chunk[c].mask}
                 |-> real_size(chunk[c])])
    BY NowFields DEF Charged
  <2> QED BY <2>1, <2>2
<1>2. setting \in Settings /\ ingestion \in BOOLEAN /\ Loading /\ FullInv(Now, {})
         => SizesAccounted
  BY <1>1 DEF SizesAccounted
<1> QED
  BY <1>2, FullInvHolds, PTL

=============================================================================
