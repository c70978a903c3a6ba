--------------------------- MODULE BacklogProofs ---------------------------
(***************************************************************************)
(* Proofs about Backlog: the queues, the sizes kept for each output, the   *)
(* mapping of files in use and the fate of every file with logs, for any   *)
(* number of files, outputs and restarts, any settings and any damage.     *)
(*                                                                         *)
(* Most handlers go through helpers on the state as a record.  The         *)
(* invariant is stated of such a record, and each helper is shown to keep  *)
(* it; for the loops this is an instance of FoldProofs!FoldKeeps.          *)
(***************************************************************************)
EXTENDS Backlog, FiniteSetTheorems, SequenceTheorems, TLAPS

(***************************************************************************)
(* The invariant.                                                          *)
(***************************************************************************)
Queue == [ins : Outputs, chunks : Seq(Chunks)]
State == [disk : SUBSET Chunks, backlogs : Seq(Queue), chunks : Seq(Chunks),
          ic : [Chunks -> InputChunk], up : SUBSET Chunks, fs : [Limited -> Int],
          bl : [Outputs -> Int], dropped : [Chunks -> SUBSET Outputs]]

\* The list of the input has each loaded chunk once.
Listed(s) ==
    /\ IsInjective(s.chunks)
    /\ \A c \in Chunks : s.ic[c].loaded <=> c \in Range(s.chunks)

\* A loaded chunk is a file with logs, its mask has the routes it came with
\* and only a task has routes that wait or run.
ChunkOK(s, c) ==
    IF s.ic[c].loaded
    THEN /\ c \in s.disk /\ Kind[c] = "logs" /\ s.ic[c].mask = routes(c)
         /\ s.ic[c].todo \subseteq routes(c) /\ s.ic[c].running \subseteq routes(c)
         /\ s.ic[c].todo /= {} \/ s.ic[c].running /= {} => s.ic[c].task
    ELSE s.ic[c] = NotLoaded
ChunksOK(s) == \A c \in Chunks : ChunkOK(s, c)

BacklogCounted(s) == \A o \in Outputs : s.bl[o] = Cardinality(References(s.backlogs, o))
Routed(s, o) == {c \in Chunks : o \in s.ic[c].mask}
LoadedCounted(s) == \A o \in Limited : s.fs[o] = Cardinality(Routed(s, o))

\* The queues name each file once, one that exists and is not loaded, except
\* for those in X.
QueuesOK(s, X) ==
    \A q \in DOMAIN s.backlogs :
        /\ IsInjective(s.backlogs[q].chunks)
        /\ \A c \in Range(s.backlogs[q].chunks) : c \in X \/ (c \in s.disk /\ ~s.ic[c].loaded)

MappedInUse(s) == \A c \in Chunks : s.ic[c].running /= {} => c \in s.up

\* The routes of a chunk that are neither waiting nor running are done, as are
\* all those of a file with logs that is gone; d is what was delivered.
Accounted(s, d) ==
    \A c \in Chunks :
        /\ s.ic[c].task => \A o \in s.ic[c].mask : \/ o \in s.ic[c].todo \cup s.ic[c].running
                                                   \/ o \in d[c] \cup s.dropped[c]
        /\ c \notin s.disk /\ Kind[c] = "logs" => routes(c) \subseteq d[c] \cup s.dropped[c]

\* w: the queues were built again at shutdown.
StateInv(s, w, d, X) ==
    /\ s \in State
    /\ Listed(s) /\ ChunksOK(s)
    /\ BacklogCounted(s) /\ LoadedCounted(s)
    /\ w \/ (QueuesOK(s, X) /\ MappedInUse(s))
    /\ KeepsFiles => Accounted(s, d)

\* Every output has a queue.
HasQueues(s) == \A o \in Outputs : \E q \in DOMAIN s.backlogs : s.backlogs[q].ins = o

IndInv ==
    /\ setting \in Settings
    /\ phase \in {"off", "running", "stopping", "hung"}
    /\ flushed_backlog \in BOOLEAN
    /\ delivered \in [Chunks -> SUBSET Outputs]
    /\ StateInv(Now, flushed_backlog, delivered, {})
    /\ flushed_backlog => phase = "stopping"
    /\ phase = "off" => backlogs = <<>> /\ chunks = <<>>
    /\ phase /= "off" => HasQueues(Now)

(***************************************************************************)
(* The loops, with what holds after k steps.                               *)
(***************************************************************************)
\* When the service starts nothing is loaded, and after k files the queues
\* name no later one.
NoneLoaded(s) == \A c \in Chunks : ~s.ic[c].loaded
NamesUpTo(s, k) == \A q \in DOMAIN s.backlogs : \A c \in Range(s.backlogs[q].chunks) : c <= k
SegregateStep(t, c, o, u) == segregate_chunk(t, c)
SegregateInv(t, k, p) ==
    /\ StateInv(t, p.w, p.d, {}) /\ HasQueues(t)
    /\ p.w \/ (NoneLoaded(t) /\ NamesUpTo(t, k))
FS1 == INSTANCE FoldProofs WITH Op <- SegregateStep, Inv <- SegregateInv

VisitStep(a, q, o, u) == visit(a, q)
VisitInv(a, k, p) ==
    /\ a = [s |-> a.s, total |-> a.total, short |-> a.short]
    /\ KeepsFiles => a.short = {}
    /\ StateInv(a.s, FALSE, p.d, {}) /\ HasQueues(a.s)
    /\ Len(a.s.backlogs) = p.n
FS2 == INSTANCE FoldProofs WITH Op <- VisitStep, Inv <- VisitInv

RoundStep(a, k, o, u) == IF More(a) THEN round(a) ELSE a
FS3 == INSTANCE FoldProofs WITH Op <- RoundStep, Inv <- VisitInv

EvictStep(a, c, o, u) == evict_loaded(a, c, o)
EvictInv(a, k, p) ==
    /\ a = [s |-> a.s, done |-> a.done]
    /\ StateInv(a.s, FALSE, p.d, {}) /\ HasQueues(a.s)
FS4 == INSTANCE FoldProofs WITH Op <- EvictStep, Inv <- EvictInv

(***************************************************************************)
(* Lists.                                                                  *)
(***************************************************************************)
\* What RemoveFirst returns when the list has e at k.
RemovedAt(q, k, r) ==
    /\ Len(q) = Len(r) + 1
    /\ \A j \in 1..Len(r) : r[j] = IF j < k THEN q[j] ELSE q[j + 1]

\* RemoveFirst takes out one element, the one asked for, and leaves a list
\* without it alone.
LEMMA RemoveFirstList ==
    ASSUME NEW A, NEW q \in Seq(A), NEW e
    PROVE  /\ RemoveFirst(q, e) \in Seq(A)
           /\ e \notin Range(q) => RemoveFirst(q, e) = q
           /\ e \in Range(q) => \E k \in DOMAIN q : q[k] = e /\ RemovedAt(q, k, RemoveFirst(q, e))
<1>1. CASE e \notin Range(q)
  <2>1. ~ \E i \in 1..Len(q) : q[i] = e
    BY <1>1 DEF Range
  <2>2. RemoveFirst(q, e) = q
    BY <2>1 DEF RemoveFirst
  <2> QED BY <1>1, <2>2
<1>2. CASE e \in Range(q)
  <2> DEFINE I == {i \in 1..Len(q) : q[i] = e}
             k == CHOOSE x \in I : \A y \in I : x =< y
  <2>1. I /= {} /\ I \in SUBSET Nat /\ \E i \in 1..Len(q) : q[i] = e
    BY <1>2 DEF Range
  <2>2. k \in I
    <3>1. \E x \in I : \A y \in I : x <= y
      BY <2>1, FS1!LeastNat
    <3> QED BY <3>1
  <2>3. RemoveFirst(q, e) = RemoveAt(q, k)
    BY <2>1 DEF RemoveFirst, SelectInSeq, Min
  <2>4. k \in 1..Len(q) /\ q[k] = e /\ k \in DOMAIN q
    BY <2>2
  <2> HIDE DEF k, I
  <2> DEFINE a == SubSeq(q, 1, k - 1)
             b == SubSeq(q, k + 1, Len(q))
  <2>5. /\ a \in Seq(A) /\ Len(a) = k - 1 /\ \A j \in 1..(k - 1) : a[j] = q[j]
        /\ b \in Seq(A) /\ Len(b) = Len(q) - k
        /\ \A j \in 1..(Len(q) - k) : b[j] = q[j + k]
    BY <2>4, SubSeqProperties
  <2>6. RemoveFirst(q, e) = a \o b
    BY <2>3 DEF RemoveAt
  <2> HIDE DEF a, b
  <2>7. /\ a \o b \in Seq(A) /\ Len(a \o b) = Len(q) - 1
        /\ \A j \in 1..Len(a \o b) : (a \o b)[j] = IF j < k THEN q[j] ELSE q[j + 1]
    BY <2>4, <2>5
  <2>8. RemovedAt(q, k, RemoveFirst(q, e))
    BY <2>6, <2>7 DEF RemovedAt
  <2> QED BY <1>2, <2>4, <2>6, <2>7, <2>8
<1> QED BY <1>1, <1>2

\* Taking an element out of a list without repetitions.
LEMMA RemoveFirstOnce ==
    ASSUME NEW A, NEW q \in Seq(A), NEW e, IsInjective(q)
    PROVE  /\ IsInjective(RemoveFirst(q, e))
           /\ Range(RemoveFirst(q, e)) = Range(q) \ {e}
<1> DEFINE r == RemoveFirst(q, e)
<1>1. CASE e \notin Range(q)
  BY <1>1, RemoveFirstList
<1>2. CASE e \in Range(q)
  <2>1. r \in Seq(A)
    BY RemoveFirstList
  <2>2. PICK k \in DOMAIN q : q[k] = e /\ RemovedAt(q, k, r)
    BY <1>2, RemoveFirstList
  <2> HIDE DEF r
  <2>3. /\ DOMAIN q = 1..Len(q) /\ DOMAIN r = 1..Len(r) /\ Len(q) = Len(r) + 1
        /\ Len(q) \in Nat /\ Len(r) \in Nat /\ k \in 1..Len(q)
        /\ \A j \in DOMAIN r : r[j] = IF j < k THEN q[j] ELSE q[j + 1]
    BY <2>1, <2>2 DEF RemovedAt
  <2>4. \A j \in DOMAIN r : \E i \in DOMAIN q : i /= k /\ r[j] = q[i] /\ i = IF j < k THEN j ELSE j + 1
    <3> SUFFICES ASSUME NEW j \in DOMAIN r
                 PROVE  \E i \in DOMAIN q : i /= k /\ r[j] = q[i] /\ i = IF j < k THEN j ELSE j + 1
      OBVIOUS
    <3>1. CASE j < k
      BY <2>3, <3>1
    <3>2. CASE ~(j < k)
      <4>1. j + 1 \in DOMAIN q /\ j + 1 /= k /\ r[j] = q[j + 1]
        BY <2>3, <3>2
      <4> QED BY <3>2, <4>1
    <3> QED BY <3>1, <3>2
  <2>5. \A i \in DOMAIN q : i /= k => \E j \in DOMAIN r : r[j] = q[i]
    <3> SUFFICES ASSUME NEW i \in DOMAIN q, i /= k PROVE \E j \in DOMAIN r : r[j] = q[i]
      OBVIOUS
    <3>1. CASE i < k
      BY <2>3, <3>1
    <3>2. CASE i > k
      <4>1. i - 1 \in DOMAIN r /\ ~(i - 1 < k) /\ (i - 1) + 1 = i
        BY <2>3, <3>2
      <4> QED BY <2>3, <4>1
    <3> QED BY <2>3, <3>1, <3>2
  <2>6. IsInjective(r)
    <3> SUFFICES ASSUME NEW j \in DOMAIN r, NEW m \in DOMAIN r, r[j] = r[m] PROVE j = m
      BY DEF IsInjective
    <3>1. PICK i \in DOMAIN q : r[j] = q[i] /\ i = IF j < k THEN j ELSE j + 1
      BY <2>4
    <3>2. PICK l \in DOMAIN q : r[m] = q[l] /\ l = IF m < k THEN m ELSE m + 1
      BY <2>4
    <3>3. i = l
      BY <3>1, <3>2 DEF IsInjective
    <3> QED BY <2>3, <3>1, <3>2, <3>3
  <2>7. Range(r) \subseteq Range(q) \ {e}
    <3> SUFFICES ASSUME NEW j \in DOMAIN r PROVE r[j] \in Range(q) /\ r[j] /= e
      BY DEF Range
    <3>1. PICK i \in DOMAIN q : i /= k /\ r[j] = q[i]
      BY <2>4
    <3> QED BY <2>2, <3>1 DEF IsInjective, Range
  <2>8. Range(q) \ {e} \subseteq Range(r)
    <3> SUFFICES ASSUME NEW i \in DOMAIN q, q[i] /= e PROVE q[i] \in Range(r)
      BY DEF Range
    <3>1. i /= k
      BY <2>2
    <3> QED BY <2>5, <3>1 DEF Range
  <2>9. IsInjective(r) /\ Range(r) = Range(q) \ {e}
    BY <2>6, <2>7, <2>8
  <2> QED BY <2>9 DEF r
<1> QED BY <1>1, <1>2

\* A list has finitely many places.
LEMMA DomainFinite ==
    ASSUME NEW A, NEW q \in Seq(A)
    PROVE  IsFiniteSet(DOMAIN q)
<1>1. DOMAIN q = 1..Len(q) /\ Len(q) \in Int /\ 1 \in Int
  OBVIOUS
<1> QED BY <1>1, FS_Interval

\* Appending to a list.
LEMMA AppendList ==
    ASSUME NEW A, NEW q \in Seq(A), NEW e \in A
    PROVE  /\ Append(q, e) \in Seq(A) /\ Len(Append(q, e)) = Len(q) + 1
           /\ Range(Append(q, e)) = Range(q) \cup {e}
           /\ IsInjective(q) /\ e \notin Range(q) => IsInjective(Append(q, e))
<1> DEFINE r == Append(q, e)
<1>1. /\ r \in Seq(A) /\ Len(r) = Len(q) + 1 /\ r[Len(q) + 1] = e
      /\ DOMAIN q = 1..Len(q) /\ DOMAIN r = 1..(Len(q) + 1) /\ Len(q) \in Nat
      /\ \A j \in 1..Len(q) : r[j] = q[j]
  OBVIOUS
<1> HIDE DEF r
<1>2. \A j \in DOMAIN r : j \in DOMAIN q \/ j = Len(q) + 1
  BY <1>1
<1>3. \A j \in DOMAIN q : j \in DOMAIN r
  BY <1>1
<1>4. Len(q) + 1 \in DOMAIN r
  BY <1>1
<1>5. Range(r) = Range(q) \cup {e}
  BY <1>1, <1>2, <1>3, <1>4 DEF Range
<1>6. ASSUME IsInjective(q), e \notin Range(q) PROVE IsInjective(r)
  BY <1>1, <1>2, <1>6 DEF IsInjective, Range
<1> QED BY <1>1, <1>5, <1>6 DEF r

(***************************************************************************)
(* References.                                                             *)
(***************************************************************************)
\* The queues of b2 are those of b1 with one place more in each queue of Q.
OneMore(b1, b2, Q) ==
    /\ DOMAIN b1 = DOMAIN b2 /\ Q \subseteq DOMAIN b1
    /\ \A q \in DOMAIN b1 :
          /\ b1[q].ins = b2[q].ins
          /\ q \in Q => Len(b2[q].chunks) = Len(b1[q].chunks) + 1
          /\ q \notin Q => Len(b2[q].chunks) = Len(b1[q].chunks)

\* The references are finite in number.
LEMMA ReferencesFinite ==
    ASSUME NEW b \in Seq(Queue), NEW o
    PROVE  IsFiniteSet(References(b, o)) /\ Cardinality(References(b, o)) \in Nat
<1> DEFINE P == {p \in DOMAIN b : b[p].ins = o}
           M == {{q} \X DOMAIN b[q].chunks : q \in P}
<1>1. IsFiniteSet(DOMAIN b)
  BY FS_Interval
<1>2. IsFiniteSet(P)
  BY <1>1, FS_Subset
<1>3. IsFiniteSet(M)
  <2> DEFINE f == [q \in P |-> {q} \X DOMAIN b[q].chunks]
  <2>1. f \in Surjection(P, M)
    BY DEF Surjection
  <2> HIDE DEF P, M, f
  <2> QED BY <1>2, <2>1, FS_Surjection
<1>4. \A m \in M : IsFiniteSet(m)
  <2> SUFFICES ASSUME NEW q \in P PROVE IsFiniteSet({q} \X DOMAIN b[q].chunks)
    OBVIOUS
  <2>1. b[q].chunks \in Seq(Chunks)
    <3>1. b[q] \in Queue
      OBVIOUS
    <3> QED BY <3>1 DEF Queue
  <2>2. IsFiniteSet(DOMAIN b[q].chunks)
    BY <2>1, FS_Interval
  <2> QED BY <2>2, FS_Singleton, FS_Product
<1>5. IsFiniteSet(UNION M)
  <2> HIDE DEF M
  <2> QED BY <1>3, <1>4, FS_UNION
<1> QED BY <1>5, FS_CardinalityType DEF References

\* A place more in a queue is a reference more.
LEMMA ReferencesGrow ==
    ASSUME NEW b1 \in Seq(Queue), NEW b2 \in Seq(Queue), NEW Q, OneMore(b1, b2, Q), NEW o
    PROVE  Cardinality(References(b2, o))
             = Cardinality(References(b1, o)) + Cardinality({q \in Q : b1[q].ins = o})
<1> DEFINE N == {q \in Q : b1[q].ins = o}
           f == [q \in N |-> <<q, Len(b2[q].chunks)>>]
           E == {<<q, Len(b2[q].chunks)>> : q \in N}
<1>1. /\ DOMAIN b1 = DOMAIN b2 /\ Q \subseteq DOMAIN b1
      /\ \A q \in DOMAIN b1 : /\ b1[q].ins = b2[q].ins
                              /\ DOMAIN b1[q].chunks = 1..Len(b1[q].chunks)
                              /\ DOMAIN b2[q].chunks = 1..Len(b2[q].chunks)
                              /\ Len(b1[q].chunks) \in Nat /\ Len(b2[q].chunks) \in Nat
                              /\ q \in Q => Len(b2[q].chunks) = Len(b1[q].chunks) + 1
                              /\ q \notin Q => Len(b2[q].chunks) = Len(b1[q].chunks)
  <2>1. \A q \in DOMAIN b1 : b1[q].chunks \in Seq(Chunks)
    <3>1. \A q \in DOMAIN b1 : b1[q] \in Queue
      OBVIOUS
    <3> QED BY <3>1 DEF Queue
  <2>2. \A q \in DOMAIN b2 : b2[q].chunks \in Seq(Chunks)
    <3>1. \A q \in DOMAIN b2 : b2[q] \in Queue
      OBVIOUS
    <3> QED BY <3>1 DEF Queue
  <2> QED BY <2>1, <2>2 DEF OneMore
<1>2. IsFiniteSet(N)
  <2>1. IsFiniteSet(DOMAIN b1)
    BY FS_Interval
  <2> QED BY <1>1, <2>1, FS_Subset
<1>3. Cardinality(E) = Cardinality(N) /\ IsFiniteSet(E)
  <2>1. f \in Bijection(N, E)
    BY DEF Bijection, Injection, Surjection, IsInjective
  <2> HIDE DEF N, E, f
  <2> QED BY <1>2, <2>1, FS_Bijection DEF ExistsBijection
<1>4. References(b2, o) = References(b1, o) \cup E
  <2>1. ASSUME NEW x \in References(b2, o) PROVE x \in References(b1, o) \cup E
    <3>1. PICK q \in DOMAIN b2 : b2[q].ins = o /\ x \in {q} \X DOMAIN b2[q].chunks
      BY <2>1 DEF References
    <3>2. PICK j \in 1..Len(b2[q].chunks) : x = <<q, j>>
      BY <1>1, <3>1
    <3>3. CASE j \in 1..Len(b1[q].chunks)
      <4>1. x \in {q} \X DOMAIN b1[q].chunks
        BY <1>1, <3>1, <3>2, <3>3
      <4> QED BY <1>1, <3>1, <4>1 DEF References
    <3>4. CASE j \notin 1..Len(b1[q].chunks)
      <4>1. q \in Q /\ j = Len(b2[q].chunks)
        BY <1>1, <3>1, <3>2, <3>4
      <4>2. q \in N
        BY <1>1, <3>1, <4>1
      <4> QED BY <3>2, <4>1, <4>2
    <3> QED BY <3>3, <3>4
  <2>2. ASSUME NEW x \in References(b1, o) PROVE x \in References(b2, o)
    <3>1. PICK q \in DOMAIN b1 : b1[q].ins = o /\ x \in {q} \X DOMAIN b1[q].chunks
      BY <2>2 DEF References
    <3>2. DOMAIN b1[q].chunks \subseteq DOMAIN b2[q].chunks
      BY <1>1
    <3>3. x \in {q} \X DOMAIN b2[q].chunks
      BY <3>1, <3>2
    <3> QED BY <1>1, <3>1, <3>3 DEF References
  <2>3. ASSUME NEW q \in N PROVE <<q, Len(b2[q].chunks)>> \in References(b2, o)
    <3>1. q \in DOMAIN b2 /\ b2[q].ins = o /\ Len(b2[q].chunks) \in DOMAIN b2[q].chunks
      BY <1>1
    <3>2. <<q, Len(b2[q].chunks)>> \in {q} \X DOMAIN b2[q].chunks
      BY <3>1
    <3> QED BY <3>1, <3>2 DEF References
  <2> QED BY <2>1, <2>2, <2>3
<1>5. References(b1, o) \cap E = {}
  <2> SUFFICES ASSUME NEW q \in N, <<q, Len(b2[q].chunks)>> \in References(b1, o) PROVE FALSE
    OBVIOUS
  <2>1. PICK r \in DOMAIN b1 : <<q, Len(b2[q].chunks)>> \in {r} \X DOMAIN b1[r].chunks
    BY DEF References
  <2>2. r = q /\ Len(b2[q].chunks) \in DOMAIN b1[q].chunks
    BY <2>1
  <2> QED BY <1>1, <2>2
<1> HIDE DEF N, E, f
<1>6. IsFiniteSet(References(b1, o)) /\ Cardinality(References(b1, o)) \in Nat
  BY ReferencesFinite
<1>7. Cardinality(References(b1, o) \cup E)
        = Cardinality(References(b1, o)) + Cardinality(E) - Cardinality(References(b1, o) \cap E)
  BY <1>3, <1>6, FS_Union
<1>8. Cardinality(References(b1, o) \cap E) = 0 /\ Cardinality(N) \in Nat
  BY <1>2, <1>5, FS_EmptySet, FS_CardinalityType
<1>9. Cardinality(References(b2, o)) = Cardinality(References(b1, o)) + Cardinality(N)
  BY <1>3, <1>4, <1>6, <1>7, <1>8
<1> QED BY <1>9 DEF N

(***************************************************************************)
(* The settings.                                                           *)
(***************************************************************************)
\* The outputs of a chunk and those with a limit are outputs.
LEMMA SettingParts ==
    ASSUME setting \in Settings
    PROVE  /\ Limited \subseteq Outputs
           /\ \A c \in Chunks : Tagged[c] \subseteq Outputs /\ routes(c) \subseteq Outputs
<1>1. setting \in Setting
  BY BacklogAssumption
<1>2. /\ setting.Limited \subseteq Outputs
      /\ setting.Tagged \in [Chunks -> SUBSET Outputs]
      /\ setting.Stored \in [Chunks -> SUBSET Outputs]
  BY <1>1 DEF Setting
<1> QED BY <1>2 DEF Limited, Tagged, Stored, routes

\* A chunk that is not loaded has no routes.
LEMMA NotLoadedFields ==
    /\ NotLoaded \in InputChunk /\ ~NotLoaded.loaded /\ ~NotLoaded.task
    /\ NotLoaded.mask = {} /\ NotLoaded.todo = {} /\ NotLoaded.running = {}
    /\ NotLoaded.evicted = {}
BY DEF NotLoaded, InputChunk

\* The parts of the invariant.
LEMMA StateParts ==
    ASSUME NEW s \in State
    PROVE  /\ s.disk \subseteq Chunks /\ s.up \subseteq Chunks
           /\ s.backlogs \in Seq(Queue) /\ s.chunks \in Seq(Chunks)
           /\ s.ic \in [Chunks -> InputChunk]
           /\ s.fs \in [Limited -> Int] /\ s.bl \in [Outputs -> Int]
           /\ s.dropped \in [Chunks -> SUBSET Outputs]
BY DEF State

\* The fields of the chunk c.
LEMMA ChunkParts ==
    ASSUME NEW s \in State, NEW c \in Chunks
    PROVE  /\ s.ic[c] \in InputChunk
           /\ s.ic[c].loaded \in BOOLEAN /\ s.ic[c].task \in BOOLEAN
           /\ s.ic[c].mask \subseteq Outputs /\ s.ic[c].todo \subseteq Outputs
           /\ s.ic[c].running \subseteq Outputs /\ s.ic[c].evicted \subseteq Outputs
<1>1. s.ic[c] \in InputChunk
  BY StateParts
<1> QED BY <1>1 DEF InputChunk

\* A queue is a list of chunks for an output.
LEMMA QueueParts ==
    ASSUME NEW s \in State, NEW q \in DOMAIN s.backlogs
    PROVE  /\ s.backlogs[q] \in Queue
           /\ s.backlogs[q].ins \in Outputs /\ s.backlogs[q].chunks \in Seq(Chunks)
<1>1. s.backlogs[q] \in Queue
  BY StateParts
<1> QED BY <1>1 DEF Queue

\* A chunk that is not loaded runs nowhere.
LEMMA IdleChunk ==
    ASSUME NEW s, ChunksOK(s), NEW c \in Chunks, ~s.ic[c].loaded
    PROVE  s.ic[c] = NotLoaded /\ s.ic[c].running = {} /\ s.ic[c].mask = {} /\ ~s.ic[c].task
BY NotLoadedFields DEF ChunksOK, ChunkOK

(***************************************************************************)
(* A file is deleted.                                                      *)
(***************************************************************************)
InNoQueue(s, c) == \A q \in DOMAIN s.backlogs : c \notin Range(s.backlogs[q].chunks)

\* What deleted changes.
LEMMA Deleted ==
    ASSUME NEW s \in State, NEW c \in Chunks
    PROVE  /\ deleted(s, c) \in State
           /\ deleted(s, c).disk = s.disk \ {c} /\ deleted(s, c).up = s.up \ {c}
           /\ deleted(s, c).backlogs = s.backlogs /\ deleted(s, c).chunks = s.chunks
           /\ deleted(s, c).ic = s.ic /\ deleted(s, c).fs = s.fs
           /\ deleted(s, c).bl = s.bl /\ deleted(s, c).dropped = s.dropped
<1> DEFINE D == s.disk \ {c}
           U == s.up \ {c}
<1>1. D \subseteq Chunks /\ U \subseteq Chunks
  BY StateParts
<1>2. deleted(s, c) = [s EXCEPT !.disk = D, !.up = U]
  BY DEF deleted
<1> HIDE DEF D, U
<1>3. /\ deleted(s, c) \in State
      /\ deleted(s, c).disk = D /\ deleted(s, c).up = U
      /\ deleted(s, c).backlogs = s.backlogs /\ deleted(s, c).chunks = s.chunks
      /\ deleted(s, c).ic = s.ic /\ deleted(s, c).fs = s.fs
      /\ deleted(s, c).bl = s.bl /\ deleted(s, c).dropped = s.dropped
  BY <1>1, <1>2 DEF State
<1> QED BY <1>3 DEF D, U

\* A file no queue names may go when it is damaged, or when space is short.
LEMMA DeletedKeeps ==
    ASSUME NEW s, NEW w, NEW d, NEW c \in Chunks, StateInv(s, w, d, {}),
           ~s.ic[c].loaded, w \/ InNoQueue(s, c), Kind[c] /= "logs" \/ ~KeepsFiles
    PROVE  StateInv(deleted(s, c), w, d, {})
<1> DEFINE t == deleted(s, c)
<1>1. s \in State
  BY DEF StateInv
<1>2. /\ t \in State
      /\ t.disk = s.disk \ {c} /\ t.up = s.up \ {c} /\ t.backlogs = s.backlogs
      /\ t.chunks = s.chunks /\ t.ic = s.ic /\ t.fs = s.fs /\ t.bl = s.bl
      /\ t.dropped = s.dropped
  BY <1>1, Deleted
<1> HIDE DEF t
<1>3. Listed(t)
  BY <1>2 DEF StateInv, Listed
<1>4. ChunksOK(t)
  BY <1>2 DEF StateInv, ChunksOK, ChunkOK
<1>5. BacklogCounted(t) /\ LoadedCounted(t)
  BY <1>2 DEF StateInv, BacklogCounted, LoadedCounted, Routed
<1>6. ASSUME ~w PROVE QueuesOK(t, {}) /\ MappedInUse(t)
  <2>1. QueuesOK(s, {}) /\ MappedInUse(s) /\ InNoQueue(s, c)
    BY <1>6 DEF StateInv
  <2>2. s.ic[c].running = {}
    BY IdleChunk DEF StateInv
  <2>3. QueuesOK(t, {})
    BY <1>2, <2>1 DEF QueuesOK, InNoQueue
  <2>4. MappedInUse(t)
    BY <1>2, <2>1, <2>2 DEF MappedInUse
  <2> QED BY <2>3, <2>4
<1>7. ASSUME KeepsFiles PROVE Accounted(t, d)
  BY <1>2, <1>7 DEF StateInv, Accounted
<1>8. StateInv(t, w, d, {})
  BY <1>2, <1>3, <1>4, <1>5, <1>6, <1>7 DEF StateInv
<1> QED BY <1>8 DEF t

(***************************************************************************)
(* A chunk leaves the queues.                                              *)
(***************************************************************************)
\* What removed changes.
RemovedTo(s, c, t) ==
    /\ t \in State
    /\ DOMAIN t.backlogs = DOMAIN s.backlogs
    /\ \A q \in DOMAIN s.backlogs :
          /\ t.backlogs[q].ins = s.backlogs[q].ins
          /\ t.backlogs[q].chunks = RemoveFirst(s.backlogs[q].chunks, c)
    /\ \A o \in Outputs : t.bl[o] = s.bl[o] - Holding(s, c, o)
    /\ t.disk = s.disk /\ t.chunks = s.chunks /\ t.ic = s.ic /\ t.up = s.up
    /\ t.fs = s.fs /\ t.dropped = s.dropped

\* removed takes the first reference out of each queue.
LEMMA Removed ==
    ASSUME NEW s \in State, NEW c
    PROVE  RemovedTo(s, c, removed(s, c))
<1> DEFINE H(o) == Holding(s, c, o)
           b == [q \in DOMAIN s.backlogs |->
                    [s.backlogs[q] EXCEPT !.chunks = RemoveFirst(s.backlogs[q].chunks, c)]]
           l == [o \in Outputs |-> s.bl[o] - H(o)]
<1>1. removed(s, c) = [s EXCEPT !.backlogs = b, !.bl = l]
  BY DEF removed
<1>2. \A o : Holding(s, c, o) \in Nat
  <2> SUFFICES ASSUME NEW o PROVE Holding(s, c, o) \in Nat
    OBVIOUS
  <2> DEFINE S == {q \in DOMAIN s.backlogs : s.backlogs[q].ins = o /\ c \in Range(s.backlogs[q].chunks)}
  <2>1. s.backlogs \in Seq(Queue)
    BY StateParts
  <2>2. IsFiniteSet(DOMAIN s.backlogs)
    BY <2>1, FS_Interval
  <2>3. IsFiniteSet(S)
    BY <2>2, FS_Subset
  <2> QED BY <2>3, FS_CardinalityType DEF Holding
<1>3. l \in [Outputs -> Int] /\ \A o \in Outputs : l[o] = s.bl[o] - H(o)
  BY <1>2, StateParts
<1>4. \A q \in DOMAIN s.backlogs :
        /\ b[q] \in Queue /\ b[q].ins = s.backlogs[q].ins
        /\ b[q].chunks = RemoveFirst(s.backlogs[q].chunks, c)
  <2> SUFFICES ASSUME NEW q \in DOMAIN s.backlogs
               PROVE  /\ b[q] \in Queue /\ b[q].ins = s.backlogs[q].ins
                      /\ b[q].chunks = RemoveFirst(s.backlogs[q].chunks, c)
    OBVIOUS
  <2> DEFINE r == RemoveFirst(s.backlogs[q].chunks, c)
  <2>1. s.backlogs[q] \in Queue /\ s.backlogs[q].chunks \in Seq(Chunks)
    BY QueueParts
  <2>2. r \in Seq(Chunks)
    BY <2>1, RemoveFirstList
  <2>3. b[q] = [s.backlogs[q] EXCEPT !.chunks = r]
    OBVIOUS
  <2> HIDE DEF r, b
  <2>4. b[q] \in Queue /\ b[q].ins = s.backlogs[q].ins /\ b[q].chunks = r
    BY <2>1, <2>2, <2>3 DEF Queue
  <2> QED BY <2>4 DEF r
<1>5. DOMAIN b = DOMAIN s.backlogs /\ b \in Seq(Queue)
  <2>1. s.backlogs \in Seq(Queue)
    BY StateParts
  <2>2. DOMAIN s.backlogs = 1..Len(s.backlogs) /\ Len(s.backlogs) \in Nat
    BY <2>1
  <2>3. b \in [1..Len(s.backlogs) -> Queue]
    BY <1>4, <2>2
  <2>4. b \in Seq(Queue)
    <3> HIDE DEF b
    <3> QED BY <2>2, <2>3
  <2> QED BY <2>4
<1> HIDE DEF b, l
<1>6. /\ removed(s, c) \in State
      /\ removed(s, c).backlogs = b /\ removed(s, c).bl = l
      /\ removed(s, c).disk = s.disk /\ removed(s, c).chunks = s.chunks
      /\ removed(s, c).ic = s.ic /\ removed(s, c).up = s.up
      /\ removed(s, c).fs = s.fs /\ removed(s, c).dropped = s.dropped
  <2>1. l \in [Outputs -> Int] /\ b \in Seq(Queue)
    BY <1>3, <1>5
  <2> QED BY <1>1, <2>1 DEF State
<1>7. \A o \in Outputs : l[o] = s.bl[o] - Holding(s, c, o)
  BY <1>3
<1> QED BY <1>4, <1>5, <1>6, <1>7 DEF RemovedTo

\* The queues and the sizes agree after it, and the chunk is in no queue.
LEMMA RemovedKeeps ==
    ASSUME NEW s, NEW d, NEW c \in Chunks, NEW X, StateInv(s, FALSE, d, X),
           \A x \in X : x = c
    PROVE  /\ StateInv(removed(s, c), FALSE, d, {})
           /\ InNoQueue(removed(s, c), c)
           /\ removed(s, c).ic = s.ic
           /\ HasQueues(s) => HasQueues(removed(s, c))
           /\ Len(removed(s, c).backlogs) = Len(s.backlogs)
<1> DEFINE t == removed(s, c)
           Q == {q \in DOMAIN s.backlogs : c \in Range(s.backlogs[q].chunks)}
<1>1. s \in State
  BY DEF StateInv
<1>2. RemovedTo(s, c, t)
  BY <1>1, Removed
<1> HIDE DEF t
<1>3. /\ t \in State /\ DOMAIN t.backlogs = DOMAIN s.backlogs
      /\ \A q \in DOMAIN s.backlogs :
            /\ t.backlogs[q].ins = s.backlogs[q].ins
            /\ t.backlogs[q].chunks = RemoveFirst(s.backlogs[q].chunks, c)
      /\ \A o \in Outputs : t.bl[o] = s.bl[o] - Holding(s, c, o)
      /\ t.disk = s.disk /\ t.chunks = s.chunks /\ t.ic = s.ic /\ t.up = s.up
      /\ t.fs = s.fs /\ t.dropped = s.dropped
  BY <1>2 DEF RemovedTo
<1>4. QueuesOK(s, X) /\ MappedInUse(s)
  BY DEF StateInv
<1>5. \A q \in DOMAIN s.backlogs :
        /\ s.backlogs[q].chunks \in Seq(Chunks)
        /\ IsInjective(t.backlogs[q].chunks)
        /\ Range(t.backlogs[q].chunks) = Range(s.backlogs[q].chunks) \ {c}
  <2> SUFFICES ASSUME NEW q \in DOMAIN s.backlogs
               PROVE  /\ s.backlogs[q].chunks \in Seq(Chunks)
                      /\ IsInjective(RemoveFirst(s.backlogs[q].chunks, c))
                      /\ Range(RemoveFirst(s.backlogs[q].chunks, c))
                           = Range(s.backlogs[q].chunks) \ {c}
    BY <1>3
  <2>1. s.backlogs[q].chunks \in Seq(Chunks)
    BY <1>1, QueueParts
  <2>2. IsInjective(s.backlogs[q].chunks)
    BY <1>4 DEF QueuesOK
  <2> QED BY <2>1, <2>2, RemoveFirstOnce
<1>6. InNoQueue(t, c)
  BY <1>3, <1>5 DEF InNoQueue
<1>7. QueuesOK(t, {})
  <2> SUFFICES ASSUME NEW q \in DOMAIN s.backlogs
               PROVE  /\ IsInjective(t.backlogs[q].chunks)
                      /\ \A x \in Range(t.backlogs[q].chunks) : x \in s.disk /\ ~s.ic[x].loaded
    BY <1>3 DEF QueuesOK
  <2>1. \A x \in Range(s.backlogs[q].chunks) : x \in X \/ (x \in s.disk /\ ~s.ic[x].loaded)
    BY <1>4 DEF QueuesOK
  <2>2. /\ IsInjective(t.backlogs[q].chunks)
        /\ Range(t.backlogs[q].chunks) = Range(s.backlogs[q].chunks) \ {c}
    BY <1>5
  <2> QED BY <2>1, <2>2
<1>8. OneMore(t.backlogs, s.backlogs, Q)
  <2> SUFFICES ASSUME NEW q \in DOMAIN s.backlogs
               PROVE  /\ q \in Q => Len(s.backlogs[q].chunks) = Len(t.backlogs[q].chunks) + 1
                      /\ q \notin Q => Len(s.backlogs[q].chunks) = Len(t.backlogs[q].chunks)
    BY <1>3 DEF OneMore
  <2> DEFINE l == s.backlogs[q].chunks
  <2>1. l \in Seq(Chunks)
    BY <1>5
  <2>2. t.backlogs[q].chunks = RemoveFirst(l, c)
    BY <1>3
  <2> HIDE DEF l
  <2>3. /\ c \notin Range(l) => RemoveFirst(l, c) = l
        /\ c \in Range(l) => \E k \in DOMAIN l : RemovedAt(l, k, RemoveFirst(l, c))
    BY <2>1, RemoveFirstList
  <2>4. c \in Range(l) => Len(l) = Len(RemoveFirst(l, c)) + 1
    BY <2>3 DEF RemovedAt
  <2>5. /\ c \in Range(l) => Len(l) = Len(t.backlogs[q].chunks) + 1
        /\ c \notin Range(l) => Len(l) = Len(t.backlogs[q].chunks)
    BY <2>2, <2>3, <2>4
  <2> QED BY <2>5 DEF l
<1>9. BacklogCounted(t)
  <2> SUFFICES ASSUME NEW o \in Outputs
               PROVE  t.bl[o] = Cardinality(References(t.backlogs, o))
    BY DEF BacklogCounted
  <2>1. s.backlogs \in Seq(Queue) /\ t.backlogs \in Seq(Queue)
    BY <1>1, <1>3, StateParts
  <2> DEFINE N == {q \in Q : t.backlogs[q].ins = o}
  <2>2. Holding(s, c, o) = Cardinality(N)
    <3>1. {q \in DOMAIN s.backlogs : s.backlogs[q].ins = o /\ c \in Range(s.backlogs[q].chunks)} = N
      BY <1>3
    <3> QED BY <3>1 DEF Holding
  <2>3. Cardinality(References(s.backlogs, o)) = Cardinality(References(t.backlogs, o)) + Cardinality(N)
    BY <1>8, <2>1, ReferencesGrow
  <2>4. s.bl[o] = Cardinality(References(s.backlogs, o))
    BY DEF StateInv, BacklogCounted
  <2>5. Cardinality(References(t.backlogs, o)) \in Nat
    BY <2>1, ReferencesFinite
  <2>6. Cardinality(N) \in Nat
    <3>1. IsFiniteSet(DOMAIN s.backlogs)
      BY <2>1, DomainFinite
    <3>2. IsFiniteSet(N)
      BY <3>1, FS_Subset
    <3> QED BY <3>2, FS_CardinalityType
  <2> HIDE DEF N
  <2> QED BY <1>3, <2>2, <2>3, <2>4, <2>5, <2>6
<1>10. Listed(t) /\ ChunksOK(t)
  BY <1>3 DEF StateInv, Listed, ChunksOK, ChunkOK
<1>11. LoadedCounted(t)
  BY <1>3 DEF StateInv, LoadedCounted, Routed
<1>12. MappedInUse(t)
  BY <1>3, <1>4 DEF MappedInUse
<1>13. ASSUME KeepsFiles PROVE Accounted(t, d)
  BY <1>3, <1>13 DEF StateInv, Accounted
<1>14. StateInv(t, FALSE, d, {})
  BY <1>3, <1>7, <1>9, <1>10, <1>11, <1>12, <1>13 DEF StateInv
<1>15. HasQueues(s) => HasQueues(t)
  BY <1>3 DEF HasQueues
<1>16. Len(t.backlogs) = Len(s.backlogs)
  <2>1. s.backlogs \in Seq(Queue) /\ t.backlogs \in Seq(Queue)
    BY <1>1, <1>3, StateParts
  <2> QED BY <1>3, <2>1
<1> QED BY <1>3, <1>6, <1>14, <1>15, <1>16 DEF t

(***************************************************************************)
(* The queues are filled.                                                  *)
(***************************************************************************)
\* What append_to_backlogs changes.
AppendedTo(s, c, t) ==
    /\ t \in State
    /\ DOMAIN t.backlogs = DOMAIN s.backlogs
    /\ \A q \in DOMAIN s.backlogs :
          /\ t.backlogs[q].ins = s.backlogs[q].ins
          /\ s.backlogs[q].ins \in Tagged[c] =>
                t.backlogs[q].chunks = Append(s.backlogs[q].chunks, c)
          /\ s.backlogs[q].ins \notin Tagged[c] =>
                t.backlogs[q].chunks = s.backlogs[q].chunks
    /\ \A o \in Outputs :
          t.bl[o] = s.bl[o] + Cardinality({q \in {p \in DOMAIN s.backlogs : s.backlogs[p].ins \in Tagged[c]} :
                                              s.backlogs[q].ins = o})
    /\ t.disk = s.disk /\ t.chunks = s.chunks /\ t.ic = s.ic /\ t.up = s.up \ {c}
    /\ t.fs = s.fs /\ t.dropped = s.dropped

\* append_to_backlogs adds one reference to each queue of a matching output.
LEMMA Appended ==
    ASSUME NEW s \in State, NEW c \in Chunks
    PROVE  AppendedTo(s, c, append_to_backlogs(s, c))
<1> DEFINE Q == {q \in DOMAIN s.backlogs : s.backlogs[q].ins \in Tagged[c]}
           N(o) == {q \in Q : s.backlogs[q].ins = o}
           b == [q \in DOMAIN s.backlogs |->
                   IF q \in Q THEN [s.backlogs[q] EXCEPT !.chunks = Append(@, c)]
                   ELSE s.backlogs[q]]
           K(o) == Cardinality(N(o))
           l == [o \in Outputs |-> s.bl[o] + K(o)]
           U == s.up \ {c}
           t == append_to_backlogs(s, c)
<1>1. t = [s EXCEPT !.backlogs = b, !.bl = l, !.up = U]
  BY DEF append_to_backlogs
<1>2. \A o : Cardinality(N(o)) \in Nat
  <2> SUFFICES ASSUME NEW o PROVE Cardinality(N(o)) \in Nat
    OBVIOUS
  <2>1. s.backlogs \in Seq(Queue)
    BY StateParts
  <2>2. IsFiniteSet(DOMAIN s.backlogs)
    BY <2>1, FS_Interval
  <2>3. IsFiniteSet(N(o))
    BY <2>2, FS_Subset
  <2> QED BY <2>3, FS_CardinalityType
<1>3. l \in [Outputs -> Int] /\ \A o \in Outputs : l[o] = s.bl[o] + K(o)
  <2>1. \A o : K(o) \in Nat
    BY <1>2
  <2> HIDE DEF K
  <2> QED BY <2>1, StateParts
<1>4. \A q \in DOMAIN s.backlogs :
        /\ b[q] \in Queue /\ b[q].ins = s.backlogs[q].ins
        /\ q \in Q => b[q].chunks = Append(s.backlogs[q].chunks, c)
        /\ q \notin Q => b[q].chunks = s.backlogs[q].chunks
  <2> SUFFICES ASSUME NEW q \in DOMAIN s.backlogs
               PROVE  /\ b[q] \in Queue /\ b[q].ins = s.backlogs[q].ins
                      /\ q \in Q => b[q].chunks = Append(s.backlogs[q].chunks, c)
                      /\ q \notin Q => b[q].chunks = s.backlogs[q].chunks
    OBVIOUS
  <2>0. b[q] = IF q \in Q THEN [s.backlogs[q] EXCEPT !.chunks = Append(s.backlogs[q].chunks, c)]
               ELSE s.backlogs[q]
    OBVIOUS
  <2> HIDE DEF b, Q
  <2>1. s.backlogs[q] \in Queue /\ s.backlogs[q].chunks \in Seq(Chunks)
    BY QueueParts
  <2> DEFINE r == Append(s.backlogs[q].chunks, c)
  <2>2. r \in Seq(Chunks)
    BY <2>1
  <2>3. CASE q \in Q
    <3>1. b[q] = [s.backlogs[q] EXCEPT !.chunks = r]
      BY <2>0, <2>3
    <3> HIDE DEF r
    <3>2. b[q] \in Queue /\ b[q].ins = s.backlogs[q].ins /\ b[q].chunks = r
      BY <2>1, <2>2, <3>1 DEF Queue
    <3> QED BY <2>3, <3>2 DEF r
  <2>4. CASE q \notin Q
    <3>1. b[q] = s.backlogs[q]
      BY <2>0, <2>4
    <3> QED BY <2>1, <2>4, <3>1
  <2> QED BY <2>3, <2>4
<1>5. DOMAIN b = DOMAIN s.backlogs /\ b \in Seq(Queue)
  <2>1. s.backlogs \in Seq(Queue)
    BY StateParts
  <2>2. DOMAIN s.backlogs = 1..Len(s.backlogs) /\ Len(s.backlogs) \in Nat
    BY <2>1
  <2>3. b \in [1..Len(s.backlogs) -> Queue]
    BY <1>4, <2>2
  <2>4. b \in Seq(Queue)
    <3> HIDE DEF b
    <3> QED BY <2>2, <2>3
  <2> QED BY <2>4
<1>6. U \subseteq Chunks
  BY StateParts
<1> HIDE DEF b, l, U
<1>7. l \in [Outputs -> Int] /\ b \in Seq(Queue)
  BY <1>3, <1>5
<1>8. /\ t \in State /\ t.backlogs = b /\ t.bl = l /\ t.up = U
      /\ t.disk = s.disk /\ t.chunks = s.chunks /\ t.ic = s.ic
      /\ t.fs = s.fs /\ t.dropped = s.dropped
  BY <1>1, <1>6, <1>7 DEF State
<1>9. \A o \in Outputs : l[o] = s.bl[o] + Cardinality(N(o))
  BY <1>3
<1>10. U = s.up \ {c}
  BY DEF U
<1> HIDE DEF t
<1>11. AppendedTo(s, c, t)
  BY <1>4, <1>5, <1>8, <1>9, <1>10 DEF AppendedTo
<1> QED BY <1>11 DEF t

\* The queues and the sizes agree after it.
LEMMA AppendedKeeps ==
    ASSUME NEW s, NEW w, NEW d, NEW c \in Chunks, StateInv(s, w, d, {}), c \in s.disk,
           w \/ (~s.ic[c].loaded /\ InNoQueue(s, c))
    PROVE  /\ StateInv(append_to_backlogs(s, c), w, d, {})
           /\ AppendedTo(s, c, append_to_backlogs(s, c))
<1> DEFINE t == append_to_backlogs(s, c)
           Q == {q \in DOMAIN s.backlogs : s.backlogs[q].ins \in Tagged[c]}
<1>1. s \in State
  BY DEF StateInv
<1>2. AppendedTo(s, c, t)
  BY <1>1, Appended
<1> HIDE DEF t
<1>3. /\ t \in State /\ DOMAIN t.backlogs = DOMAIN s.backlogs
      /\ \A q \in DOMAIN s.backlogs :
            /\ t.backlogs[q].ins = s.backlogs[q].ins
            /\ q \in Q => t.backlogs[q].chunks = Append(s.backlogs[q].chunks, c)
            /\ q \notin Q => t.backlogs[q].chunks = s.backlogs[q].chunks
      /\ \A o \in Outputs : t.bl[o] = s.bl[o] + Cardinality({q \in Q : s.backlogs[q].ins = o})
      /\ t.disk = s.disk /\ t.chunks = s.chunks /\ t.ic = s.ic /\ t.up = s.up \ {c}
      /\ t.fs = s.fs /\ t.dropped = s.dropped
  BY <1>2 DEF AppendedTo
<1>4. \A q \in DOMAIN s.backlogs :
        /\ s.backlogs[q].chunks \in Seq(Chunks)
        /\ Len(Append(s.backlogs[q].chunks, c)) = Len(s.backlogs[q].chunks) + 1
        /\ Range(Append(s.backlogs[q].chunks, c)) = Range(s.backlogs[q].chunks) \cup {c}
        /\ IsInjective(s.backlogs[q].chunks) /\ c \notin Range(s.backlogs[q].chunks) =>
              IsInjective(Append(s.backlogs[q].chunks, c))
  <2> SUFFICES ASSUME NEW q \in DOMAIN s.backlogs, NEW l, l = s.backlogs[q].chunks
               PROVE  /\ l \in Seq(Chunks)
                      /\ Len(Append(l, c)) = Len(l) + 1
                      /\ Range(Append(l, c)) = Range(l) \cup {c}
                      /\ IsInjective(l) /\ c \notin Range(l) => IsInjective(Append(l, c))
    OBVIOUS
  <2>1. l \in Seq(Chunks)
    BY <1>1, QueueParts
  <2> QED BY <2>1, AppendList
<1>5. BacklogCounted(t)
  <2> SUFFICES ASSUME NEW o \in Outputs
               PROVE  t.bl[o] = Cardinality(References(t.backlogs, o))
    BY DEF BacklogCounted
  <2>1. s.backlogs \in Seq(Queue) /\ t.backlogs \in Seq(Queue)
    BY <1>1, <1>3, StateParts
  <2>2. OneMore(s.backlogs, t.backlogs, Q)
    BY <1>3, <1>4 DEF OneMore
  <2>3. Cardinality(References(t.backlogs, o))
          = Cardinality(References(s.backlogs, o)) + Cardinality({q \in Q : s.backlogs[q].ins = o})
    BY <2>1, <2>2, ReferencesGrow
  <2>4. s.bl[o] = Cardinality(References(s.backlogs, o))
    BY DEF StateInv, BacklogCounted
  <2> QED BY <1>3, <2>3, <2>4
<1>6. ASSUME ~w PROVE QueuesOK(t, {}) /\ MappedInUse(t)
  <2>1. QueuesOK(s, {}) /\ MappedInUse(s) /\ ~s.ic[c].loaded /\ InNoQueue(s, c)
    BY <1>6 DEF StateInv
  <2>2. s.ic[c].running = {}
    BY <2>1, IdleChunk DEF StateInv
  <2>3. QueuesOK(t, {})
    <3> SUFFICES ASSUME NEW q \in DOMAIN s.backlogs
                 PROVE  /\ IsInjective(t.backlogs[q].chunks)
                        /\ \A x \in Range(t.backlogs[q].chunks) : x \in s.disk /\ ~s.ic[x].loaded
      BY <1>3 DEF QueuesOK
    <3>1. /\ IsInjective(s.backlogs[q].chunks) /\ c \notin Range(s.backlogs[q].chunks)
          /\ \A x \in Range(s.backlogs[q].chunks) : x \in s.disk /\ ~s.ic[x].loaded
      BY <2>1 DEF QueuesOK, InNoQueue
    <3> HIDE DEF Q
    <3>2. CASE q \in Q
      <4>1. t.backlogs[q].chunks = Append(s.backlogs[q].chunks, c)
        BY <1>3, <3>2
      <4>2. /\ Range(t.backlogs[q].chunks) = Range(s.backlogs[q].chunks) \cup {c}
            /\ IsInjective(t.backlogs[q].chunks)
        BY <1>4, <3>1, <4>1
      <4> QED BY <2>1, <3>1, <4>2
    <3>3. CASE q \notin Q
      BY <1>3, <3>1, <3>3
    <3> QED BY <3>2, <3>3
  <2>4. MappedInUse(t)
    BY <1>3, <2>1, <2>2 DEF MappedInUse
  <2> QED BY <2>3, <2>4
<1>7. Listed(t) /\ ChunksOK(t)
  BY <1>3 DEF StateInv, Listed, ChunksOK, ChunkOK
<1>8. LoadedCounted(t)
  BY <1>3 DEF StateInv, LoadedCounted, Routed
<1>9. ASSUME KeepsFiles PROVE Accounted(t, d)
  BY <1>3, <1>9 DEF StateInv, Accounted
<1>10. StateInv(t, w, d, {})
  BY <1>3, <1>5, <1>6, <1>7, <1>8, <1>9 DEF StateInv
<1> QED BY <1>2, <1>10 DEF t

\* New queues are empty, one for each output.
AllocatedTo(s, t) ==
    /\ t \in State
    /\ DOMAIN s.backlogs \subseteq DOMAIN t.backlogs
    /\ \A q \in DOMAIN s.backlogs : t.backlogs[q] = s.backlogs[q]
    /\ \A q \in DOMAIN t.backlogs \ DOMAIN s.backlogs : t.backlogs[q].chunks = <<>>
    /\ HasQueues(t)
    /\ t.disk = s.disk /\ t.chunks = s.chunks /\ t.ic = s.ic /\ t.up = s.up
    /\ t.fs = s.fs /\ t.bl = s.bl /\ t.dropped = s.dropped

\* allocate_backlogs adds them behind those that exist.
LEMMA Allocated ==
    ASSUME NEW s \in State
    PROVE  AllocatedTo(s, allocate_backlogs(s))
<1> DEFINE n == Cardinality(Outputs)
           e == [o \in 1..n |-> [ins |-> o, chunks |-> <<>>]]
           b == s.backlogs \o e
           t == allocate_backlogs(s)
<1>1. n \in Nat /\ Outputs = 1..n
  BY BacklogAssumption, FS_CardinalityType
<1> HIDE DEF n
<1>2. e \in Seq(Queue) /\ Len(e) = n /\ \A o \in 1..n : e[o].ins = o /\ e[o].chunks = <<>>
  <2>1. \A o \in 1..n : [ins |-> o, chunks |-> <<>>] \in Queue
    BY <1>1 DEF Queue
  <2>2. e \in [1..n -> Queue]
    BY <2>1
  <2>3. \A o \in 1..n : e[o].ins = o /\ e[o].chunks = <<>>
    OBVIOUS
  <2> HIDE DEF e
  <2>4. e \in Seq(Queue) /\ Len(e) = n
    BY <1>1, <2>2
  <2> QED BY <2>3, <2>4
<1>3. s.backlogs \in Seq(Queue)
  BY StateParts
<1>4. t = [s EXCEPT !.backlogs = b]
  BY DEF allocate_backlogs, n
<1> HIDE DEF e
<1> DEFINE m == Len(s.backlogs)
<1>5. /\ m \in Nat /\ DOMAIN s.backlogs = 1..m
      /\ b \in Seq(Queue) /\ DOMAIN b = 1..(m + n)
      /\ \A q \in 1..m : b[q] = s.backlogs[q]
      /\ \A q \in 1..n : b[m + q] = e[q]
  <2>1. m \in Nat /\ DOMAIN s.backlogs = 1..m
    BY <1>3, LenProperties
  <2>2. /\ b \in Seq(Queue) /\ Len(b) = m + n
        /\ \A i \in 1..(m + n) : b[i] = IF i <= m THEN s.backlogs[i] ELSE e[i - m]
    <3>1. PICK a, c : a = s.backlogs /\ c = e
      OBVIOUS
    <3>2. a \in Seq(Queue) /\ c \in Seq(Queue) /\ Len(c) = n
      BY <1>2, <1>3, <3>1
    <3>3. /\ a \o c \in Seq(Queue) /\ Len(a \o c) = Len(a) + Len(c)
          /\ \A i \in 1..(Len(a) + Len(c)) : (a \o c)[i] = IF i <= Len(a) THEN a[i] ELSE c[i - Len(a)]
      BY ONLY <3>2, ConcatProperties
    <3> QED BY <3>1, <3>2, <3>3
  <2> HIDE DEF b, m
  <2>3. DOMAIN b = 1..(m + n)
    BY <2>2, LenProperties
  <2>4. \A q \in 1..m : b[q] = s.backlogs[q]
    BY <1>1, <2>1, <2>2
  <2>5. ASSUME NEW q \in 1..n PROVE b[m + q] = e[q]
    <3>1. m + q \in 1..(m + n) /\ ~(m + q <= m) /\ (m + q) - m = q
      BY <1>1, <2>1
    <3> QED BY <2>2, <3>1
  <2> QED BY <2>1, <2>2, <2>3, <2>4, <2>5
<1> HIDE DEF b, m
<1>6. \A q \in DOMAIN b \ DOMAIN s.backlogs : q - m \in 1..n /\ m + (q - m) = q
  BY <1>1, <1>5
<1>7. \A q \in DOMAIN b \ DOMAIN s.backlogs : b[q].chunks = <<>>
  <2>1. ASSUME NEW q \in DOMAIN b \ DOMAIN s.backlogs PROVE b[q].chunks = <<>>
    <3>1. PICK o \in 1..n : q = m + o
      BY <1>6
    <3>2. b[m + o] = e[o]
      BY <1>5
    <3> QED BY <1>2, <3>1, <3>2
  <2> QED BY <2>1
<1>8. \A o \in Outputs : m + o \in DOMAIN b /\ b[m + o].ins = o
  BY <1>1, <1>2, <1>5
<1>9. /\ t \in State /\ t.backlogs = b
      /\ t.disk = s.disk /\ t.chunks = s.chunks /\ t.ic = s.ic /\ t.up = s.up
      /\ t.fs = s.fs /\ t.bl = s.bl /\ t.dropped = s.dropped
  BY <1>4, <1>5 DEF State
<1> HIDE DEF t
<1>10. HasQueues(t)
  BY <1>8, <1>9 DEF HasQueues
<1>11. DOMAIN s.backlogs \subseteq DOMAIN b /\ \A q \in DOMAIN s.backlogs : b[q] = s.backlogs[q]
  BY <1>1, <1>5
<1>12. AllocatedTo(s, t)
  BY <1>7, <1>9, <1>10, <1>11 DEF AllocatedTo
<1> QED BY <1>12 DEF t

\* They name nothing and count for nothing.
LEMMA AllocatedKeeps ==
    ASSUME NEW s, NEW w, NEW d, StateInv(s, w, d, {})
    PROVE  /\ StateInv(allocate_backlogs(s), w, d, {})
           /\ AllocatedTo(s, allocate_backlogs(s))
<1> DEFINE t == allocate_backlogs(s)
<1>1. s \in State
  BY DEF StateInv
<1>2. AllocatedTo(s, t)
  BY <1>1, Allocated
<1> HIDE DEF t
<1>3. /\ t \in State
      /\ DOMAIN s.backlogs \subseteq DOMAIN t.backlogs
      /\ \A q \in DOMAIN s.backlogs : t.backlogs[q] = s.backlogs[q]
      /\ \A q \in DOMAIN t.backlogs \ DOMAIN s.backlogs : t.backlogs[q].chunks = <<>>
      /\ t.disk = s.disk /\ t.chunks = s.chunks /\ t.ic = s.ic /\ t.up = s.up
      /\ t.fs = s.fs /\ t.bl = s.bl /\ t.dropped = s.dropped
  BY <1>2 DEF AllocatedTo
<1>4. Range(<<>>) = {} /\ IsInjective(<<>>) /\ DOMAIN <<>> = {}
  BY DEF Range, IsInjective
<1>5. \A o \in Outputs : References(t.backlogs, o) = References(s.backlogs, o)
  <2> SUFFICES ASSUME NEW o \in Outputs
               PROVE  References(t.backlogs, o) = References(s.backlogs, o)
    OBVIOUS
  <2>1. ASSUME NEW x \in References(t.backlogs, o) PROVE x \in References(s.backlogs, o)
    <3>1. PICK q \in DOMAIN t.backlogs : t.backlogs[q].ins = o /\ x \in {q} \X DOMAIN t.backlogs[q].chunks
      BY <2>1 DEF References
    <3>2. DOMAIN t.backlogs[q].chunks /= {}
      BY <3>1
    <3>3. q \in DOMAIN s.backlogs
      BY <1>3, <1>4, <3>2
    <3> QED BY <1>3, <3>1, <3>3 DEF References
  <2>2. ASSUME NEW x \in References(s.backlogs, o) PROVE x \in References(t.backlogs, o)
    <3>1. PICK q \in DOMAIN s.backlogs : s.backlogs[q].ins = o /\ x \in {q} \X DOMAIN s.backlogs[q].chunks
      BY <2>2 DEF References
    <3> QED BY <1>3, <3>1 DEF References
  <2> QED BY <2>1, <2>2
<1>6. BacklogCounted(t)
  <2> SUFFICES ASSUME NEW o \in Outputs
               PROVE  t.bl[o] = Cardinality(References(t.backlogs, o))
    BY DEF BacklogCounted
  <2>1. References(t.backlogs, o) = References(s.backlogs, o)
    BY <1>5
  <2>2. Cardinality(References(t.backlogs, o)) = Cardinality(References(s.backlogs, o))
    BY <2>1
  <2> QED BY <1>3, <2>2 DEF StateInv, BacklogCounted
<1>7. ASSUME ~w PROVE QueuesOK(t, {}) /\ MappedInUse(t)
  <2>1. QueuesOK(s, {}) /\ MappedInUse(s)
    BY <1>7 DEF StateInv
  <2>2. QueuesOK(t, {})
    <3> SUFFICES ASSUME NEW q \in DOMAIN t.backlogs
                 PROVE  /\ IsInjective(t.backlogs[q].chunks)
                        /\ \A x \in Range(t.backlogs[q].chunks) : x \in s.disk /\ ~s.ic[x].loaded
      BY <1>3 DEF QueuesOK
    <3>1. CASE q \in DOMAIN s.backlogs
      BY <1>3, <2>1, <3>1 DEF QueuesOK
    <3>2. CASE q \notin DOMAIN s.backlogs
      <4>1. t.backlogs[q].chunks = <<>>
        BY <1>3, <3>2
      <4> QED BY <1>4, <4>1
    <3> QED BY <3>1, <3>2
  <2>3. MappedInUse(t)
    BY <1>3, <2>1 DEF MappedInUse
  <2> QED BY <2>2, <2>3
<1>8. Listed(t) /\ ChunksOK(t)
  BY <1>3 DEF StateInv, Listed, ChunksOK, ChunkOK
<1>9. LoadedCounted(t)
  BY <1>3 DEF StateInv, LoadedCounted, Routed
<1>10. ASSUME KeepsFiles PROVE Accounted(t, d)
  BY <1>3, <1>10 DEF StateInv, Accounted
<1>11. StateInv(t, w, d, {})
  BY <1>3, <1>6, <1>7, <1>8, <1>9, <1>10 DEF StateInv
<1> QED BY <1>2, <1>11 DEF t

\* One file is put into the queues, or goes because it is damaged.
LEMMA SegregateChunk ==
    ASSUME NEW s, NEW p, NEW k \in Chunks, SegregateInv(s, k - 1, p)
    PROVE  SegregateInv(segregate_chunk(s, k), k, p)
<1>1. StateInv(s, p.w, p.d, {}) /\ HasQueues(s) /\ (p.w \/ (NoneLoaded(s) /\ NamesUpTo(s, k - 1)))
  BY DEF SegregateInv
<1>2. s \in State
  BY <1>1 DEF StateInv
<1>3. k \in Nat /\ \A c \in Chunks : c \in Nat /\ (c <= k - 1 => c <= k /\ c /= k)
  <2>1. Chunks \subseteq Nat
    BY BacklogAssumption, FS_CardinalityType
  <2> QED BY <2>1
<1>4. \A q \in DOMAIN s.backlogs : \A c \in Range(s.backlogs[q].chunks) : c \in Chunks
  <2> SUFFICES ASSUME NEW q \in DOMAIN s.backlogs, NEW j \in DOMAIN s.backlogs[q].chunks
               PROVE  s.backlogs[q].chunks[j] \in Chunks
    BY DEF Range
  <2>1. s.backlogs[q].chunks \in Seq(Chunks)
    BY <1>2, QueueParts
  <2> QED BY <2>1
<1>5. p.w \/ (NoneLoaded(s) /\ NamesUpTo(s, k) /\ InNoQueue(s, k))
  BY <1>1, <1>3, <1>4 DEF NamesUpTo, InNoQueue
<1>6. CASE segregate_chunk(s, k) = s
  BY <1>1, <1>5, <1>6 DEF SegregateInv
<1>7. CASE segregate_chunk(s, k) = deleted(s, k) /\ Kind[k] \in {"corrupt", "nometa"}
  <2> DEFINE t == deleted(s, k)
  <2>1. Kind[k] /= "logs"
    BY <1>7
  <2>2. ~s.ic[k].loaded
    BY <1>1, <2>1 DEF StateInv, ChunksOK, ChunkOK
  <2>3. StateInv(t, p.w, p.d, {})
    BY <1>1, <1>5, <2>1, <2>2, DeletedKeeps
  <2>4. t.backlogs = s.backlogs /\ t.ic = s.ic
    BY <1>2, Deleted
  <2> HIDE DEF t
  <2>5. SegregateInv(t, k, p)
    BY <1>1, <1>5, <2>3, <2>4 DEF SegregateInv, HasQueues, NoneLoaded, NamesUpTo
  <2> QED BY <1>7, <2>5 DEF t
<1>8. CASE segregate_chunk(s, k) = append_to_backlogs(s, k) /\ k \in s.disk
  <2> DEFINE t == append_to_backlogs(s, k)
  <2>1. StateInv(t, p.w, p.d, {}) /\ AppendedTo(s, k, t)
    BY <1>1, <1>5, <1>8, AppendedKeeps DEF NoneLoaded
  <2> HIDE DEF t
  <2>2. /\ DOMAIN t.backlogs = DOMAIN s.backlogs /\ t.ic = s.ic
        /\ \A q \in DOMAIN s.backlogs :
              /\ t.backlogs[q].ins = s.backlogs[q].ins
              /\ \/ t.backlogs[q].chunks = Append(s.backlogs[q].chunks, k)
                 \/ t.backlogs[q].chunks = s.backlogs[q].chunks
    BY <2>1 DEF AppendedTo
  <2>3. HasQueues(t)
    BY <1>1, <2>2 DEF HasQueues
  <2>4. ASSUME ~p.w PROVE NoneLoaded(t) /\ NamesUpTo(t, k)
    <3>1. NoneLoaded(s) /\ NamesUpTo(s, k)
      BY <1>5, <2>4
    <3>2. \A q \in DOMAIN s.backlogs :
            Range(Append(s.backlogs[q].chunks, k)) = Range(s.backlogs[q].chunks) \cup {k}
      <4> SUFFICES ASSUME NEW q \in DOMAIN s.backlogs, NEW l, l = s.backlogs[q].chunks
                   PROVE  Range(Append(l, k)) = Range(l) \cup {k}
        OBVIOUS
      <4>1. l \in Seq(Chunks)
        BY <1>2, QueueParts
      <4> QED BY <4>1, AppendList
    <3>3. k <= k
      BY <1>3
    <3>4. NamesUpTo(t, k)
      <4> SUFFICES ASSUME NEW q \in DOMAIN s.backlogs, NEW c \in Range(t.backlogs[q].chunks)
                   PROVE  c <= k
        BY <2>2 DEF NamesUpTo
      <4>1. c \in Range(s.backlogs[q].chunks) \/ c = k
        BY <2>2, <3>2
      <4> QED BY <3>1, <3>3, <4>1 DEF NamesUpTo
    <3> QED BY <2>2, <3>1, <3>4 DEF NoneLoaded
  <2>5. SegregateInv(t, k, p)
    BY <2>1, <2>3, <2>4 DEF SegregateInv
  <2> QED BY <1>8, <2>5 DEF t
<1> QED BY <1>6, <1>7, <1>8 DEF segregate_chunk

SegregateLoop(s) == FoldLeft(segregate_chunk, s, Upto(Cardinality(Chunks)))

\* Upto lists the numbers up to n.
LEMMA UptoList ==
    ASSUME NEW n
    PROVE  DOMAIN Upto(n) = 1..n /\ \A j \in 1..n : Upto(n)[j] = j
BY DEF Upto

\* All files are put into the queues, at the start and again at shutdown.
LEMMA Segregate ==
    ASSUME NEW s, NEW w, NEW d, StateInv(s, w, d, {}),
           w \/ (s.backlogs = <<>> /\ NoneLoaded(s))
    PROVE  /\ StateInv(segregate(s), w, d, {})
           /\ HasQueues(segregate(s))
<1> DEFINE n == Cardinality(Chunks)
           p == [w |-> w, d |-> d]
           b == allocate_backlogs(s)
           u == Upto(n)
<1>1. n \in Nat /\ Chunks = 1..n
  BY BacklogAssumption, FS_CardinalityType
<1>2. p.w = w /\ p.d = d
  OBVIOUS
<1>3. StateInv(b, w, d, {}) /\ AllocatedTo(s, b)
  BY AllocatedKeeps
<1>4. DOMAIN u = 1..n /\ \A j \in 1..n : u[j] = j
  BY UptoList
<1>5. SegregateLoop(b) = FS1!FoldOf(b, u, w, d)
  BY DEF SegregateLoop, FoldLeft, MapThenFoldSet, FS1!FoldOf, SegregateStep, Max
<1> HIDE DEF p, b, n, u
<1>6. SegregateInv(b, 0, p)
  <2>1. HasQueues(b) /\ b.ic = s.ic
    BY <1>3 DEF AllocatedTo
  <2>2. ASSUME ~w PROVE NamesUpTo(b, 0) /\ NoneLoaded(b)
    <3>1. DOMAIN s.backlogs = {}
      BY <2>2
    <3>2. \A q \in DOMAIN b.backlogs : b.backlogs[q].chunks = <<>>
      BY <1>3, <3>1 DEF AllocatedTo
    <3>3. Range(<<>>) = {}
      BY DEF Range
    <3>4. NamesUpTo(b, 0)
      BY <3>2, <3>3 DEF NamesUpTo
    <3> QED BY <2>1, <2>2, <3>4 DEF NoneLoaded
  <2> QED BY <1>2, <1>3, <2>1, <2>2 DEF SegregateInv
<1>7. ASSUME NEW t, NEW k \in 1..n, SegregateInv(t, k - 1, p)
      PROVE  SegregateInv(SegregateStep(t, u[k], w, d), k, p)
  BY <1>1, <1>4, <1>7, SegregateChunk DEF SegregateStep
<1>8. SegregateInv(FS1!FoldOf(b, u, w, d), n, p)
  BY <1>1, <1>4, <1>6, <1>7, FS1!FoldKeeps
<1>9. segregate(s) = SegregateLoop(b)
  BY DEF segregate, SegregateLoop, b
<1>10. SegregateInv(segregate(s), n, p)
  BY <1>5, <1>8, <1>9
<1> QED BY <1>2, <1>10 DEF SegregateInv

(***************************************************************************)
(* A chunk is loaded.                                                      *)
(***************************************************************************)
\* The input chunk flb_input_chunk_map makes.
Loaded(c) == [NotLoaded EXCEPT !.loaded = TRUE, !.mask = routes(c)]

\* Only c has got routes.
OnlyRouted(s, t, c) ==
    /\ s.ic[c].mask = {}
    /\ \A x \in Chunks : x /= c => s.ic[x].mask = t.ic[x].mask

\* The sizes of the outputs follow the masks when c gets or loses its routes.
LEMMA RoutedChange ==
    ASSUME NEW s, NEW t, NEW c \in Chunks, NEW o, OnlyRouted(s, t, c)
    PROVE  /\ Cardinality(Routed(s, o)) \in Nat /\ Cardinality(Routed(t, o)) \in Nat
           /\ o \in t.ic[c].mask => Cardinality(Routed(t, o)) = Cardinality(Routed(s, o)) + 1
           /\ o \notin t.ic[c].mask => Cardinality(Routed(t, o)) = Cardinality(Routed(s, o))
<1> DEFINE S == Routed(s, o)
           T == Routed(t, o)
<1>1. IsFiniteSet(S) /\ IsFiniteSet(T)
  <2>1. IsFiniteSet(Chunks)
    BY BacklogAssumption
  <2> QED BY <2>1, FS_Subset DEF Routed
<1>2. o \in t.ic[c].mask => T = S \cup {c}
  BY DEF Routed, OnlyRouted
<1>3. o \notin t.ic[c].mask => T = S
  BY DEF Routed, OnlyRouted
<1>4. c \notin S
  BY DEF Routed, OnlyRouted
<1> HIDE DEF S, T
<1>5. Cardinality(S) \in Nat /\ Cardinality(T) \in Nat
  BY <1>1, FS_CardinalityType
<1>6. Cardinality(S \cup {c}) = Cardinality(S) + 1
  BY <1>1, <1>4, FS_AddElement
<1>7. o \in t.ic[c].mask => Cardinality(T) = Cardinality(S) + 1
  BY <1>2, <1>6
<1>8. o \notin t.ic[c].mask => Cardinality(T) = Cardinality(S)
  BY <1>3
<1> QED BY <1>5, <1>7, <1>8 DEF S, T

\* What mapped changes.
MappedTo(s, c, t) ==
    /\ t \in State
    /\ t.ic[c] = Loaded(c) /\ \A x \in Chunks : x /= c => t.ic[x] = s.ic[x]
    /\ t.chunks = Append(s.chunks, c) /\ t.up = s.up \ {c}
    /\ \A o \in Limited : t.fs[o] = IF o \in routes(c) THEN s.fs[o] + 1 ELSE s.fs[o]
    /\ t.disk = s.disk /\ t.backlogs = s.backlogs /\ t.bl = s.bl /\ t.dropped = s.dropped

\* mapped adds the chunk to the list, with its routes.
LEMMA Mapped ==
    ASSUME setting \in Settings, NEW s \in State, NEW c \in Chunks
    PROVE  MappedTo(s, c, mapped(s, c))
<1> DEFINE r == Loaded(c)
           i == [s.ic EXCEPT ![c] = r]
           l == Append(s.chunks, c)
           f == [o \in Limited |-> IF o \in routes(c) THEN s.fs[o] + 1 ELSE s.fs[o]]
           U == s.up \ {c}
           t == mapped(s, c)
<1>1. t = [s EXCEPT !.ic = i, !.chunks = l, !.fs = f, !.up = U]
  BY DEF mapped, Loaded
<1>2. r \in InputChunk
  <2>1. routes(c) \subseteq Outputs
    BY SettingParts
  <2> QED BY <2>1 DEF Loaded, NotLoaded, InputChunk
<1> HIDE DEF r
<1>3. i \in [Chunks -> InputChunk] /\ i[c] = r /\ \A x \in Chunks : x /= c => i[x] = s.ic[x]
  BY <1>2, StateParts
<1>4. l \in Seq(Chunks) /\ U \subseteq Chunks
  BY StateParts
<1>5. f \in [Limited -> Int]
  BY StateParts
<1>6. \A o \in Limited : f[o] = IF o \in routes(c) THEN s.fs[o] + 1 ELSE s.fs[o]
  OBVIOUS
<1> HIDE DEF i, l, f, U
<1>7. /\ t \in State /\ t.ic = i /\ t.chunks = l /\ t.fs = f /\ t.up = U
      /\ t.disk = s.disk /\ t.backlogs = s.backlogs /\ t.bl = s.bl /\ t.dropped = s.dropped
  BY <1>1, <1>3, <1>4, <1>5 DEF State
<1>8. l = Append(s.chunks, c) /\ U = s.up \ {c} /\ r = Loaded(c)
  BY DEF l, U, r
<1> HIDE DEF t
<1>9. MappedTo(s, c, t)
  BY <1>3, <1>6, <1>7, <1>8 DEF MappedTo
<1> QED BY <1>9 DEF t

\* It may still be in the queues, and nothing else is out of step.
LEMMA MappedKeeps ==
    ASSUME setting \in Settings, NEW s, NEW d, NEW c \in Chunks, StateInv(s, FALSE, d, {}),
           c \in s.disk, ~s.ic[c].loaded, Kind[c] = "logs"
    PROVE  /\ StateInv(mapped(s, c), FALSE, d, {c})
           /\ mapped(s, c).backlogs = s.backlogs
<1> DEFINE t == mapped(s, c)
<1>1. s \in State
  BY DEF StateInv
<1>2. MappedTo(s, c, t)
  BY <1>1, Mapped
<1> HIDE DEF t
<1>3. /\ t \in State
      /\ t.ic[c] = Loaded(c) /\ \A x \in Chunks : x /= c => t.ic[x] = s.ic[x]
      /\ t.chunks = Append(s.chunks, c) /\ t.up = s.up \ {c}
      /\ \A o \in Limited : t.fs[o] = IF o \in routes(c) THEN s.fs[o] + 1 ELSE s.fs[o]
      /\ t.disk = s.disk /\ t.backlogs = s.backlogs /\ t.bl = s.bl /\ t.dropped = s.dropped
  BY <1>2 DEF MappedTo
<1>4. /\ t.ic[c].loaded /\ ~t.ic[c].task /\ t.ic[c].mask = routes(c)
      /\ t.ic[c].todo = {} /\ t.ic[c].running = {}
  BY <1>3 DEF Loaded, NotLoaded
<1>5. s.ic[c].mask = {}
  BY IdleChunk DEF StateInv
<1>6. Listed(t)
  <2>1. s.chunks \in Seq(Chunks)
    BY <1>1, StateParts
  <2>2. IsInjective(s.chunks) /\ c \notin Range(s.chunks)
    BY DEF StateInv, Listed
  <2>3. Range(t.chunks) = Range(s.chunks) \cup {c} /\ IsInjective(t.chunks)
    BY <1>3, <2>1, <2>2, AppendList
  <2>4. \A x \in Chunks : s.ic[x].loaded <=> x \in Range(s.chunks)
    BY DEF StateInv, Listed
  <2>5. \A x \in Chunks : t.ic[x].loaded <=> x \in Range(t.chunks)
    <3> SUFFICES ASSUME NEW x \in Chunks PROVE t.ic[x].loaded <=> x \in Range(t.chunks)
      OBVIOUS
    <3>1. CASE x = c
      BY <1>4, <2>3, <3>1
    <3>2. CASE x /= c
      BY <1>3, <2>3, <2>4, <3>2
    <3> QED BY <3>1, <3>2
  <2> QED BY <2>3, <2>5 DEF Listed
<1>7. ChunksOK(t)
  <2> SUFFICES ASSUME NEW x \in Chunks PROVE ChunkOK(t, x)
    BY DEF ChunksOK
  <2>1. CASE x = c
    BY <1>3, <1>4, <2>1 DEF ChunkOK
  <2>2. CASE x /= c
    BY <1>3, <2>2 DEF StateInv, ChunksOK, ChunkOK
  <2> QED BY <2>1, <2>2
<1>8. BacklogCounted(t)
  BY <1>3 DEF StateInv, BacklogCounted
<1>9. LoadedCounted(t)
  <2> SUFFICES ASSUME NEW o \in Limited PROVE t.fs[o] = Cardinality(Routed(t, o))
    BY DEF LoadedCounted
  <2>1. OnlyRouted(s, t, c)
    BY <1>3, <1>5 DEF OnlyRouted
  <2>2. /\ Cardinality(Routed(s, o)) \in Nat /\ Cardinality(Routed(t, o)) \in Nat
        /\ o \in t.ic[c].mask => Cardinality(Routed(t, o)) = Cardinality(Routed(s, o)) + 1
        /\ o \notin t.ic[c].mask => Cardinality(Routed(t, o)) = Cardinality(Routed(s, o))
    BY <2>1, RoutedChange
  <2>3. s.fs[o] = Cardinality(Routed(s, o))
    BY DEF StateInv, LoadedCounted
  <2> QED BY <1>3, <1>4, <2>2, <2>3
<1>10. QueuesOK(t, {c})
  <2>1. QueuesOK(s, {})
    BY DEF StateInv
  <2> SUFFICES ASSUME NEW q \in DOMAIN s.backlogs
               PROVE  /\ IsInjective(s.backlogs[q].chunks)
                      /\ \A x \in Range(s.backlogs[q].chunks) :
                            x \in {c} \/ (x \in s.disk /\ ~t.ic[x].loaded)
    BY <1>3 DEF QueuesOK
  <2>2. /\ IsInjective(s.backlogs[q].chunks)
        /\ \A x \in Range(s.backlogs[q].chunks) : x \in s.disk /\ ~s.ic[x].loaded
    BY <2>1 DEF QueuesOK
  <2>3. s.disk \subseteq Chunks
    BY <1>1, StateParts
  <2> QED BY <1>3, <2>2, <2>3
<1>11. MappedInUse(t)
  <2>1. MappedInUse(s)
    BY DEF StateInv
  <2> SUFFICES ASSUME NEW x \in Chunks, t.ic[x].running /= {} PROVE x \in t.up
    BY DEF MappedInUse
  <2>2. x /= c
    BY <1>4
  <2> QED BY <1>3, <2>1, <2>2 DEF MappedInUse
<1>12. ASSUME KeepsFiles PROVE Accounted(t, d)
  <2>1. Accounted(s, d)
    BY <1>12 DEF StateInv
  <2> SUFFICES ASSUME NEW x \in Chunks
               PROVE  /\ t.ic[x].task => \A o \in t.ic[x].mask :
                            \/ o \in t.ic[x].todo \cup t.ic[x].running
                            \/ o \in d[x] \cup t.dropped[x]
                      /\ x \notin t.disk /\ Kind[x] = "logs" => routes(x) \subseteq d[x] \cup t.dropped[x]
    BY DEF Accounted
  <2>2. CASE x = c
    BY <1>3, <1>4, <2>2
  <2>3. CASE x /= c
    BY <1>3, <2>1, <2>3 DEF Accounted
  <2> QED BY <2>2, <2>3
<1>13. StateInv(t, FALSE, d, {c})
  BY <1>3, <1>6, <1>7, <1>8, <1>9, <1>10, <1>11, <1>12 DEF StateInv
<1> QED BY <1>3, <1>13 DEF t

\* cb_queue_chunks takes the first chunk of a queue: it is loaded or deleted.
LEMMA Visit ==
    ASSUME setting \in Settings, NEW a, NEW p, NEW k, VisitInv(a, k - 1, p),
           NEW q \in DOMAIN a.s.backlogs
    PROVE  VisitInv(visit(a, q), k, p)
<1> DEFINE s == a.s
           c == Head(s.backlogs[q].chunks)
           m == mapped(s, c)
<1>1. /\ a = [s |-> a.s, total |-> a.total, short |-> a.short]
      /\ KeepsFiles => a.short = {}
      /\ StateInv(s, FALSE, p.d, {}) /\ HasQueues(s) /\ Len(s.backlogs) = p.n
  BY DEF VisitInv
<1>2. CASE visit(a, q) = a
  BY <1>1, <1>2 DEF VisitInv
<1>3. CASE s.backlogs[q].chunks /= <<>> /\ visit(a, q) /= a
  <2>1. s \in State
    BY <1>1 DEF StateInv
  <2>2. c \in Chunks /\ c \in Range(s.backlogs[q].chunks)
    <3> DEFINE l == s.backlogs[q].chunks
    <3>1. l \in Seq(Chunks)
      BY <2>1, QueueParts
    <3> HIDE DEF l
    <3>2. l /= <<>>
      BY <1>3 DEF l
    <3>3. Head(l) = l[1] /\ 1 \in DOMAIN l /\ l[1] \in Chunks
      BY <3>1, <3>2
    <3>4. Head(l) \in Chunks /\ Head(l) \in Range(l)
      BY <3>3 DEF Range
    <3> QED BY <3>4 DEF l
  <2>3. c \in s.disk /\ ~s.ic[c].loaded
    BY <1>1, <2>2 DEF StateInv, QueuesOK
  <2> HIDE DEF c, s
  <2>4. CASE /\ Mappable(a, c)
             /\ visit(a, q) = [a EXCEPT !.s = removed(m, c), !.total = a.total + 1]
    <3>1. Kind[c] = "logs"
      BY <2>4 DEF Mappable
    <3>2. StateInv(m, FALSE, p.d, {c}) /\ m.backlogs = s.backlogs
      BY <1>1, <2>2, <2>3, <3>1, MappedKeeps
    <3> HIDE DEF m
    <3>3. HasQueues(m)
      BY <1>1, <3>2 DEF HasQueues
    <3>4. /\ StateInv(removed(m, c), FALSE, p.d, {})
          /\ HasQueues(m) => HasQueues(removed(m, c))
          /\ Len(removed(m, c).backlogs) = Len(m.backlogs)
      <4>1. \A x \in {c} : x = c
        OBVIOUS
      <4>2. PICK d : d = p.d
        OBVIOUS
      <4>3. StateInv(m, FALSE, d, {c}) /\ c \in Chunks
        BY <2>2, <3>2, <4>2
      <4>4. /\ StateInv(removed(m, c), FALSE, d, {})
            /\ HasQueues(m) => HasQueues(removed(m, c))
            /\ Len(removed(m, c).backlogs) = Len(m.backlogs)
        BY ONLY <4>1, <4>3, RemovedKeeps
      <4> QED BY <4>2, <4>4
    <3> DEFINE v == visit(a, q)
    <3>5. /\ v.s = removed(m, c) /\ v = [s |-> v.s, total |-> v.total, short |-> v.short]
          /\ v.short = a.short
      <4>1. v = [a EXCEPT !.s = removed(m, c), !.total = a.total + 1]
        BY <2>4
      <4> HIDE DEF v
      <4> QED BY <1>1, <4>1
    <3> HIDE DEF v
    <3>6. VisitInv(v, k, p)
      BY <1>1, <3>2, <3>3, <3>4, <3>5 DEF VisitInv
    <3> QED BY <3>6 DEF v
  <2>5. CASE ~Mappable(a, c) /\ visit(a, q) = [a EXCEPT !.s = deleted(removed(s, c), c)]
    <3> DEFINE r == removed(s, c)
               t == deleted(r, c)
               v == visit(a, q)
    <3>1. Kind[c] /= "logs" \/ ~KeepsFiles
      BY <1>1, <2>5 DEF Mappable
    <3>2. /\ StateInv(r, FALSE, p.d, {}) /\ InNoQueue(r, c) /\ r.ic = s.ic
          /\ HasQueues(r) /\ Len(r.backlogs) = Len(s.backlogs)
      <4> DEFINE X == {}
      <4>1. \A x \in X : x = c
        OBVIOUS
      <4>2. StateInv(s, FALSE, p.d, X)
        BY <1>1
      <4> HIDE DEF X
      <4>3. /\ StateInv(r, FALSE, p.d, {}) /\ InNoQueue(r, c) /\ r.ic = s.ic
            /\ HasQueues(s) => HasQueues(r)
            /\ Len(r.backlogs) = Len(s.backlogs)
        BY <2>2, <4>1, <4>2, RemovedKeeps
      <4> QED BY <1>1, <4>3
    <3> HIDE DEF r
    <3>3. ~r.ic[c].loaded
      BY <2>3, <3>2
    <3>4. StateInv(t, FALSE, p.d, {})
      BY <2>2, <3>1, <3>2, <3>3, DeletedKeeps
    <3>5. t.backlogs = r.backlogs
      BY <2>2, <3>2, Deleted DEF StateInv
    <3> HIDE DEF t
    <3>6. v = [a EXCEPT !.s = t]
      BY <2>5 DEF t, r
    <3>7. /\ v.s = t /\ v = [s |-> v.s, total |-> v.total, short |-> v.short]
          /\ v.short = a.short
      BY <1>1, <3>6
    <3> HIDE DEF v
    <3>8. HasQueues(t)
      BY <3>2, <3>5 DEF HasQueues
    <3>9. VisitInv(v, k, p)
      BY <1>1, <3>2, <3>4, <3>5, <3>7, <3>8 DEF VisitInv
    <3> QED BY <3>9 DEF v
  <2> QED BY <1>3, <2>4, <2>5 DEF visit, c, s, m
<1> QED BY <1>2, <1>3 DEF visit

\* The queues in turn.
LEMMA Round ==
    ASSUME setting \in Settings, NEW a, NEW p, NEW k, VisitInv(a, k, p)
    PROVE  VisitInv(round(a), k + 1, p)
<1> DEFINE n == Len(a.s.backlogs)
           u == Upto(n)
<1>1. n \in Nat /\ p.n = n
  <2>1. a.s.backlogs \in Seq(Queue)
    BY StateParts DEF VisitInv, StateInv
  <2> QED BY <2>1 DEF VisitInv
<1>2. DOMAIN u = 1..n /\ \A j \in 1..n : u[j] = j
  BY UptoList
<1>3. round(a) = FS2!FoldOf(a, u, 0, 0)
  BY DEF round, FoldLeft, MapThenFoldSet, FS2!FoldOf, VisitStep, Max
<1> HIDE DEF n, u
<1>4. VisitInv(a, 0, p)
  BY DEF VisitInv
<1>5. ASSUME NEW t, NEW j \in 1..n, VisitInv(t, j - 1, p)
      PROVE  VisitInv(VisitStep(t, u[j], 0, 0), j, p)
  <2>1. u[j] = j
    BY <1>2
  <2>2. t.s.backlogs \in Seq(Queue) /\ Len(t.s.backlogs) = n
    BY <1>1, <1>5, StateParts DEF VisitInv, StateInv
  <2>3. j \in DOMAIN t.s.backlogs
    BY <2>2
  <2>4. VisitInv(visit(t, j), j, p)
    BY <1>5, <2>3, Visit
  <2> QED BY <2>1, <2>4 DEF VisitStep
<1>6. VisitInv(FS2!FoldOf(a, u, 0, 0), n, p)
  BY <1>1, <1>2, <1>4, <1>5, FS2!FoldKeeps
<1> QED BY <1>3, <1>6 DEF VisitInv

\* Round after round.
Rounds(a, n) == FoldLeft(LAMBDA b, k : IF More(b) THEN round(b) ELSE b, a, Upto(n))

\* Any number of rounds.
LEMMA AllRounds ==
    ASSUME setting \in Settings, NEW a, NEW p, VisitInv(a, 0, p), NEW n \in Nat
    PROVE  VisitInv(Rounds(a, n), n, p)
<1> DEFINE u == Upto(n)
<1>1. DOMAIN u = 1..n /\ \A j \in 1..n : u[j] = j
  BY UptoList
<1>2. Rounds(a, n) = FS3!FoldOf(a, u, 0, 0)
  BY DEF Rounds, FoldLeft, MapThenFoldSet, FS3!FoldOf, RoundStep, Max
<1> HIDE DEF u
<1>3. ASSUME NEW t, NEW j \in 1..n, VisitInv(t, j - 1, p)
      PROVE  VisitInv(RoundStep(t, u[j], 0, 0), j, p)
  <2>1. VisitInv(round(t), (j - 1) + 1, p)
    BY <1>3, Round
  <2>2. VisitInv(round(t), j, p) /\ VisitInv(t, j, p)
    BY <1>3, <2>1 DEF VisitInv
  <2> QED BY <2>2 DEF RoundStep
<1>4. VisitInv(FS3!FoldOf(a, u, 0, 0), n, p)
  BY <1>1, <1>3, FS3!FoldKeeps
<1> QED BY <1>2, <1>4

(***************************************************************************)
(* A loaded chunk is destroyed.                                            *)
(***************************************************************************)
\* What destroyed changes.
DestroyedTo(s, c, t) ==
    /\ t \in State
    /\ t.disk = s.disk \ {c} /\ t.up = s.up \ {c} /\ t.chunks = RemoveFirst(s.chunks, c)
    /\ t.ic[c] = NotLoaded /\ \A x \in Chunks : x /= c => t.ic[x] = s.ic[x]
    /\ \A o \in Limited : t.fs[o] = IF o \in s.ic[c].mask THEN s.fs[o] - 1 ELSE s.fs[o]
    /\ t.backlogs = s.backlogs /\ t.bl = s.bl /\ t.dropped = s.dropped

\* destroyed takes the chunk from the list and deletes its file.
LEMMA Destroyed ==
    ASSUME NEW s \in State, NEW c \in Chunks
    PROVE  DestroyedTo(s, c, destroyed(s, c))
<1> DEFINE D == s.disk \ {c}
           U == s.up \ {c}
           l == RemoveFirst(s.chunks, c)
           i == [s.ic EXCEPT ![c] = NotLoaded]
           f == [o \in Limited |-> IF o \in s.ic[c].mask THEN s.fs[o] - 1 ELSE s.fs[o]]
           t == destroyed(s, c)
<1>1. D \subseteq Chunks /\ U \subseteq Chunks
  BY StateParts
<1>2. l \in Seq(Chunks)
  BY StateParts, RemoveFirstList
<1>3. i \in [Chunks -> InputChunk] /\ i[c] = NotLoaded /\ \A x \in Chunks : x /= c => i[x] = s.ic[x]
  BY StateParts, NotLoadedFields
<1>4. f \in [Limited -> Int]
  BY StateParts
<1>5. \A o \in Limited : f[o] = IF o \in s.ic[c].mask THEN s.fs[o] - 1 ELSE s.fs[o]
  OBVIOUS
<1>6. t = [s EXCEPT !.disk = D, !.up = U, !.chunks = l, !.ic = i, !.fs = f]
  <2> DEFINE v == deleted(s, c)
  <2>1. v.chunks = s.chunks /\ v.ic = s.ic /\ v.fs = s.fs
    BY Deleted
  <2>2. v = [s EXCEPT !.disk = D, !.up = U]
    BY DEF deleted
  <2>3. t = [v EXCEPT !.chunks = RemoveFirst(v.chunks, c),
                      !.ic = [v.ic EXCEPT ![c] = NotLoaded],
                      !.fs = [o \in Limited |-> IF o \in s.ic[c].mask THEN v.fs[o] - 1 ELSE v.fs[o]]]
    BY DEF destroyed
  <2>4. t = [v EXCEPT !.chunks = l, !.ic = i, !.fs = f]
    <3> HIDE DEF v
    <3> QED BY <2>1, <2>3
  <2> HIDE DEF v, D, U, l, i, f
  <2> QED BY <2>2, <2>4 DEF State
<1> HIDE DEF D, U, l, i, f
<1>7. /\ t \in State /\ t.disk = D /\ t.up = U /\ t.chunks = l /\ t.ic = i /\ t.fs = f
      /\ t.backlogs = s.backlogs /\ t.bl = s.bl /\ t.dropped = s.dropped
  BY <1>1, <1>2, <1>3, <1>4, <1>6 DEF State
<1>8. D = s.disk \ {c} /\ U = s.up \ {c} /\ l = RemoveFirst(s.chunks, c)
  BY DEF D, U, l
<1> HIDE DEF t
<1>9. DestroyedTo(s, c, t)
  BY <1>3, <1>5, <1>7, <1>8 DEF DestroyedTo
<1> QED BY <1>9 DEF t

\* A loaded chunk may go when its outputs are done with it, or for space.
LEMMA DestroyedKeeps ==
    ASSUME NEW s, NEW w, NEW d, NEW c \in Chunks, StateInv(s, w, d, {}), s.ic[c].loaded,
           KeepsFiles => routes(c) \subseteq d[c] \cup s.dropped[c]
    PROVE  /\ StateInv(destroyed(s, c), w, d, {})
           /\ DestroyedTo(s, c, destroyed(s, c))
<1> DEFINE t == destroyed(s, c)
<1>1. s \in State
  BY DEF StateInv
<1>2. DestroyedTo(s, c, t)
  BY <1>1, Destroyed
<1> HIDE DEF t
<1>3. /\ t \in State
      /\ t.disk = s.disk \ {c} /\ t.up = s.up \ {c} /\ t.chunks = RemoveFirst(s.chunks, c)
      /\ t.ic[c] = NotLoaded /\ \A x \in Chunks : x /= c => t.ic[x] = s.ic[x]
      /\ \A o \in Limited : t.fs[o] = IF o \in s.ic[c].mask THEN s.fs[o] - 1 ELSE s.fs[o]
      /\ t.backlogs = s.backlogs /\ t.bl = s.bl /\ t.dropped = s.dropped
  BY <1>2 DEF DestroyedTo
<1>4. ~t.ic[c].loaded /\ ~t.ic[c].task /\ t.ic[c].mask = {} /\ t.ic[c].running = {}
  BY <1>3, NotLoadedFields
<1>5. Listed(t)
  <2>1. s.chunks \in Seq(Chunks) /\ IsInjective(s.chunks)
    BY <1>1, StateParts DEF StateInv, Listed
  <2>2. IsInjective(t.chunks) /\ Range(t.chunks) = Range(s.chunks) \ {c}
    BY <1>3, <2>1, RemoveFirstOnce
  <2>3. \A x \in Chunks : s.ic[x].loaded <=> x \in Range(s.chunks)
    BY DEF StateInv, Listed
  <2>4. \A x \in Chunks : t.ic[x].loaded <=> x \in Range(t.chunks)
    <3> SUFFICES ASSUME NEW x \in Chunks PROVE t.ic[x].loaded <=> x \in Range(t.chunks)
      OBVIOUS
    <3>1. CASE x = c
      BY <1>4, <2>2, <3>1
    <3>2. CASE x /= c
      BY <1>3, <2>2, <2>3, <3>2
    <3> QED BY <3>1, <3>2
  <2> QED BY <2>2, <2>4 DEF Listed
<1>6. ChunksOK(t)
  <2> SUFFICES ASSUME NEW x \in Chunks PROVE ChunkOK(t, x)
    BY DEF ChunksOK
  <2>1. CASE x = c
    BY <1>3, <1>4, <2>1 DEF ChunkOK
  <2>2. CASE x /= c
    BY <1>3, <2>2 DEF StateInv, ChunksOK, ChunkOK
  <2> QED BY <2>1, <2>2
<1>7. BacklogCounted(t)
  BY <1>3 DEF StateInv, BacklogCounted
<1>8. LoadedCounted(t)
  <2> SUFFICES ASSUME NEW o \in Limited PROVE t.fs[o] = Cardinality(Routed(t, o))
    BY DEF LoadedCounted
  <2>1. OnlyRouted(t, s, c)
    BY <1>3, <1>4 DEF OnlyRouted
  <2>2. /\ Cardinality(Routed(s, o)) \in Nat /\ Cardinality(Routed(t, o)) \in Nat
        /\ o \in s.ic[c].mask => Cardinality(Routed(s, o)) = Cardinality(Routed(t, o)) + 1
        /\ o \notin s.ic[c].mask => Cardinality(Routed(s, o)) = Cardinality(Routed(t, o))
    BY <2>1, RoutedChange
  <2>3. s.fs[o] = Cardinality(Routed(s, o))
    BY DEF StateInv, LoadedCounted
  <2> QED BY <1>3, <2>2, <2>3
<1>9. ASSUME ~w PROVE QueuesOK(t, {}) /\ MappedInUse(t)
  <2>1. QueuesOK(s, {}) /\ MappedInUse(s)
    BY <1>9 DEF StateInv
  <2>2. QueuesOK(t, {})
    <3> SUFFICES ASSUME NEW q \in DOMAIN s.backlogs
                 PROVE  /\ IsInjective(s.backlogs[q].chunks)
                        /\ \A x \in Range(s.backlogs[q].chunks) : x \in t.disk /\ ~t.ic[x].loaded
      BY <1>3 DEF QueuesOK
    <3>1. /\ IsInjective(s.backlogs[q].chunks)
          /\ \A x \in Range(s.backlogs[q].chunks) : x \in s.disk /\ ~s.ic[x].loaded
      BY <2>1 DEF QueuesOK
    <3>2. s.disk \subseteq Chunks
      BY <1>1, StateParts
    <3>3. \A x \in Range(s.backlogs[q].chunks) : x /= c /\ x \in Chunks
      BY <3>1, <3>2
    <3> QED BY <1>3, <3>1, <3>3
  <2>3. MappedInUse(t)
    <3> SUFFICES ASSUME NEW x \in Chunks, t.ic[x].running /= {} PROVE x \in t.up
      BY DEF MappedInUse
    <3>1. x /= c
      BY <1>4
    <3> QED BY <1>3, <2>1, <3>1 DEF MappedInUse
  <2> QED BY <2>2, <2>3
<1>10. ASSUME KeepsFiles PROVE Accounted(t, d)
  <2>1. Accounted(s, d)
    BY <1>10 DEF StateInv
  <2> SUFFICES ASSUME NEW x \in Chunks
               PROVE  /\ t.ic[x].task => \A o \in t.ic[x].mask :
                            \/ o \in t.ic[x].todo \cup t.ic[x].running
                            \/ o \in d[x] \cup t.dropped[x]
                      /\ x \notin t.disk /\ Kind[x] = "logs" => routes(x) \subseteq d[x] \cup t.dropped[x]
    BY DEF Accounted
  <2>2. CASE x = c
    BY <1>3, <1>4, <1>10, <2>2
  <2>3. CASE x /= c
    BY <1>3, <2>1, <2>3 DEF Accounted
  <2> QED BY <2>2, <2>3
<1>11. StateInv(t, w, d, {})
  BY <1>3, <1>5, <1>6, <1>7, <1>8, <1>9, <1>10 DEF StateInv
<1> QED BY <1>2, <1>11 DEF t

(***************************************************************************)
(* The routes of a loaded chunk go on.                                     *)
(***************************************************************************)
\* t is s with r as the chunk c, U as the mapped files and D as what was
\* dropped.
ChangedTo(s, c, r, U, D, t) ==
    /\ t \in State
    /\ t.ic[c] = r /\ \A x \in Chunks : x /= c => t.ic[x] = s.ic[x]
    /\ t.up = U /\ t.dropped = D
    /\ t.disk = s.disk /\ t.backlogs = s.backlogs /\ t.chunks = s.chunks
    /\ t.fs = s.fs /\ t.bl = s.bl

\* Such a state is the one an update of three fields makes.
LEMMA Changed ==
    ASSUME NEW s \in State, NEW c \in Chunks, NEW r \in InputChunk, NEW U \in SUBSET Chunks,
           NEW D \in [Chunks -> SUBSET Outputs],
           NEW t, t = [s EXCEPT !.ic = [s.ic EXCEPT ![c] = r], !.up = U, !.dropped = D]
    PROVE  ChangedTo(s, c, r, U, D, t)
<1> DEFINE i == [s.ic EXCEPT ![c] = r]
<1>1. i \in [Chunks -> InputChunk] /\ i[c] = r /\ \A x \in Chunks : x /= c => i[x] = s.ic[x]
  BY StateParts
<1>2. t = [s EXCEPT !.ic = i, !.up = U, !.dropped = D]
  OBVIOUS
<1> HIDE DEF i
<1>3. /\ t \in State /\ t.ic = i /\ t.up = U /\ t.dropped = D
      /\ t.disk = s.disk /\ t.backlogs = s.backlogs /\ t.chunks = s.chunks
      /\ t.fs = s.fs /\ t.bl = s.bl
  BY <1>1, <1>2 DEF State
<1> QED BY <1>1, <1>3 DEF ChangedTo

\* The routes that wait or run are routes of a task.
RoutesOK(c, r) ==
    /\ r.loaded /\ r.mask = routes(c)
    /\ r.todo \subseteq routes(c) /\ r.running \subseteq routes(c)
    /\ r.todo /= {} \/ r.running /= {} => r.task

\* The routes that neither wait nor run are done.
RoutesDone(r, done) == r.task => \A o \in r.mask : o \in r.todo \cup r.running \/ o \in done

\* What was done stays done.
DoneGrows(s, d, e, D) ==
    \A x \in Chunks : d[x] \subseteq e[x] /\ s.dropped[x] \subseteq D[x]

\* A file in use stays mapped.
StaysUp(s, c, r, U) ==
    /\ r.running /= {} => c \in U
    /\ \A x \in s.up : x /= c => x \in U

\* The invariant when the routes of one chunk go on.
LEMMA ChangedKeeps ==
    ASSUME NEW s, NEW w, NEW d, NEW e, NEW c \in Chunks, StateInv(s, w, d, {}), s.ic[c].loaded,
           NEW r, NEW U, NEW D, NEW t, ChangedTo(s, c, r, U, D, t),
           RoutesOK(c, r), w \/ StaysUp(s, c, r, U), DoneGrows(s, d, e, D),
           KeepsFiles => RoutesDone(r, e[c] \cup D[c])
    PROVE  StateInv(t, w, e, {})
<1>1. /\ t \in State
      /\ t.ic[c] = r /\ \A x \in Chunks : x /= c => t.ic[x] = s.ic[x]
      /\ t.up = U /\ t.dropped = D
      /\ t.disk = s.disk /\ t.backlogs = s.backlogs /\ t.chunks = s.chunks
      /\ t.fs = s.fs /\ t.bl = s.bl
  BY DEF ChangedTo
<1>2. s \in State /\ s.disk \subseteq Chunks
  BY StateParts DEF StateInv
<1>3. s.ic[c].mask = routes(c) /\ c \in s.disk /\ Kind[c] = "logs"
  BY DEF StateInv, ChunksOK, ChunkOK
<1>4. \A x \in Chunks : (t.ic[x].loaded <=> s.ic[x].loaded) /\ t.ic[x].mask = s.ic[x].mask
  BY <1>1, <1>3 DEF RoutesOK
<1>5. Listed(t)
  <2>1. IsInjective(s.chunks) /\ \A x \in Chunks : s.ic[x].loaded <=> x \in Range(s.chunks)
    BY DEF StateInv, Listed
  <2> QED BY <1>1, <1>4, <2>1 DEF Listed
<1>6. ChunksOK(t)
  <2> SUFFICES ASSUME NEW x \in Chunks PROVE ChunkOK(t, x)
    BY DEF ChunksOK
  <2>1. CASE x = c
    BY <1>1, <1>3, <2>1 DEF ChunkOK, RoutesOK
  <2>2. CASE x /= c
    BY <1>1, <2>2 DEF StateInv, ChunksOK, ChunkOK
  <2> QED BY <2>1, <2>2
<1>7. BacklogCounted(t)
  BY <1>1 DEF StateInv, BacklogCounted
<1>8. LoadedCounted(t)
  <2> SUFFICES ASSUME NEW o \in Limited PROVE t.fs[o] = Cardinality(Routed(t, o))
    BY DEF LoadedCounted
  <2>1. Routed(t, o) = Routed(s, o)
    BY <1>4 DEF Routed
  <2>2. Cardinality(Routed(t, o)) = Cardinality(Routed(s, o))
    BY <2>1
  <2> QED BY <1>1, <2>2 DEF StateInv, LoadedCounted
<1>9. ASSUME ~w PROVE QueuesOK(t, {}) /\ MappedInUse(t)
  <2>1. QueuesOK(s, {}) /\ MappedInUse(s) /\ StaysUp(s, c, r, U)
    BY <1>9 DEF StateInv
  <2>2. QueuesOK(t, {})
    <3> SUFFICES ASSUME NEW q \in DOMAIN s.backlogs
                 PROVE  /\ IsInjective(s.backlogs[q].chunks)
                        /\ \A x \in Range(s.backlogs[q].chunks) : x \in t.disk /\ ~t.ic[x].loaded
      BY <1>1 DEF QueuesOK
    <3>1. /\ IsInjective(s.backlogs[q].chunks)
          /\ \A x \in Range(s.backlogs[q].chunks) : x \in s.disk /\ ~s.ic[x].loaded
      BY <2>1 DEF QueuesOK
    <3> QED BY <1>1, <1>2, <1>4, <3>1
  <2>3. MappedInUse(t)
    <3> SUFFICES ASSUME NEW x \in Chunks, t.ic[x].running /= {} PROVE x \in t.up
      BY DEF MappedInUse
    <3>1. CASE x = c
      BY <1>1, <2>1, <3>1 DEF StaysUp
    <3>2. CASE x /= c
      BY <1>1, <2>1, <3>2 DEF StaysUp, MappedInUse
    <3> QED BY <3>1, <3>2
  <2> QED BY <2>2, <2>3
<1>10. ASSUME KeepsFiles PROVE Accounted(t, e)
  <2>1. Accounted(s, d) /\ RoutesDone(r, e[c] \cup D[c])
    BY <1>10 DEF StateInv
  <2> SUFFICES ASSUME NEW x \in Chunks
               PROVE  /\ t.ic[x].task => \A o \in t.ic[x].mask :
                            \/ o \in t.ic[x].todo \cup t.ic[x].running
                            \/ o \in e[x] \cup t.dropped[x]
                      /\ x \notin t.disk /\ Kind[x] = "logs" => routes(x) \subseteq e[x] \cup t.dropped[x]
    BY DEF Accounted
  <2>2. CASE x = c
    BY <1>1, <1>3, <2>1, <2>2 DEF RoutesDone
  <2>3. CASE x /= c
    <3>1. d[x] \subseteq e[x] /\ s.dropped[x] \subseteq t.dropped[x]
      BY <1>1 DEF DoneGrows
    <3> QED BY <1>1, <2>1, <2>3, <3>1 DEF Accounted
  <2> QED BY <2>2, <2>3
<1> QED
  BY <1>1, <1>5, <1>6, <1>7, <1>8, <1>9, <1>10 DEF StateInv

\* What is known of a chunk with routes.
HasRoutes(q) == q.todo /= {} \/ q.running /= {} \/ q.mask /= {}
RoutedChunk(s, w, d, c, q) ==
    /\ s \in State /\ q \in InputChunk /\ RoutesOK(c, q) /\ routes(c) \subseteq Outputs
    /\ KeepsFiles => RoutesDone(q, d[c] \cup s.dropped[c])
    /\ s.dropped[c] \subseteq Outputs
    /\ w \/ StaysUp(s, c, q, s.up)

\* A chunk with routes is loaded, and those that neither wait nor run are done.
LEMMA OpenRoute ==
    ASSUME setting \in Settings, NEW s, NEW w, NEW d, StateInv(s, w, d, {}), NEW c \in Chunks,
           HasRoutes(s.ic[c])
    PROVE  RoutedChunk(s, w, d, c, s.ic[c])
<1>1. s \in State /\ ChunkOK(s, c)
  BY DEF StateInv, ChunksOK
<1>2. s.ic[c].loaded
  <2>1. s.ic[c] /= NotLoaded
    BY NotLoadedFields DEF HasRoutes
  <2> QED BY <1>1, <2>1 DEF ChunkOK
<1>3. RoutesOK(c, s.ic[c])
  BY <1>1, <1>2 DEF ChunkOK, RoutesOK
<1>4. KeepsFiles => RoutesDone(s.ic[c], d[c] \cup s.dropped[c])
  BY DEF StateInv, Accounted, RoutesDone
<1>5. w \/ StaysUp(s, c, s.ic[c], s.up)
  BY DEF StateInv, MappedInUse, StaysUp
<1>6. s.ic[c] \in InputChunk /\ s.dropped[c] \subseteq Outputs /\ routes(c) \subseteq Outputs
  BY <1>1, ChunkParts, StateParts, SettingParts
<1> QED BY <1>1, <1>3, <1>4, <1>5, <1>6 DEF RoutedChunk

Started(s, c, o) == [s EXCEPT !.ic[c].todo = @ \ {o}, !.ic[c].running = @ \cup {o}]

\* The callback of a route begins.
LEMMA RouteStarted ==
    ASSUME setting \in Settings, NEW s, NEW w, NEW d, StateInv(s, w, d, {}), NEW c \in Chunks,
           NEW o \in s.ic[c].todo, c \in s.up
    PROVE  /\ StateInv(Started(s, c, o), w, d, {})
           /\ Started(s, c, o).backlogs = s.backlogs
<1> DEFINE q == s.ic[c]
           r == [q EXCEPT !.todo = q.todo \ {o}, !.running = q.running \cup {o}]
           t == Started(s, c, o)
<1>1. /\ s \in State /\ q \in InputChunk /\ RoutesOK(c, q) /\ routes(c) \subseteq Outputs
      /\ KeepsFiles => RoutesDone(q, d[c] \cup s.dropped[c])
      /\ w \/ StaysUp(s, c, q, s.up)
  <2>1. HasRoutes(s.ic[c])
    BY DEF HasRoutes
  <2>2. RoutedChunk(s, w, d, c, s.ic[c])
    BY <2>1, OpenRoute
  <2> QED BY <2>2 DEF RoutedChunk
<1>2. t = [s EXCEPT !.ic = [s.ic EXCEPT ![c] = r], !.up = s.up, !.dropped = s.dropped]
  BY <1>1 DEF State, Started
<1>3. /\ r \in InputChunk /\ r.loaded = q.loaded /\ r.task = q.task /\ r.mask = q.mask
      /\ r.todo = q.todo \ {o} /\ r.running = q.running \cup {o}
  BY <1>1 DEF RoutesOK, InputChunk
<1> HIDE DEF r, t
<1>4. ChangedTo(s, c, r, s.up, s.dropped, t)
  BY <1>1, <1>2, <1>3, StateParts, Changed
<1>5. RoutesOK(c, r) /\ (KeepsFiles => RoutesDone(r, d[c] \cup s.dropped[c]))
  BY <1>1, <1>3 DEF RoutesOK, RoutesDone
<1>6. w \/ StaysUp(s, c, r, s.up)
  BY DEF StaysUp
<1>7. DoneGrows(s, d, d, s.dropped)
  BY DEF DoneGrows
<1>8. s.ic[c].loaded
  BY <1>1 DEF RoutesOK
<1>9. StateInv(t, w, d, {})
  BY <1>4, <1>5, <1>6, <1>7, <1>8, ChangedKeeps
<1>10. StateInv(t, w, d, {}) /\ t.backlogs = s.backlogs
  BY <1>4, <1>9 DEF ChangedTo
<1> QED BY <1>10 DEF t

\* Of the routes of c that wait or run, only o no longer does.
Closes(s, c, o, T, R, D, t) ==
    /\ o \in s.ic[c].todo \cup s.ic[c].running
    /\ R \subseteq s.ic[c].running /\ T \subseteq s.ic[c].todo
    /\ s.ic[c].todo \cup s.ic[c].running \subseteq R \cup T \cup {o}
    /\ D \in [Chunks -> SUBSET Outputs]
    /\ t = [s EXCEPT !.ic = [s.ic EXCEPT ![c] = [s.ic[c] EXCEPT !.todo = T, !.running = R]],
                     !.dropped = D]

\* A route that waits or runs is given up, or is done.
LEMMA RouteClosed ==
    ASSUME setting \in Settings, NEW s, NEW w, NEW d, NEW e, NEW D, StateInv(s, w, d, {}),
           NEW c \in Chunks, NEW o, NEW R, NEW T, NEW t, Closes(s, c, o, T, R, D, t),
           DoneGrows(s, d, e, D), o \in e[c] \cup D[c]
    PROVE  /\ StateInv(t, w, e, {}) /\ t.backlogs = s.backlogs
           /\ t.ic[c].loaded /\ t.ic[c].task
<1> DEFINE q == s.ic[c]
           r == [q EXCEPT !.todo = T, !.running = R]
<1>1. /\ s \in State /\ q \in InputChunk /\ RoutesOK(c, q) /\ routes(c) \subseteq Outputs
      /\ KeepsFiles => RoutesDone(q, d[c] \cup s.dropped[c])
      /\ w \/ StaysUp(s, c, q, s.up)
  <2>1. HasRoutes(s.ic[c])
    BY DEF HasRoutes, Closes
  <2>2. RoutedChunk(s, w, d, c, s.ic[c])
    BY <2>1, OpenRoute
  <2> QED BY <2>2 DEF RoutedChunk
<1>2. t = [s EXCEPT !.ic = [s.ic EXCEPT ![c] = r], !.up = s.up, !.dropped = D]
  BY <1>1 DEF State, Closes
<1>3. /\ r \in InputChunk /\ r.loaded = q.loaded /\ r.task = q.task /\ r.mask = q.mask
      /\ r.todo = T /\ r.running = R
  BY <1>1 DEF RoutesOK, InputChunk, Closes
<1>4. q.todo \cup q.running \subseteq R \cup T \cup {o} /\ q.task /\ q.loaded
      /\ R \subseteq q.running /\ T \subseteq q.todo /\ D \in [Chunks -> SUBSET Outputs]
  BY <1>1 DEF RoutesOK, Closes
<1> HIDE DEF r, q
<1>5. ChangedTo(s, c, r, s.up, D, t)
  BY <1>1, <1>2, <1>3, <1>4, StateParts, Changed
<1>6. RoutesOK(c, r)
  BY <1>1, <1>3, <1>4 DEF RoutesOK
<1>7. ASSUME KeepsFiles PROVE RoutesDone(r, e[c] \cup D[c])
  <2>1. RoutesDone(q, d[c] \cup s.dropped[c])
    BY <1>1, <1>7
  <2>2. d[c] \subseteq e[c] /\ s.dropped[c] \subseteq D[c]
    BY DEF DoneGrows
  <2> SUFFICES ASSUME NEW x \in q.mask PROVE x \in T \cup R \/ x \in e[c] \cup D[c]
    BY <1>3 DEF RoutesDone
  <2>3. x \in q.todo \cup q.running \/ x \in d[c] \cup s.dropped[c]
    BY <1>4, <2>1 DEF RoutesDone
  <2> QED BY <1>4, <2>2, <2>3
<1>8. w \/ StaysUp(s, c, r, s.up)
  <2>1. R /= {} => q.running /= {}
    BY <1>4
  <2> QED BY <1>1, <1>3, <2>1 DEF StaysUp
<1>9. s.ic[c].loaded
  BY <1>4 DEF q
<1>10. StateInv(t, w, e, {})
  BY <1>5, <1>6, <1>7, <1>8, <1>9, ChangedKeeps
<1> QED BY <1>3, <1>4, <1>5, <1>10 DEF ChangedTo

\* The chunk goes with its last route.
LEMMA Returned ==
    ASSUME NEW s, NEW w, NEW d, StateInv(s, w, d, {}), NEW c \in Chunks,
           s.ic[c].loaded, s.ic[c].task
    PROVE  StateInv(returned(s, c), w, d, {}) /\ returned(s, c).backlogs = s.backlogs
<1>1. CASE s.ic[c].running = {} /\ s.ic[c].todo = {}
  <2>1. returned(s, c) = destroyed(s, c)
    BY <1>1 DEF returned
  <2>2. s.ic[c].mask = routes(c)
    BY DEF StateInv, ChunksOK, ChunkOK
  <2>3. ASSUME KeepsFiles PROVE routes(c) \subseteq d[c] \cup s.dropped[c]
    BY <1>1, <2>2, <2>3 DEF StateInv, Accounted
  <2>4. StateInv(destroyed(s, c), w, d, {}) /\ DestroyedTo(s, c, destroyed(s, c))
    BY <2>3, DestroyedKeeps
  <2> QED BY <2>1, <2>4 DEF DestroyedTo
<1>2. CASE ~(s.ic[c].running = {} /\ s.ic[c].todo = {})
  BY <1>2 DEF returned
<1> QED BY <1>1, <1>2

(***************************************************************************)
(* Room is made.                                                           *)
(***************************************************************************)
\* More may be dropped at any time.
LEMMA DroppedMore ==
    ASSUME NEW s, NEW w, NEW d, StateInv(s, w, d, {}), NEW D \in [Chunks -> SUBSET Outputs],
           \A x \in Chunks : s.dropped[x] \subseteq D[x], NEW t, t = [s EXCEPT !.dropped = D]
    PROVE  StateInv(t, w, d, {}) /\ t.backlogs = s.backlogs
<1>1. s \in State
  BY DEF StateInv
<1>2. /\ t \in State /\ t.dropped = D
      /\ t.disk = s.disk /\ t.backlogs = s.backlogs /\ t.chunks = s.chunks
      /\ t.ic = s.ic /\ t.up = s.up /\ t.fs = s.fs /\ t.bl = s.bl
  BY <1>1 DEF State
<1>3. Listed(t) /\ ChunksOK(t)
  BY <1>2 DEF StateInv, Listed, ChunksOK, ChunkOK
<1>4. BacklogCounted(t) /\ LoadedCounted(t)
  BY <1>2 DEF StateInv, BacklogCounted, LoadedCounted, Routed
<1>5. w \/ (QueuesOK(t, {}) /\ MappedInUse(t))
  BY <1>2 DEF StateInv, QueuesOK, MappedInUse
<1>6. ASSUME KeepsFiles PROVE Accounted(t, d)
  <2>1. Accounted(s, d)
    BY <1>6 DEF StateInv
  <2> SUFFICES ASSUME NEW x \in Chunks
               PROVE  /\ t.ic[x].task => \A o \in t.ic[x].mask :
                            \/ o \in t.ic[x].todo \cup t.ic[x].running
                            \/ o \in d[x] \cup t.dropped[x]
                      /\ x \notin t.disk /\ Kind[x] = "logs" => routes(x) \subseteq d[x] \cup t.dropped[x]
    BY DEF Accounted
  <2>2. s.dropped[x] \subseteq t.dropped[x]
    BY <1>2
  <2> QED BY <1>2, <2>1, <2>2 DEF Accounted
<1> QED
  BY <1>2, <1>3, <1>4, <1>5, <1>6 DEF StateInv

MarkedEvicted(s, c, o) == [s EXCEPT !.ic[c].evicted = @ \cup {o}]

\* A route in a task that has others running is marked as dropped.
LEMMA RouteEvicted ==
    ASSUME setting \in Settings, NEW s, NEW w, NEW d, StateInv(s, w, d, {}), NEW c \in Chunks,
           NEW o \in s.ic[c].mask
    PROVE  /\ StateInv(MarkedEvicted(s, c, o), w, d, {})
           /\ MarkedEvicted(s, c, o).backlogs = s.backlogs
<1> DEFINE q == s.ic[c]
           r == [q EXCEPT !.evicted = q.evicted \cup {o}]
           t == MarkedEvicted(s, c, o)
<1>1. /\ s \in State /\ q \in InputChunk /\ RoutesOK(c, q) /\ routes(c) \subseteq Outputs
      /\ KeepsFiles => RoutesDone(q, d[c] \cup s.dropped[c])
      /\ w \/ StaysUp(s, c, q, s.up)
  <2>1. HasRoutes(s.ic[c])
    BY DEF HasRoutes
  <2>2. RoutedChunk(s, w, d, c, s.ic[c])
    BY <2>1, OpenRoute
  <2> QED BY <2>2 DEF RoutedChunk
<1>2. t = [s EXCEPT !.ic = [s.ic EXCEPT ![c] = r], !.up = s.up, !.dropped = s.dropped]
  BY <1>1 DEF State, MarkedEvicted
<1>3. /\ r \in InputChunk /\ r.loaded = q.loaded /\ r.task = q.task /\ r.mask = q.mask
      /\ r.todo = q.todo /\ r.running = q.running
  BY <1>1 DEF RoutesOK, InputChunk
<1> HIDE DEF r, t
<1>4. ChangedTo(s, c, r, s.up, s.dropped, t)
  BY <1>1, <1>2, <1>3, StateParts, Changed
<1>5. RoutesOK(c, r) /\ (KeepsFiles => RoutesDone(r, d[c] \cup s.dropped[c]))
  BY <1>1, <1>3 DEF RoutesOK, RoutesDone
<1>6. w \/ StaysUp(s, c, r, s.up)
  BY <1>1, <1>3 DEF StaysUp
<1>7. DoneGrows(s, d, d, s.dropped)
  BY DEF DoneGrows
<1>8. s.ic[c].loaded
  BY <1>1 DEF RoutesOK
<1>9. StateInv(t, w, d, {})
  BY <1>4, <1>5, <1>6, <1>7, <1>8, ChangedKeeps
<1>10. StateInv(t, w, d, {}) /\ t.backlogs = s.backlogs
  BY <1>4, <1>9 DEF ChangedTo
<1> QED BY <1>10 DEF t

\* flb_input_chunk_release_space at one chunk.
LEMMA EvictChunk ==
    ASSUME setting \in Settings, NEW a, NEW p, NEW k, EvictInv(a, k - 1, p),
           NEW c \in Chunks, NEW o \in Limited
    PROVE  EvictInv(evict_loaded(a, c, o), k, p)
<1> DEFINE s == a.s
           v == evict_loaded(a, c, o)
<1>1. /\ a = [s |-> a.s, done |-> a.done]
      /\ StateInv(s, FALSE, p.d, {}) /\ HasQueues(s)
  BY DEF EvictInv
<1>2. CASE v = a
  BY <1>1, <1>2 DEF EvictInv
<1>3. CASE /\ o \in s.ic[c].mask
           /\ v = [s |-> [destroyed(s, c) EXCEPT !.dropped[c] = @ \cup {o}], done |-> TRUE]
  <2> DEFINE t == destroyed(s, c)
             D == [t.dropped EXCEPT ![c] = t.dropped[c] \cup {o}]
             u == [t EXCEPT !.dropped = D]
  <2>1. s.ic[c].loaded
    <3>1. HasRoutes(s.ic[c])
      BY <1>3 DEF HasRoutes
    <3>2. RoutedChunk(s, FALSE, p.d, c, s.ic[c])
      BY <1>1, <3>1, OpenRoute
    <3> QED BY <3>2 DEF RoutedChunk, RoutesOK
  <2>2. ~KeepsFiles /\ o \in Outputs
    BY SettingParts DEF KeepsFiles
  <2> HIDE DEF s
  <2>3. StateInv(t, FALSE, p.d, {}) /\ t.backlogs = s.backlogs
    <3>1. StateInv(t, FALSE, p.d, {}) /\ DestroyedTo(s, c, t)
      BY <1>1, <2>1, <2>2, DestroyedKeeps
    <3> QED BY <3>1 DEF DestroyedTo
  <2> HIDE DEF t
  <2>4. t.dropped \in [Chunks -> SUBSET Outputs]
    BY <2>3, StateParts DEF StateInv
  <2>5. D \in [Chunks -> SUBSET Outputs] /\ \A x \in Chunks : t.dropped[x] \subseteq D[x]
    BY <2>2, <2>4
  <2>6. u = [t EXCEPT !.dropped = D]
    OBVIOUS
  <2>7. v = [s |-> u, done |-> TRUE]
    BY <1>3 DEF s, t
  <2> HIDE DEF D, u
  <2>8. StateInv(u, FALSE, p.d, {}) /\ u.backlogs = t.backlogs
    BY <2>3, <2>5, <2>6, DroppedMore
  <2>9. HasQueues(u)
    BY <1>1, <2>3, <2>8 DEF HasQueues
  <2>10. v.s = u /\ v = [s |-> v.s, done |-> v.done]
    BY <2>7
  <2> HIDE DEF v
  <2>11. EvictInv(v, k, p)
    BY <2>8, <2>9, <2>10 DEF EvictInv
  <2> QED BY <2>11 DEF v
<1>4. CASE o \in s.ic[c].mask /\ v = [a EXCEPT !.s.ic[c].evicted = @ \cup {o}]
  <2> DEFINE u == MarkedEvicted(s, c, o)
  <2>1. StateInv(u, FALSE, p.d, {}) /\ u.backlogs = s.backlogs
    BY <1>1, <1>4, RouteEvicted
  <2>2. v = [a EXCEPT !.s = u]
    BY <1>1, <1>4 DEF MarkedEvicted
  <2> HIDE DEF u
  <2>3. v.s = u /\ v = [s |-> v.s, done |-> v.done]
    BY <1>1, <2>2
  <2>4. HasQueues(u)
    BY <1>1, <2>1 DEF HasQueues
  <2> HIDE DEF v
  <2>5. EvictInv(v, k, p)
    BY <2>1, <2>3, <2>4 DEF EvictInv
  <2> QED BY <2>5 DEF v
<1> QED BY <1>2, <1>3, <1>4 DEF evict_loaded

EvictLoop(a, l, o) == FoldLeft(LAMBDA t, c : evict_loaded(t, c, o), a, l)

\* ... and at all of them.
LEMMA EvictAll ==
    ASSUME setting \in Settings, NEW a, NEW p, EvictInv(a, 0, p), NEW l \in Seq(Chunks),
           NEW o \in Limited
    PROVE  EvictInv(EvictLoop(a, l, o), Len(l), p)
<1> DEFINE n == Len(l)
<1>1. n \in Nat /\ DOMAIN l = 1..n /\ \A j \in 1..n : l[j] \in Chunks
  OBVIOUS
<1>2. EvictLoop(a, l, o) = FS4!FoldOf(a, l, o, 0)
  BY DEF EvictLoop, FoldLeft, MapThenFoldSet, FS4!FoldOf, EvictStep, Max
<1> HIDE DEF n
<1>3. ASSUME NEW t, NEW j \in 1..n, EvictInv(t, j - 1, p)
      PROVE  EvictInv(EvictStep(t, l[j], o, 0), j, p)
  BY <1>1, <1>3, EvictChunk DEF EvictStep
<1>4. EvictInv(FS4!FoldOf(a, l, o, 0), n, p)
  BY <1>1, <1>3, FS4!FoldKeeps
<1> QED BY <1>2, <1>4 DEF n

\* sb_release_output_queue_space
LEMMA ReleaseQueue ==
    ASSUME setting \in Settings, NEW s, NEW d, StateInv(s, FALSE, d, {}), HasQueues(s),
           NEW o \in Limited
    PROVE  StateInv(release_queue(s, o), FALSE, d, {}) /\ HasQueues(release_queue(s, o))
<1> DEFINE Q == {q \in DOMAIN s.backlogs : s.backlogs[q].ins = o}
           q == Min(Q)
           c == Head(s.backlogs[q].chunks)
<1>1. s \in State /\ o \in Outputs /\ ~KeepsFiles
  BY SettingParts DEF StateInv, KeepsFiles
<1>2. q \in DOMAIN s.backlogs
  <2>1. Q /= {}
    BY <1>1 DEF HasQueues
  <2>2. s.backlogs \in Seq(Queue)
    BY <1>1, StateParts
  <2>3. Q \in SUBSET Nat
    BY <2>2
  <2> HIDE DEF Q
  <2>4. \E x \in Q : \A y \in Q : x <= y
    BY <2>1, <2>3, FS1!LeastNat
  <2>5. q \in Q
    BY <2>4 DEF Min
  <2> QED BY <2>5 DEF Q
<1>3. CASE s.backlogs[q].chunks = <<>>
  <2>1. release_queue(s, o) = s
    BY <1>3 DEF release_queue
  <2> QED BY <2>1
<1>4. CASE s.backlogs[q].chunks /= <<>>
  <2>1. c \in Chunks /\ c \in Range(s.backlogs[q].chunks)
    <3> DEFINE l == s.backlogs[q].chunks
    <3>1. l \in Seq(Chunks)
      BY <1>1, <1>2, QueueParts
    <3> HIDE DEF l
    <3>2. l /= <<>>
      BY <1>4 DEF l
    <3>3. Head(l) = l[1] /\ 1 \in DOMAIN l /\ l[1] \in Chunks
      BY <3>1, <3>2
    <3>4. Head(l) \in Chunks /\ Head(l) \in Range(l)
      BY <3>3 DEF Range
    <3> QED BY <3>4 DEF l
  <2>2. ~s.ic[c].loaded
    BY <1>2, <2>1 DEF StateInv, QueuesOK
  <2>3. release_queue(s, o) = deleted(removed(s, c), c)
    BY <1>4 DEF release_queue
  <2> HIDE DEF c
  <2> DEFINE r == removed(s, c)
             t == deleted(r, c)
             X == {}
  <2>4. StateInv(s, FALSE, d, X) /\ \A x \in X : x = c
    OBVIOUS
  <2> HIDE DEF X
  <2>5. /\ StateInv(r, FALSE, d, {}) /\ InNoQueue(r, c) /\ r.ic = s.ic
        /\ HasQueues(s) => HasQueues(r)
    BY <2>1, <2>4, RemovedKeeps
  <2> HIDE DEF r
  <2>6. ~r.ic[c].loaded
    BY <2>2, <2>5
  <2>7. StateInv(t, FALSE, d, {})
    BY <1>1, <2>1, <2>5, <2>6, DeletedKeeps
  <2>8. t.backlogs = r.backlogs
    BY <2>1, <2>5, Deleted DEF StateInv
  <2>9. HasQueues(t)
    BY <2>5, <2>8 DEF HasQueues
  <2> QED BY <2>3, <2>7, <2>9 DEF t, r
<1> QED BY <1>3, <1>4

(***************************************************************************)
(* The steps of the specification.                                         *)
(***************************************************************************)
\* With the same setting, the invariant of a record is the same.
LEMMA Frame ==
    ASSUME NEW CONSTANT s, NEW CONSTANT w, NEW CONSTANT d, setting' = setting
    PROVE  StateInv(s, w, d, {})' <=> StateInv(s, w, d, {})
<1>1. /\ Kind' = Kind /\ Limited' = Limited /\ Stored' = Stored /\ Tagged' = Tagged
      /\ KeepsFiles' <=> KeepsFiles
  BY DEF Kind, Limited, Stored, Tagged, KeepsFiles, Faults
<1>2. \A c : routes(c)' = routes(c)
  BY <1>1 DEF routes
<1>3. (s \in State)' <=> s \in State
  BY <1>1 DEF State
<1>4. ChunksOK(s)' <=> ChunksOK(s)
  BY <1>1, <1>2 DEF ChunksOK, ChunkOK
<1>5. LoadedCounted(s)' <=> LoadedCounted(s)
  BY <1>1 DEF LoadedCounted
<1>6. Accounted(s, d)' <=> Accounted(s, d)
  BY <1>1, <1>2 DEF Accounted
<1> QED
  BY <1>1, <1>3, <1>4, <1>5, <1>6 DEF StateInv

\* The state as a record, field by field.
LEMMA NowFields ==
    /\ Now.disk = disk /\ Now.backlogs = backlogs /\ Now.chunks = chunks /\ Now.ic = ic
    /\ Now.up = up /\ Now.fs = fs_chunks_size /\ Now.bl = fs_backlog_chunks_size
    /\ Now.dropped = dropped
BY DEF Now

\* A step to a record that satisfies the invariant.
LEMMA Becoming ==
    ASSUME NEW CONSTANT u, NEW CONSTANT w, NEW CONSTANT d, StateInv(u, w, d, {}), Becomes(u),
           setting' = setting, flushed_backlog' = w, delivered' = d
    PROVE  StateInv(Now, flushed_backlog, delivered, {})' /\ Now' = u
<1>1. u \in State
  BY DEF StateInv
<1>2. Now' = u
  BY <1>1 DEF Becomes, Now, State
<1>3. StateInv(u, w, d, {})'
  BY Frame
<1> QED BY <1>2, <1>3

\* What else the invariant says of the service.
LEMMA Reached ==
    ASSUME IndInv, NEW CONSTANT u, NEW CONSTANT w \in BOOLEAN,
           NEW CONSTANT d \in [Chunks -> SUBSET Outputs],
           StateInv(u, w, d, {}), Becomes(u),
           setting' = setting, flushed_backlog' = w, delivered' = d,
           phase' \in {"off", "running", "stopping", "hung"},
           w => phase' = "stopping",
           phase' = "off" => u.backlogs = <<>> /\ u.chunks = <<>>,
           phase' /= "off" => HasQueues(u)
    PROVE  IndInv'
<1>1. StateInv(Now, flushed_backlog, delivered, {})' /\ Now' = u
  BY Becoming
<1>2. setting \in Settings
  BY DEF IndInv
<1>3. HasQueues(Now)' <=> HasQueues(u)
  BY <1>1 DEF HasQueues
<1>4. backlogs' = u.backlogs /\ chunks' = u.chunks
  BY DEF Becomes
<1> QED BY <1>1, <1>2, <1>3, <1>4 DEF IndInv

\* The service goes on.
LEMMA Served ==
    ASSUME IndInv, Serving, NEW CONSTANT u, NEW CONSTANT d \in [Chunks -> SUBSET Outputs],
           StateInv(u, flushed_backlog, d, {}), HasQueues(u), Becomes(u),
           UNCHANGED <<setting, service, flushed_backlog>>, delivered' = d
    PROVE  IndInv'
<1> DEFINE w == flushed_backlog
<1>1. /\ setting' = setting /\ flushed_backlog' = w /\ phase' = phase
      /\ w \in BOOLEAN /\ (w => phase = "stopping") /\ phase \in {"running", "stopping"}
  BY DEF service, IndInv, Serving
<1>2. StateInv(u, w, d, {})
  OBVIOUS
<1> HIDE DEF w
<1>3. phase' \in {"off", "running", "stopping", "hung"} /\ (w => phase' = "stopping") /\ phase' /= "off"
  BY <1>1
<1> QED BY <1>1, <1>2, <1>3, Reached

\* What holds while the service goes on.
LEMMA ServingParts ==
    ASSUME IndInv, Serving
    PROVE  /\ setting \in Settings /\ delivered \in [Chunks -> SUBSET Outputs]
           /\ StateInv(Now, flushed_backlog, delivered, {}) /\ HasQueues(Now)
           /\ Now \in State
BY DEF IndInv, Serving, StateInv

\* Queues with the same outputs.
LEMMA SameQueues ==
    ASSUME NEW s, NEW t, t.backlogs = s.backlogs, HasQueues(s)
    PROVE  HasQueues(t)
BY DEF HasQueues

\* A task is made for a chunk, or the chunk has no routes and goes.
LEMMA TaskCreateKeeps ==
    ASSUME IndInv, NEW c \in Chunks, TaskCreate(c)
    PROVE  IndInv'
<1> DEFINE s == Now
           w == flushed_backlog
           d == delivered
           q == s.ic[c]
           r == [q EXCEPT !.task = TRUE, !.todo = q.mask]
           U == s.up \cup {c}
           v == [Now EXCEPT !.ic[c].task = TRUE, !.ic[c].todo = ic[c].mask, !.up = @ \cup {c}]
           u == IF ic[c].mask = {} THEN destroyed(Now, c) ELSE v
<1>1. /\ Serving /\ ic[c].loaded /\ ~ic[c].task /\ Becomes(u)
      /\ UNCHANGED <<setting, service, flushed_backlog>> /\ delivered' = d
  BY DEF TaskCreate
<1>2. /\ setting \in Settings /\ d \in [Chunks -> SUBSET Outputs]
      /\ StateInv(s, w, d, {}) /\ HasQueues(s) /\ s \in State
  BY <1>1, ServingParts
<1>3. q.loaded /\ ~q.task /\ q.mask = ic[c].mask
  BY <1>1, NowFields
<1>4. q.mask = routes(c) /\ q.running = {} /\ q \in InputChunk /\ routes(c) \subseteq Outputs
  <2>1. ChunkOK(s, c)
    BY <1>2 DEF StateInv, ChunksOK
  <2> QED BY <1>2, <1>3, <2>1, SettingParts, ChunkParts DEF ChunkOK
<1>5. StateInv(u, w, d, {}) /\ HasQueues(u)
  <2>1. CASE ic[c].mask = {}
    <3>1. routes(c) = {}
      BY <1>3, <1>4, <2>1
    <3> DEFINE t == destroyed(s, c)
    <3>2. StateInv(t, w, d, {}) /\ DestroyedTo(s, c, t)
      BY <1>2, <1>3, <3>1, DestroyedKeeps
    <3>3. u = t
      BY <2>1
    <3> HIDE DEF t, u
    <3>4. t.backlogs = s.backlogs
      BY <3>2 DEF DestroyedTo
    <3>5. HasQueues(t)
      BY <1>2, <3>4, SameQueues
    <3> QED BY <3>2, <3>3, <3>5
  <2>2. CASE ic[c].mask /= {}
    <3>1. u = v
      BY <2>2
    <3>2. v = [s EXCEPT !.ic = [s.ic EXCEPT ![c] = r], !.up = U, !.dropped = s.dropped]
      BY <1>2, <1>3 DEF State
    <3>3. /\ r \in InputChunk /\ r.loaded = q.loaded /\ r.task = TRUE /\ r.mask = q.mask
          /\ r.todo = q.mask /\ r.running = q.running
      BY <1>4 DEF InputChunk
    <3>4. U \in SUBSET Chunks /\ c \in U /\ s.dropped \in [Chunks -> SUBSET Outputs]
      BY <1>2, StateParts
    <3>5. \A x \in s.up : x \in U
      OBVIOUS
    <3> HIDE DEF r, v, U, u, q, s, w, d
    <3>6. ChangedTo(s, c, r, U, s.dropped, v)
      BY <1>2, <3>2, <3>3, <3>4, Changed
    <3>7. RoutesOK(c, r) /\ RoutesDone(r, d[c] \cup s.dropped[c])
      BY <1>3, <1>4, <3>3 DEF RoutesOK, RoutesDone
    <3>8. StaysUp(s, c, r, U)
      BY <3>4, <3>5 DEF StaysUp
    <3>9. DoneGrows(s, d, d, s.dropped)
      BY DEF DoneGrows
    <3>10. s.ic[c].loaded
      BY <1>3 DEF q
    <3>11. StateInv(v, w, d, {})
      BY <1>2, <3>6, <3>7, <3>8, <3>9, <3>10, ChangedKeeps
    <3>12. HasQueues(v)
      BY <1>2, <3>6, SameQueues DEF ChangedTo
    <3> QED BY <3>1, <3>11, <3>12
  <2> QED BY <2>1, <2>2
<1> HIDE DEF u
<1> QED BY <1>1, <1>2, <1>5, Served

\* A file is mapped again.
LEMMA BroughtUp ==
    ASSUME NEW s, NEW w, NEW d, StateInv(s, w, d, {}), NEW c \in Chunks,
           NEW t, t = [s EXCEPT !.up = @ \cup {c}]
    PROVE  /\ StateInv(t, w, d, {}) /\ t.backlogs = s.backlogs /\ t.ic = s.ic /\ c \in t.up
           /\ t.dropped = s.dropped
<1>1. s \in State /\ s.up \subseteq Chunks
  BY StateParts DEF StateInv
<1> DEFINE U == s.up \cup {c}
<1>2. t = [s EXCEPT !.up = U] /\ U \subseteq Chunks
  BY <1>1
<1> HIDE DEF U
<1>3. /\ t \in State /\ t.up = U
      /\ t.disk = s.disk /\ t.backlogs = s.backlogs /\ t.chunks = s.chunks
      /\ t.ic = s.ic /\ t.fs = s.fs /\ t.bl = s.bl /\ t.dropped = s.dropped
  BY <1>1, <1>2 DEF State
<1>4. Listed(t) /\ ChunksOK(t)
  BY <1>3 DEF StateInv, Listed, ChunksOK, ChunkOK
<1>5. BacklogCounted(t) /\ LoadedCounted(t)
  BY <1>3 DEF StateInv, BacklogCounted, LoadedCounted, Routed
<1>6. w \/ (QueuesOK(t, {}) /\ MappedInUse(t))
  BY <1>3 DEF StateInv, QueuesOK, MappedInUse, U
<1>7. KeepsFiles => Accounted(t, d)
  BY <1>3 DEF StateInv, Accounted
<1>8. c \in t.up
  BY <1>3 DEF U
<1> QED BY <1>3, <1>4, <1>5, <1>6, <1>7, <1>8 DEF StateInv

\* A flush begins, or ends at once because the route was dropped.
LEMMA FlushingKeeps ==
    ASSUME setting \in Settings, NEW s, NEW w, NEW d, StateInv(s, w, d, {}), NEW c \in Chunks,
           NEW o \in s.ic[c].todo, c \in s.up
    PROVE  /\ StateInv(Flushing(s, c, o), w, d, {})
           /\ Flushing(s, c, o).backlogs = s.backlogs
<1>1. CASE o \in s.ic[c].evicted
  <2> DEFINE D == [s.dropped EXCEPT ![c] = s.dropped[c] \cup {o}]
             T == s.ic[c].todo \ {o}
             R == s.ic[c].running
             t == [s EXCEPT !.ic[c].todo = @ \ {o}, !.dropped[c] = @ \cup {o}]
  <2>1. Flushing(s, c, o) = returned(t, c)
    BY <1>1 DEF Flushing
  <2>2. s \in State /\ s.ic[c] \in InputChunk /\ s.ic[c].todo \subseteq Outputs
    BY ChunkParts DEF StateInv
  <2>3. t = [s EXCEPT !.ic = [s.ic EXCEPT ![c] = [s.ic[c] EXCEPT !.todo = T, !.running = R]],
                      !.dropped = D]
    BY <2>2 DEF State, InputChunk
  <2>4. D \in [Chunks -> SUBSET Outputs] /\ DoneGrows(s, d, d, D) /\ o \in D[c]
    BY <2>2, StateParts DEF DoneGrows
  <2>5. /\ R \subseteq s.ic[c].running /\ T \subseteq s.ic[c].todo
        /\ s.ic[c].todo \cup s.ic[c].running \subseteq R \cup T \cup {o}
        /\ o \in s.ic[c].todo \cup s.ic[c].running
    OBVIOUS
  <2> HIDE DEF D, T, R, t
  <2>6. o \in d[c] \cup D[c]
    BY <2>4
  <2>7. /\ StateInv(t, w, d, {}) /\ t.backlogs = s.backlogs
        /\ t.ic[c].loaded /\ t.ic[c].task
    <3>1. Closes(s, c, o, T, R, D, t)
      BY <2>3, <2>4, <2>5 DEF Closes
    <3> QED BY <2>4, <2>6, <3>1, RouteClosed
  <2>8. StateInv(returned(t, c), w, d, {}) /\ returned(t, c).backlogs = t.backlogs
    BY <2>7, Returned
  <2> QED BY <2>1, <2>7, <2>8
<1>2. CASE o \notin s.ic[c].evicted
  <2>1. Flushing(s, c, o) = Started(s, c, o)
    BY <1>2 DEF Flushing, Started
  <2>2. StateInv(Started(s, c, o), w, d, {}) /\ Started(s, c, o).backlogs = s.backlogs
    BY RouteStarted
  <2> QED BY <2>1, <2>2
<1> QED BY <1>1, <1>2

\* A first flush or a retry.
LEMMA FlushStartKeeps ==
    ASSUME IndInv, NEW c \in Chunks, NEW o \in Outputs, FlushStart(c, o)
    PROVE  IndInv'
<1> DEFINE s == Now
           d == delivered
           v == [Now EXCEPT !.up = @ \cup {c}]
           u == Flushing(v, c, o)
<1>1. /\ Serving /\ o \in ic[c].todo /\ Becomes(u)
      /\ UNCHANGED <<setting, service, flushed_backlog>> /\ delivered' = d
  BY DEF FlushStart
<1>2. /\ setting \in Settings /\ d \in [Chunks -> SUBSET Outputs]
      /\ StateInv(s, flushed_backlog, d, {}) /\ HasQueues(s) /\ s \in State
  BY <1>1, ServingParts
<1>3. o \in s.ic[c].todo
  BY <1>1, NowFields
<1>4. v = [s EXCEPT !.up = @ \cup {c}]
  OBVIOUS
<1> HIDE DEF s, v
<1>5. StateInv(v, flushed_backlog, d, {}) /\ v.backlogs = s.backlogs /\ v.ic = s.ic /\ c \in v.up
  BY <1>2, <1>4, BroughtUp
<1>6. StateInv(u, flushed_backlog, d, {}) /\ u.backlogs = v.backlogs
  BY <1>2, <1>3, <1>5, FlushingKeeps
<1> HIDE DEF u, d
<1>7. HasQueues(u)
  BY <1>2, <1>5, <1>6, SameQueues
<1> QED BY <1>1, <1>2, <1>6, <1>7, Served

\* A route is closed, and the chunk goes if it was the last.
LEMMA RouteReturned ==
    ASSUME setting \in Settings, NEW s, NEW w, NEW d, NEW e, NEW D, StateInv(s, w, d, {}),
           NEW c \in Chunks, NEW o, NEW R, NEW T, NEW t, Closes(s, c, o, T, R, D, t),
           DoneGrows(s, d, e, D), o \in e[c] \cup D[c]
    PROVE  StateInv(returned(t, c), w, e, {}) /\ returned(t, c).backlogs = s.backlogs
<1>1. /\ StateInv(t, w, e, {}) /\ t.backlogs = s.backlogs
      /\ t.ic[c].loaded /\ t.ic[c].task
  BY RouteClosed
<1>2. StateInv(returned(t, c), w, e, {}) /\ returned(t, c).backlogs = t.backlogs
  BY <1>1, Returned
<1> QED BY <1>1, <1>2

\* The state without the callback of o for c, with drops D.
EndOf(c, o, D) ==
    [Now EXCEPT !.ic = [ic EXCEPT ![c] = [ic[c] EXCEPT !.running = ic[c].running \ {o}]],
                !.dropped = D]

\* A callback ends: the route is closed, with an outcome.
LEMMA RouteEnded ==
    ASSUME IndInv, Serving, NEW c \in Chunks, NEW o \in ic[c].running,
           NEW e \in [Chunks -> SUBSET Outputs], NEW D \in [Chunks -> SUBSET Outputs],
           DoneGrows(Now, delivered, e, D), o \in e[c] \cup D[c]
    PROVE  /\ StateInv(returned(EndOf(c, o, D), c), flushed_backlog, e, {})
           /\ HasQueues(returned(EndOf(c, o, D), c))
<1> DEFINE s == Now
           T == s.ic[c].todo
           R == s.ic[c].running \ {o}
           t == EndOf(c, o, D)
           d == delivered
           w == flushed_backlog
<1>1. /\ setting \in Settings
      /\ StateInv(s, w, d, {}) /\ HasQueues(s) /\ s \in State
  BY ServingParts
<1>2. s.ic[c] \in InputChunk /\ s.ic = ic
  BY <1>1, ChunkParts, NowFields
<1>3. t = [s EXCEPT !.ic = [s.ic EXCEPT ![c] = [s.ic[c] EXCEPT !.todo = T, !.running = R]],
                    !.dropped = D]
  <2>1. [ic[c] EXCEPT !.running = ic[c].running \ {o}]
          = [s.ic[c] EXCEPT !.todo = T, !.running = R]
    BY <1>2 DEF InputChunk
  <2> HIDE DEF s, T, R
  <2> QED BY <1>2, <2>1 DEF s, EndOf
<1>4. /\ R \subseteq s.ic[c].running /\ T \subseteq s.ic[c].todo
      /\ s.ic[c].todo \cup s.ic[c].running \subseteq R \cup T \cup {o}
      /\ o \in s.ic[c].todo \cup s.ic[c].running
  BY <1>2
<1>5. DoneGrows(s, d, e, D)
  OBVIOUS
<1> HIDE DEF s, T, R, t, d, w
<1>6. Closes(s, c, o, T, R, D, t)
  BY <1>3, <1>4 DEF Closes
<1>7. StateInv(returned(t, c), w, e, {}) /\ returned(t, c).backlogs = s.backlogs
  BY <1>1, <1>5, <1>6, RouteReturned
<1>8. HasQueues(returned(t, c))
  BY <1>1, <1>7, SameQueues
<1> QED BY <1>7, <1>8 DEF t, w

\* FLB_OK
LEMMA FlushOkKeeps ==
    ASSUME IndInv, NEW c \in Chunks, NEW o \in Outputs, FlushOk(c, o)
    PROVE  IndInv'
<1> DEFINE e == [delivered EXCEPT ![c] = delivered[c] \cup {o}]
           t == [Now EXCEPT !.ic[c].running = @ \ {o}]
<1>1. /\ Serving /\ o \in ic[c].running /\ delivered' = e /\ Becomes(returned(t, c))
      /\ UNCHANGED <<setting, service, flushed_backlog>>
  BY DEF FlushOk
<1>2. Now \in State /\ delivered \in [Chunks -> SUBSET Outputs]
  BY <1>1, ServingParts
<1>3. dropped \in [Chunks -> SUBSET Outputs] /\ Now.dropped = dropped /\ Now.ic = ic
      /\ ic \in [Chunks -> InputChunk]
  BY <1>2, StateParts, NowFields
<1>4. t = EndOf(c, o, dropped)
  BY <1>2, <1>3 DEF Now, EndOf
<1>5. e \in [Chunks -> SUBSET Outputs] /\ o \in e[c] /\ DoneGrows(Now, delivered, e, dropped)
  BY <1>2, <1>3 DEF DoneGrows
<1>6. o \in e[c] \cup dropped[c]
  BY <1>5
<1> DEFINE u == returned(t, c)
<1>7. Becomes(u)
  BY <1>1
<1> HIDE DEF e, t
<1>8. StateInv(u, flushed_backlog, e, {}) /\ HasQueues(u)
  BY <1>1, <1>3, <1>4, <1>5, <1>6, RouteEnded
<1> HIDE DEF u
<1> QED BY <1>1, <1>5, <1>7, <1>8, Served

\* FLB_ERROR
LEMMA FlushErrorKeeps ==
    ASSUME IndInv, NEW c \in Chunks, NEW o \in Outputs, FlushError(c, o)
    PROVE  IndInv'
<1> DEFINE D == [dropped EXCEPT ![c] = dropped[c] \cup {o}]
           t == [Now EXCEPT !.ic[c].running = @ \ {o}, !.dropped[c] = @ \cup {o}]
<1>1. /\ Serving /\ o \in ic[c].running /\ delivered' = delivered /\ Becomes(returned(t, c))
      /\ UNCHANGED <<setting, service, flushed_backlog>>
  BY DEF FlushError
<1>2. Now \in State /\ delivered \in [Chunks -> SUBSET Outputs]
  BY <1>1, ServingParts
<1>3. dropped \in [Chunks -> SUBSET Outputs] /\ Now.dropped = dropped /\ Now.ic = ic
      /\ ic \in [Chunks -> InputChunk]
  BY <1>2, StateParts, NowFields
<1>4. t = EndOf(c, o, D)
  BY <1>2, <1>3 DEF Now, EndOf
<1>5. D \in [Chunks -> SUBSET Outputs] /\ o \in D[c] /\ DoneGrows(Now, delivered, delivered, D)
  BY <1>2, <1>3 DEF DoneGrows
<1>6. o \in delivered[c] \cup D[c]
  BY <1>5
<1> DEFINE u == returned(t, c)
<1>7. Becomes(u)
  BY <1>1
<1> HIDE DEF D, t
<1>8. StateInv(u, flushed_backlog, delivered, {}) /\ HasQueues(u)
  BY <1>1, <1>2, <1>4, <1>5, <1>6, RouteEnded
<1> DEFINE d == delivered
<1>9. d \in [Chunks -> SUBSET Outputs] /\ delivered' = d /\ StateInv(u, flushed_backlog, d, {})
  BY <1>1, <1>2, <1>8
<1> HIDE DEF u, d
<1> QED BY <1>1, <1>7, <1>8, <1>9, Served

\* FLB_RETRY
LEMMA FlushRetryKeeps ==
    ASSUME IndInv, NEW c \in Chunks, NEW o \in Outputs, FlushRetry(c, o)
    PROVE  IndInv'
<1> DEFINE s == Now
           w == flushed_backlog
           d == delivered
           q == s.ic[c]
           r == [q EXCEPT !.running = q.running \ {o}, !.todo = q.todo \cup {o}]
           U == IF (ic[c].running = {o} /\ mem_overlimit) \/ ic[c].mask = {o}
                THEN up \ {c} ELSE up
           u == [s EXCEPT !.ic = [s.ic EXCEPT ![c] = r], !.up = U, !.dropped = s.dropped]
<1>1. /\ Serving /\ o \in ic[c].running
      /\ ic' = [ic EXCEPT ![c].running = @ \ {o}, ![c].todo = @ \cup {o}]
      /\ up' = U
      /\ UNCHANGED <<setting, service, flushed_backlog>> /\ delivered' = d
      /\ UNCHANGED <<disk, backlogs, chunks, fs_chunks_size, fs_backlog_chunks_size, dropped>>
  BY DEF FlushRetry
<1>2. /\ setting \in Settings /\ d \in [Chunks -> SUBSET Outputs]
      /\ StateInv(s, w, d, {}) /\ HasQueues(s) /\ s \in State
  BY <1>1, ServingParts
<1>3. s.ic = ic /\ s.up = up /\ ic \in [Chunks -> InputChunk]
  BY <1>2, StateParts, NowFields
<1>4. /\ q \in InputChunk /\ RoutesOK(c, q) /\ routes(c) \subseteq Outputs
      /\ KeepsFiles => RoutesDone(q, d[c] \cup s.dropped[c])
      /\ w \/ StaysUp(s, c, q, s.up)
  <2>1. HasRoutes(s.ic[c])
    BY <1>1, <1>3 DEF HasRoutes
  <2>2. RoutedChunk(s, w, d, c, s.ic[c])
    BY <1>2, <2>1, OpenRoute
  <2> QED BY <2>2 DEF RoutedChunk
<1>5. ic' = [s.ic EXCEPT ![c] = r]
  BY <1>1, <1>3 DEF InputChunk
<1>6. Becomes(u)
  BY <1>1, <1>5 DEF Now, Becomes
<1>7. /\ r \in InputChunk /\ r.loaded = q.loaded /\ r.task = q.task /\ r.mask = q.mask
      /\ r.running = q.running \ {o} /\ r.todo = q.todo \cup {o}
  BY <1>4 DEF InputChunk
<1>8. U \in SUBSET Chunks /\ s.dropped \in [Chunks -> SUBSET Outputs]
  BY <1>2, <1>3, StateParts
<1>9. o \in q.running /\ q.task /\ q.loaded /\ q.running \subseteq q.mask /\ q.mask = routes(c)
  BY <1>1, <1>3, <1>4 DEF RoutesOK
<1>10. w \/ StaysUp(s, c, r, U)
  <2>1. ASSUME StaysUp(s, c, q, s.up) PROVE StaysUp(s, c, r, U)
    <3>1. \A x \in s.up : x /= c => x \in U
      BY <1>3
    <3>2. CASE q.running = {o} \/ q.mask = {o}
      <4>1. r.running = {}
        BY <1>7, <1>9, <3>2
      <4> QED BY <3>1, <4>1 DEF StaysUp
    <3>3. CASE q.running /= {o} /\ q.mask /= {o}
      <4>1. c \in U
        BY <1>3, <1>9, <2>1, <3>3 DEF StaysUp
      <4> QED BY <3>1, <4>1 DEF StaysUp
    <3> QED BY <3>2, <3>3
  <2> QED BY <1>4, <2>1
<1>11. u = [s EXCEPT !.ic = [s.ic EXCEPT ![c] = r], !.up = U, !.dropped = s.dropped]
  OBVIOUS
<1> HIDE DEF u, r, U, s, w, d, q
<1>12. ChangedTo(s, c, r, U, s.dropped, u)
  BY <1>2, <1>7, <1>8, <1>11, Changed
<1>13. RoutesOK(c, r) /\ (KeepsFiles => RoutesDone(r, d[c] \cup s.dropped[c]))
  BY <1>4, <1>7, <1>9 DEF RoutesOK, RoutesDone
<1>14. DoneGrows(s, d, d, s.dropped) /\ s.ic[c].loaded
  BY <1>9 DEF DoneGrows, q
<1>15. StateInv(u, w, d, {})
  BY <1>2, <1>10, <1>12, <1>13, <1>14, ChangedKeeps
<1>16. HasQueues(u)
  BY <1>2, <1>12, SameQueues DEF ChangedTo
<1>17. StateInv(u, flushed_backlog, d, {})
  BY <1>15 DEF w
<1> QED BY <1>1, <1>2, <1>6, <1>16, <1>17, Served

\* A service that runs has not built the queues again.
LEMMA RunningParts ==
    ASSUME IndInv, phase = "running" \/ phase = "off"
    PROVE  /\ setting \in Settings /\ delivered \in [Chunks -> SUBSET Outputs]
           /\ flushed_backlog = FALSE
           /\ StateInv(Now, FALSE, delivered, {}) /\ Now \in State
           /\ phase = "running" => HasQueues(Now)
<1>1. flushed_backlog = FALSE
  BY DEF IndInv
<1> QED BY <1>1 DEF IndInv, StateInv

\* Room is made for an output.
LEMMA EvictKeeps ==
    ASSUME IndInv, NEW o \in Outputs, Evict(o)
    PROVE  IndInv'
<1> DEFINE d == delivered
           p == [d |-> delivered]
           b == [s |-> Now, done |-> FALSE]
           l == chunks
           a == EvictLoop(b, l, o)
           u == IF a.done THEN a.s ELSE release_queue(a.s, o)
<1>1. /\ phase = "running" /\ o \in Limited /\ Becomes(u)
      /\ UNCHANGED <<setting, service, flushed_backlog>> /\ delivered' = d
  BY DEF Evict, EvictLoop
<1>2. /\ setting \in Settings /\ d \in [Chunks -> SUBSET Outputs] /\ flushed_backlog = FALSE
      /\ StateInv(Now, FALSE, d, {}) /\ HasQueues(Now) /\ Now \in State
  BY <1>1, RunningParts
<1>3. l \in Seq(Chunks)
  BY <1>2, StateParts, NowFields
<1>4. p.d = d /\ b.s = Now /\ b = [s |-> b.s, done |-> b.done]
  OBVIOUS
<1> HIDE DEF p, b, d, l, u
<1>5. EvictInv(b, 0, p)
  BY <1>2, <1>4 DEF EvictInv
<1>6. EvictInv(a, Len(l), p)
  BY <1>1, <1>2, <1>3, <1>5, EvictAll
<1> HIDE DEF a
<1> DEFINE v == a.s
<1>7. StateInv(v, FALSE, d, {}) /\ HasQueues(v)
  BY <1>4, <1>6 DEF EvictInv
<1> HIDE DEF v
<1>8. StateInv(release_queue(v, o), FALSE, d, {}) /\ HasQueues(release_queue(v, o))
  BY <1>1, <1>2, <1>7, ReleaseQueue
<1>9. u = v \/ u = release_queue(v, o)
  BY DEF u, v
<1>10. StateInv(u, flushed_backlog, d, {}) /\ HasQueues(u)
  <2>1. StateInv(u, FALSE, d, {}) /\ HasQueues(u)
    BY <1>7, <1>8, <1>9
  <2> QED BY <1>2, <2>1
<1>11. Serving
  BY <1>1 DEF Serving
<1> QED BY <1>1, <1>2, <1>10, <1>11, Served

\* The queues are built from the files.
LEMMA StartKeeps ==
    ASSUME IndInv, Start
    PROVE  IndInv'
<1> DEFINE d == delivered
           w == FALSE
           s == Now
           u == segregate(s)
<1>1. /\ phase = "off" /\ phase' = "running" /\ Becomes(u)
      /\ setting' = setting /\ flushed_backlog' = flushed_backlog /\ delivered' = d
  BY DEF Start
<1>2. /\ d \in [Chunks -> SUBSET Outputs] /\ flushed_backlog = FALSE
      /\ StateInv(s, FALSE, d, {})
  BY <1>1, RunningParts
<1>3. s.backlogs = <<>> /\ s.chunks = <<>>
  BY <1>1, NowFields DEF IndInv
<1>4. flushed_backlog' = w /\ w \in BOOLEAN
  BY <1>1, <1>2
<1> HIDE DEF d, u, s
<1>5. NoneLoaded(s)
  <2>1. Range(s.chunks) = {}
    BY <1>3 DEF Range
  <2>2. \A c \in Chunks : s.ic[c].loaded <=> c \in Range(s.chunks)
    BY <1>2 DEF StateInv, Listed
  <2> QED BY <2>1, <2>2 DEF NoneLoaded
<1>6. StateInv(s, w, d, {})
  BY <1>2
<1>7. StateInv(u, w, d, {}) /\ HasQueues(u)
  BY <1>3, <1>5, <1>6, Segregate DEF u
<1>8. /\ phase' \in {"off", "running", "stopping", "hung"} /\ phase' /= "off"
      /\ w => phase' = "stopping"
  BY <1>1
<1> HIDE DEF w
<1> QED BY <1>1, <1>2, <1>4, <1>7, <1>8, Reached

\* The queues are built again on top of the ones there are.
LEMMA ShutdownTickKeeps ==
    ASSUME IndInv, ShutdownTick
    PROVE  IndInv'
<1> DEFINE d == delivered
           w == TRUE
           s == Now
           u == segregate(s)
<1>1. /\ phase = "stopping" /\ phase' = "stopping" /\ Becomes(u)
      /\ setting' = setting /\ flushed_backlog' = w /\ delivered' = d
  BY DEF ShutdownTick, service
<1>2. d \in [Chunks -> SUBSET Outputs] /\ StateInv(s, flushed_backlog, d, {}) /\ w \in BOOLEAN
  BY DEF IndInv
<1> HIDE DEF d, u, s
<1>3. StateInv(s, w, d, {})
  BY <1>2 DEF StateInv
<1>4. StateInv(u, w, d, {}) /\ HasQueues(u)
  BY <1>3, Segregate DEF u
<1>5. /\ phase' \in {"off", "running", "stopping", "hung"} /\ phase' /= "off"
      /\ w => phase' = "stopping"
  BY <1>1
<1> HIDE DEF w
<1> QED BY <1>1, <1>2, <1>4, <1>5, Reached

\* Chunks are loaded until the limit is reached.
LEMMA QueueChunksKeeps ==
    ASSUME IndInv, QueueChunks
    PROVE  IndInv'
<1> DEFINE d == delivered
           n == Cardinality(Chunks)
           p == [d |-> delivered, n |-> Len(Now.backlogs)]
           w == FALSE
<1>0. PICK short \in Shortages :
        \E a \in {all_rounds(short)} :
           Becomes(a.s) /\ phase' = IF More(a) THEN "hung" ELSE phase
  BY DEF QueueChunks
<1> DEFINE b == [s |-> Now, total |-> total_size, short |-> short]
           a == Rounds(b, n)
           u == a.s
<1>1. /\ phase = "running" /\ phase' = (IF More(a) THEN "hung" ELSE phase) /\ Becomes(u)
      /\ setting' = setting /\ flushed_backlog' = flushed_backlog /\ delivered' = d
  <2>1. all_rounds(short) = Rounds(b, n)
    BY DEF all_rounds, Rounds
  <2> QED BY <1>0, <2>1 DEF QueueChunks
<1>2. /\ setting \in Settings /\ d \in [Chunks -> SUBSET Outputs] /\ flushed_backlog = FALSE
      /\ StateInv(Now, FALSE, d, {}) /\ HasQueues(Now) /\ Now \in State
  BY <1>1, RunningParts
<1>3. n \in Nat
  BY BacklogAssumption, FS_CardinalityType
<1>4. /\ p.d = d /\ b.s = Now /\ b = [s |-> b.s, total |-> b.total, short |-> b.short]
      /\ p.n = Len(b.s.backlogs) /\ (KeepsFiles => b.short = {})
  BY DEF Shortages, KeepsFiles
<1> HIDE DEF p, b, d, n
<1>5. VisitInv(b, 0, p)
  BY <1>2, <1>4 DEF VisitInv
<1>6. VisitInv(a, n, p)
  BY <1>2, <1>3, <1>5, AllRounds
<1>7. flushed_backlog' = w /\ w \in BOOLEAN
  BY <1>1, <1>2
<1> HIDE DEF a
<1>8. StateInv(u, w, d, {}) /\ HasQueues(u)
  BY <1>4, <1>6 DEF VisitInv
<1>9. /\ phase' \in {"off", "running", "stopping", "hung"} /\ phase' /= "off"
      /\ w => phase' = "stopping"
  BY <1>1
<1> HIDE DEF w, u
<1> QED BY <1>1, <1>2, <1>7, <1>8, <1>9, Reached

\* No service runs: nothing is in memory.
Idle(s) ==
    /\ s \in State /\ s.backlogs = <<>> /\ s.chunks = <<>>
    /\ s.ic = [c \in Chunks |-> NotLoaded] /\ s.up = {}
    /\ s.fs = [o \in Limited |-> 0] /\ s.bl = [o \in Outputs |-> 0]

\* The routes of the files with logs that are gone are done.
FilesAccounted(s, d) ==
    \A c \in Chunks : c \notin s.disk /\ Kind[c] = "logs" => routes(c) \subseteq d[c] \cup s.dropped[c]

\* With nothing in memory only what was lost on disk matters.
LEMMA IdleInv ==
    ASSUME NEW s, NEW w, NEW d, Idle(s), KeepsFiles => FilesAccounted(s, d)
    PROVE  StateInv(s, w, d, {})
<1>1. /\ s \in State /\ s.backlogs = <<>> /\ s.chunks = <<>>
      /\ \A c \in Chunks : s.ic[c] = NotLoaded
      /\ \A o \in Limited : s.fs[o] = 0
      /\ \A o \in Outputs : s.bl[o] = 0
  BY DEF Idle
<1>2. DOMAIN s.backlogs = {} /\ Range(s.chunks) = {}
  BY <1>1 DEF Range
<1>3. Listed(s)
  BY <1>1, <1>2, NotLoadedFields DEF Listed, IsInjective
<1>4. ChunksOK(s)
  BY <1>1, NotLoadedFields DEF ChunksOK, ChunkOK
<1>5. BacklogCounted(s)
  <2>1. \A o : References(s.backlogs, o) = {}
    BY <1>2 DEF References
  <2> QED BY <1>1, <2>1, FS_EmptySet DEF BacklogCounted
<1>6. LoadedCounted(s)
  <2>1. \A o : Routed(s, o) = {}
    BY <1>1, NotLoadedFields DEF Routed
  <2> QED BY <1>1, <2>1, FS_EmptySet DEF LoadedCounted
<1>7. QueuesOK(s, {}) /\ MappedInUse(s)
  BY <1>1, <1>2, NotLoadedFields DEF QueuesOK, MappedInUse
<1>8. KeepsFiles => Accounted(s, d)
  BY <1>1, NotLoadedFields DEF Accounted, FilesAccounted
<1> QED BY <1>1, <1>3, <1>4, <1>5, <1>6, <1>7, <1>8 DEF StateInv

\* The service ends or crashes.
LEMMA EndKeeps ==
    ASSUME IndInv, End
    PROVE  IndInv'
<1> DEFINE d == delivered
           w == FALSE
           s == Now
           u == [s EXCEPT !.backlogs = <<>>, !.chunks = <<>>,
                          !.ic = [c \in Chunks |-> NotLoaded], !.up = {},
                          !.fs = [o \in Limited |-> 0], !.bl = [o \in Outputs |-> 0]]
<1>1. /\ phase' = "off" /\ Becomes(u)
      /\ setting' = setting /\ flushed_backlog' = w /\ delivered' = d
  BY DEF End
<1>2. d \in [Chunks -> SUBSET Outputs] /\ StateInv(s, flushed_backlog, d, {}) /\ w \in BOOLEAN
      /\ s \in State
  BY DEF IndInv, StateInv
<1>3. Idle(u) /\ u.disk = s.disk /\ u.dropped = s.dropped
  <2> DEFINE B == <<>>
             I == [c \in Chunks |-> NotLoaded]
             F == [o \in Limited |-> 0]
             L == [o \in Outputs |-> 0]
  <2>1. /\ B \in Seq(Queue) /\ B \in Seq(Chunks) /\ I \in [Chunks -> InputChunk]
        /\ F \in [Limited -> Int] /\ L \in [Outputs -> Int] /\ {} \subseteq Chunks
    BY NotLoadedFields
  <2>2. u = [s EXCEPT !.backlogs = B, !.chunks = B, !.ic = I, !.up = {}, !.fs = F, !.bl = L]
    OBVIOUS
  <2> HIDE DEF u, B, I, F, L, s
  <2>3. /\ u \in State /\ u.backlogs = B /\ u.chunks = B /\ u.ic = I /\ u.up = {}
        /\ u.fs = F /\ u.bl = L /\ u.disk = s.disk /\ u.dropped = s.dropped
    BY <1>2, <2>1, <2>2 DEF State
  <2> QED BY <2>3 DEF Idle, B, I, F, L
<1> HIDE DEF d, u, s
<1>4. KeepsFiles => FilesAccounted(u, d)
  BY <1>2, <1>3 DEF StateInv, Accounted, FilesAccounted
<1>5. StateInv(u, w, d, {})
  BY <1>3, <1>4, IdleInv
<1>6. u.backlogs = <<>> /\ u.chunks = <<>>
  BY <1>3 DEF Idle
<1>7. /\ phase' \in {"off", "running", "stopping", "hung"}
      /\ w => phase' = "stopping"
      /\ phase' = "off"
  BY <1>1
<1> HIDE DEF w
<1> QED BY <1>1, <1>2, <1>5, <1>6, <1>7, Reached

\* The collector is paused.
LEMMA StopKeeps ==
    ASSUME IndInv, Stop
    PROVE  IndInv'
<1> DEFINE d == delivered
           w == flushed_backlog
           u == Now
<1>1. /\ phase = "running" /\ phase' = "stopping" /\ Becomes(u)
      /\ setting' = setting /\ flushed_backlog' = w /\ delivered' = d
  BY NowFields DEF Stop, memory, Becomes
<1>2. /\ d \in [Chunks -> SUBSET Outputs] /\ StateInv(u, w, d, {}) /\ w \in BOOLEAN
      /\ HasQueues(u)
  BY <1>1 DEF IndInv
<1>3. /\ phase' \in {"off", "running", "stopping", "hung"} /\ phase' /= "off"
      /\ w => phase' = "stopping"
  BY <1>1
<1> HIDE DEF d, w, u
<1> QED BY <1>1, <1>2, <1>3, Reached

\* Nothing happens.
LEMMA StutterKeeps ==
    ASSUME IndInv, UNCHANGED vars
    PROVE  IndInv'
<1> DEFINE d == delivered
           w == flushed_backlog
           u == Now
<1>1. /\ phase' = phase /\ Becomes(u)
      /\ setting' = setting /\ flushed_backlog' = w /\ delivered' = d
  BY NowFields DEF vars, service, memory, Becomes
<1>2. /\ d \in [Chunks -> SUBSET Outputs] /\ StateInv(u, w, d, {}) /\ w \in BOOLEAN
      /\ phase' \in {"off", "running", "stopping", "hung"}
      /\ w => phase' = "stopping"
      /\ phase' = "off" => u.backlogs = <<>> /\ u.chunks = <<>>
      /\ phase' /= "off" => HasQueues(u)
  BY <1>1, NowFields DEF IndInv
<1> HIDE DEF d, w, u
<1> QED BY <1>1, <1>2, Reached

\* At first there are files and nothing is in memory.
LEMMA InitInv == Init => IndInv
<1> SUFFICES ASSUME Init PROVE IndInv
  OBVIOUS
<1> DEFINE s == Now
<1>1. /\ setting \in Settings /\ phase = "off" /\ flushed_backlog = FALSE
      /\ delivered = [c \in Chunks |-> {}] /\ backlogs = <<>> /\ chunks = <<>>
  BY DEF Init
<1>2. Idle(s) /\ s.disk = {c \in Chunks : Kind[c] /= "none"}
  <2>1. /\ disk \in SUBSET Chunks /\ backlogs \in Seq(Queue) /\ chunks \in Seq(Chunks)
        /\ ic \in [Chunks -> InputChunk] /\ up \in SUBSET Chunks
        /\ fs_chunks_size \in [Limited -> Int] /\ fs_backlog_chunks_size \in [Outputs -> Int]
        /\ dropped \in [Chunks -> SUBSET Outputs]
    BY NotLoadedFields DEF Init
  <2>2. Now \in State
    BY <2>1 DEF Now, State
  <2> QED BY <2>2, NowFields DEF Init, Idle
<1> HIDE DEF s
<1>3. FilesAccounted(s, delivered)
  BY <1>2 DEF FilesAccounted
<1>4. StateInv(s, flushed_backlog, delivered, {})
  BY <1>2, <1>3, IdleInv
<1> QED BY <1>1, <1>4 DEF IndInv, s

\* Every step keeps the invariant.
LEMMA NextInv == IndInv /\ [Next]_vars => IndInv'
<1> SUFFICES ASSUME IndInv, [Next]_vars PROVE IndInv'
  OBVIOUS
<1>1. CASE Start
  BY <1>1, StartKeeps
<1>2. CASE QueueChunks
  BY <1>2, QueueChunksKeeps
<1>3. CASE Stop
  BY <1>3, StopKeeps
<1>4. CASE ShutdownTick
  BY <1>4, ShutdownTickKeeps
<1>5. CASE End
  BY <1>5, EndKeeps
<1>6. ASSUME NEW c \in Chunks, TaskCreate(c) PROVE IndInv'
  BY <1>6, TaskCreateKeeps
<1>7. ASSUME NEW c \in Chunks, NEW o \in Outputs, FlushStart(c, o) PROVE IndInv'
  BY <1>7, FlushStartKeeps
<1>8. ASSUME NEW c \in Chunks, NEW o \in Outputs, FlushOk(c, o) PROVE IndInv'
  BY <1>8, FlushOkKeeps
<1>9. ASSUME NEW c \in Chunks, NEW o \in Outputs, FlushError(c, o) PROVE IndInv'
  BY <1>9, FlushErrorKeeps
<1>10. ASSUME NEW c \in Chunks, NEW o \in Outputs, FlushRetry(c, o) PROVE IndInv'
  BY <1>10, FlushRetryKeeps
<1>11. ASSUME NEW o \in Outputs, Evict(o) PROVE IndInv'
  BY <1>11, EvictKeeps
<1>12. CASE UNCHANGED vars
  BY <1>12, StutterKeeps
<1> QED
  BY <1>1, <1>2, <1>3, <1>4, <1>5, <1>6, <1>7, <1>8, <1>9, <1>10, <1>11, <1>12 DEF Next

\* Through any crashes, restarts, evictions and failures the queues, the sizes
\* and the loaded chunks stay in step and the outcome of every route is kept.
THEOREM IndInvHolds == Spec => []IndInv
<1>1. Init => IndInv
  BY InitInv
<1>2. IndInv /\ [Next]_vars => IndInv'
  BY NextInv
<1> QED BY <1>1, <1>2, PTL DEF Spec

(***************************************************************************)
(* What follows.                                                           *)
(***************************************************************************)
\* The sizes count sets, so they do not go below zero.
LEMMA SizesNat ==
    ASSUME NEW s \in State, BacklogCounted(s), LoadedCounted(s)
    PROVE  s.fs \in [Limited -> Nat] /\ s.bl \in [Outputs -> Nat]
<1>1. \A o \in Outputs : s.bl[o] \in Nat
  <2>1. s.backlogs \in Seq(Queue)
    BY StateParts
  <2> QED BY <2>1, ReferencesFinite DEF BacklogCounted
<1>2. \A o \in Limited : s.fs[o] \in Nat
  <2> SUFFICES ASSUME NEW o \in Limited PROVE Cardinality(Routed(s, o)) \in Nat
    BY DEF LoadedCounted
  <2>1. Routed(s, o) \subseteq Chunks
    BY DEF Routed
  <2>2. IsFiniteSet(Routed(s, o))
    BY <2>1, BacklogAssumption, FS_Subset
  <2> QED BY <2>2, FS_CardinalityType
<1>3. s.fs \in [Limited -> Int] /\ s.bl \in [Outputs -> Int]
  BY StateParts
<1> QED BY <1>1, <1>2, <1>3

\* The loaded chunks with the route o are those of the list that have it.
LEMMA RoutedListed ==
    ASSUME NEW s \in State, Listed(s), ChunksOK(s), NEW o
    PROVE  Routed(s, o) = {c \in Range(s.chunks) : o \in s.ic[c].mask}
<1>1. Range(s.chunks) \subseteq Chunks
  <2>1. s.chunks \in Seq(Chunks)
    BY StateParts
  <2> QED BY <2>1 DEF Range
<1>2. \A c \in Chunks : o \in s.ic[c].mask => c \in Range(s.chunks)
  BY IdleChunk DEF Listed
<1> QED BY <1>1, <1>2 DEF Routed

\* The invariant gives the three the runs check.
LEMMA InvConsequences == IndInv => QueuesConsistent /\ InUseStaysUp /\ NothingLost
<1> SUFFICES ASSUME IndInv PROVE QueuesConsistent /\ InUseStaysUp /\ NothingLost
  OBVIOUS
<1> DEFINE s == Now
<1>1. /\ s.disk = disk /\ s.backlogs = backlogs /\ s.chunks = chunks /\ s.ic = ic
      /\ s.up = up /\ s.fs = fs_chunks_size /\ s.bl = fs_backlog_chunks_size
      /\ s.dropped = dropped
  BY NowFields
<1>2. /\ s \in State /\ Listed(s) /\ ChunksOK(s) /\ BacklogCounted(s) /\ LoadedCounted(s)
      /\ flushed_backlog \/ (QueuesOK(s, {}) /\ MappedInUse(s))
      /\ KeepsFiles => Accounted(s, delivered)
      /\ setting \in Settings /\ delivered \in [Chunks -> SUBSET Outputs]
      /\ phase \in {"off", "running", "stopping", "hung"}
  BY DEF IndInv, StateInv
<1> HIDE DEF s
<1>3. TypeOK
  <2>1. /\ s.disk \subseteq Chunks /\ s.up \subseteq Chunks /\ s.chunks \in Seq(Chunks)
        /\ s.ic \in [Chunks -> InputChunk] /\ s.dropped \in [Chunks -> SUBSET Outputs]
    BY <1>2, StateParts
  <2>2. \A q \in DOMAIN s.backlogs : /\ s.backlogs[q].ins \in Outputs
                                     /\ s.backlogs[q].chunks \in Seq(Chunks)
    BY <1>2, QueueParts
  <2>3. s.fs \in [Limited -> Nat] /\ s.bl \in [Outputs -> Nat]
    BY <1>2, SizesNat
  <2> QED BY <1>1, <1>2, <2>1, <2>2, <2>3 DEF TypeOK
<1>4. QueuesValid
  BY <1>1, <1>2 DEF QueuesValid, QueuesOK
<1>5. SizesExact
  <2>1. \A o \in Limited : s.fs[o] = Cardinality({c \in Range(s.chunks) : o \in s.ic[c].mask})
    BY <1>2, RoutedListed DEF LoadedCounted
  <2>2. \A o \in Outputs : s.bl[o] = Cardinality(References(s.backlogs, o))
    BY <1>2 DEF BacklogCounted
  <2> QED BY <1>1, <2>1, <2>2 DEF SizesExact
<1>6. InUseStaysUp
  BY <1>1, <1>2 DEF InUseStaysUp, MappedInUse
<1>7. NothingLost
  BY <1>1, <1>2 DEF NothingLost, Accounted
<1> QED BY <1>3, <1>4, <1>5, <1>6, <1>7 DEF QueuesConsistent

\* The queues of the storage backlog name only files that exist and that nobody
\* has loaded, each once, and fs_chunks_size and fs_backlog_chunks_size are
\* exact, whatever sb_segregate_chunks, cb_queue_chunks, the deliveries, the
\* evictions and the crashes did.
THEOREM QueuesStayConsistent == Spec => []QueuesConsistent
<1>1. IndInv => QueuesConsistent
  BY InvConsequences
<1> QED BY <1>1, IndInvHolds, PTL

\* A chunk that a callback reads is mapped, until the shutdown builds the
\* queues again: put down by sb_segregate_chunks, flb_input_chunk_map and
\* retries only when no callback runs.
THEOREM RunningStaysMapped == Spec => []InUseStaysUp
<1>1. IndInv => InUseStaysUp
  BY InvConsequences
<1> QED BY <1>1, IndInvHolds, PTL

\* Without a limit on the space of an output, a file with logs is deleted only
\* after each of its outputs has delivered or dropped it, over any number of
\* restarts.
THEOREM NoFileLost == Spec => []NothingLost
<1>1. IndInv => NothingLost
  BY InvConsequences
<1> QED BY <1>1, IndInvHolds, PTL

=============================================================================
