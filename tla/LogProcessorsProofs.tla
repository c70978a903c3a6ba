------------------------ MODULE LogProcessorsProofs ------------------------
(***************************************************************************)
(* Proofs about LogProcessors: the cursor the units of a chain share, what *)
(* a unit visits, and what deduplication and the windows of log_sampling   *)
(* let pass, for any chain, any records and any number of them.            *)
(***************************************************************************)
EXTENDS LogProcessors, FiniteSetTheorems, SequenceTheorems, TLAPS

(***************************************************************************)
(* Types, and the cursor.                                                  *)
(***************************************************************************)
Rec == [body : Bodies, time : Nat, match : BOOLEAN, at : Nat, hashed : Bodies]
Window == [start : Nat, count : 0..MaxLogs]
Bucket == [timestamp : Nat, count : 0..MaxLogs]

\* A record on its way has arrived and has not gone on.
Typed ==
    /\ setting \in Settings
    /\ unit \in {Idle, Undefined} \cup DOMAIN Chain
    /\ buffer \in Seq(Rec) /\ out \in Seq(Rec) /\ arrived \in Seq(Inputs)
    /\ offset \in 0..Len(buffer) /\ records \subseteq 1..offset /\ record_pos \in 0..offset
    /\ clock \in Nat /\ window \in Window /\ buckets \in [Buckets -> Bucket]
    /\ Len(out) + Len(buffer) <= Len(arrived)
    /\ unit = Idle => buffer = <<>>

In(kind) == unit \in DOMAIN Chain /\ Chain[unit].kind = kind

\* A filter has the buffer alone.
FilterFresh == In("filter") => offset = 0 /\ records = {} /\ record_pos = NULL /\ visited = {}

\* As long as there are records to decode the cursor is at the last one decoded.
CursorDecodes ==
    offset < Len(buffer) /\ record_pos /= NULL => record_pos = offset /\ offset \in records

\* An sql unit with a buffer of its own, and a query that keeps what its WHERE looks
\* at, leaves no record that it would remove.
SqlKept ==
    RemovesOnce => /\ record_pos /= NULL => record_pos \in records
                   /\ In("sql") => \A id \in records : Satisfies(id) => buffer[id].match

\* What a unit that keeps all records has visited.
ModifyVisited ==
    In("modify") => /\ visited \subseteq records /\ \A id \in visited : id <= record_pos
                    /\ \A id \in records : id <= record_pos /\ Satisfies(id) => id \in visited
                    /\ Chain[unit].rewrites \/ \A id \in visited : Satisfies(id)
                    /\ record_pos = NULL => offset \in {0, Len(buffer)}

CursorInv == Typed /\ FilterFresh /\ CursorDecodes /\ SqlKept /\ ModifyVisited

(***************************************************************************)
(* The loops.                                                              *)
(***************************************************************************)
\* s has the records of the list l of b, in their order.
Selects(s, l, b) ==
    \E e \in [1..Len(s) -> l] : /\ \A i, j \in 1..Len(s) : i < j => e[i] < e[j]
                                /\ \A i \in 1..Len(s) : s[i] = b[e[i]]
EncodeStep(s, id, l, b) == IF id \in l THEN Append(s, b[id]) ELSE s
EncodeInv(s, k, p) ==
    /\ s \in Seq(p.type) /\ Len(s) <= k
    /\ Selects(s, p.list \cap 1..k, p.buffer)
FS1 == INSTANCE FoldProofs WITH Op <- EncodeStep, Inv <- EncodeInv

\* A pair for each record the first k buckets count.
Counted(b, k) == UNION {{i} \X (1..b[i].count) : i \in 0..(k - 1)}
TotalStep(n, k, b, u) == n + b[k - 1].count
TotalInv(n, k, p) == n = Cardinality(Counted(p, k)) /\ IsFiniteSet(Counted(p, k))
FS2 == INSTANCE FoldProofs WITH Op <- TotalStep, Inv <- TotalInv

\* Upto lists the numbers up to n.
LEMMA UptoList ==
    ASSUME NEW n
    PROVE  DOMAIN Upto(n) = 1..n /\ \A j \in 1..n : Upto(n)[j] = j
BY DEF Upto

\* The least and the greatest of some numbers.
LEMMA LeastAndGreatest ==
    ASSUME NEW n \in Nat, NEW S \in SUBSET (1..n), S /= {}
    PROVE  /\ Min(S) \in S /\ \A y \in S : Min(S) <= y
           /\ Max(S) \in S /\ \A y \in S : Max(S) >= y
<1>1. \E x \in S : \A y \in S : x <= y
  <2>1. S \in SUBSET Nat
    OBVIOUS
  <2> QED BY <2>1, FS1!LeastNat
<1>2. \E x \in S : \A y \in S : x >= y
  BY FS1!Greatest
<1> QED BY <1>1, <1>2 DEF Min, Max

\* A list with one more element.
LEMMA SelectsMore ==
    ASSUME NEW A, NEW s \in Seq(A), NEW l, NEW b, NEW k \in Nat, Selects(s, l \cap 1..(k - 1), b),
           k \in l, b[k] \in A, k > 0
    PROVE  Selects(Append(s, b[k]), l \cap 1..k, b)
<1> DEFINE n == Len(s)
           t == Append(s, b[k])
<1>1. PICK e \in [1..n -> l \cap 1..(k - 1)] :
         /\ \A i, j \in 1..n : i < j => e[i] < e[j]
         /\ \A i \in 1..n : s[i] = b[e[i]]
  BY DEF Selects
<1>2. n \in Nat /\ Len(t) = n + 1 /\ t[n + 1] = b[k] /\ \A i \in 1..n : t[i] = s[i]
  OBVIOUS
<1> HIDE DEF n, t
<1> DEFINE f == [i \in 1..(n + 1) |-> IF i = n + 1 THEN k ELSE e[i]]
<1>3. \A i \in 1..(n + 1) : i = n + 1 \/ i \in 1..n
  BY <1>2
<1>4. \A i \in 1..n : e[i] \in l /\ e[i] \in Nat /\ e[i] >= 1 /\ e[i] < k /\ i /= n + 1
  BY <1>1, <1>2
<1>5. \A i \in 1..(n + 1) : f[i] \in l /\ f[i] \in 1..k
  BY <1>3, <1>4
<1>6. f \in [1..(n + 1) -> l \cap 1..k]
  BY <1>5
<1>7. ASSUME NEW i \in 1..(n + 1), NEW j \in 1..(n + 1), i < j PROVE f[i] < f[j]
  <2>1. i \in 1..n /\ f[i] = e[i]
    BY <1>2, <1>7
  <2>2. CASE j = n + 1
    BY <1>4, <2>1, <2>2
  <2>3. CASE j \in 1..n
    BY <1>1, <1>4, <1>7, <2>1, <2>3
  <2> QED BY <1>3, <2>2, <2>3
<1>8. \A i \in 1..(n + 1) : t[i] = b[f[i]]
  BY <1>1, <1>2, <1>3, <1>4
<1> HIDE DEF f
<1>9. Selects(t, l \cap 1..k, b)
  BY <1>2, <1>6, <1>7, <1>8 DEF Selects
<1> QED BY <1>9 DEF t

\* The list grows.
LEMMA SelectsWider ==
    ASSUME NEW s, NEW l, NEW m, NEW b, Selects(s, l, b), l \subseteq m
    PROVE  Selects(s, m, b)
<1>1. PICK e \in [1..Len(s) -> l] : /\ \A i, j \in 1..Len(s) : i < j => e[i] < e[j]
                                    /\ \A i \in 1..Len(s) : s[i] = b[e[i]]
  BY DEF Selects
<1>2. e \in [1..Len(s) -> m]
  OBVIOUS
<1> QED BY <1>1, <1>2 DEF Selects

\* Encoding a list selects the records in it.
LEMMA EncodedSelects ==
    ASSUME NEW A, buffer \in Seq(A), NEW l, l \subseteq 1..Len(buffer)
    PROVE  /\ Encoded(l) \in Seq(A) /\ Len(Encoded(l)) <= Len(buffer)
           /\ Selects(Encoded(l), l, buffer)
<1> DEFINE n == Len(buffer)
           p == [type |-> A, list |-> l, buffer |-> buffer]
           u == Upto(n)
           b == <<>>
<1>1. n \in Nat /\ DOMAIN u = 1..n /\ \A j \in 1..n : u[j] = j /\ buffer[j] \in A
  BY UptoList
<1>2. p.type = A /\ p.list = l /\ p.buffer = buffer
  OBVIOUS
<1>3. Encoded(l) = FS1!FoldOf(b, u, l, buffer)
  BY DEF Encoded, FoldLeft, MapThenFoldSet, FS1!FoldOf, EncodeStep, Max
<1>4. EncodeInv(b, 0, p)
  <2>1. b \in Seq(A) /\ Len(b) = 0
    OBVIOUS
  <2> DEFINE e == [i \in {} |-> 0]
             d == 1..Len(b)
  <2>2. d = {}
    BY <2>1
  <2> HIDE DEF d
  <2>3. e \in [d -> l \cap 1..0] /\ (\A i, j \in d : i < j => e[i] < e[j])
        /\ \A i \in d : b[i] = buffer[e[i]]
    BY <2>2
  <2>4. Selects(b, l \cap 1..0, buffer)
    BY <2>3 DEF Selects, d
  <2> QED BY <1>2, <2>1, <2>4 DEF EncodeInv
<1> HIDE DEF n, p, u, b
<1>5. ASSUME NEW t, NEW k \in 1..n, EncodeInv(t, k - 1, p)
      PROVE  EncodeInv(EncodeStep(t, u[k], l, buffer), k, p)
  <2>1. /\ t \in Seq(A) /\ Len(t) <= k - 1 /\ Selects(t, l \cap 1..(k - 1), buffer)
        /\ k \in Nat /\ k > 0 /\ u[k] = k /\ buffer[k] \in A /\ n \in Nat
    BY <1>1, <1>2, <1>5 DEF EncodeInv
  <2>2. CASE k \in l
    <3> DEFINE s == Append(t, buffer[k])
    <3>1. s \in Seq(A) /\ Len(s) = Len(t) + 1
      BY <2>1
    <3>2. Selects(s, l \cap 1..k, buffer)
      BY <2>1, <2>2, SelectsMore
    <3>3. Len(s) <= k
      BY <2>1, <3>1
    <3>4. EncodeStep(t, u[k], l, buffer) = s
      BY <2>1, <2>2 DEF EncodeStep
    <3> HIDE DEF s
    <3> QED BY <1>2, <3>1, <3>2, <3>3, <3>4 DEF EncodeInv
  <2>3. CASE k \notin l
    <3>1. l \cap 1..(k - 1) \subseteq l \cap 1..k
      BY <2>1
    <3>2. Selects(t, l \cap 1..k, buffer)
      BY <2>1, <3>1, SelectsWider
    <3>3. EncodeStep(t, u[k], l, buffer) = t
      BY <2>1, <2>3 DEF EncodeStep
    <3>4. Len(t) <= k
      BY <2>1
    <3> QED BY <1>2, <2>1, <3>2, <3>3, <3>4 DEF EncodeInv
  <2> QED BY <2>2, <2>3
<1>6. EncodeInv(FS1!FoldOf(b, u, l, buffer), n, p)
  BY <1>1, <1>4, <1>5, FS1!FoldKeeps
<1>7. EncodeInv(Encoded(l), n, p)
  BY <1>3, <1>6
<1>8. l \cap 1..n = l
  BY DEF n
<1> QED BY <1>2, <1>7, <1>8 DEF EncodeInv, n

\* total_in_window counts what the buckets count.
LEMMA TotalCounts ==
    ASSUME NEW b \in [Buckets -> Bucket]
    PROVE  /\ total_in_window(b) = Cardinality(Counted(b, WindowSize))
           /\ IsFiniteSet(Counted(b, WindowSize))
<1> DEFINE n == WindowSize
           u == Upto(n)
<1>1. /\ n \in Nat /\ DOMAIN u = 1..n /\ \A j \in 1..n : u[j] = j
      /\ \A j \in 1..n : j - 1 \in Buckets /\ b[j - 1].count \in Nat
  <2>1. n \in Nat /\ DOMAIN u = 1..n /\ \A j \in 1..n : u[j] = j
    BY UptoList, SamplingAssumption
  <2>2. \A j \in 1..n : j - 1 \in Buckets
    BY <2>1 DEF Buckets
  <2>3. \A i \in Buckets : b[i] \in Bucket
    OBVIOUS
  <2>4. \A i \in Buckets : b[i].count \in Nat
    BY <2>3, SamplingAssumption DEF Bucket
  <2> QED BY <2>1, <2>2, <2>4
<1>2. total_in_window(b) = FS2!FoldOf(0, u, b, 0)
  BY DEF total_in_window, FoldLeft, MapThenFoldSet, FS2!FoldOf, TotalStep, Max
<1>3. TotalInv(0, 0, b)
  <2>1. 0..(0 - 1) = {}
    OBVIOUS
  <2>2. Counted(b, 0) = {}
    BY <2>1 DEF Counted
  <2> QED BY <2>2, FS_EmptySet DEF TotalInv
<1> HIDE DEF n, u
<1>4. ASSUME NEW t, NEW k \in 1..n, TotalInv(t, k - 1, b)
      PROVE  TotalInv(TotalStep(t, u[k], b, 0), k, b)
  <2> DEFINE C == Counted(b, k - 1)
             E == {k - 1} \X (1..b[k - 1].count)
  <2>1. t = Cardinality(C) /\ IsFiniteSet(C) /\ u[k] = k /\ b[k - 1].count \in Nat /\ k \in Nat
    BY <1>1, <1>4 DEF TotalInv
  <2> DEFINE A == 0..((k - 1) - 1)
             Q(i) == {i} \X (1..b[i].count)
  <2>a. 0..(k - 1) = A \cup {k - 1}
    BY <2>1
  <2>b. k - 1 \notin A
    BY <2>1
  <2> HIDE DEF A
  <2>c. /\ Counted(b, k) = UNION {Q(i) : i \in A \cup {k - 1}}
        /\ C = UNION {Q(i) : i \in A} /\ E = Q(k - 1)
    <3>1. Counted(b, k) = UNION {Q(i) : i \in 0..(k - 1)}
      BY DEF Counted
    <3>2. C = UNION {Q(i) : i \in 0..((k - 1) - 1)}
      BY DEF Counted
    <3> QED BY <2>a, <3>1, <3>2 DEF A
  <2>d. ASSUME NEW i, NEW x \in Q(i) PROVE x[1] = i
    <3> DEFINE Y == {i}
               Z == 1..b[i].count
    <3>1. x \in Y \X Z
      BY <2>d, Zenon
    <3> HIDE DEF Y, Z
    <3>2. x[1] \in Y
      BY <3>1
    <3> QED BY <3>2 DEF Y
  <2> HIDE DEF Q
  <2>2. Counted(b, k) = C \cup E
    BY <2>c
  <2>3. C \cap E = {}
    <3> SUFFICES ASSUME NEW x \in C, x \in E PROVE FALSE
      OBVIOUS
    <3>1. PICK i \in A : x \in Q(i)
      BY <2>c
    <3>2. x[1] = i /\ x[1] = k - 1
      BY <2>c, <2>d, <3>1
    <3> QED BY <2>b, <3>1, <3>2
  <2> HIDE DEF C
  <2>4. IsFiniteSet(E) /\ Cardinality(E) = b[k - 1].count
    <3> DEFINE X == {k - 1}
               m == b[k - 1].count
               Y == 1..m
    <3>1. IsFiniteSet(X) /\ Cardinality(X) = 1
      BY FS_Singleton
    <3>2. m \in Nat
      BY <2>1
    <3> HIDE DEF m
    <3>3. IsFiniteSet(Y) /\ Cardinality(Y) = IF 1 > m THEN 0 ELSE m - 1 + 1
      BY <3>2, FS_Interval
    <3>4. Cardinality(Y) = m
      BY <3>2, <3>3
    <3> HIDE DEF X, Y
    <3>5. IsFiniteSet(X \X Y) /\ Cardinality(X \X Y) = Cardinality(X) * Cardinality(Y)
      BY <3>1, <3>3, FS_Product
    <3>6. Cardinality(X \X Y) = m
      BY <3>1, <3>2, <3>4, <3>5
    <3>7. E = X \X Y
      BY Zenon DEF X, Y, m
    <3> HIDE DEF E
    <3>8. IsFiniteSet(E) /\ Cardinality(E) = m
      BY <3>5, <3>6, <3>7
    <3> QED BY <3>8 DEF m
  <2> HIDE DEF E
  <2>5. IsFiniteSet(C \cup E) /\ Cardinality(C \cup E) = Cardinality(C) + Cardinality(E)
    <3>1. Cardinality(C) \in Nat /\ Cardinality(E) \in Nat /\ Cardinality({}) = 0
      BY <2>1, <2>4, FS_CardinalityType, FS_EmptySet
    <3> QED BY <2>1, <2>3, <2>4, <3>1, FS_Union
  <2> QED BY <2>1, <2>2, <2>4, <2>5 DEF TotalInv, TotalStep
<1>5. TotalInv(FS2!FoldOf(0, u, b, 0), n, b)
  BY <1>1, <1>3, <1>4, FS2!FoldKeeps
<1> QED BY <1>2, <1>5 DEF TotalInv, n

(***************************************************************************)
(* What a call of record_next finds, and where it leaves the cursor.       *)
(***************************************************************************)
\* The records up to n are decoded.
With(n) == records \cup (offset + 1)..n
Decoding(id) ==
    /\ id \in Undecoded /\ Satisfies(id)
    /\ \A x \in Undecoded : x < id => ~Satisfies(x)
    /\ record_next = [offset |-> id, records |-> With(id), record_pos |-> id]
Listing(id) ==
    /\ id \in records /\ id > record_pos /\ Satisfies(id)
    /\ \A x \in Undecoded : ~Satisfies(x)
    /\ \A x \in records : record_pos < x /\ x < id => ~Satisfies(x)
    /\ record_next = [offset |-> Len(buffer), records |-> With(Len(buffer)), record_pos |-> id]
Ending ==
    /\ \A x \in Undecoded : ~Satisfies(x)
    /\ \A x \in records : record_pos < x => ~Satisfies(x)
    /\ record_next = [offset |-> Len(buffer), records |-> With(Len(buffer)),
                      record_pos |-> NULL]

\* The cursor after a visit to a record decoded, or found in the list.
AtEdge(id, list) == (\A x \in list : id <= x) \/ (\A x \in list : x <= id)
Lists(keep, id, n) == records' = IF keep THEN With(n) ELSE With(n) \ {id}
Decoded(id, keep) ==
    /\ Decoding(id) /\ Lists(keep, id, id) /\ offset' = id
    /\ keep => record_pos' = id
    /\ ~keep => record_pos' = NULL
Searched(id, keep) ==
    /\ Listing(id) /\ Lists(keep, id, Len(buffer)) /\ offset' = Len(buffer)
    /\ keep => record_pos' = id
    /\ ~keep => \/ record_pos' = id
                \/ record_pos' = NULL /\ AtEdge(id, With(Len(buffer)))
Moves(id, keep) ==
    /\ keep \in BOOLEAN
    /\ Decoded(id, keep) \/ Searched(id, keep)
    /\ visited' = visited \cup {id}
    /\ setting' = setting /\ unit' = unit /\ clock' = clock
    /\ arrived' = arrived /\ out' = out

\* record_next decodes, searches the list, or returns EOF.
LEMMA Advance ==
    ASSUME Typed
    PROVE  (\E id \in Nat : Decoding(id)) \/ (\E id \in Nat : Listing(id)) \/ Ending
<1> DEFINE n == Len(buffer)
<1>1. n \in Nat /\ offset \in Nat /\ offset <= n /\ records \in SUBSET (1..n) /\ record_pos \in Nat
  BY DEF Typed
<1>a. Undecoded \in SUBSET (1..n)
  BY <1>1 DEF Undecoded
<1>2. Undecoded \in SUBSET (1..n) /\ Decodes \in SUBSET (1..n) /\ Listed \in SUBSET (1..n)
  BY <1>1, <1>a DEF Decodes, Listed
<1>3. CASE Decodes /= {}
  <2> DEFINE id == Min(Decodes)
  <2>1. id \in Decodes /\ \A y \in Decodes : id <= y
    BY <1>1, <1>2, <1>3, LeastAndGreatest
  <2>2. record_next = [offset |-> id, records |-> With(id), record_pos |-> id]
    BY <1>3 DEF record_next, With
  <2> HIDE DEF id
  <2>3. id \in Undecoded /\ Satisfies(id) /\ id \in Nat
    BY <1>2, <2>1 DEF Decodes
  <2>4. \A x \in Undecoded : x < id => ~Satisfies(x)
    BY <1>2, <2>1, <2>3 DEF Decodes
  <2>5. Decoding(id)
    BY <2>2, <2>3, <2>4 DEF Decoding
  <2> QED BY <2>3, <2>5
<1>4. CASE Decodes = {} /\ Listed /= {}
  <2> DEFINE id == Min(Listed)
  <2>1. id \in Listed /\ \A y \in Listed : id <= y
    BY <1>1, <1>2, <1>4, LeastAndGreatest
  <2>2. record_next = [offset |-> n, records |-> With(n), record_pos |-> id]
    BY <1>4 DEF record_next, With, Undecoded
  <2> HIDE DEF id
  <2>3. \A x \in Undecoded : ~Satisfies(x)
    BY <1>4 DEF Decodes
  <2>4. id \in records /\ id > record_pos /\ Satisfies(id) /\ id \in Nat
    BY <1>2, <2>1, <2>3 DEF Listed
  <2>5. \A x \in records : record_pos < x /\ x < id => ~Satisfies(x)
    BY <1>1, <2>1, <2>4 DEF Listed
  <2>6. Listing(id)
    BY <2>2, <2>3, <2>4, <2>5 DEF Listing
  <2> QED BY <2>4, <2>6
<1>5. CASE Decodes = {} /\ Listed = {}
  <2>1. record_next = [offset |-> n, records |-> With(n), record_pos |-> NULL]
    BY <1>5 DEF record_next, With, Undecoded
  <2>2. \A x \in Undecoded : ~Satisfies(x)
    BY <1>5 DEF Decodes
  <2>3. \A x \in records : record_pos < x => ~Satisfies(x)
    BY <1>1, <1>5 DEF Listed
  <2> QED BY <2>1, <2>2, <2>3 DEF Ending
<1> QED BY <1>3, <1>4, <1>5

\* A record is visited: where it is found and whether it is kept tell where the
\* cursor goes.  Removing the last record of the list resets the cursor.
LEMMA SettleMoves ==
    ASSUME Typed, NEW keep \in BOOLEAN, record_next.record_pos /= NULL, Settle(keep)
    PROVE  \E id \in Nat : id = record_next.record_pos /\ Moves(id, keep)
<1> DEFINE m == Len(buffer)
           Dropped(id) == flb_mp_chunk_cobj_record_destroy(record_next, id)
<1>1. m \in Nat /\ offset \in Nat /\ offset <= m /\ records \in SUBSET (1..offset) /\ record_pos \in Nat
  BY DEF Typed
<1>2. /\ visited' = visited \cup {record_next.record_pos}
      /\ setting' = setting /\ unit' = unit /\ clock' = clock /\ arrived' = arrived /\ out' = out
      /\ keep => SetCursor(record_next)
      /\ ~keep => SetCursor(Dropped(record_next.record_pos))
  BY DEF Settle
<1>3. ASSUME NEW id \in Nat, Decoding(id) PROVE record_next.record_pos = id /\ Moves(id, keep)
  <2>1. /\ record_next = [offset |-> id, records |-> With(id), record_pos |-> id]
        /\ id \in Undecoded
    BY <1>3 DEF Decoding
  <2>2. id > offset /\ id <= m
    BY <1>1, <2>1 DEF Undecoded
  <2>3. With(id) \in SUBSET (1..id) /\ id \in With(id)
    BY <1>1, <2>2 DEF With
  <2>4. Max(With(id)) = id
    <3>1. Max(With(id)) \in With(id) /\ \A y \in With(id) : Max(With(id)) >= y
      BY <2>3, LeastAndGreatest
    <3>2. Max(With(id)) \in Nat /\ Max(With(id)) <= id /\ Max(With(id)) >= id
      BY <2>3, <3>1
    <3> QED BY <3>2
  <2>5. Dropped(id).offset = id /\ Dropped(id).records = With(id) \ {id} /\ Dropped(id).record_pos = NULL
    BY <2>1, <2>4 DEF flb_mp_chunk_cobj_record_destroy
  <2> HIDE DEF Dropped
  <2>6. Decoded(id, keep)
    BY <1>2, <1>3, <2>1, <2>5 DEF Decoded, Lists, SetCursor
  <2> QED BY <1>2, <2>1, <2>6 DEF Moves
<1>4. ASSUME NEW id \in Nat, Listing(id) PROVE record_next.record_pos = id /\ Moves(id, keep)
  <2>1. record_next = [offset |-> m, records |-> With(m), record_pos |-> id]
    BY <1>4 DEF Listing
  <2>2. records \subseteq 1..m /\ (offset + 1)..m \subseteq 1..m /\ id \in records
    BY <1>1, <1>4 DEF Listing
  <2>3. With(m) \in SUBSET (1..m) /\ With(m) /= {}
    BY <2>2 DEF With
  <2>4. id \in {Min(With(m)), Max(With(m))} => AtEdge(id, With(m))
    <3>1. /\ \A y \in With(m) : Min(With(m)) <= y
          /\ \A y \in With(m) : Max(With(m)) >= y
          /\ Min(With(m)) \in With(m) /\ Max(With(m)) \in With(m)
      BY <1>1, <2>3, LeastAndGreatest
    <3>2. \A y \in With(m) : y \in Nat
      BY <2>3
    <3>3. CASE id = Min(With(m))
      BY <3>1, <3>3 DEF AtEdge
    <3>4. CASE id = Max(With(m))
      <4>1. \A y \in With(m) : y <= id
        BY <3>1, <3>2, <3>4
      <4> QED BY <4>1 DEF AtEdge
    <3> QED BY <3>3, <3>4
  <2>5. /\ Dropped(id).offset = m /\ Dropped(id).records = With(m) \ {id}
        /\ \/ Dropped(id).record_pos = id
           \/ Dropped(id).record_pos = NULL /\ AtEdge(id, With(m))
    BY <2>1, <2>4 DEF flb_mp_chunk_cobj_record_destroy
  <2> HIDE DEF Dropped
  <2>6. Searched(id, keep)
    BY <1>2, <1>4, <2>1, <2>5 DEF Searched, Lists, SetCursor
  <2> QED BY <1>2, <2>1, <2>6 DEF Moves
<1>5. ~Ending
  BY DEF Ending
<1> QED BY <1>3, <1>4, <1>5, Advance

(***************************************************************************)
(* What the units do with the record they visit.                           *)
(***************************************************************************)
\* The record keeps its data and gets the second at which dedup let it pass, and
\* what it hashed.
Stamps(id) ==
    /\ Len(buffer') = Len(buffer)
    /\ \A x \in 1..Len(buffer) : x /= id => buffer'[x] = buffer[x]
    /\ buffer'[id].body = buffer[id].body /\ buffer'[id].time = buffer[id].time
    /\ buffer'[id].match = buffer[id].match /\ buffer'[id].at = clock
    /\ buffer'[id].hashed = buffer[id].body
\* The record gets another body, or other keys to match.
Rewrites(id) ==
    /\ Len(buffer') = Len(buffer) /\ buffer' \in Seq(Rec)
    /\ \A x \in 1..Len(buffer) : x /= id => buffer'[x] = buffer[x]
    /\ buffer'[id].time = buffer[id].time /\ buffer'[id].at = buffer[id].at
    /\ buffer'[id].hashed = buffer[id].hashed
Leaves(id) == buffer' = buffer \/ (Chain[unit].rewrites /\ Rewrites(id))

Hash(id) == hash_msgpack_data_filtered(buffer[id].body)
Modifies(id, keep) ==
    /\ In("modify") /\ keep /\ Leaves(id)
    /\ store' = store /\ window' = window /\ buckets' = buckets
Queries(id, keep) ==
    /\ In("sql") /\ (keep <=> buffer[id].match) /\ Leaves(id)
    /\ store' = store /\ window' = window /\ buckets' = buckets
Remembers(id, keep) ==
    /\ In("dedup") /\ keep /\ Stamps(id) /\ buffer' \in Seq(Rec)
    /\ ~Known(store, Hash(id), clock) \/ "get" \in Faults
    /\ store' = flb_record_dedup_add(store, Hash(id), clock) \/ ("put" \in Faults /\ store' = store)
    /\ window' = window /\ buckets' = buckets
Recognises(id, keep) ==
    /\ In("dedup") /\ ~keep /\ Known(store, Hash(id), clock)
    /\ buffer' = buffer /\ store' = store /\ window' = window /\ buckets' = buckets
Fixes(id, keep) ==
    /\ In("fixed")
    /\ keep = flb_sampling_fixed_window(window, buffer[id].time).keep
    /\ window' = flb_sampling_fixed_window(window, buffer[id].time).window
    /\ buffer' = buffer /\ store' = store /\ buckets' = buckets
Slides(id, keep) ==
    /\ In("sliding")
    /\ keep = flb_sampling_sliding_window(buckets, buffer[id].time).keep
    /\ buckets' = flb_sampling_sliding_window(buckets, buffer[id].time).buckets
    /\ buffer' = buffer /\ store' = store /\ window' = window
Decays(id, keep) ==
    /\ In("exponential")
    /\ buffer' = buffer /\ store' = store /\ window' = window /\ buckets' = buckets
Visits(id, keep) ==
    \/ Modifies(id, keep) \/ Queries(id, keep) \/ Remembers(id, keep) \/ Recognises(id, keep)
    \/ Fixes(id, keep) \/ Slides(id, keep) \/ Decays(id, keep)

\* A record that is found is one of the buffer.
LEMMA Found ==
    ASSUME Typed, NEW id \in Nat, NEW keep, Moves(id, keep)
    PROVE  id \in 1..Len(buffer) /\ buffer[id] \in Rec
<1>1. /\ Len(buffer) \in Nat /\ offset \in Nat /\ offset <= Len(buffer)
      /\ records \subseteq 1..offset /\ buffer \in Seq(Rec)
  BY DEF Typed
<1>2. id \in Undecoded \/ id \in records
  BY DEF Moves, Decoded, Searched, Decoding, Listing
<1>3. id \in 1..Len(buffer)
  BY <1>1, <1>2 DEF Undecoded
<1> QED BY <1>1, <1>3

\* Stamping a record changes its second only.
LEMMA Stamping ==
    ASSUME Typed, NEW id \in 1..Len(buffer),
           buffer' = [buffer EXCEPT ![id].at = clock, ![id].hashed = buffer[id].body]
    PROVE  Stamps(id) /\ buffer' \in Seq(Rec)
<1> DEFINE r == [buffer[id] EXCEPT !.at = clock, !.hashed = buffer[id].body]
<1>1. buffer \in Seq(Rec) /\ Len(buffer) \in Nat /\ clock \in Nat /\ buffer[id] \in Rec
  BY DEF Typed
<1>2. /\ r \in Rec /\ r.body = buffer[id].body /\ r.time = buffer[id].time
      /\ r.match = buffer[id].match /\ r.at = clock /\ r.hashed = buffer[id].body
  BY <1>1 DEF Rec
<1>3. buffer' = [buffer EXCEPT ![id] = r]
  BY <1>1
<1> HIDE DEF r
<1>4. buffer' \in Seq(Rec) /\ Len(buffer') = Len(buffer)
      /\ \A x \in 1..Len(buffer) : buffer'[x] = IF x = id THEN r ELSE buffer[x]
  BY <1>1, <1>2, <1>3
<1> QED BY <1>2, <1>4 DEF Stamps

\* A unit rewrites the record it visits, if it rewrites at all.
LEMMA Rewriting ==
    ASSUME Typed, NEW id \in 1..Len(buffer), id = record_next.record_pos, Rewrite
    PROVE  Leaves(id)
<1>1. buffer \in Seq(Rec) /\ Len(buffer) \in Nat /\ buffer[id] \in Rec
  BY DEF Typed
<1>2. CASE /\ Chain[unit].rewrites
           /\ \E body \in Bodies, match \in BOOLEAN :
                 buffer' = [buffer EXCEPT ![id].body = body, ![id].match = match]
  <2>1. PICK body \in Bodies, match \in BOOLEAN :
               buffer' = [buffer EXCEPT ![id].body = body, ![id].match = match]
    BY <1>2
  <2> DEFINE r == [buffer[id] EXCEPT !.body = body, !.match = match]
  <2>2. r \in Rec /\ r.time = buffer[id].time /\ r.at = buffer[id].at /\ r.hashed = buffer[id].hashed
    BY <1>1 DEF Rec
  <2>3. buffer' = [buffer EXCEPT ![id] = r]
    BY <1>1, <2>1
  <2> HIDE DEF r
  <2>4. buffer' \in Seq(Rec) /\ Len(buffer') = Len(buffer)
        /\ \A x \in 1..Len(buffer) : buffer'[x] = IF x = id THEN r ELSE buffer[x]
    BY <1>1, <2>2, <2>3
  <2>5. Rewrites(id)
    BY <2>2, <2>4 DEF Rewrites
  <2> QED BY <1>2, <2>5 DEF Leaves
<1>3. CASE buffer' = buffer
  BY <1>3 DEF Leaves
<1> QED BY <1>2, <1>3 DEF Rewrite

\* Every visit moves the cursor and does what the kind of the unit does.
LEMMA VisitMoves ==
    ASSUME Typed, Visit
    PROVE  \E id \in Nat, keep \in BOOLEAN : Moves(id, keep) /\ Visits(id, keep)
<1>1. CASE VisitModify
  <2>1. In("modify") /\ record_next.record_pos /= NULL /\ Settle(TRUE)
    BY <1>1 DEF VisitModify, Visiting, In
  <2>2. PICK id \in Nat : id = record_next.record_pos /\ Moves(id, TRUE)
    BY <2>1, SettleMoves
  <2>3. Leaves(id)
    <3>1. id \in 1..Len(buffer) /\ Rewrite
      BY <1>1, <2>2, Found DEF VisitModify
    <3> QED BY <2>2, <3>1, Rewriting
  <2>4. Modifies(id, TRUE)
    BY <1>1, <2>1, <2>3 DEF VisitModify, Modifies, contexts
  <2> QED BY <2>2, <2>4 DEF Visits
<1>2. CASE VisitSql
  <2> DEFINE keep == Visited.match
  <2>1. In("sql") /\ record_next.record_pos /= NULL /\ Settle(keep)
    BY <1>2 DEF VisitSql, Visiting, In
  <2>0. keep \in BOOLEAN
    <3>1. PICK id \in Nat : id = record_next.record_pos /\ id \in 1..Len(buffer)
      <4>1. (\E id \in Nat : Decoding(id)) \/ (\E id \in Nat : Listing(id))
        BY <2>1, Advance DEF Ending
      <4>2. Len(buffer) \in Nat /\ offset \in Nat /\ offset <= Len(buffer) /\ records \subseteq 1..offset
        BY DEF Typed
      <4> QED BY <4>1, <4>2 DEF Decoding, Listing, Undecoded
    <3>2. buffer[id] \in Rec
      BY <3>1 DEF Typed
    <3> QED BY <3>1, <3>2 DEF Visited, Rec
  <2>2. PICK id \in Nat : id = record_next.record_pos /\ Moves(id, keep)
    BY <2>0, <2>1, SettleMoves
  <2>3. keep <=> buffer[id].match
    BY <2>2 DEF Visited
  <2>5. Leaves(id)
    <3>1. id \in 1..Len(buffer) /\ (Rewrite \/ buffer' = buffer)
      BY <1>2, <2>0, <2>2, Found DEF VisitSql
    <3>2. CASE Rewrite
      BY <2>2, <3>1, <3>2, Rewriting
    <3> QED BY <3>1, <3>2 DEF Leaves
  <2>6. store' = store /\ window' = window /\ buckets' = buckets
    BY <1>2 DEF VisitSql, contexts
  <2> HIDE DEF keep
  <2>4. Queries(id, keep)
    BY <2>1, <2>3, <2>5, <2>6 DEF Queries
  <2> QED BY <2>0, <2>2, <2>4 DEF Visits
<1>3. CASE VisitDedup
  <2> DEFINE hash == hash_msgpack_data_filtered(Visited.body)
  <2>1. /\ In("dedup") /\ record_next.record_pos /= NULL /\ window' = window /\ buckets' = buckets
        /\ \/ Known(store, hash, clock) /\ Settle(FALSE) /\ buffer' = buffer /\ store' = store
           \/ /\ ~Known(store, hash, clock) \/ "get" \in Faults
              /\ Settle(TRUE) /\ buffer' = [buffer EXCEPT ![record_next.record_pos].at = clock,
                                                          ![record_next.record_pos].hashed = Visited.body]
              /\ store' = flb_record_dedup_add(store, hash, clock) \/ ("put" \in Faults /\ store' = store)
    BY <1>3 DEF VisitDedup, Visiting, In
  <2>2. \A id \in Nat : id = record_next.record_pos => hash = Hash(id)
    BY DEF Visited, Hash
  <2> HIDE DEF hash
  <2>3. CASE Known(store, hash, clock) /\ Settle(FALSE) /\ buffer' = buffer /\ store' = store
    <3>1. PICK id \in Nat : id = record_next.record_pos /\ Moves(id, FALSE)
      BY <2>1, <2>3, SettleMoves
    <3>2. Recognises(id, FALSE)
      BY <2>1, <2>2, <2>3, <3>1 DEF Recognises
    <3> QED BY <3>1, <3>2 DEF Visits
  <2>4. CASE /\ ~Known(store, hash, clock) \/ "get" \in Faults
             /\ Settle(TRUE) /\ buffer' = [buffer EXCEPT ![record_next.record_pos].at = clock,
                                                         ![record_next.record_pos].hashed = Visited.body]
             /\ store' = flb_record_dedup_add(store, hash, clock) \/ ("put" \in Faults /\ store' = store)
    <3>1. PICK id \in Nat : id = record_next.record_pos /\ Moves(id, TRUE)
      BY <2>1, <2>4, SettleMoves
    <3>2. Stamps(id) /\ buffer' \in Seq(Rec)
      <4>1. id \in 1..Len(buffer) /\ Visited = buffer[id]
        BY <3>1, Found DEF Visited
      <4>2. buffer' = [buffer EXCEPT ![id].at = clock, ![id].hashed = buffer[id].body]
        BY <2>4, <3>1, <4>1
      <4> QED BY <4>1, <4>2, Stamping
    <3>3. Remembers(id, TRUE)
      BY <2>1, <2>2, <2>4, <3>1, <3>2 DEF Remembers
    <3> QED BY <3>1, <3>3 DEF Visits
  <2> QED BY <2>1, <2>3, <2>4
<1>4. CASE VisitFixed
  <2> DEFINE sampled == flb_sampling_fixed_window(window, Visited.time)
  <2>1. /\ In("fixed") /\ record_next.record_pos /= NULL /\ Settle(sampled.keep)
        /\ window' = sampled.window /\ buffer' = buffer /\ store' = store /\ buckets' = buckets
    BY <1>4 DEF VisitFixed, Visiting, In
  <2>2. sampled.keep \in BOOLEAN
    BY DEF flb_sampling_fixed_window
  <2>3. \A id \in Nat : id = record_next.record_pos => sampled = flb_sampling_fixed_window(window, buffer[id].time)
    BY DEF Visited
  <2> HIDE DEF sampled
  <2>4. PICK id \in Nat : id = record_next.record_pos /\ Moves(id, sampled.keep)
    BY <2>1, <2>2, SettleMoves
  <2>5. Fixes(id, sampled.keep)
    BY <2>1, <2>3, <2>4 DEF Fixes
  <2> QED BY <2>2, <2>4, <2>5 DEF Visits
<1>5. CASE VisitSliding
  <2> DEFINE sampled == flb_sampling_sliding_window(buckets, Visited.time)
  <2>1. /\ In("sliding") /\ record_next.record_pos /= NULL /\ Settle(sampled.keep)
        /\ buckets' = sampled.buckets /\ buffer' = buffer /\ store' = store /\ window' = window
    BY <1>5 DEF VisitSliding, Visiting, In
  <2>2. sampled.keep \in BOOLEAN
    BY DEF flb_sampling_sliding_window
  <2>3. \A id \in Nat : id = record_next.record_pos => sampled = flb_sampling_sliding_window(buckets, buffer[id].time)
    BY DEF Visited
  <2> HIDE DEF sampled
  <2>4. PICK id \in Nat : id = record_next.record_pos /\ Moves(id, sampled.keep)
    BY <2>1, <2>2, SettleMoves
  <2>5. Slides(id, sampled.keep)
    BY <2>1, <2>3, <2>4 DEF Slides
  <2> QED BY <2>2, <2>4, <2>5 DEF Visits
<1>6. CASE VisitExponential
  <2>1. PICK keep \in BOOLEAN : Settle(keep)
    BY <1>6 DEF VisitExponential, flb_sampling_exponential
  <2>2. /\ In("exponential") /\ record_next.record_pos /= NULL
        /\ buffer' = buffer /\ store' = store /\ window' = window /\ buckets' = buckets
    BY <1>6 DEF VisitExponential, Visiting, In, contexts
  <2>3. PICK id \in Nat : id = record_next.record_pos /\ Moves(id, keep)
    BY <2>1, <2>2, SettleMoves
  <2>4. Decays(id, keep)
    BY <2>2 DEF Decays
  <2> QED BY <2>3, <2>4 DEF Visits
<1> QED BY <1>1, <1>2, <1>3, <1>4, <1>5, <1>6 DEF Visit

(***************************************************************************)
(* The windows keep their types.                                           *)
(***************************************************************************)
\* A number of whole windows.
LEMMA WholeWindows ==
    ASSUME NEW time \in Nat
    PROVE  /\ time \div WindowSize \in Nat /\ (time \div WindowSize) * WindowSize \in Nat
           /\ time % WindowSize \in Buckets
<1>1. WindowSize \in Nat /\ WindowSize > 0
  BY SamplingAssumption
<1>2. time \div WindowSize \in Nat
  BY <1>1
<1>3. (time \div WindowSize) * WindowSize \in Nat
  BY <1>1, <1>2
<1>4. time % WindowSize \in 0..(WindowSize - 1)
  BY <1>1
<1> QED BY <1>2, <1>3, <1>4 DEF Buckets

\* The fixed window counts no more than max_logs_per_window.
LEMMA FixedTyped ==
    ASSUME window \in Window, NEW time \in Nat
    PROVE  flb_sampling_fixed_window(window, time).window \in Window
<1>1. window.start \in Nat /\ window.count \in Nat /\ window.count <= MaxLogs /\ MaxLogs \in Nat
  BY SamplingAssumption DEF Window
<1> DEFINE starts == time >= window.start + WindowSize
           start  == IF starts THEN (time \div WindowSize) * WindowSize ELSE window.start
           count  == IF starts THEN 0 ELSE window.count
           next   == IF count < MaxLogs THEN count + 1 ELSE count
<1>2. start \in Nat /\ count \in Nat /\ count <= MaxLogs
  BY <1>1, WholeWindows
<1>3. flb_sampling_fixed_window(window, time).window = [start |-> start, count |-> next]
  BY DEF flb_sampling_fixed_window
<1> HIDE DEF starts, start, count
<1>4. next \in 0..MaxLogs
  BY <1>1, <1>2
<1> HIDE DEF next
<1>5. [start |-> start, count |-> next] \in [start : Nat, count : 0..MaxLogs]
  BY <1>2, <1>4
<1> QED BY <1>3, <1>5 DEF Window

\* Clearing keeps the buckets that have not expired.
LEMMA ClearedTyped ==
    ASSUME NEW b \in [Buckets -> Bucket], NEW time \in Nat
    PROVE  /\ Cleared(b, time) \in [Buckets -> Bucket]
           /\ \A i \in Buckets : Cleared(b, time)[i] = IF Expired(b[i], time) THEN NoBucket ELSE b[i]
<1>1. NoBucket \in Bucket
  BY SamplingAssumption DEF NoBucket, Bucket
<1>2. \A i \in Buckets : b[i] \in Bucket
  OBVIOUS
<1> QED BY <1>1, <1>2 DEF Cleared

\* No bucket counts more than all of them.
LEMMA CountBelowTotal ==
    ASSUME NEW b \in [Buckets -> Bucket], NEW i \in Buckets
    PROVE  total_in_window(b) \in Nat /\ b[i].count \in Nat /\ b[i].count <= total_in_window(b)
<1> DEFINE C == Counted(b, WindowSize)
           m == b[i].count
           X == {i}
           Y == 1..m
<1>1. total_in_window(b) = Cardinality(C) /\ IsFiniteSet(C)
  BY TotalCounts
<1>2. m \in Nat
  <2>1. b[i] \in Bucket
    OBVIOUS
  <2> QED BY <2>1, SamplingAssumption DEF Bucket
<1>3. X \X Y \subseteq C
  <2>1. i \in 0..(WindowSize - 1)
    BY DEF Buckets
  <2>2. X \X Y \in {{j} \X (1..b[j].count) : j \in 0..(WindowSize - 1)}
    BY <2>1
  <2> QED BY <2>2 DEF Counted
<1> HIDE DEF C, m
<1>4. IsFiniteSet(Y) /\ Cardinality(Y) = IF 1 > m THEN 0 ELSE m - 1 + 1
  BY <1>2, FS_Interval
<1>5. Cardinality(Y) = m
  BY <1>2, <1>4
<1>6. IsFiniteSet(X) /\ Cardinality(X) = 1
  BY FS_Singleton
<1> HIDE DEF X, Y
<1>7. Cardinality(X \X Y) = Cardinality(X) * Cardinality(Y)
  BY <1>4, <1>6, FS_Product
<1>8. Cardinality(X \X Y) = m
  BY <1>2, <1>5, <1>6, <1>7
<1>9. Cardinality(X \X Y) <= Cardinality(C) /\ Cardinality(C) \in Nat
  BY <1>1, <1>3, FS_Subset, FS_CardinalityType
<1> QED BY <1>1, <1>2, <1>8, <1>9 DEF m

\* The buckets count no more than max_logs_per_window.
LEMMA SlidingTyped ==
    ASSUME NEW b \in [Buckets -> Bucket], NEW time \in Nat
    PROVE  flb_sampling_sliding_window(b, time).buckets \in [Buckets -> Bucket]
<1> DEFINE c == Cleared(b, time)
           i == time % WindowSize
           new == [timestamp |-> time, count |-> c[i].count + 1]
<1>1. c \in [Buckets -> Bucket] /\ i \in Buckets /\ MaxLogs \in Nat
  BY ClearedTyped, WholeWindows, SamplingAssumption
<1>2. flb_sampling_sliding_window(b, time).buckets =
        IF total_in_window(c) < MaxLogs THEN [c EXCEPT ![i] = new] ELSE c
  BY DEF flb_sampling_sliding_window
<1> HIDE DEF c, i
<1>3. CASE total_in_window(c) < MaxLogs
  <2>1. c[i].count + 1 \in 0..MaxLogs
    BY <1>1, <1>3, CountBelowTotal
  <2>2. new \in Bucket
    BY <2>1 DEF Bucket
  <2> HIDE DEF new
  <2> QED BY <1>1, <1>2, <1>3, <2>2
<1>4. CASE ~(total_in_window(c) < MaxLogs)
  BY <1>1, <1>2, <1>4
<1> QED BY <1>3, <1>4

(***************************************************************************)
(* Every step keeps the types, and the list and the cursor in step.        *)
(***************************************************************************)
\* What a setting is.
LEMMA SettingFacts ==
    ASSUME setting \in Settings
    PROVE  /\ Chain \in Seq(Unit) /\ Len(Chain) \in Nat \ {0}
           /\ DOMAIN Chain = 1..Len(Chain)
           /\ \A i \in DOMAIN Chain : /\ Chain[i].kind \in Kinds /\ Chain[i].condition \in BOOLEAN
                                      /\ Chain[i].rewrites \in BOOLEAN
           /\ \A r \in Inputs : r.time \in Nat /\ r.match \in BOOLEAN
           /\ setting.StartTimes \subseteq Nat
<1>1. IsSetting(setting)
  BY ChainAssumption
<1>2. Chain \in Seq(Unit) /\ Chain /= <<>>
  BY <1>1 DEF IsSetting, Chain
<1>3. Len(Chain) \in Nat \ {0} /\ DOMAIN Chain = 1..Len(Chain)
  BY <1>2, EmptySeq
<1>4. \A i \in DOMAIN Chain : Chain[i] \in Unit
  BY <1>2, <1>3, ElementOfSeq
<1>5. \A r \in Inputs : r.time \in Nat /\ r.match \in BOOLEAN
  BY <1>1 DEF IsSetting, Inputs
<1>6. setting.StartTimes \subseteq Nat
  BY <1>1 DEF IsSetting
<1> QED BY <1>2, <1>3, <1>4, <1>5, <1>6 DEF Unit

\* The setting determines the chain.
LEMMA SameChain ==
    ASSUME setting' = setting
    PROVE  Chain' = Chain /\ Inputs' = Inputs /\ Rec' = Rec /\ Faults' = Faults
           /\ Ordered' = Ordered /\ (RemovesOnce' <=> RemovesOnce)
BY DEF Chain, Inputs, Bodies, Rec, Faults, Ordered, RemovesOnce

\* The initial states are typed.
LEMMA InitTyped ==
    ASSUME Init
    PROVE  Typed
<1>1. clock \in Nat /\ MaxLogs \in Nat
  BY SettingFacts, SamplingAssumption DEF Init
<1>2. window \in Window
  BY <1>1 DEF Init, NewWindow, Window
<1>3. buckets \in [Buckets -> Bucket]
  BY <1>1 DEF Init, NewBuckets, NoBucket, Bucket
<1> QED BY <1>1, <1>2, <1>3 DEF Init, Typed, NULL

\* A visit keeps the types.
LEMMA MovesTyped ==
    ASSUME Typed, NEW id \in Nat, NEW keep \in BOOLEAN, Moves(id, keep), Visits(id, keep)
    PROVE  Typed'
<1> DEFINE n == Len(buffer)
<1>1. /\ setting \in Settings /\ unit \in {Idle, Undefined} \cup DOMAIN Chain
      /\ buffer \in Seq(Rec) /\ out \in Seq(Rec) /\ arrived \in Seq(Inputs) /\ n \in Nat
      /\ offset \in Nat /\ offset <= n /\ records \subseteq 1..offset /\ record_pos \in Nat
      /\ clock \in Nat /\ window \in Window /\ buckets \in [Buckets -> Bucket]
      /\ Len(out) + n <= Len(arrived) /\ (unit = Idle => buffer = <<>>)
  BY DEF Typed
<1>2. id \in 1..n /\ buffer[id] \in Rec
  BY Found
<1>3. /\ setting' = setting /\ unit' = unit /\ clock' = clock /\ arrived' = arrived /\ out' = out
      /\ Chain' = Chain /\ Inputs' = Inputs /\ Rec' = Rec
  BY SameChain DEF Moves
<1>4. offset' \in 0..n /\ records' \subseteq 1..offset' /\ record_pos' \in 0..offset'
  <2>1. CASE Decoded(id, keep)
    <3>1. id > offset /\ id <= n
      BY <1>1, <2>1 DEF Decoded, Decoding, Undecoded
    <3>2. With(id) \subseteq 1..id
      BY <1>1, <3>1 DEF With
    <3> QED BY <1>1, <2>1, <3>1, <3>2 DEF Decoded, Lists, NULL
  <2>2. CASE Searched(id, keep)
    <3>0. records \subseteq 1..n /\ (offset + 1)..n \subseteq 1..n
      BY <1>1
    <3>1. With(n) \subseteq 1..n
      BY <3>0 DEF With
    <3>2. offset' = n /\ records' \subseteq With(n) /\ record_pos' \in {0, id}
      BY <2>2 DEF Searched, Lists, NULL
    <3> QED BY <1>1, <1>2, <3>1, <3>2
  <2> QED BY <2>1, <2>2 DEF Moves
<1>5. buffer' \in Seq(Rec) /\ Len(buffer') = n
  BY <1>1 DEF Visits, Modifies, Queries, Leaves, Rewrites, Remembers, Recognises, Fixes, Slides,
              Decays, Stamps
<1>6. buffer[id].time \in Nat
  BY <1>2 DEF Rec
<1>7. window' \in Window
  <2>1. CASE Fixes(id, keep)
    <3>1. flb_sampling_fixed_window(window, buffer[id].time).window \in Window
      BY <1>1, <1>6, FixedTyped
    <3> QED BY <2>1, <3>1 DEF Fixes
  <2>2. CASE ~Fixes(id, keep)
    <3>1. window' = window
      BY <2>2 DEF Visits, Modifies, Queries, Remembers, Recognises, Slides, Decays
    <3> QED BY <1>1, <3>1
  <2> QED BY <2>1, <2>2
<1>8. buckets' \in [Buckets -> Bucket]
  <2>1. CASE Slides(id, keep)
    <3>1. flb_sampling_sliding_window(buckets, buffer[id].time).buckets \in [Buckets -> Bucket]
      BY <1>1, <1>6, SlidingTyped
    <3> QED BY <2>1, <3>1 DEF Slides
  <2>2. CASE ~Slides(id, keep)
    <3>1. buckets' = buckets
      BY <2>2 DEF Visits, Modifies, Queries, Remembers, Recognises, Fixes, Decays
    <3> QED BY <1>1, <3>1
  <2> QED BY <2>1, <2>2
<1>9. unit' = Idle => buffer' = <<>>
  <2>1. unit /= Idle
    BY <1>1, <1>2
  <2> QED BY <1>3, <2>1
<1>10. unit' \in {Idle, Undefined} \cup DOMAIN Chain'
  BY <1>1, <1>3
<1>11. /\ buffer' \in Seq(Rec') /\ out' \in Seq(Rec') /\ arrived' \in Seq(Inputs') /\ setting' \in Settings
       /\ clock' \in Nat /\ Len(out') + Len(buffer') <= Len(arrived')
  BY <1>1, <1>3, <1>5
<1> QED BY <1>4, <1>5, <1>7, <1>8, <1>9, <1>10, <1>11 DEF Typed, Window, Bucket, Buckets

\* A new buffer, in place of the one there was.
LEMMA ForwardTyped ==
    ASSUME Typed, unit \in DOMAIN Chain, NEW new \in Seq(Rec), Len(new) <= Len(buffer), Forward(new),
           setting' = setting, store' = store, window' = window, buckets' = buckets,
           clock' = clock, arrived' = arrived
    PROVE  Typed'
<1>1. /\ setting \in Settings
      /\ buffer \in Seq(Rec) /\ out \in Seq(Rec) /\ arrived \in Seq(Inputs) /\ Len(buffer) \in Nat
      /\ clock \in Nat /\ window \in Window /\ buckets \in [Buckets -> Bucket]
      /\ Len(out) + Len(buffer) <= Len(arrived)
      /\ Len(Chain) \in Nat /\ DOMAIN Chain = 1..Len(Chain)
  BY SettingFacts DEF Typed
<1>2. Chain' = Chain /\ Inputs' = Inputs /\ Rec' = Rec
  BY SameChain
<1>3. offset' = 0 /\ records' = {} /\ record_pos' = 0
  BY DEF Forward, NULL
<1>4. /\ unit' \in {Idle, Undefined} \cup DOMAIN Chain
      /\ buffer' \in Seq(Rec) /\ out' \in Seq(Rec) /\ Len(out') + Len(buffer') <= Len(arrived)
      /\ unit' = Idle => buffer' = <<>>
  <2>1. CASE unit' = Idle /\ buffer' = <<>> /\ out' = out \o new
    <3>1. out' \in Seq(Rec) /\ Len(out') = Len(out) + Len(new)
      BY <1>1, <2>1
    <3> QED BY <1>1, <2>1, <3>1
  <2>2. CASE unit /= Len(Chain) /\ unit' = unit + 1 /\ buffer' = new /\ out' = out
    BY <1>1, <2>2 DEF Idle
  <2> QED BY <2>1, <2>2 DEF Forward
<1>5. Len(buffer') \in Nat
  BY <1>4
<1>6. offset' \in 0..Len(buffer') /\ records' \subseteq 1..offset' /\ record_pos' \in 0..offset'
  BY <1>3, <1>5
<1> QED BY <1>1, <1>2, <1>4, <1>6 DEF Typed, Window, Bucket, Buckets

\* A record that arrives is one of the buffer.
LEMMA AppendTyped ==
    ASSUME Typed, NEW k \in Nat, NEW batch \in [1..k -> Inputs], LogAppend(batch)
    PROVE  Typed' /\ Len(buffer') = k
<1>1. /\ setting \in Settings
      /\ buffer = <<>> /\ out \in Seq(Rec) /\ arrived \in Seq(Inputs)
      /\ clock \in Nat /\ window \in Window /\ buckets \in [Buckets -> Bucket]
      /\ Len(out) <= Len(arrived) /\ Len(Chain) \in Nat \ {0} /\ DOMAIN Chain = 1..Len(Chain)
      /\ \A r \in Inputs : r.time \in Nat /\ r.match \in BOOLEAN
  <2>1. unit = Idle
    BY DEF LogAppend
  <2>2. buffer = <<>> /\ Len(buffer) = 0
    BY <2>1 DEF Typed
  <2> QED BY <2>2, SettingFacts DEF Typed
<1>2. /\ Chain' = Chain /\ Inputs' = Inputs /\ Rec' = Rec /\ setting' = setting
      /\ clock' = clock /\ out' = out /\ window' = window /\ buckets' = buckets
  BY SameChain DEF LogAppend, contexts
<1>3. DOMAIN batch = 1..k /\ batch \in Seq(Inputs) /\ Len(batch) = k
  BY LenProperties
<1>4. arrived' \in Seq(Inputs) /\ Len(arrived') = Len(arrived) + k
  BY <1>1, <1>3, ConcatProperties DEF LogAppend
<1>5. \A i \in 1..k : Stamped(batch[i]) \in Rec
  <2> SUFFICES ASSUME NEW i \in 1..k PROVE Stamped(batch[i]) \in Rec
    OBVIOUS
  <2>1. batch[i] \in Inputs
    OBVIOUS
  <2>2. batch[i].time \in Nat /\ batch[i].match \in BOOLEAN /\ batch[i].body \in Bodies
    BY <1>1, <2>1 DEF Bodies
  <2> QED BY <2>2 DEF Stamped, Rec
<1>6. buffer' = [i \in 1..k |-> Stamped(batch[i])]
  BY <1>3 DEF LogAppend
<1>7. buffer' \in [1..k -> Rec]
  BY <1>5, <1>6
<1>8. buffer' \in Seq(Rec) /\ Len(buffer') = k
  BY <1>7
<1>9. offset' = 0 /\ records' = {} /\ record_pos' = 0 /\ unit' = 1
  BY DEF LogAppend, NULL
<1>10. offset' \in 0..Len(buffer') /\ records' \subseteq 1..offset' /\ record_pos' \in 0..offset'
  BY <1>8, <1>9
<1>11. unit' \in {Idle, Undefined} \cup DOMAIN Chain' /\ unit' /= Idle
  BY <1>1, <1>2, <1>9 DEF Idle
<1>12. Len(out') + Len(buffer') <= Len(arrived')
  BY <1>1, <1>2, <1>4, <1>8
<1> QED BY <1>1, <1>2, <1>4, <1>8, <1>10, <1>11, <1>12 DEF Typed, Window, Bucket, Buckets

\* A unit is done: the next one goes on with the list.
Continues ==
    /\ unit < Len(Chain) /\ Chain[unit + 1].kind /= "filter" /\ unit' = unit + 1
    /\ offset' = Len(buffer) /\ records' = With(Len(buffer)) /\ record_pos' = NULL
    /\ buffer' = buffer /\ out' = out
\* The records of a list make a new buffer.
Replaces(list) == list \subseteq 1..Len(buffer) /\ Forward(Encoded(list))
Keeps == /\ setting' = setting /\ store' = store /\ window' = window /\ buckets' = buckets
         /\ clock' = clock /\ arrived' = arrived
Fresh == offset = 0 /\ records = {} /\ record_pos = NULL /\ visited = {}

\* A unit is done when no record is left that it should visit.
LEMMA UnitEnds ==
    ASSUME Typed, UnitDone
    PROVE  /\ Ending /\ unit \in DOMAIN Chain /\ Chain[unit].kind /= "filter" /\ visited' = {} /\ Keeps
           /\ Continues \/ Replaces(With(Len(buffer)))
<1> DEFINE n == Len(buffer)
<1>1. n \in Nat /\ offset \in Nat /\ offset <= n /\ records \subseteq 1..offset
      /\ Len(Chain) \in Nat /\ DOMAIN Chain = 1..Len(Chain)
  BY SettingFacts DEF Typed
<1>2. /\ unit \in DOMAIN Chain /\ Chain[unit].kind /= "filter" /\ visited' = {} /\ Keeps
      /\ record_next.record_pos = NULL
  BY DEF UnitDone, Keeps, contexts
<1>3. ASSUME NEW id \in Nat, Decoding(id) PROVE FALSE
  BY <1>1, <1>2, <1>3 DEF Decoding, Undecoded, NULL
<1>4. ASSUME NEW id \in Nat, Listing(id) PROVE FALSE
  BY <1>1, <1>2, <1>4 DEF Listing, NULL
<1>5. Ending
  BY <1>3, <1>4, Advance
<1>6. record_next = [offset |-> n, records |-> With(n), record_pos |-> NULL]
  BY <1>5 DEF Ending
<1>7. CASE Finalizes
  <2>1. Forward(Encoded(With(n)))
    BY <1>6, <1>7 DEF UnitDone
  <2>2. records \subseteq 1..n /\ (offset + 1)..n \subseteq 1..n
    BY <1>1
  <2>3. Replaces(With(n))
    BY <2>1, <2>2 DEF Replaces, With
  <2> QED BY <1>2, <1>5, <2>3
<1>8. CASE ~Finalizes
  <2>1. SetCursor(record_next) /\ unit' = unit + 1 /\ buffer' = buffer /\ out' = out
    BY <1>8 DEF UnitDone
  <2>2. unit < Len(Chain) /\ Chain[unit + 1].kind /= "filter"
    BY <1>1, <1>2, <1>8 DEF Finalizes
  <2>3. Continues
    BY <1>6, <2>1, <2>2 DEF Continues, SetCursor
  <2> QED BY <1>2, <1>5, <2>3
<1> QED BY <1>7, <1>8

\* A filter makes a new buffer.
LEMMA FilterEnds ==
    ASSUME Typed, RunFilter
    PROVE  /\ In("filter") /\ visited' = visited /\ Keeps
           /\ \E list : Replaces(list)
<1>1. PICK list \in SUBSET DOMAIN buffer : Forward(Encoded(list))
  BY DEF RunFilter
<1>2. list \subseteq 1..Len(buffer)
  <2>1. DOMAIN buffer = 1..Len(buffer)
    BY LenProperties DEF Typed
  <2> QED BY <2>1
<1>3. Replaces(list)
  BY <1>1, <1>2 DEF Replaces
<1> QED BY <1>3 DEF RunFilter, In, Keeps, contexts

\* The next unit begins, with the list or with a new buffer.
LEMMA ContinuesTyped ==
    ASSUME Typed, unit \in DOMAIN Chain, Continues, Keeps
    PROVE  Typed'
<1> DEFINE n == Len(buffer)
<1>1. /\ setting \in Settings /\ Len(Chain) \in Nat /\ DOMAIN Chain = 1..Len(Chain)
      /\ buffer \in Seq(Rec) /\ out \in Seq(Rec) /\ arrived \in Seq(Inputs) /\ n \in Nat
      /\ offset \in Nat /\ offset <= n /\ records \subseteq 1..offset
      /\ clock \in Nat /\ window \in Window /\ buckets \in [Buckets -> Bucket]
      /\ Len(out) + n <= Len(arrived)
  BY SettingFacts DEF Typed
<1>2. Chain' = Chain /\ Inputs' = Inputs /\ Rec' = Rec
  BY SameChain DEF Keeps
<1>3. records \subseteq 1..n /\ (offset + 1)..n \subseteq 1..n
  BY <1>1
<1>6. With(n) \subseteq 1..n
  BY <1>3 DEF With
<1>4. offset' \in 0..Len(buffer') /\ records' \subseteq 1..offset' /\ record_pos' \in 0..offset'
  BY <1>1, <1>6 DEF Continues, NULL
<1>5. unit' \in DOMAIN Chain /\ unit' /= Idle
  BY <1>1 DEF Continues, Idle
<1> QED BY <1>1, <1>2, <1>4, <1>5 DEF Typed, Continues, Keeps, Window, Bucket, Buckets

\* A new buffer begins afresh, with fewer records on their way.
LEMMA ReplacesTyped ==
    ASSUME Typed, unit \in DOMAIN Chain, NEW list, Replaces(list), Keeps
    PROVE  Typed' /\ offset' = 0 /\ records' = {} /\ record_pos' = NULL
<1> DEFINE new == Encoded(list)
<1>1. new \in Seq(Rec) /\ Len(new) <= Len(buffer) /\ Forward(new)
  BY EncodedSelects DEF Typed, Replaces
<1>2. offset' = 0 /\ records' = {} /\ record_pos' = NULL
  BY <1>1 DEF Forward
<1> HIDE DEF new
<1>3. Typed'
  BY <1>1, ForwardTyped DEF Keeps
<1> QED BY <1>2, <1>3

\* A step that leaves the cursor and the buffer alone.
LEMMA StillTyped ==
    ASSUME Typed, Tick \/ Compact \/ UNCHANGED vars
    PROVE  Typed' /\ setting' = setting /\ unit' = unit /\ buffer' = buffer
           /\ offset' = offset /\ records' = records /\ record_pos' = record_pos /\ visited' = visited
           /\ window' = window /\ buckets' = buckets /\ arrived' = arrived /\ out' = out
<1>1. /\ setting' = setting /\ unit' = unit /\ buffer' = buffer
      /\ offset' = offset /\ records' = records /\ record_pos' = record_pos /\ visited' = visited
      /\ window' = window /\ buckets' = buckets /\ arrived' = arrived /\ out' = out
  BY DEF Tick, Compact, vars, chunk_cobj, contexts
<1>2. clock' \in Nat
  BY DEF Tick, Compact, vars, Typed
<1>3. Chain' = Chain /\ Inputs' = Inputs /\ Rec' = Rec
  BY <1>1, SameChain
<1> QED BY <1>1, <1>2, <1>3 DEF Typed, Window, Bucket, Buckets

\* A unit that reads freed memory does nothing more.
LEMMA UndefinedTyped ==
    ASSUME Typed, UndefinedRead
    PROVE  Typed' /\ setting' = setting /\ unit' = Undefined /\ unit \in DOMAIN Chain /\ ReadsFreed
           /\ buffer' = buffer /\ Keeps /\ out' = out
           /\ offset' = offset /\ records' = records /\ record_pos' = record_pos
<1>1. /\ setting' = setting /\ unit' = Undefined /\ unit \in DOMAIN Chain /\ ReadsFreed
      /\ buffer' = buffer /\ Keeps /\ out' = out
      /\ offset' = offset /\ records' = records /\ record_pos' = record_pos
  BY DEF UndefinedRead, Keeps, chunk_cobj, contexts
<1>2. Chain' = Chain /\ Inputs' = Inputs /\ Rec' = Rec
  BY <1>1, SameChain
<1>3. unit' /= Idle
  BY <1>1 DEF Undefined, Idle
<1> QED BY <1>1, <1>2, <1>3 DEF Typed, Keeps, Window, Bucket, Buckets

\* A unit that begins with a buffer of its own has everything to do.
LEMMA FreshCursor ==
    ASSUME Typed', Fresh'
    PROVE  CursorInv'
<1>1. offset' = 0 /\ records' = {} /\ record_pos' = NULL /\ visited' = {} /\ Typed'
  BY DEF Fresh
<1>2. FilterFresh' /\ CursorDecodes'
  BY <1>1 DEF FilterFresh, CursorDecodes
<1>3. SqlKept' /\ ModifyVisited'
  BY <1>1 DEF SqlKept, ModifyVisited
<1> QED BY <1>1, <1>2, <1>3 DEF CursorInv

\* Where the cursor of a chain is that removes records in its first pass only.
LEMMA OwnList ==
    ASSUME Typed, RemovesOnce, unit \in DOMAIN Chain, Chain[unit].kind \notin {"modify", "filter"}
    PROVE  /\ Chain[unit].kind = "sql" /\ ~Chain[unit].rewrites
           /\ unit = 1 \/ Chain[unit - 1].kind = "filter"
BY DEF RemovesOnce

\* A visit keeps the cursor in step with the list.
LEMMA MovesCursor ==
    ASSUME CursorInv, NEW id \in Nat, NEW keep \in BOOLEAN, Moves(id, keep), Visits(id, keep)
    PROVE  CursorInv'
<1> DEFINE n == Len(buffer)
<1>1. /\ Typed /\ Typed' /\ CursorDecodes /\ SqlKept /\ ModifyVisited
      /\ n \in Nat /\ offset \in Nat /\ offset <= n /\ records \subseteq 1..offset
      /\ record_pos \in Nat /\ record_pos <= offset
  <2>1. Typed /\ CursorDecodes /\ SqlKept /\ ModifyVisited
    BY DEF CursorInv
  <2>2. Typed'
    BY <2>1, MovesTyped
  <2>3. /\ n \in Nat /\ offset \in Nat /\ offset <= n /\ records \subseteq 1..offset
        /\ record_pos \in Nat /\ record_pos <= offset
    BY <2>1 DEF Typed
  <2> QED BY <2>1, <2>2, <2>3
<1>2. id \in 1..n /\ buffer[id] \in Rec
  BY <1>1, Found
<1>3. /\ setting' = setting /\ unit' = unit /\ Chain' = Chain /\ (RemovesOnce' <=> RemovesOnce)
      /\ \A kind : In(kind)' <=> In(kind)
      /\ visited' = visited \cup {id}
  BY SameChain DEF Moves, In
<1>4. /\ Len(buffer') = n
      /\ \A x \in 1..n : x /= id \/ ~Chain[unit].rewrites => buffer'[x].match = buffer[x].match
  BY DEF Visits, Modifies, Queries, Leaves, Rewrites, Remembers, Recognises, Fixes, Slides, Decays,
         Stamps
<1>0. records' \subseteq 1..n
  <2>1. records' \subseteq 1..offset' /\ offset' \in 0..Len(buffer')
    BY <1>1 DEF Typed
  <2> QED BY <1>1, <1>4, <2>1
<1>5. \A x \in 1..n : x /= id \/ ~Chain[unit].rewrites => (Satisfies(x)' <=> Satisfies(x))
  BY <1>3, <1>4 DEF Satisfies
<1>6. unit \in DOMAIN Chain /\ ~In("filter")
  BY DEF Visits, Modifies, Queries, Remembers, Recognises, Fixes, Slides, Decays, In
<1>7. FilterFresh'
  BY <1>3, <1>6 DEF FilterFresh
<1>8. CASE Decoded(id, keep)
  <2>1. /\ id > offset /\ id <= n /\ offset' = id /\ Satisfies(id)
        /\ \A x \in (offset + 1)..n : x < id => ~Satisfies(x)
        /\ records' = (IF keep THEN With(id) ELSE With(id) \ {id})
        /\ keep => record_pos' = id
        /\ ~keep => record_pos' = NULL
    BY <1>1, <1>8 DEF Decoded, Decoding, Undecoded, Lists
  <2>2. With(id) = records \cup (offset + 1)..id
    BY DEF With
  <2>3. CursorDecodes'
    <3>1. keep => id \in records'
      BY <1>1, <2>1, <2>2
    <3> QED BY <2>1, <3>1 DEF CursorDecodes
  <2>4. SqlKept'
    <3>1. SUFFICES ASSUME RemovesOnce PROVE /\ record_pos' /= NULL => record_pos' \in records'
                                            /\ In("sql") => \A x \in records' : Satisfies(x) => buffer[x].match
      <4>1. \A x \in records' : x \in 1..n
        BY <1>0
      <4>2. In("sql") /\ RemovesOnce => ~Chain[unit].rewrites
        BY <1>1, OwnList DEF In
      <4> QED BY <1>3, <1>4, <1>5, <3>1, <4>1, <4>2 DEF SqlKept
    <3>2. record_pos' /= NULL => record_pos' \in records'
      BY <1>1, <2>1, <2>2
    <3>3. ASSUME In("sql"), NEW x \in records', Satisfies(x) PROVE buffer[x].match
      <4>1. keep <=> buffer[id].match
        BY <3>3 DEF Visits, Modifies, Queries, Remembers, Recognises, Fixes, Slides, Decays, In
      <4>2. CASE x \in records
        BY <1>1, <3>1, <3>3, <4>2 DEF SqlKept
      <4>3. CASE x \in (offset + 1)..id
        BY <1>1, <2>1, <3>3, <4>1, <4>3
      <4> QED BY <2>1, <2>2, <4>2, <4>3
    <3> QED BY <3>2, <3>3
  <2>5. ModifyVisited'
    <3> SUFFICES ASSUME In("modify")
                 PROVE /\ visited' \subseteq records' /\ \A x \in visited' : x <= record_pos'
                       /\ \A x \in records' : x <= record_pos' /\ Satisfies(x)' => x \in visited'
                       /\ Chain[unit].rewrites \/ \A x \in visited' : Satisfies(x)'
                       /\ record_pos' = NULL => offset' \in {0, n}
      BY <1>3, <1>4 DEF ModifyVisited
    <3>1. keep /\ record_pos' = id /\ records' = records \cup (offset + 1)..id
      BY <2>1, <2>2 DEF Visits, Modifies, Queries, Remembers, Recognises, Fixes, Slides, Decays, In
    <3>2. /\ visited \subseteq records /\ \A x \in visited : x <= record_pos
          /\ \A x \in records : x <= record_pos /\ Satisfies(x) => x \in visited
          /\ Chain[unit].rewrites \/ \A x \in visited : Satisfies(x)
      BY <1>1 DEF ModifyVisited
    <3>3. record_pos = offset \/ offset = 0
      BY <1>1, <2>1 DEF ModifyVisited, CursorDecodes, NULL
    <3>4. \A x \in records : x <= record_pos /\ x < id
      BY <1>1, <2>1, <3>3
    <3>5. visited' \subseteq records' /\ \A x \in visited' : x <= id
      BY <1>1, <1>3, <2>1, <3>1, <3>2, <3>4
    <3>6. ASSUME NEW x \in records', Satisfies(x)', x /= id PROVE x \in visited
      <4>1. Satisfies(x)
        BY <1>0, <1>5, <3>6
      <4>2. x \in records \/ (x \in (offset + 1)..n /\ x < id)
        BY <1>1, <2>1, <3>1, <3>6
      <4> QED BY <2>1, <3>2, <3>4, <4>1, <4>2
    <3>7. Chain[unit].rewrites \/ \A x \in visited' : Satisfies(x)'
      BY <1>0, <1>3, <1>5, <2>1, <3>2, <3>5
    <3> QED BY <1>2, <1>3, <3>1, <3>5, <3>6, <3>7 DEF NULL
  <2> QED BY <1>1, <1>7, <2>3, <2>4, <2>5 DEF CursorInv
<1>9. CASE Searched(id, keep)
  <2>1. /\ id \in records /\ id > record_pos /\ offset' = n /\ Satisfies(id)
        /\ \A x \in (offset + 1)..n : ~Satisfies(x)
        /\ \A x \in records : record_pos < x /\ x < id => ~Satisfies(x)
        /\ records' = (IF keep THEN With(n) ELSE With(n) \ {id})
        /\ keep => record_pos' = id
    BY <1>9 DEF Searched, Listing, Undecoded, Lists
  <2>2. With(n) = records \cup (offset + 1)..n
    BY DEF With
  <2>3. CursorDecodes'
    BY <1>1, <1>4, <2>1 DEF CursorDecodes
  <2>4. SqlKept'
    <3>1. SUFFICES ASSUME RemovesOnce PROVE /\ record_pos' /= NULL => record_pos' \in records'
                                            /\ In("sql") => \A x \in records' : Satisfies(x) => buffer[x].match
      <4>1. \A x \in records' : x \in 1..n
        BY <1>0
      <4>2. In("sql") /\ RemovesOnce => ~Chain[unit].rewrites
        BY <1>1, OwnList DEF In
      <4> QED BY <1>3, <1>4, <1>5, <3>1, <4>1, <4>2 DEF SqlKept
    <3>2. In("sql") => \A x \in records : Satisfies(x) => buffer[x].match
      BY <1>1, <3>1 DEF SqlKept
    <3>3. keep
      <4>1. In("modify") \/ In("sql")
        BY <1>1, <1>6, <3>1, OwnList DEF In
      <4>2. CASE In("modify")
        BY <4>2 DEF Visits, Modifies, Queries, Remembers, Recognises, Fixes, Slides, Decays, In
      <4>3. CASE In("sql")
        <5>1. keep <=> buffer[id].match
          BY <4>3 DEF Visits, Modifies, Queries, Remembers, Recognises, Fixes, Slides, Decays, In
        <5> QED BY <2>1, <3>2, <4>3, <5>1
      <4> QED BY <4>1, <4>2, <4>3
    <3> QED BY <2>1, <2>2, <3>2, <3>3
  <2>5. ModifyVisited'
    <3> SUFFICES ASSUME In("modify")
                 PROVE /\ visited' \subseteq records' /\ \A x \in visited' : x <= record_pos'
                       /\ \A x \in records' : x <= record_pos' /\ Satisfies(x)' => x \in visited'
                       /\ Chain[unit].rewrites \/ \A x \in visited' : Satisfies(x)'
                       /\ record_pos' = NULL => offset' \in {0, n}
      BY <1>3, <1>4 DEF ModifyVisited
    <3>1. keep /\ record_pos' = id /\ records' = records \cup (offset + 1)..n
      BY <2>1, <2>2 DEF Visits, Modifies, Queries, Remembers, Recognises, Fixes, Slides, Decays, In
    <3>2. /\ visited \subseteq records /\ \A x \in visited : x <= record_pos
          /\ \A x \in records : x <= record_pos /\ Satisfies(x) => x \in visited
          /\ Chain[unit].rewrites \/ \A x \in visited : Satisfies(x)
      BY <1>1 DEF ModifyVisited
    <3>5. visited' \subseteq records' /\ \A x \in visited' : x <= id
      BY <1>1, <1>3, <2>1, <3>1, <3>2
    <3>6. ASSUME NEW x \in records', Satisfies(x)', x <= id, x /= id PROVE x \in visited
      <4>1. Satisfies(x)
        BY <1>0, <1>5, <3>6
      <4>2. x \in records /\ (x <= record_pos \/ (record_pos < x /\ x < id))
        BY <1>1, <2>1, <3>1, <3>6, <4>1
      <4> QED BY <2>1, <3>2, <4>1, <4>2
    <3>7. Chain[unit].rewrites \/ \A x \in visited' : Satisfies(x)'
      BY <1>0, <1>3, <1>5, <2>1, <3>2, <3>5
    <3> QED BY <1>2, <1>3, <3>1, <3>5, <3>6, <3>7 DEF NULL
  <2> QED BY <1>1, <1>7, <2>3, <2>4, <2>5 DEF CursorInv
<1> QED BY <1>8, <1>9 DEF Moves

\* Every step keeps the cursor in step with the list and the buffer.
LEMMA CursorNext ==
    ASSUME CursorInv, [Next]_vars
    PROVE  CursorInv'
<1>1. Typed /\ FilterFresh /\ CursorDecodes /\ SqlKept /\ ModifyVisited
  BY DEF CursorInv
<1>2. ASSUME NEW list, Replaces(list), Keeps, unit \in DOMAIN Chain, visited' = {} PROVE CursorInv'
  <2>1. Typed' /\ offset' = 0 /\ records' = {} /\ record_pos' = NULL
    BY <1>1, <1>2, ReplacesTyped
  <2> QED BY <1>2, <2>1, FreshCursor DEF Fresh
<1>3. CASE \E n \in 1..setting.MaxBatch : \E batch \in [1..n -> Inputs] : LogAppend(batch)
  <2>0. PICK n \in 1..setting.MaxBatch : \E batch \in [1..n -> Inputs] : LogAppend(batch)
    BY <1>3
  <2>1. PICK batch \in [1..n -> Inputs] : LogAppend(batch)
    BY <2>0
  <2>2. n \in Nat
    BY <1>1, ChainAssumption DEF Typed, IsSetting
  <2>3. Typed'
    BY <1>1, <2>1, <2>2, AppendTyped
  <2>4. Fresh'
    BY <2>1 DEF LogAppend, Fresh
  <2> QED BY <2>3, <2>4, FreshCursor
<1>4. CASE Visit
  BY <1>1, <1>4, VisitMoves, MovesCursor
<1>5. CASE UndefinedRead
  <2>1. /\ Typed' /\ setting' = setting /\ unit' = Undefined /\ Chain' = Chain
        /\ buffer' = buffer /\ (RemovesOnce' <=> RemovesOnce)
        /\ offset' = offset /\ records' = records /\ record_pos' = record_pos
    BY <1>1, <1>5, UndefinedTyped, SameChain
  <2>2. unit' \notin DOMAIN Chain'
    BY <1>1, <2>1, SettingFacts DEF Undefined, Typed
  <2>3. FilterFresh' /\ CursorDecodes' /\ ModifyVisited'
    BY <1>1, <2>1, <2>2 DEF FilterFresh, CursorDecodes, ModifyVisited, In
  <2>4. SqlKept'
    BY <1>1, <2>1, <2>2 DEF SqlKept, In
  <2> QED BY <2>1, <2>3, <2>4 DEF CursorInv
<1>6. CASE UnitDone
  <2>1. /\ unit \in DOMAIN Chain /\ Chain[unit].kind /= "filter" /\ visited' = {} /\ Keeps
        /\ Continues \/ Replaces(With(Len(buffer)))
    BY <1>1, <1>6, UnitEnds
  <2>2. CASE Replaces(With(Len(buffer)))
    BY <1>2, <2>1, <2>2
  <2>3. CASE Continues
    <3>1. Typed' /\ Chain' = Chain /\ (RemovesOnce' <=> RemovesOnce)
      BY <1>1, <2>1, <2>3, ContinuesTyped, SameChain DEF Keeps
    <3>2. /\ unit' = unit + 1 /\ unit \in Nat /\ unit > 0 /\ unit' \in DOMAIN Chain
          /\ Chain[unit'].kind /= "filter" /\ record_pos' = NULL /\ offset' = Len(buffer')
      BY <1>1, <2>1, <2>3, SettingFacts DEF Continues, Typed
    <3>3. FilterFresh' /\ CursorDecodes'
      BY <3>1, <3>2 DEF FilterFresh, CursorDecodes, In
    <3>4. SqlKept'
      <4>1. RemovesOnce => Chain[unit'].kind /= "sql"
        <5> SUFFICES ASSUME RemovesOnce, Chain[unit'].kind = "sql" PROVE FALSE
          OBVIOUS
        <5>1. unit' = 1 \/ Chain[unit' - 1].kind = "filter"
          BY <3>2 DEF RemovesOnce
        <5>2. unit' - 1 = unit /\ unit' /= 1
          BY <3>2
        <5> QED BY <2>1, <5>1, <5>2
      <4> QED BY <3>1, <3>2, <4>1 DEF SqlKept, In
    <3>5. ModifyVisited'
      <4>1. \A x \in records' : ~(x <= record_pos')
        BY <3>1, <3>2 DEF Typed, NULL
      <4> QED BY <2>1, <3>2, <4>1 DEF ModifyVisited
    <3> QED BY <3>1, <3>3, <3>4, <3>5 DEF CursorInv
  <2> QED BY <2>1, <2>2, <2>3
<1>7. CASE RunFilter
  <2>1. In("filter") /\ visited' = visited /\ Keeps /\ \E list : Replaces(list)
    BY <1>1, <1>7, FilterEnds
  <2>2. visited' = {} /\ unit \in DOMAIN Chain
    BY <1>1, <2>1 DEF FilterFresh, In
  <2> QED BY <1>2, <2>1, <2>2
<1>8. CASE Tick \/ Compact \/ UNCHANGED vars
  <2>1. /\ Typed' /\ setting' = setting /\ unit' = unit /\ buffer' = buffer
        /\ offset' = offset /\ records' = records /\ record_pos' = record_pos /\ visited' = visited
        /\ Chain' = Chain /\ (RemovesOnce' <=> RemovesOnce)
    BY <1>1, <1>8, StillTyped, SameChain
  <2>2. FilterFresh' /\ CursorDecodes'
    BY <1>1, <2>1 DEF FilterFresh, CursorDecodes, In
  <2>3. \A x : Satisfies(x)' <=> Satisfies(x)
    BY <2>1 DEF Satisfies
  <2>4. SqlKept' /\ ModifyVisited'
    BY <1>1, <2>1, <2>3 DEF SqlKept, ModifyVisited, In
  <2> QED BY <2>1, <2>2, <2>4 DEF CursorInv
<1> QED BY <1>3, <1>4, <1>5, <1>6, <1>7, <1>8 DEF Next, Run

\* The initial states are consistent.
LEMMA CursorInit ==
    ASSUME Init
    PROVE  CursorInv
<1>1. Typed
  BY InitTyped
<1>2. /\ offset = 0 /\ records = {} /\ record_pos = NULL /\ visited = {}
  BY DEF Init
<1>3. FilterFresh /\ CursorDecodes
  BY <1>2 DEF FilterFresh, CursorDecodes
<1>4. SqlKept /\ ModifyVisited
  BY <1>2 DEF SqlKept, ModifyVisited
<1> QED BY <1>1, <1>3, <1>4 DEF CursorInv

\* The list, the cursor and the buffer stay in step, and what units have visited
\* agrees with the cursor: the invariant that the theorems below use.
THEOREM CursorInvHolds == Spec => []CursorInv
BY CursorInit, CursorNext, PTL DEF Spec

\* Decoding, searching, visiting and destroying keep the list, the cursor and
\* the buffer in step (flb_mp_chunk_cobj_record_next and _destroy), whatever
\* units share them and however many records there are.
THEOREM CursorStaysConsistent == Spec => []CursorConsistent
<1>1. CursorInv => CursorConsistent
  <2> SUFFICES ASSUME CursorInv PROVE CursorConsistent
    OBVIOUS
  <2>1. Typed /\ CursorDecodes /\ SqlKept
    BY DEF CursorInv
  <2>2. window.count \in 0..MaxLogs /\ Len(out) <= Len(arrived)
    <3>1. window \in Window /\ Len(out) \in Nat /\ Len(buffer) \in Nat /\ Len(arrived) \in Nat
          /\ Len(out) + Len(buffer) <= Len(arrived)
      BY <2>1 DEF Typed
    <3> QED BY <3>1 DEF Window
  <2>3. TypeOK
    BY <2>1, <2>2 DEF TypeOK, Typed, Bucket
  <2>4. CursorValid
    BY <2>1 DEF CursorValid, CursorDecodes, SqlKept
  <2> QED BY <2>3, <2>4 DEF CursorConsistent
<1> QED BY <1>1, CursorInvHolds, PTL

\* A unit that keeps all records (content_modifier and the like) visits each one
\* that satisfies its condition exactly once and in order, also when it rewrites
\* them.
THEOREM EachVisitedOnce == Spec => VisitedOnce
<1> DEFINE A == KeepsAll =>
                   /\ Visit => \A id \in visited : id < record_next.record_pos
                   /\ UnitDone =>
                        /\ {id \in record_next.records : Satisfies(id)} \subseteq visited
                        /\ Chain[unit].rewrites \/ \A id \in visited : Satisfies(id)
<1>1. CursorInv /\ [Next]_vars => [A]_vars
  <2> SUFFICES ASSUME CursorInv, KeepsAll
               PROVE  /\ Visit => \A id \in visited : id < record_next.record_pos
                      /\ UnitDone =>
                           /\ {id \in record_next.records : Satisfies(id)} \subseteq visited
                           /\ Chain[unit].rewrites \/ \A id \in visited : Satisfies(id)
    OBVIOUS
  <2> DEFINE n == Len(buffer)
  <2>1. /\ Typed /\ n \in Nat /\ offset \in Nat /\ offset <= n /\ records \subseteq 1..offset
        /\ record_pos \in Nat /\ record_pos <= offset
        /\ visited \subseteq records /\ \A id \in visited : id <= record_pos
        /\ \A id \in records : id <= record_pos /\ Satisfies(id) => id \in visited
        /\ Chain[unit].rewrites \/ \A id \in visited : Satisfies(id)
    <3>1. Typed /\ ModifyVisited /\ In("modify")
      BY DEF CursorInv, In, KeepsAll
    <3>2. /\ n \in Nat /\ offset \in Nat /\ offset <= n /\ records \subseteq 1..offset
          /\ record_pos \in Nat /\ record_pos <= offset
      BY <3>1 DEF Typed
    <3> QED BY <3>1, <3>2 DEF ModifyVisited
  <2>2. ASSUME Visit, NEW x \in visited PROVE x < record_next.record_pos
    <3>1. PICK id \in Nat, keep \in BOOLEAN : Moves(id, keep)
      BY <2>1, <2>2, VisitMoves
    <3>2. CASE Decoding(id)
      BY <2>1, <3>2 DEF Decoding, Undecoded
    <3>3. CASE Listing(id)
      BY <2>1, <3>3 DEF Listing
    <3> QED BY <3>1, <3>2, <3>3 DEF Moves, Decoded, Searched
  <2>3. ASSUME UnitDone
        PROVE  /\ {id \in record_next.records : Satisfies(id)} \subseteq visited
               /\ Chain[unit].rewrites \/ \A id \in visited : Satisfies(id)
    <3>1. Ending
      BY <2>1, <2>3, UnitEnds
    <3>2. /\ \A x \in (offset + 1)..n : ~Satisfies(x)
          /\ \A x \in records : record_pos < x => ~Satisfies(x)
          /\ record_next.records = records \cup (offset + 1)..n
      BY <3>1 DEF Ending, Undecoded, With
    <3>3. \A x \in records : x <= record_pos \/ record_pos < x
      BY <2>1
    <3> QED BY <2>1, <3>2, <3>3
  <2> QED BY <2>2, <2>3
<1>2. VisitedOnce <=> [][A]_vars
  BY DEF VisitedOnce
<1> QED BY <1>1, <1>2, CursorInvHolds, PTL DEF Spec

(***************************************************************************)
(* What is behind a unit that sees every record: the records that went on  *)
(* and those in the buffer that the unit let pass.  And what it has still  *)
(* to see.  A unit that goes back to the first record sees all again.      *)
(***************************************************************************)
At(kind, p) == p \in DOMAIN Chain /\ Chain[p].kind = kind /\ ~Chain[p].condition
Unconditional(p) == p \in DOMAIN Chain /\ ~Chain[p].condition /\ Chain[p].kind /= "filter"

Frontier == IF record_pos /= NULL THEN record_pos
            ELSE IF offset < Len(buffer) THEN offset ELSE 0
Past(p) == IF unit > p THEN records \cup Undecoded
           ELSE IF unit = p THEN {x \in records : x <= Frontier} ELSE {}
Pending(p) == IF unit = p THEN {x \in records \cup Undecoded : x > Frontier}
              ELSE IF unit > 0 /\ unit < p THEN 1..Len(buffer) ELSE {}

\* A record is let pass; those that are left come after it; there are none left
\* after it and the unit begins again.
Adds(p, id)  == Past(p)' = Past(p) \cup {id} /\ \A x \in Past(p) : x < id
Rests(p, id) == \A y \in Pending(p)' : y \in Pending(p) /\ y > id
Wraps(id)    == offset' = Len(buffer) /\ \A x \in records' : x \in 1..Len(buffer) /\ x < id

\* A unit that sees every record visits the next one that is pending.
LEMMA VisitedAt ==
    ASSUME CursorInv, NEW p, Unconditional(p), unit = p, NEW id \in Nat, NEW keep \in BOOLEAN,
           Moves(id, keep), Len(buffer') = Len(buffer)
    PROVE  /\ id \in Pending(p)
           /\ keep => Adds(p, id) /\ Rests(p, id)
           /\ ~keep => Past(p)' \subseteq Past(p) /\ (Rests(p, id) \/ Wraps(id))
<1> DEFINE n == Len(buffer)
<1>1. /\ Typed /\ CursorDecodes /\ n \in Nat /\ offset \in Nat /\ offset <= n
      /\ records \subseteq 1..offset /\ record_pos \in Nat /\ record_pos <= offset /\ p \in Nat
  BY SettingFacts DEF CursorInv, Typed, Unconditional
<1>2. \A x : Satisfies(x)
  BY DEF Satisfies, Unconditional
<1>3. unit' = p /\ p = unit
  BY DEF Moves
<1>4. /\ Past(p) = {x \in records : x <= Frontier} /\ Past(p)' = {x \in records' : x <= Frontier'}
      /\ Pending(p) = {x \in records \cup (offset + 1)..n : x > Frontier}
      /\ Pending(p)' = {x \in records' \cup (offset' + 1)..n : x > Frontier'}
  BY <1>1, <1>3 DEF Past, Pending, Undecoded
<1>5. CASE Decoded(id, keep)
  <2>1. /\ id > offset /\ id <= n /\ offset' = id /\ id = offset + 1
        /\ records' = (IF keep THEN With(id) ELSE With(id) \ {id})
        /\ keep => record_pos' = id
        /\ ~keep => record_pos' = 0
    <3>1. /\ id > offset /\ id <= n /\ offset' = id
          /\ records' = (IF keep THEN With(id) ELSE With(id) \ {id})
          /\ keep => record_pos' = id
          /\ ~keep => record_pos' = 0
          /\ \A x \in (offset + 1)..n : ~(x < id)
      BY <1>1, <1>2, <1>5 DEF Decoded, Decoding, Undecoded, Lists, NULL
    <3>2. id = offset + 1
      BY <1>1, <3>1
    <3> QED BY <3>1, <3>2
  <2>2. With(id) = records \cup {id}
    <3>1. (offset + 1)..id = {id}
      BY <1>1, <2>1
    <3> QED BY <3>1 DEF With
  <2>3. Frontier = offset
    BY <1>1, <2>1 DEF Frontier, CursorDecodes, NULL
  <2>4. \A x \in records : x \in Nat /\ x <= offset
    BY <1>1
  <2>b. id \in (offset + 1)..n
    BY <1>1, <2>1
  <2>c. id \in Pending(p)
    BY <1>1, <1>4, <2>1, <2>3, <2>b
  <2>d. Past(p) = records
    BY <1>4, <2>3, <2>4
  <2>5. id \in Pending(p) /\ Past(p) = records
    BY <2>c, <2>d
  <2>6. Frontier' = id \/ (~keep /\ Frontier' = 0 /\ id = n)
    BY <1>1, <2>1 DEF Frontier, NULL
  <2>7. CASE Frontier' = id
    <3>1. Rests(p, id)
      <4> SUFFICES ASSUME NEW y \in Pending(p)' PROVE y \in Pending(p) /\ y > id
        BY DEF Rests
      <4>1. y > id /\ (y \in records' \/ y \in (id + 1)..n)
        BY <1>4, <2>1, <2>7
      <4>a. ASSUME y \in records PROVE FALSE
        <5>1. y \in Nat /\ y <= offset
          BY <2>4, <4>a
        <5> QED BY <1>1, <2>1, <4>1, <5>1
      <4>2. y \notin records \cup {id}
        BY <4>1, <4>a
      <4>3. records' \subseteq records \cup {id}
        BY <2>1, <2>2
      <4>4. y \in (id + 1)..n
        BY <4>1, <4>2, <4>3
      <4>5. y \in (offset + 1)..n /\ y > offset
        BY <1>1, <2>1, <4>4
      <4> QED BY <1>4, <2>3, <4>1, <4>5
    <3>2. CASE keep
      <4>0. records' = records \cup {id} /\ \A x \in records \cup {id} : x <= id
        BY <1>1, <2>1, <2>2, <2>4, <3>2
      <4>1. Past(p)' = records \cup {id}
        BY <1>4, <2>7, <4>0
      <4>3. \A x \in records : x < id
        BY <1>1, <2>1, <2>4
      <4>2. Adds(p, id)
        BY <2>5, <4>1, <4>3 DEF Adds
      <4> QED BY <2>5, <3>1, <3>2, <4>2
    <3>3. CASE ~keep
      <4>1. Past(p)' \subseteq Past(p)
        BY <1>4, <2>1, <2>2, <2>5, <3>3
      <4> QED BY <2>5, <3>1, <3>3, <4>1
    <3> QED BY <3>2, <3>3
  <2>8. CASE ~keep /\ Frontier' = 0 /\ id = n
    <3>1. records' = records \ {id}
      BY <2>1, <2>2, <2>8
    <3>2. Past(p)' \subseteq Past(p)
      BY <1>4, <2>5, <3>1
    <3>3. Wraps(id)
      BY <1>1, <2>1, <2>4, <2>8, <3>1 DEF Wraps
    <3> QED BY <2>5, <2>8, <3>2, <3>3
  <2> QED BY <2>6, <2>7, <2>8
<1>6. CASE Searched(id, keep)
  <2>1. /\ id \in records /\ id > record_pos /\ offset' = n
        /\ \A x \in (offset + 1)..n : FALSE
        /\ \A x \in records : ~(record_pos < x /\ x < id)
        /\ records' = (IF keep THEN With(n) ELSE With(n) \ {id})
        /\ keep => record_pos' = id
        /\ ~keep => \/ record_pos' = id
                    \/ record_pos' = 0 /\ AtEdge(id, With(n))
    BY <1>2, <1>6 DEF Searched, Listing, Undecoded, Lists, NULL
  <2>2. offset = n /\ With(n) = records
    <3>1. offset = n
      <4> SUFFICES ASSUME offset /= n PROVE FALSE
        OBVIOUS
      <4>1. n \in (offset + 1)..n
        BY <1>1
      <4> QED BY <2>1, <4>1
    <3>2. (offset + 1)..n = {}
      BY <2>1
    <3> QED BY <3>1, <3>2 DEF With
  <2>3. Frontier = record_pos
    BY <1>1, <2>2 DEF Frontier, NULL
  <2>4. \A x \in records : x \in Nat /\ x <= n /\ x > 0
    BY <1>1, <2>2
  <2>5. id \in Pending(p)
    BY <1>4, <2>1, <2>3
  <2>6. \A x \in records : x < id => x <= record_pos
    BY <1>1, <2>1, <2>4
  <2>a. (offset' + 1)..n = {}
    BY <1>1, <2>1
  <2>7. CASE record_pos' = id
    <3>1. Frontier' = id
      BY <1>1, <2>1, <2>4, <2>7 DEF Frontier, NULL
    <3>2. Rests(p, id)
      <4> SUFFICES ASSUME NEW y \in Pending(p)' PROVE y \in Pending(p) /\ y > id
        BY DEF Rests
      <4>1. y > id /\ y \in records
        BY <1>4, <2>1, <2>2, <2>a, <3>1
      <4> QED BY <1>1, <1>4, <2>1, <2>3, <2>4, <4>1
    <3>3. CASE keep
      <4>1. records' = records
        BY <2>1, <2>2, <3>3
      <4>2. \A x \in records : x <= id <=> (x <= record_pos \/ x = id)
        BY <1>1, <2>1, <2>4, <2>6
      <4>3. Past(p)' = Past(p) \cup {id}
        BY <1>4, <2>1, <2>3, <3>1, <4>1, <4>2
      <4>a. \A x \in records : x <= record_pos => x < id
        BY <1>1, <2>1, <2>4
      <4>4. \A x \in Past(p) : x < id
        BY <1>4, <2>3, <4>a
      <4> QED BY <2>5, <3>2, <3>3, <4>3, <4>4 DEF Adds
    <3>4. CASE ~keep
      <4>1. records' = records \ {id}
        BY <2>1, <2>2, <3>4
      <4>2. Past(p)' \subseteq Past(p)
        <5> SUFFICES ASSUME NEW x \in Past(p)' PROVE x \in Past(p)
          OBVIOUS
        <5>1. x \in records /\ x /= id /\ x <= id
          BY <1>4, <3>1, <4>1
        <5>2. x <= record_pos
          BY <2>1, <2>4, <2>6, <5>1
        <5> QED BY <1>4, <2>3, <5>1, <5>2
      <4> QED BY <2>5, <3>2, <3>4, <4>2
    <3> QED BY <3>3, <3>4
  <2>8. CASE ~keep /\ record_pos' = 0 /\ AtEdge(id, records)
    <3>1. records' = records \ {id} /\ Frontier' = 0
      BY <1>1, <2>1, <2>2, <2>8 DEF Frontier, NULL
    <3>2. Past(p)' \subseteq Past(p)
      BY <1>4, <2>4, <3>1
    <3>3. CASE \A x \in records : id <= x
      <4>1. \A y \in records' : y \in records /\ y > id
        BY <2>1, <2>4, <3>1, <3>3
      <4>2. Rests(p, id)
        <5> SUFFICES ASSUME NEW y \in Pending(p)' PROVE y \in Pending(p) /\ y > id
          BY DEF Rests
        <5>1. y \in records /\ y > id
          BY <1>4, <2>a, <4>1
        <5>2. y > record_pos
          BY <1>1, <2>1, <2>4, <5>1
        <5> QED BY <1>4, <2>3, <5>1, <5>2
      <4> QED BY <2>5, <2>8, <3>2, <4>2
    <3>4. CASE \A x \in records : x <= id
      <4>1. Wraps(id)
        BY <1>1, <2>1, <2>4, <3>1, <3>4 DEF Wraps
      <4> QED BY <2>5, <2>8, <3>2, <4>1
    <3> QED BY <2>8, <3>3, <3>4 DEF AtEdge
  <2> QED BY <2>1, <2>2, <2>7, <2>8
<1> QED BY <1>5, <1>6 DEF Moves

\* The records behind a unit, in their order: first those that went on.
Behind(p) == 1..Len(out) \cup {Len(out) + x : x \in Past(p)}
Item(i) == IF i <= Len(out) THEN out[i] ELSE buffer[i - Len(out)]

\* No record comes to those behind the unit, and their order stays.
Matches(p, i, j) ==
    /\ Item(i)'.time = Item(j).time
    /\ \/ Item(i)'.at = Item(j).at /\ Item(i)'.hashed = Item(j).hashed
       \/ unit /= p /\ In("dedup")
Narrows(p) ==
    \E f \in [Behind(p)' -> Behind(p)] :
        /\ \A i, j \in Behind(p)' : i < j => f[i] < f[j]
        /\ \A i \in Behind(p)' : Matches(p, i, f[i])
\* Nor does one come to the buffer, and what is pending comes from before the unit.
Shifts(p) ==
    /\ \E h \in [1..Len(buffer') -> 1..Len(buffer)] :
          /\ \A x, y \in 1..Len(buffer') : x < y => h[x] < h[y]
          /\ \A x \in 1..Len(buffer') : buffer'[x].time = buffer[h[x]].time
    /\ Pending(p)' = {} \/ (unit > 0 /\ unit < p)

\* What is behind a unit.
LEMMA BehindFacts ==
    ASSUME Typed, NEW p
    PROVE  /\ Past(p) \subseteq 1..Len(buffer) /\ Pending(p) \subseteq 1..Len(buffer)
           /\ Len(out) \in Nat /\ Len(buffer) \in Nat
           /\ \A i \in Behind(p) : /\ i \in 1..(Len(out) + Len(buffer)) /\ Item(i) \in Rec
                                   /\ i \in 1..Len(out) \/ i - Len(out) \in Past(p)
<1> DEFINE n == Len(buffer)
           o == Len(out)
<1>1. /\ n \in Nat /\ offset \in Nat /\ offset <= n /\ records \subseteq 1..offset
      /\ o \in Nat /\ buffer \in Seq(Rec) /\ out \in Seq(Rec)
  BY DEF Typed
<1>2. records \subseteq 1..n /\ Undecoded \subseteq 1..n
  BY <1>1 DEF Undecoded
<1>3. Past(p) \subseteq 1..n /\ Pending(p) \subseteq 1..n
  BY <1>2 DEF Past, Pending
<1>4. ASSUME NEW i \in Behind(p)
      PROVE  /\ i \in 1..(o + n) /\ Item(i) \in Rec
             /\ i \in 1..o \/ i - o \in Past(p)
  <2>1. CASE i \in 1..o
    <3>1. out[i] \in Rec
      BY <1>1, <2>1, ElementOfSeq
    <3> QED BY <1>1, <2>1, <3>1 DEF Item
  <2>2. CASE i \notin 1..o
    <3>1. PICK x \in Past(p) : i = o + x
      BY <2>2 DEF Behind
    <3>2. x \in 1..n /\ i - o = x /\ ~(i <= o)
      BY <1>1, <1>3, <3>1
    <3>3. buffer[x] \in Rec
      BY <1>1, <3>2, ElementOfSeq
    <3> QED BY <1>1, <3>1, <3>2, <3>3 DEF Item
  <2> QED BY <2>1, <2>2
<1> QED BY <1>1, <1>3, <1>4

\* The records stay where they are.
LEMMA StayNarrows ==
    ASSUME Typed, Typed', NEW p, out' = out, Past(p)' \subseteq Past(p),
           \A x \in Past(p)' : /\ buffer'[x].time = buffer[x].time
                               /\ \/ /\ buffer'[x].at = buffer[x].at
                                     /\ buffer'[x].hashed = buffer[x].hashed
                                  \/ unit /= p /\ In("dedup")
    PROVE  Narrows(p)
<1> DEFINE f == [i \in Behind(p)' |-> i]
           o == Len(out)
<1>0. o \in Nat /\ Past(p) \subseteq 1..Len(buffer) /\ Len(buffer) \in Nat
  BY BehindFacts
<1>1. Behind(p)' = 1..o \cup {o + x : x \in Past(p)'}
  BY DEF Behind
<1>2. Behind(p)' \subseteq Behind(p)
  BY <1>1 DEF Behind
<1>3. f \in [Behind(p)' -> Behind(p)]
  BY <1>2
<1>4. ASSUME NEW i \in Behind(p)' PROVE Matches(p, i, i)
  <2>1. Item(i)' = IF i <= o THEN out[i] ELSE buffer'[i - o]
    BY DEF Item
  <2>2. CASE i \in 1..o
    <3>1. Item(i)' = Item(i)
      BY <1>0, <2>1, <2>2 DEF Item
    <3> QED BY <3>1 DEF Matches
  <2>3. CASE i \notin 1..o
    <3>1. PICK x \in Past(p)' : i = o + x
      BY <1>1, <2>3
    <3>2. x \in Nat /\ x > 0
      BY <1>0, <3>1
    <3>3. i - o = x /\ ~(i <= o)
      BY <1>0, <3>1, <3>2
    <3>4. Item(i)' = buffer'[x] /\ Item(i) = buffer[x]
      BY <2>1, <3>3 DEF Item
    <3> QED BY <3>1, <3>4 DEF Matches
  <2> QED BY <2>2, <2>3
<1>5. (\A i, j \in Behind(p)' : i < j => f[i] < f[j]) /\ \A i \in Behind(p)' : Matches(p, i, f[i])
  BY <1>4
<1> HIDE DEF f
<1> QED BY <1>3, <1>5 DEF Narrows

\* The buffer stays.
LEMMA StayShifts ==
    ASSUME Typed, NEW p, Len(buffer') = Len(buffer),
           \A x \in 1..Len(buffer) : buffer'[x].time = buffer[x].time,
           Pending(p)' = {} \/ (unit > 0 /\ unit < p)
    PROVE  Shifts(p)
<1> DEFINE n == Len(buffer)
           h == [x \in 1..n |-> x]
<1>1. h \in [1..n -> 1..n] /\ (\A x, y \in 1..n : x < y => h[x] < h[y])
      /\ \A x \in 1..n : buffer'[x].time = buffer[h[x]].time
  OBVIOUS
<1> HIDE DEF h
<1> QED BY <1>1 DEF Shifts

\* A new buffer has records of the old one, in their order.
LEMMA ReplacesNarrows ==
    ASSUME Typed, NEW p \in Nat, unit \in DOMAIN Chain, p \in DOMAIN Chain, NEW list, Replaces(list),
           unit >= p => list \subseteq Past(p)
    PROVE  Narrows(p) /\ Shifts(p)
<1> DEFINE o == Len(out)
           n == Len(buffer)
           new == Encoded(list)
           k == Len(new)
           d == 1..k
<1>1. /\ o \in Nat /\ n \in Nat /\ buffer \in Seq(Rec) /\ out \in Seq(Rec) /\ list \subseteq 1..n
      /\ Past(p) \subseteq 1..n /\ Len(Chain) \in Nat /\ unit \in 1..Len(Chain) /\ p \in 1..Len(Chain)
  BY BehindFacts, SettingFacts DEF Typed, Replaces
<1>2. new \in Seq(Rec) /\ Selects(new, list, buffer) /\ Forward(new)
  BY <1>1, EncodedSelects DEF Replaces
<1>3. k \in Nat
  BY <1>2
<1>4. PICK e \in [d -> list] : /\ \A i, j \in d : i < j => e[i] < e[j]
                               /\ \A i \in d : new[i] = buffer[e[i]]
  BY <1>2 DEF Selects
<1> HIDE DEF new, k
<1>6. ASSUME \A i \in Behind(p)' : Item(i)' = IF i <= o THEN out[i] ELSE new[i - o],
             \A i \in Behind(p)' : i \in 1..o \/ (i \in (o + 1)..(o + k) /\ unit >= p)
      PROVE  Narrows(p)
  <2> DEFINE B == Behind(p)'
             f == [i \in B |-> IF i <= o THEN i ELSE o + e[i - o]]
  <2>1. ASSUME NEW i \in B, i \in 1..o
        PROVE  f[i] = i /\ f[i] \in Behind(p) /\ f[i] <= o /\ Item(i)' = Item(f[i])
    <3>1. i <= o /\ i \in Behind(p) /\ f[i] = i
      BY <1>1, <2>1 DEF Behind
    <3> QED BY <1>6, <3>1 DEF Item
  <2>2. ASSUME NEW i \in B, i \notin 1..o
        PROVE  /\ i - o \in d /\ f[i] = o + e[i - o] /\ e[i - o] \in Nat /\ e[i - o] > 0
               /\ f[i] \in Behind(p) /\ Item(i)' = Item(f[i]) /\ i \in Nat /\ i > o
    <3>1. i \in (o + 1)..(o + k) /\ unit >= p
      BY <1>6, <2>2
    <3>2. i - o \in d /\ ~(i <= o) /\ i \in Nat /\ i > o
      BY <1>1, <1>3, <3>1
    <3>3. f[i] = o + e[i - o] /\ e[i - o] \in list /\ e[i - o] \in Past(p)
      BY <1>4, <3>1, <3>2
    <3>4. e[i - o] \in Nat /\ e[i - o] > 0
      BY <1>1, <3>3
    <3>5. f[i] \in Behind(p)
      BY <3>3 DEF Behind
    <3>6. ~(f[i] <= o) /\ f[i] - o = e[i - o]
      BY <1>1, <3>3, <3>4
    <3>7. Item(f[i]) = buffer[e[i - o]]
      BY <3>6 DEF Item
    <3>8. Item(i)' = new[i - o]
      BY <1>6, <3>2
    <3> QED BY <1>4, <3>2, <3>3, <3>4, <3>5, <3>7, <3>8
  <2>3. f \in [B -> Behind(p)]
    BY <2>1, <2>2
  <2>4. ASSUME NEW i \in B, NEW j \in B, i < j PROVE f[i] < f[j]
    <3> HIDE DEF f, B
    <3>1. CASE i \in 1..o /\ j \in 1..o
      BY <2>1, <2>4, <3>1
    <3>2. CASE i \in 1..o /\ j \notin 1..o
      <4>1. f[i] = i /\ i \in Nat /\ i <= o /\ f[j] = o + e[j - o] /\ e[j - o] \in Nat /\ e[j - o] > 0
        BY <1>1, <2>1, <2>2, <3>2
      <4> QED BY <1>1, <4>1
    <3>3. CASE i \notin 1..o
      <4>1. /\ i - o \in d /\ f[i] = o + e[i - o] /\ e[i - o] \in Nat /\ i \in Nat /\ i > o
        BY <2>2, <3>3
      <4>2. j \notin 1..o
        BY <1>1, <2>4, <4>1
      <4>3. /\ j - o \in d /\ f[j] = o + e[j - o] /\ e[j - o] \in Nat /\ j \in Nat /\ j > o
        BY <2>2, <4>2
      <4>4. i - o < j - o
        BY <1>1, <2>4, <4>1, <4>3
      <4>5. e[i - o] < e[j - o]
        BY <1>4, <4>1, <4>3, <4>4
      <4> QED BY <1>1, <4>1, <4>3, <4>5
    <3> QED BY <3>1, <3>2, <3>3
  <2>5. \A i \in B : Matches(p, i, f[i])
    BY <2>1, <2>2 DEF Matches
  <2> HIDE DEF f
  <2> QED BY <2>3, <2>4, <2>5 DEF Narrows
<1>5. CASE unit' = Idle /\ buffer' = <<>> /\ out' = out \o new /\ (new = <<>> \/ unit = Len(Chain))
  <2>1. Len(out') = o + k /\ \A i \in 1..(o + k) : out'[i] = IF i <= o THEN out[i] ELSE new[i - o]
    BY <1>1, <1>2, <1>5, ConcatProperties DEF k
  <2>2. Past(p)' = {} /\ Pending(p)' = {} /\ Len(buffer') = 0
    BY <1>1, <1>5 DEF Past, Pending, Idle
  <2>3. Behind(p)' = 1..(o + k)
    BY <2>1, <2>2 DEF Behind
  <2>4. \A i \in Behind(p)' : Item(i)' = IF i <= o THEN out[i] ELSE new[i - o]
    BY <1>1, <1>3, <2>1, <2>3 DEF Item
  <2>5. k = 0 \/ unit >= p
    BY <1>1, <1>5, EmptySeq DEF k
  <2>6. \A i \in Behind(p)' : i \in 1..o \/ (i \in (o + 1)..(o + k) /\ unit >= p)
    BY <1>1, <1>3, <2>3, <2>5
  <2>7. Shifts(p)
    <3> DEFINE h == [x \in {} |-> 0]
    <3>1. 1..Len(buffer') = {}
      BY <2>2
    <3>2. h \in [1..Len(buffer') -> 1..Len(buffer)]
      BY <3>1
    <3> HIDE DEF h
    <3> QED BY <2>2, <3>1, <3>2 DEF Shifts
  <2> QED BY <2>4, <2>6, <2>7, <1>6
<1>7. CASE unit' = unit + 1 /\ buffer' = new /\ out' = out
  <2>0. offset' = 0 /\ records' = {} /\ record_pos' = NULL
    BY <1>2 DEF Forward
  <2>1. Len(out') = o /\ Len(buffer') = k
    BY <1>7 DEF k
  <2>2. (unit' > p => Past(p)' \subseteq 1..k /\ Pending(p)' = {}) /\ (~(unit' > p) => Past(p)' = {} /\ unit > 0 /\ unit < p)
    <3>1. CASE unit' > p
      <4>1. Past(p)' = 1..k
        BY <1>3, <2>0, <2>1, <3>1 DEF Past, Undecoded
      <4>2. Pending(p)' = {}
        BY <1>1, <1>7, <3>1 DEF Pending
      <4> QED BY <3>1, <4>1, <4>2
    <3>2. CASE ~(unit' > p)
      <4>1. Past(p)' = {}
        BY <2>0, <3>2 DEF Past
      <4> QED BY <1>1, <1>7, <3>2, <4>1
    <3> QED BY <3>1, <3>2
  <2>3. Behind(p)' = 1..o \cup {o + x : x \in Past(p)'}
    BY <1>7 DEF Behind
  <2>4. \A i \in Behind(p)' : Item(i)' = IF i <= o THEN out[i] ELSE new[i - o]
    BY <1>7 DEF Item
  <2>5. unit' > p => unit >= p
    BY <1>1, <1>7
  <2>6. \A i \in Behind(p)' : i \in 1..o \/ (i \in (o + 1)..(o + k) /\ unit >= p)
    <3> SUFFICES ASSUME NEW i \in Behind(p)', i \notin 1..o
                 PROVE  i \in (o + 1)..(o + k) /\ unit >= p
      OBVIOUS
    <3>1. PICK x \in Past(p)' : i = o + x
      BY <2>3
    <3>2. x \in 1..k /\ unit >= p
      BY <2>2, <2>5, <3>1
    <3> QED BY <1>1, <1>3, <3>1, <3>2
  <2>7. Shifts(p)
    <3>1. e \in [1..k -> 1..n] /\ \A x \in 1..k : buffer'[x].time = buffer[e[x]].time
      BY <1>1, <1>4, <1>7
    <3>2. Pending(p)' = {} \/ (unit > 0 /\ unit < p)
      BY <2>2
    <3> QED BY <1>4, <2>1, <3>1, <3>2 DEF Shifts
  <2> QED BY <2>4, <2>6, <2>7, <1>6
<1> QED BY <1>2, <1>5, <1>7 DEF Forward

\* The units but the one at p.
Elsewhere(p) == (Visit /\ unit /= p) \/ UndefinedRead \/ UnitDone \/ RunFilter

\* A unit that is done passes on the records behind it.
LEMMA DonePast ==
    ASSUME CursorInv, NEW p \in Nat, Unconditional(p), unit \in DOMAIN Chain, unit >= p, Ending
    PROVE  With(Len(buffer)) \subseteq Past(p)
<1> DEFINE n == Len(buffer)
<1>1. /\ Typed /\ n \in Nat /\ offset \in Nat /\ offset <= n /\ unit \in Nat
      /\ records \subseteq 1..offset /\ record_pos \in Nat
  BY SettingFacts DEF CursorInv, Typed
<1>2. CASE unit = p
  <2>1. \A x : Satisfies(x)
    BY <1>2 DEF Satisfies, Unconditional
  <2>2. Undecoded = {} /\ \A x \in records : ~(record_pos < x)
    BY <2>1 DEF Ending
  <2>3. With(n) = records
    BY <2>2 DEF With, Undecoded
  <2>4. \A x \in records : x <= record_pos /\ record_pos /= NULL
    BY <1>1, <2>2 DEF NULL
  <2>5. \A x \in records : x <= Frontier
    BY <2>4 DEF Frontier
  <2> QED BY <1>2, <2>3, <2>5 DEF Past
<1>3. CASE unit > p
  BY <1>3 DEF Past, With, Undecoded
<1> QED BY <1>1, <1>2, <1>3

\* The other units let none of the records behind the unit at p come back.
LEMMA ElsewhereNarrows ==
    ASSUME CursorInv, NEW p \in Nat, Unconditional(p), Elsewhere(p)
    PROVE  Narrows(p) /\ Shifts(p) /\ arrived' = arrived
<1> DEFINE n == Len(buffer)
<1>1. /\ Typed /\ n \in Nat /\ offset \in Nat /\ offset <= n /\ FilterFresh
      /\ records \subseteq 1..offset /\ DOMAIN Chain = 1..Len(Chain) /\ Len(Chain) \in Nat
      /\ p \in DOMAIN Chain /\ p > 0
  BY SettingFacts DEF CursorInv, Typed, Unconditional
<1>2. CASE Visit /\ unit /= p
  <2>1. PICK id \in Nat, keep \in BOOLEAN : Moves(id, keep) /\ Visits(id, keep)
    BY <1>1, <1>2, VisitMoves
  <2>2. Typed' /\ unit' = unit /\ out' = out /\ arrived' = arrived /\ unit \in DOMAIN Chain
    BY <1>1, <2>1, MovesTyped DEF Moves, Visits, Modifies, Queries, Remembers, Recognises, Fixes, Slides, Decays, In
  <2>3. /\ Len(buffer') = n
        /\ \A x \in 1..n : /\ buffer'[x].time = buffer[x].time
                           /\ \/ /\ buffer'[x].at = buffer[x].at
                                 /\ buffer'[x].hashed = buffer[x].hashed
                              \/ In("dedup")
    BY <2>1 DEF Visits, Modifies, Queries, Leaves, Rewrites, Remembers, Recognises, Fixes, Slides,
                Decays, Stamps
  <2>4. records' \cup Undecoded' \subseteq records \cup Undecoded
    <3>1. CASE Decoded(id, keep)
      <4>1. offset' = id /\ records' \subseteq With(id) /\ id \in (offset + 1)..n
        BY <3>1 DEF Decoded, Decoding, Lists, Undecoded
      <4>2. (offset + 1)..id \subseteq (offset + 1)..n /\ (id + 1)..n \subseteq (offset + 1)..n
        BY <1>1, <4>1
      <4> QED BY <2>3, <4>1, <4>2 DEF With, Undecoded
    <3>2. CASE Searched(id, keep)
      <4>1. offset' = n /\ records' \subseteq With(n)
        BY <3>2 DEF Searched, Lists
      <4>2. (n + 1)..n = {}
        BY <1>1
      <4> QED BY <2>3, <4>1, <4>2 DEF With, Undecoded
    <3> QED BY <2>1, <3>1, <3>2 DEF Moves
  <2>5. Past(p)' \subseteq Past(p) /\ (Pending(p)' = {} \/ (unit > 0 /\ unit < p))
    <3>1. CASE unit > p
      BY <1>1, <2>2, <2>4, <3>1 DEF Past, Pending
    <3>2. CASE unit < p
      <4>1. unit > 0 /\ ~(unit > p)
        BY <1>1, <2>2, <3>2
      <4> QED BY <1>2, <2>2, <3>2, <4>1 DEF Past
    <3> QED BY <1>1, <1>2, <2>2, <3>1, <3>2
  <2>6. Past(p)' \subseteq 1..n
    BY <1>1, <2>5, BehindFacts
  <2>7. Narrows(p)
    BY <1>1, <1>2, <2>2, <2>3, <2>5, <2>6, StayNarrows
  <2>8. Shifts(p)
    BY <1>1, <2>3, <2>5, StayShifts
  <2> QED BY <2>2, <2>7, <2>8
<1>3. CASE UndefinedRead
  <2>1. /\ Typed' /\ unit' = Undefined /\ buffer' = buffer /\ out' = out /\ arrived' = arrived
    BY <1>1, <1>3, UndefinedTyped DEF Keeps
  <2>2. ~(unit' > p) /\ unit' /= p /\ ~(unit' > 0)
    BY <1>1, <2>1 DEF Undefined
  <2>3. Past(p)' = {} /\ Pending(p)' = {}
    BY <2>2 DEF Past, Pending
  <2>4. Narrows(p) /\ Shifts(p)
    BY <1>1, <2>1, <2>3, StayNarrows, StayShifts
  <2> QED BY <2>1, <2>4
<1>4. CASE UnitDone
  <2>1. /\ Ending /\ unit \in DOMAIN Chain /\ Keeps
        /\ Continues \/ Replaces(With(n))
    BY <1>1, <1>4, UnitEnds
  <2>2. unit >= p => With(n) \subseteq Past(p)
    BY <2>1, DonePast
  <2>3. CASE Replaces(With(n))
    BY <1>1, <2>1, <2>2, <2>3, ReplacesNarrows DEF Keeps
  <2>4. CASE Continues
    <3>1. Typed' /\ unit' = unit + 1 /\ buffer' = buffer /\ out' = out /\ arrived' = arrived
          /\ offset' = n /\ records' = With(n) /\ record_pos' = NULL
      BY <1>1, <2>1, <2>4, ContinuesTyped DEF Keeps, Continues
    <3>2. Past(p)' \subseteq Past(p) /\ (Pending(p)' = {} \/ (unit > 0 /\ unit < p))
      <4>1. CASE unit >= p
        <5>1. unit' > p
          BY <1>1, <2>1, <3>1, <4>1
        <5>2. Undecoded' = {}
          BY <1>1, <3>1 DEF Undecoded
        <5> QED BY <1>1, <2>2, <3>1, <4>1, <5>1, <5>2 DEF Past, Pending
      <4>2. CASE unit < p
        <5>1. unit > 0 /\ ~(unit' > p)
          BY <1>1, <2>1, <3>1, <4>2
        <5>2. Frontier' = 0
          BY <1>1, <3>1 DEF Frontier
        <5>3. \A x \in records' : ~(x <= 0)
          BY <3>1 DEF Typed
        <5> QED BY <4>2, <5>1, <5>2, <5>3 DEF Past
      <4> QED BY <1>1, <2>1, <4>1, <4>2
    <3>3. Narrows(p) /\ Shifts(p)
      BY <1>1, <3>1, <3>2, StayNarrows, StayShifts
    <3> QED BY <3>1, <3>3
  <2> QED BY <2>1, <2>3, <2>4
<1>5. CASE RunFilter
  <2>1. In("filter") /\ Keeps
    BY <1>1, <1>5, FilterEnds
  <2>2. PICK list : Replaces(list)
    BY <1>1, <1>5, FilterEnds
  <2>3. unit \in DOMAIN Chain /\ unit /= p
    BY <2>1 DEF In, Unconditional
  <2>4. ASSUME unit >= p PROVE list \subseteq Past(p)
    <3>1. unit > p /\ offset = 0
      BY <1>1, <2>1, <2>3, <2>4 DEF FilterFresh
    <3>2. Past(p) = records \cup 1..n
      BY <3>1 DEF Past, Undecoded
    <3> QED BY <2>2, <3>2 DEF Replaces
  <2> QED BY <1>1, <2>1, <2>2, <2>3, <2>4, ReplacesNarrows DEF Keeps
<1> QED BY <1>2, <1>3, <1>4, <1>5 DEF Elsewhere

\* Records that arrive are before the unit.
LEMMA AppendNarrows ==
    ASSUME CursorInv, NEW p \in Nat, Unconditional(p), NEW k \in Nat, NEW batch \in [1..k -> Inputs],
           LogAppend(batch)
    PROVE  Narrows(p)
<1>1. Typed /\ Typed' /\ p \in 1..Len(Chain) /\ Len(Chain) \in Nat
  BY AppendTyped, SettingFacts DEF CursorInv, Typed, Unconditional
<1>2. out' = out /\ unit' = 1 /\ records' = {}
  BY DEF LogAppend
<1>3. Past(p)' = {}
  BY <1>1, <1>2 DEF Past
<1> QED BY <1>1, <1>2, <1>3, StayNarrows

\* Nothing moves while time passes.
LEMMA StillNarrows ==
    ASSUME CursorInv, NEW p \in Nat, Tick \/ Compact \/ UNCHANGED vars
    PROVE  Narrows(p)
<1>1. /\ Typed /\ Typed' /\ unit' = unit /\ buffer' = buffer /\ out' = out
      /\ offset' = offset /\ records' = records /\ record_pos' = record_pos
  BY StillTyped DEF CursorInv
<1>2. Past(p)' = Past(p)
  BY <1>1 DEF Past, Frontier, Undecoded
<1> QED BY <1>1, <1>2, StayNarrows

(***************************************************************************)
(* Deduplication.                                                          *)
(***************************************************************************)
Sig(i) == Significant(Item(i).hashed)
\* What dedup let pass at a second is known, or its time to live is over.
Covers(h, at) == /\ at <= clock
                 /\ (h \in DOMAIN store /\ store[h] >= at) \/ clock - at > TTL
StoreTyped == \A h \in DOMAIN store : store[h] \in Nat
Apart(i, j) == Sig(i) = Sig(j) => Item(j).at - Item(i).at > TTL
DupFree(p) == /\ \A i \in Behind(p) : Covers(Sig(i), Item(i).at)
              /\ \A i, j \in Behind(p) : i < j => Apart(i, j)
DedupAt(p) == At("dedup", p) /\ Faults = {} /\ (IgnoreFields = {} \/ IgnoreRegexes = {})
DedupInv == StoreTyped /\ \A p \in DOMAIN Chain : DedupAt(p) => DupFree(p)

\* The store loses nothing within its time to live.
Remains == \A h : \A at \in Nat : Covers(h, at) => Covers(h, at)'

\* A record is hashed without the fields to ignore.
LEMMA HashSignificant ==
    ASSUME IgnoreFields = {} \/ IgnoreRegexes = {}
    PROVE  \A body : hash_msgpack_data_filtered(body) = Significant(body)
BY DEF hash_msgpack_data_filtered

\* Adding a record.
LEMMA AddRemains ==
    ASSUME StoreTyped, clock \in Nat, clock' = clock, NEW h, store' = flb_record_dedup_add(store, h, clock)
    PROVE  StoreTyped' /\ Remains /\ Covers(h, clock)'
<1>1. /\ DOMAIN store' = DOMAIN store \cup {h} /\ store'[h] = clock
      /\ \A g \in DOMAIN store : g /= h => store'[g] = store[g]
  BY DEF flb_record_dedup_add
<1>2. StoreTyped'
  BY <1>1 DEF StoreTyped
<1>3. ASSUME NEW g, NEW at \in Nat, Covers(g, at) PROVE Covers(g, at)'
  <2>1. CASE g = h
    BY <1>1, <1>3, <2>1 DEF Covers
  <2>2. CASE g /= h
    BY <1>1, <1>3, <2>2 DEF Covers
  <2> QED BY <2>1, <2>2
<1>4. Covers(h, clock)'
  BY <1>1 DEF Covers
<1> QED BY <1>2, <1>3, <1>4 DEF Remains

\* Time passes, or records that are too old are dropped from the database.
LEMMA StillRemains ==
    ASSUME StoreTyped, clock \in Nat, Tick \/ Compact \/ UNCHANGED vars
    PROVE  StoreTyped' /\ Remains
<1>0. TTL \in Nat
  BY DedupAssumption
<1>1. CASE Tick
  <2>1. clock' = clock + 1 /\ store' = store
    BY <1>1 DEF Tick, contexts
  <2> QED BY <1>0, <2>1 DEF StoreTyped, Remains, Covers
<1>2. CASE Compact
  <2>1. clock' = clock /\ store' = flb_record_dedup_compact(store, clock)
    BY <1>2 DEF Compact
  <2>2. /\ DOMAIN store' = {h \in DOMAIN store : clock <= store[h] + TTL}
        /\ \A h \in DOMAIN store' : store'[h] = store[h]
    BY <2>1 DEF flb_record_dedup_compact, RestrictValues, Restrict
  <2>3. StoreTyped'
    BY <2>2 DEF StoreTyped
  <2>4. ASSUME NEW h, NEW at \in Nat, Covers(h, at) PROVE Covers(h, at)'
    <3>1. CASE h \in DOMAIN store'
      BY <2>1, <2>2, <2>4, <3>1 DEF Covers
    <3>2. CASE h \in DOMAIN store /\ h \notin DOMAIN store'
      <4>1. store[h] \in Nat /\ ~(clock <= store[h] + TTL)
        BY <2>2, <3>2 DEF StoreTyped
      <4>2. at <= clock /\ (store[h] >= at \/ clock - at > TTL)
        BY <2>4 DEF Covers
      <4>3. clock - at > TTL
        BY <1>0, <4>1, <4>2
      <4> QED BY <2>1, <4>2, <4>3 DEF Covers
    <3>3. CASE h \notin DOMAIN store
      BY <2>1, <2>2, <2>4, <3>3 DEF Covers
    <3> QED BY <3>1, <3>2, <3>3
  <2> QED BY <2>3, <2>4 DEF Remains
<1>3. CASE UNCHANGED vars
  <2>1. clock' = clock /\ store' = store
    BY <1>3 DEF vars, contexts
  <2> QED BY <2>1 DEF StoreTyped, Remains, Covers
<1> QED BY <1>1, <1>2, <1>3

\* No record comes to those behind dedup.
LEMMA NarrowsDupFree ==
    ASSUME Typed, NEW p, DupFree(p), Narrows(p), Remains, unit = p \/ ~In("dedup")
    PROVE  DupFree(p)'
<1>1. PICK f \in [Behind(p)' -> Behind(p)] :
        /\ \A i, j \in Behind(p)' : i < j => f[i] < f[j]
        /\ \A i \in Behind(p)' : Matches(p, i, f[i])
  BY DEF Narrows
<1>2. ASSUME NEW i \in Behind(p)'
      PROVE  /\ f[i] \in Behind(p) /\ Item(f[i]).at \in Nat
             /\ Sig(i)' = Sig(f[i]) /\ Item(i)'.at = Item(f[i]).at
  <2>1. Matches(p, i, f[i]) /\ f[i] \in Behind(p)
    BY <1>1
  <2>2. Item(i)'.hashed = Item(f[i]).hashed /\ Item(i)'.at = Item(f[i]).at
    BY <2>1 DEF Matches
  <2>3. Item(f[i]) \in Rec
    BY <2>1, BehindFacts
  <2>4. Sig(i)' = Sig(f[i])
    BY <2>2 DEF Sig
  <2> QED BY <2>1, <2>2, <2>3, <2>4 DEF Rec
<1>3. ASSUME NEW i \in Behind(p)' PROVE Covers(Sig(i), Item(i).at)'
  <2>1. PICK h, at : h = Sig(f[i]) /\ at = Item(f[i]).at
    OBVIOUS
  <2>2. Covers(h, at) /\ at \in Nat
    BY <1>2, <2>1 DEF DupFree
  <2>3. Covers(h, at)'
    BY <2>2 DEF Remains
  <2>4. Sig(i)' = h /\ Item(i)'.at = at
    BY <1>2, <2>1
  <2> QED BY <2>3, <2>4 DEF Covers
<1>4. ASSUME NEW i \in Behind(p)', NEW j \in Behind(p)', i < j PROVE Apart(i, j)'
  <2>1. Apart(f[i], f[j])
    BY <1>1, <1>2, <1>4 DEF DupFree
  <2> QED BY <1>2, <2>1 DEF Apart
<1> QED BY <1>3, <1>4 DEF DupFree

\* There is one dedup unit.
LEMMA OneDedup ==
    ASSUME Typed, NEW p, At("dedup", p), In("dedup")
    PROVE  unit = p
<1>1. Single(Chain, {"dedup"})
  BY ChainAssumption DEF Typed, IsSetting, Chain
<1>2. Chain[unit].kind = "dedup" /\ Chain[p].kind = "dedup" /\ unit \in DOMAIN Chain /\ p \in DOMAIN Chain
  BY DEF In, At
<1> QED BY <1>1, <1>2 DEF Single

\* A record that is let pass comes behind all others.
LEMMA AddsBehind ==
    ASSUME Typed, NEW p \in Nat, NEW id \in 1..Len(buffer), NEW k, k = Len(out) + id, Adds(p, id), out' = out, Len(buffer') = Len(buffer),
           \A x \in 1..Len(buffer) : x /= id => buffer'[x] = buffer[x]
    PROVE  /\ Behind(p)' = Behind(p) \cup {k}
           /\ Item(k)' = buffer'[id]
           /\ \A i \in Behind(p) : i \in Nat /\ i < k /\ Item(i)' = Item(i)
<1> DEFINE o == Len(out)
           n == Len(buffer)
<1>1. o \in Nat /\ n \in Nat /\ Past(p) \subseteq 1..n
  BY BehindFacts
<1>2. Past(p)' = Past(p) \cup {id} /\ \A x \in Past(p) : x < id
  BY DEF Adds
<1>3. Behind(p)' = Behind(p) \cup {k}
  BY <1>2 DEF Behind
<1>4. Item(k)' = buffer'[id]
  <2>1. ~(k <= o) /\ k - o = id
    BY <1>1
  <2> QED BY <2>1 DEF Item
<1>5. ASSUME NEW i \in Behind(p) PROVE i \in Nat /\ i < k /\ Item(i)' = Item(i)
  <2>1. i \in 1..(o + n) /\ (i \in 1..o \/ i - o \in Past(p))
    BY BehindFacts
  <2>2. CASE i \in 1..o
    <3>1. i \in Nat /\ i <= o /\ i < k
      BY <1>1, <2>2
    <3> QED BY <3>1 DEF Item
  <2>3. CASE i \notin 1..o
    <3>1. i - o \in Past(p) /\ i - o < id /\ i - o \in 1..n
      BY <1>1, <1>2, <2>1, <2>3
    <3>2. i \in Nat /\ ~(i <= o) /\ i < k /\ i - o /= id
      BY <1>1, <2>1, <3>1
    <3>3. buffer'[i - o] = buffer[i - o]
      BY <3>1, <3>2
    <3> QED BY <3>2, <3>3 DEF Item
  <2> QED BY <2>2, <2>3
<1> QED BY <1>3, <1>4, <1>5

\* What dedup lets pass has no copy behind it within the time to live.
LEMMA RemembersDupFree ==
    ASSUME CursorInv, StoreTyped, NEW p \in Nat, DedupAt(p), DupFree(p), unit = p, NEW id \in Nat,
           Moves(id, TRUE), Remembers(id, TRUE)
    PROVE  DupFree(p)' /\ StoreTyped'
<1> DEFINE o == Len(out)
<1>1. /\ Typed /\ clock \in Nat /\ clock' = clock /\ out' = out /\ Faults = {} /\ TTL \in Nat
      /\ Len(buffer') = Len(buffer) /\ o \in Nat
  BY DedupAssumption DEF CursorInv, Typed, Moves, Remembers, Stamps, DedupAt
<1>2. id \in 1..Len(buffer)
  BY <1>1, Found
<1>3. Unconditional(p)
  BY DEF DedupAt, At, Unconditional
<1>4. Adds(p, id)
  BY <1>1, <1>3, VisitedAt
<1>5. /\ \A x \in 1..Len(buffer) : x /= id => buffer'[x] = buffer[x]
      /\ buffer'[id].hashed = buffer[id].body /\ buffer'[id].at = clock
  BY DEF Remembers, Stamps
<1>0. PICK k \in Nat : k = o + id
  BY <1>1
<1>6. /\ Behind(p)' = Behind(p) \cup {k} /\ Item(k)' = buffer'[id]
      /\ \A i \in Behind(p) : i \in Nat /\ i < k /\ Item(i)' = Item(i)
  <2>1. /\ Typed /\ id \in 1..Len(buffer) /\ k = Len(out) + id /\ out' = out
        /\ Len(buffer') = Len(buffer)
    BY <1>0, <1>1, <1>2
  <2> QED BY <1>4, <1>5, <2>1, AddsBehind
<1>7. PICK h : h = Significant(buffer[id].body)
  OBVIOUS
<1>8. ~Known(store, h, clock) /\ store' = flb_record_dedup_add(store, h, clock)
  <2>1. Hash(id) = h
    BY <1>7, HashSignificant DEF Hash, DedupAt
  <2> QED BY <1>1, <2>1 DEF Remembers
<1>9. StoreTyped' /\ Remains /\ Covers(h, clock)'
  BY <1>1, <1>8, AddRemains
<1>10. Sig(k)' = h /\ Item(k)'.at = clock
  BY <1>5, <1>6, <1>7 DEF Sig
<1>11. ASSUME NEW i \in Behind(p)
       PROVE  /\ Sig(i)' = Sig(i) /\ Item(i)' = Item(i) /\ Covers(Sig(i), Item(i).at)
              /\ Item(i).at \in Nat /\ Covers(Sig(i), Item(i).at)' /\ i < k /\ i \in Nat
  <2>1. Item(i)' = Item(i) /\ Covers(Sig(i), Item(i).at) /\ i < k /\ i \in Nat
    BY <1>6 DEF DupFree
  <2>2. Item(i).at \in Nat
    BY <1>1, BehindFacts DEF Rec
  <2>3. Sig(i)' = Sig(i)
    BY <2>1 DEF Sig
  <2>4. PICK g, at : g = Sig(i) /\ at = Item(i).at
    OBVIOUS
  <2>5. Covers(g, at)'
    BY <1>9, <2>1, <2>2, <2>4 DEF Remains
  <2>6. Covers(Sig(i), Item(i).at)'
    BY <2>1, <2>3, <2>4, <2>5 DEF Covers
  <2> QED BY <2>1, <2>2, <2>3, <2>6
<1>12. ASSUME NEW i \in Behind(p)' PROVE Covers(Sig(i), Item(i).at)'
  <2>1. CASE i \in Behind(p)
    BY <1>11, <2>1
  <2>2. CASE i = k
    <3>1. Sig(i)' = h /\ Item(i)'.at = clock
      BY <1>10, <2>2
    <3> QED BY <1>1, <1>9, <3>1 DEF Covers
  <2> QED BY <1>6, <2>1, <2>2
<1>13. ASSUME NEW i \in Behind(p)', NEW j \in Behind(p)', i < j PROVE Apart(i, j)'
  <2>1. CASE j \in Behind(p)
    <3>1. i \in Behind(p)
      <4> SUFFICES ASSUME i = k PROVE FALSE
        BY <1>6
      <4> QED BY <1>1, <1>2, <1>11, <1>13, <2>1
    <3>2. Apart(i, j)
      BY <1>13, <2>1, <3>1 DEF DupFree
    <3> QED BY <1>11, <2>1, <3>1, <3>2 DEF Apart
  <2>2. CASE j = k
    <3>1. i \in Behind(p)
      <4>1. i /= k
        BY <1>1, <1>2, <1>13, <2>2
      <4> QED BY <1>6, <4>1
    <3> SUFFICES ASSUME Sig(i) = h PROVE clock - Item(i).at > TTL
      BY <1>10, <1>11, <2>2, <3>1 DEF Apart
    <3>2. /\ Item(i).at <= clock /\ Item(i).at \in Nat
          /\ (h \in DOMAIN store /\ store[h] >= Item(i).at) \/ clock - Item(i).at > TTL
      BY <1>11, <3>1 DEF Covers
    <3>3. h \in DOMAIN store => store[h] \in Nat /\ ~(clock - store[h] <= TTL)
      BY <1>8 DEF Known, StoreTyped
    <3> QED BY <1>1, <3>2, <3>3
  <2> QED BY <1>6, <2>1, <2>2
<1> QED BY <1>9, <1>12, <1>13 DEF DupFree

\* Every step keeps what is behind dedup free of copies.
LEMMA DedupNext ==
    ASSUME CursorInv, DedupInv, [Next]_vars
    PROVE  DedupInv'
<1>1. Typed /\ StoreTyped /\ clock \in Nat
  BY DEF CursorInv, Typed, DedupInv
<1>2. setting' = setting
  BY DEF Next, Run, Visit, VisitModify, VisitSql, VisitDedup, VisitFixed, VisitSliding, VisitExponential,
         Settle, UndefinedRead, UnitDone, RunFilter, LogAppend, Tick, Compact, vars
<1>3. Chain' = Chain /\ \A p : DedupAt(p)' <=> DedupAt(p)
  BY <1>2, SameChain DEF DedupAt, At
<1>4. SUFFICES StoreTyped' /\ \A p \in DOMAIN Chain : DedupAt(p) => DupFree(p)'
  BY <1>3 DEF DedupInv
<1>5. ASSUME NEW p \in DOMAIN Chain, DedupAt(p)
      PROVE  /\ p \in Nat /\ Unconditional(p) /\ DupFree(p) /\ (unit = p \/ ~In("dedup"))
  BY <1>1, <1>5, SettingFacts, OneDedup DEF DedupInv, DedupAt, At, Unconditional, Typed
<1>6. ASSUME StoreTyped', Remains, \A p \in DOMAIN Chain : DedupAt(p) => Narrows(p)
      PROVE  StoreTyped' /\ \A p \in DOMAIN Chain : DedupAt(p) => DupFree(p)'
  BY <1>1, <1>5, <1>6, NarrowsDupFree
<1>7. ASSUME clock' = clock, store' = store PROVE StoreTyped' /\ Remains
  BY <1>1, <1>7 DEF StoreTyped, Remains, Covers
<1>8. CASE \E n \in 1..setting.MaxBatch : \E batch \in [1..n -> Inputs] : LogAppend(batch)
  <2>0. PICK n \in 1..setting.MaxBatch : \E batch \in [1..n -> Inputs] : LogAppend(batch)
    BY <1>8
  <2>1. PICK batch \in [1..n -> Inputs] : LogAppend(batch)
    BY <2>0
  <2>2. n \in Nat
    BY <1>1, ChainAssumption DEF Typed, IsSetting
  <2>3. \A p \in DOMAIN Chain : DedupAt(p) => Narrows(p)
    BY <1>5, <2>1, <2>2, AppendNarrows
  <2>4. StoreTyped' /\ Remains
    BY <1>7, <2>1 DEF LogAppend, contexts
  <2> QED BY <1>6, <2>3, <2>4
<1>9. CASE UndefinedRead \/ UnitDone \/ RunFilter
  <2>1. \A p \in DOMAIN Chain : DedupAt(p) => Narrows(p)
    BY <1>5, <1>9, ElsewhereNarrows DEF Elsewhere
  <2>2. StoreTyped' /\ Remains
    BY <1>7, <1>9 DEF UndefinedRead, UnitDone, RunFilter, contexts
  <2> QED BY <1>6, <2>1, <2>2
<1>10. CASE Tick \/ Compact \/ UNCHANGED vars
  <2>1. \A p \in DOMAIN Chain : DedupAt(p) => Narrows(p)
    BY <1>5, <1>10, StillNarrows
  <2>2. StoreTyped' /\ Remains
    BY <1>1, <1>10, StillRemains
  <2> QED BY <1>6, <2>1, <2>2
<1>11. CASE Visit
  <2>1. PICK id \in Nat, keep \in BOOLEAN : Moves(id, keep) /\ Visits(id, keep)
    BY <1>1, <1>11, VisitMoves
  <2>2. Typed' /\ clock' = clock /\ out' = out
    BY <1>1, <2>1, MovesTyped DEF Moves
  <2>3. CASE ~In("dedup")
    <3>1. \A p \in DOMAIN Chain : DedupAt(p) => unit /= p
      BY <2>3 DEF DedupAt, At, In
    <3>2. \A p \in DOMAIN Chain : DedupAt(p) => Narrows(p)
      BY <1>5, <1>11, <3>1, ElsewhereNarrows DEF Elsewhere
    <3>3. store' = store
      BY <2>1, <2>3 DEF Visits, Modifies, Queries, Remembers, Recognises, Fixes, Slides, Decays
    <3> QED BY <1>6, <1>7, <2>2, <3>2, <3>3
  <2>4. CASE In("dedup") /\ Recognises(id, keep)
    <3>1. ~keep /\ buffer' = buffer /\ store' = store
      BY <2>4 DEF Recognises
    <3>2. ASSUME NEW p \in DOMAIN Chain, DedupAt(p) PROVE Narrows(p)
      <4>1. p \in Nat /\ Unconditional(p) /\ unit = p
        BY <1>5, <2>4, <3>2
      <4>2. Past(p)' \subseteq Past(p)
        BY <2>1, <3>1, <4>1, VisitedAt
      <4> QED BY <1>1, <2>2, <3>1, <4>2, StayNarrows
    <3> QED BY <1>6, <1>7, <2>2, <3>1, <3>2
  <2>5. CASE In("dedup") /\ Remembers(id, keep)
    <3>1. keep /\ keep = TRUE
      BY <2>1, <2>5 DEF Remembers
    <3>2. Moves(id, TRUE) /\ Remembers(id, TRUE)
      BY <2>1, <2>5, <3>1
    <3>3. ASSUME NEW p \in DOMAIN Chain, DedupAt(p) PROVE DupFree(p)'
      <4>1. p \in Nat /\ DupFree(p) /\ unit = p
        BY <1>5, <2>5, <3>3
      <4> QED BY <1>1, <3>2, <3>3, <4>1, RemembersDupFree
    <3>4. StoreTyped'
      <4>1. store' = store \/ store' = flb_record_dedup_add(store, Hash(id), clock)
        BY <3>2 DEF Remembers
      <4>2. PICK h : h = Hash(id)
        OBVIOUS
      <4>3. store' = flb_record_dedup_add(store, h, clock) => StoreTyped'
        BY <1>1, <2>2, AddRemains
      <4> QED BY <1>7, <2>2, <4>1, <4>2, <4>3
    <3> QED BY <3>3, <3>4
  <2>6. In("dedup") => Recognises(id, keep) \/ Remembers(id, keep)
    BY <2>1 DEF Visits, Modifies, Queries, Fixes, Slides, Decays, In
  <2> QED BY <2>3, <2>4, <2>5, <2>6
<1> QED BY <1>8, <1>9, <1>10, <1>11 DEF Next, Run

\* Nothing has gone on and nothing is behind a unit.
LEMMA InitBehind ==
    ASSUME Init, NEW p, p \in DOMAIN Chain
    PROVE  Behind(p) = {} /\ Pending(p) = {}
<1>1. unit = 0 /\ Len(out) = 0 /\ p \in Nat /\ p > 0
  BY InitTyped, SettingFacts DEF Init, Idle, Typed
<1>2. Past(p) = {} /\ Pending(p) = {}
  BY <1>1 DEF Past, Pending
<1>3. 1..Len(out) = {}
  BY <1>1
<1> QED BY <1>2, <1>3 DEF Behind

\* The invariant of dedup holds from the start.
THEOREM DedupInvHolds == Spec => [](CursorInv /\ DedupInv)
<1>1. Init => DedupInv
  <2> SUFFICES ASSUME Init PROVE DedupInv
    OBVIOUS
  <2>1. StoreTyped
    BY DEF Init, EmptyStore, StoreTyped
  <2>2. \A p \in DOMAIN Chain : DupFree(p)
    BY InitBehind DEF DupFree
  <2> QED BY <2>1, <2>2 DEF DedupInv
<1>2. CursorInv /\ DedupInv /\ [Next]_vars => DedupInv'
  BY DedupNext
<1> QED BY <1>1, <1>2, CursorInvHolds, PTL DEF Spec

\* When dedup sees every record and its database works, no two records go on
\* that were equal but for the ignored fields when it hashed them and that it let
\* through within the time to live (cb_process_logs of processor_dedup,
\* flb_record_dedup_add, flb_record_dedup_compact): whatever other units are
\* before it, whatever those after it make of a record, and although the cursor
\* may send it over the same records again.
THEOREM NoDuplicateGoesOn == Spec => []NoDuplicateOut
<1>1. CursorInv /\ DedupInv => NoDuplicateOut
  <2> SUFFICES ASSUME CursorInv, DedupInv, DedupSees, NEW i \in DOMAIN out, NEW j \in DOMAIN out,
                      i < j, Significant(out[i].hashed) = Significant(out[j].hashed)
               PROVE  out[j].at - out[i].at > TTL
    BY DEF NoDuplicateOut
  <2>1. PICK p \in DOMAIN Chain : Chain[p].kind = "dedup" /\ ~Chain[p].condition
    BY DEF DedupSees, Has
  <2>2. DedupAt(p)
    BY <2>1 DEF DedupAt, At, DedupSees
  <2>3. out \in Seq(Rec) /\ Len(out) \in Nat /\ DOMAIN out = 1..Len(out)
    BY DEF CursorInv, Typed
  <2>4. i \in Behind(p) /\ j \in Behind(p) /\ Item(i) = out[i] /\ Item(j) = out[j]
    BY <2>3 DEF Behind, Item
  <2>5. Apart(i, j)
    BY <2>2, <2>4 DEF DedupInv, DupFree
  <2> QED BY <2>4, <2>5 DEF Apart, Sig
<1> QED BY <1>1, DedupInvHolds, PTL

(***************************************************************************)
(* The windows of log_sampling, for records in the order of their time.    *)
(***************************************************************************)
InTime == /\ \A x, y \in 1..Len(buffer) : x < y => buffer[x].time <= buffer[y].time
          /\ \A x \in 1..Len(buffer) : \E k \in 1..Len(arrived) : buffer[x].time = arrived[k].time
\* Nothing behind the unit is later than m, and all that is yet to arrive is not
\* earlier; what is pending is not, but for a unit that begins again.
Reached(p, m) == /\ m \in Nat
                 /\ m = 0 \/ \E k \in 1..Len(arrived) : m <= arrived[k].time
                 /\ \A i \in Behind(p) : Item(i).time <= m
Ahead(p, m) == \A x \in Pending(p) : buffer[x].time >= m

\* Seconds and the windows they are in.
LEMMA WindowOf ==
    ASSUME NEW t \in Nat, NEW q \in Nat
    PROVE  /\ t < q * WindowSize + WindowSize <=> t \div WindowSize <= q
           /\ q * WindowSize \in Nat /\ t \div WindowSize \in Nat
<1>1. PICK S \in Nat : S = WindowSize /\ S > 0
  BY SamplingAssumption
<1>2. PICK d \in Nat : d = t \div S
  BY <1>1
<1>3. d * S <= t /\ t < d * S + S /\ d * S \in Nat /\ q * S \in Nat
  BY <1>1, <1>2
<1>4. CASE d <= q
  <2>1. d * S <= q * S
    BY <1>1, <1>2, <1>4
  <2>2. t < q * S + S
    BY <1>1, <1>3, <2>1
  <2> QED BY <1>1, <1>2, <1>3, <1>4, <2>2
<1>5. CASE d >= q + 1
  <2>1. d * S >= (q + 1) * S /\ (q + 1) * S = q * S + S
    BY <1>1, <1>2, <1>5
  <2>2. ~(t < q * S + S)
    BY <1>1, <1>3, <2>1
  <2>3. ~(d <= q)
    BY <1>2, <1>5
  <2> QED BY <1>1, <1>2, <1>3, <2>2, <2>3
<1> QED BY <1>2, <1>4, <1>5

\* Later seconds are in later windows.
LEMMA LaterWindow ==
    ASSUME NEW t \in Nat, NEW m \in Nat, m <= t
    PROVE  m \div WindowSize <= t \div WindowSize /\ m \div WindowSize \in Nat /\ t \div WindowSize \in Nat
<1>1. PICK q \in Nat : q = t \div WindowSize
  BY WholeWindows
<1>2. t < q * WindowSize + WindowSize /\ q * WindowSize \in Nat
  BY <1>1, WindowOf
<1>3. WindowSize \in Nat
  BY SamplingAssumption
<1>4. m < q * WindowSize + WindowSize
  BY <1>2, <1>3
<1> QED BY <1>1, <1>4, WindowOf

\* There is one log_sampling unit.
LEMMA OneSampling ==
    ASSUME Typed, NEW p, At("fixed", p) \/ At("sliding", p), In("fixed") \/ In("sliding")
    PROVE  unit = p
<1> DEFINE kinds == {"fixed", "sliding", "exponential"}
<1>1. Single(Chain, kinds)
  BY ChainAssumption DEF Typed, IsSetting, Chain
<1>2. Chain[unit].kind \in kinds /\ Chain[p].kind \in kinds /\ unit \in DOMAIN Chain /\ p \in DOMAIN Chain
  BY DEF In, At
<1> HIDE DEF kinds
<1> QED BY <1>1, <1>2 DEF Single

\* Records that arrive are not earlier than those that did before.
LEMMA ArriveInTime ==
    ASSUME Typed, Ordered, NEW k \in Nat, NEW batch \in [1..k -> Inputs], LogAppend(batch)
    PROVE  /\ InTime' /\ Len(buffer') = k
           /\ \A i \in 1..Len(arrived) : i \in 1..Len(arrived') /\ arrived'[i] = arrived[i]
           /\ \A x \in 1..k : \A i \in 1..Len(arrived) : arrived[i].time <= buffer'[x].time
<1> DEFINE a == Len(arrived)
<1>1. /\ arrived \in Seq(Inputs) /\ a \in Nat /\ batch \in Seq(Inputs) /\ Len(batch) = k
      /\ DOMAIN batch = 1..k /\ arrived' = arrived \o batch
      /\ \A r \in Inputs : r.time \in Nat
  BY LenProperties, SettingFacts DEF Typed, LogAppend
<1>2. /\ Len(arrived') = a + k /\ DOMAIN arrived' = 1..(a + k)
      /\ \A i \in 1..(a + k) : arrived'[i] = IF i <= a THEN arrived[i] ELSE batch[i - a]
  <2> DEFINE c == arrived \o batch
  <2>1. /\ c \in Seq(Inputs) /\ Len(c) = Len(arrived) + Len(batch)
        /\ \A i \in 1..(Len(arrived) + Len(batch)) :
              c[i] = IF i <= Len(arrived) THEN arrived[i] ELSE batch[i - Len(arrived)]
    BY <1>1, ConcatProperties
  <2>2. c = arrived' /\ Len(batch) = k
    BY <1>1
  <2> HIDE DEF c
  <2>3. DOMAIN c = 1..Len(c)
    BY <2>1, LenProperties
  <2> QED BY <2>1, <2>2, <2>3
<1>3. \A i, j \in 1..(a + k) : i < j => arrived'[i].time <= arrived'[j].time
  <2>1. InOrder(batch)
    BY DEF LogAppend
  <2>2. arrived \o batch = arrived' /\ DOMAIN (arrived \o batch) = 1..(a + k)
    BY <1>1, <1>2
  <2>3. \A i, j \in DOMAIN (arrived \o batch) : i < j => (arrived \o batch)[i].time <= (arrived \o batch)[j].time
    BY <2>1 DEF InOrder
  <2> QED BY <2>2, <2>3
<1>4. Len(buffer') = k
  BY AppendTyped
<1>5. \A x \in 1..k : buffer'[x].time = batch[x].time /\ batch[x].time \in Nat
  <2>1. \A x \in 1..k : buffer'[x] = Stamped(batch[x])
    <3>1. buffer' = [i \in DOMAIN batch |-> Stamped(batch[i])]
      BY DEF LogAppend
    <3> QED BY <1>1, <3>1
  <2>2. ASSUME NEW x \in 1..k PROVE buffer'[x].time = batch[x].time
    <3>1. buffer'[x] = Stamped(batch[x])
      BY <2>1
    <3> QED BY <3>1 DEF Stamped
  <2>3. \A x \in 1..k : batch[x] \in Inputs
    OBVIOUS
  <2> QED BY <1>1, <2>2, <2>3
<1>6. \A x \in 1..k : a + x \in 1..(a + k) /\ arrived'[a + x] = batch[x] /\ ~(a + x <= a)
  <2> SUFFICES ASSUME NEW x \in 1..k
               PROVE  a + x \in 1..(a + k) /\ arrived'[a + x] = batch[x] /\ ~(a + x <= a)
    OBVIOUS
  <2>1. a + x \in 1..(a + k) /\ ~(a + x <= a) /\ (a + x) - a = x
    BY <1>1
  <2> QED BY <1>2, <2>1
<1>7. \A i \in 1..a : i \in 1..(a + k) /\ arrived'[i] = arrived[i]
  BY <1>1, <1>2
<1>8. ASSUME NEW x \in 1..k, NEW i \in 1..a PROVE arrived[i].time <= buffer'[x].time
  <2>1. i < a + x
    BY <1>1
  <2>2. arrived'[i].time <= arrived'[a + x].time
    BY <1>3, <1>6, <1>7, <2>1
  <2> QED BY <1>5, <1>6, <1>7, <2>2
<1>9. ASSUME NEW x \in 1..k, NEW y \in 1..k, x < y PROVE buffer'[x].time <= buffer'[y].time
  <2>1. a + x < a + y
    BY <1>1, <1>9
  <2>2. arrived'[a + x].time <= arrived'[a + y].time
    BY <1>3, <1>6, <2>1
  <2> QED BY <1>5, <1>6, <2>2
<1>10. InTime'
  <2>1. \A x \in 1..k : buffer'[x].time = arrived'[a + x].time
    BY <1>5, <1>6
  <2>2. \A x \in 1..Len(buffer') : \E i \in 1..Len(arrived') : buffer'[x].time = arrived'[i].time
    BY <1>2, <1>4, <1>6, <2>1
  <2> QED BY <1>4, <1>9, <2>2 DEF InTime
<1> QED BY <1>2, <1>4, <1>7, <1>8, <1>10

SameCursor == /\ unit' = unit /\ buffer' = buffer
              /\ offset' = offset /\ records' = records /\ record_pos' = record_pos

\* No record comes to those behind a unit: the time they reached stays.
LEMMA NarrowsReached ==
    ASSUME Typed, NEW p, NEW m, Reached(p, m), Narrows(p),
           \A i \in 1..Len(arrived) : i \in 1..Len(arrived') /\ arrived'[i] = arrived[i]
    PROVE  Reached(p, m)'
<1>1. PICK f \in [Behind(p)' -> Behind(p)] : \A i \in Behind(p)' : Matches(p, i, f[i])
  BY DEF Narrows
<1>2. ASSUME NEW i \in Behind(p)' PROVE Item(i)'.time <= m
  <2>1. f[i] \in Behind(p) /\ Item(i)'.time = Item(f[i]).time
    BY <1>1 DEF Matches
  <2> QED BY <2>1 DEF Reached
<1>3. m \in Nat /\ (m = 0 \/ \E k \in 1..Len(arrived') : m <= arrived'[k].time)
  BY DEF Reached
<1> QED BY <1>2, <1>3 DEF Reached

\* A unit before it leaves the records in order and ahead.
LEMMA ShiftsInTime ==
    ASSUME Typed, Typed', NEW p, InTime, Shifts(p), arrived' = arrived
    PROVE  InTime' /\ \A m : Ahead(p, m) \/ unit = p => Ahead(p, m)'
<1>0. Len(buffer) \in Nat /\ Len(buffer') \in Nat
  BY DEF Typed
<1>1. PICK h \in [1..Len(buffer') -> 1..Len(buffer)] :
          /\ \A x, y \in 1..Len(buffer') : x < y => h[x] < h[y]
          /\ \A x \in 1..Len(buffer') : buffer'[x].time = buffer[h[x]].time
  BY DEF Shifts
<1>2. \A x \in 1..Len(buffer') : h[x] \in 1..Len(buffer)
  BY <1>1
<1>3. InTime'
  <2>1. \A x, y \in 1..Len(buffer') : x < y => buffer'[x].time <= buffer'[y].time
    BY <1>1, <1>2 DEF InTime
  <2>2. \A x \in 1..Len(buffer') : \E k \in 1..Len(arrived') : buffer'[x].time = arrived'[k].time
    BY <1>1, <1>2 DEF InTime
  <2> QED BY <2>1, <2>2 DEF InTime
<1>4. ASSUME NEW m, Ahead(p, m) \/ unit = p PROVE Ahead(p, m)'
  <2>1. CASE Pending(p)' = {}
    BY <2>1 DEF Ahead
  <2>2. CASE unit > 0 /\ unit < p
    <3>0. unit /= p
      BY <2>2, SettingFacts DEF Typed, Idle, Undefined
    <3>1. Ahead(p, m) /\ Pending(p) = 1..Len(buffer)
      BY <1>4, <2>2, <3>0 DEF Pending
    <3>2. Pending(p)' \subseteq 1..Len(buffer')
      <4>1. /\ offset' \in Nat /\ offset' <= Len(buffer') /\ records' \subseteq 1..offset'
        BY <1>0 DEF Typed
      <4>2. records' \subseteq 1..Len(buffer') /\ Undecoded' \subseteq 1..Len(buffer')
        BY <1>0, <4>1 DEF Undecoded
      <4> QED BY <4>2 DEF Pending
    <3> QED BY <1>1, <1>2, <3>1, <3>2 DEF Ahead
  <2> QED BY <2>1, <2>2 DEF Shifts
<1> QED BY <1>3, <1>4

\* A step that is not a visit of the unit at p.
LEMMA AwayReached ==
    ASSUME CursorInv, CursorInv', InTime, Ordered, NEW p \in Nat, Unconditional(p), [Next]_vars, ~(Visit /\ unit = p)
    PROVE  /\ Narrows(p) /\ InTime'
           /\ \A m : Reached(p, m) => /\ Reached(p, m)'
                                      /\ Ahead(p, m) => Ahead(p, m)'
                                      /\ unit = p => Ahead(p, m)' \/ SameCursor
<1>1. Typed /\ Typed'
  BY DEF CursorInv
<1>2. CASE \E n \in 1..setting.MaxBatch : \E batch \in [1..n -> Inputs] : LogAppend(batch)
  <2>0. PICK n \in 1..setting.MaxBatch : \E batch \in [1..n -> Inputs] : LogAppend(batch)
    BY <1>2
  <2>1. PICK batch \in [1..n -> Inputs] : LogAppend(batch)
    BY <2>0
  <2>2. n \in Nat
    BY <1>1, ChainAssumption DEF Typed, IsSetting
  <2>3. Narrows(p)
    BY <2>1, <2>2, AppendNarrows
  <2>4. /\ InTime' /\ Len(buffer') = n
        /\ \A i \in 1..Len(arrived) : i \in 1..Len(arrived') /\ arrived'[i] = arrived[i]
        /\ \A x \in 1..n : \A i \in 1..Len(arrived) : arrived[i].time <= buffer'[x].time
    BY <1>1, <2>1, <2>2, ArriveInTime
  <2>5. ASSUME NEW m, Reached(p, m) PROVE Reached(p, m)' /\ Ahead(p, m)'
    <3>1. Reached(p, m)'
      BY <1>1, <2>3, <2>4, <2>5, NarrowsReached
    <3>2. Pending(p)' \subseteq 1..n
      <4>1. /\ offset' \in Nat /\ offset' <= n /\ records' \subseteq 1..offset'
        BY <1>1, <2>4 DEF Typed
      <4>2. records' \subseteq 1..n /\ Undecoded' \subseteq 1..n
        BY <2>2, <2>4, <4>1 DEF Undecoded
      <4> QED BY <2>4, <4>2 DEF Pending
    <3>3. \A x \in 1..n : buffer'[x].time \in Nat
      <4>1. buffer' \in Seq(Rec')
        BY <1>1 DEF Typed
      <4>2. \A x \in 1..n : buffer'[x] \in Rec'
        BY <2>4, <4>1, ElementOfSeq
      <4> QED BY <4>2 DEF Rec
    <3>4. \A i \in 1..Len(arrived) : arrived[i].time \in Nat
      <4>1. \A i \in 1..Len(arrived) : arrived[i] \in Inputs
        BY <1>1, ElementOfSeq DEF Typed
      <4> QED BY <1>1, <4>1, SettingFacts DEF Typed
    <3>5. ASSUME NEW x \in 1..n PROVE buffer'[x].time >= m
      <4>1. CASE m = 0
        BY <3>3, <4>1
      <4>2. CASE m /= 0
        <5>1. PICK i \in 1..Len(arrived) : m <= arrived[i].time
          BY <2>5, <4>2 DEF Reached
        <5>2. m \in Nat
          BY <2>5 DEF Reached
        <5>3. arrived[i].time <= buffer'[x].time
          BY <2>4, <5>1
        <5>4. arrived[i].time \in Nat /\ buffer'[x].time \in Nat
          BY <3>3, <3>4
        <5> QED BY <5>1, <5>2, <5>3, <5>4
      <4> QED BY <4>1, <4>2
    <3> QED BY <3>1, <3>2, <3>5 DEF Ahead
  <2> QED BY <2>3, <2>4, <2>5
<1>3. CASE Elsewhere(p)
  <2>1. Narrows(p) /\ Shifts(p) /\ arrived' = arrived
    BY <1>3, ElsewhereNarrows
  <2>2. InTime' /\ \A m : Ahead(p, m) \/ unit = p => Ahead(p, m)'
    BY <1>1, <2>1, ShiftsInTime
  <2>3. \A i \in 1..Len(arrived) : i \in 1..Len(arrived') /\ arrived'[i] = arrived[i]
    BY <2>1
  <2>4. \A m : Reached(p, m) => Reached(p, m)'
    BY <1>1, <2>1, <2>3, NarrowsReached
  <2> QED BY <2>1, <2>2, <2>4
<1>4. CASE Tick \/ Compact \/ UNCHANGED vars
  <2>1. Narrows(p)
    BY <1>4, StillNarrows
  <2>2. SameCursor /\ arrived' = arrived /\ out' = out
    BY <1>1, <1>4, StillTyped DEF SameCursor
  <2>3. InTime'
    BY <2>2 DEF InTime, SameCursor
  <2>4. \A m : Ahead(p, m) => Ahead(p, m)'
    BY <2>2 DEF Ahead, Pending, Undecoded, Frontier, SameCursor
  <2>5. \A m : Reached(p, m) => Reached(p, m)'
    BY <1>1, <2>1, <2>2, NarrowsReached
  <2> QED BY <2>1, <2>2, <2>3, <2>4, <2>5
<1> QED BY <1>2, <1>3, <1>4 DEF Next, Run, Elsewhere

\* A unit that has decoded everything searches the list.
LEMMA SearchOnly ==
    ASSUME Typed, offset = Len(buffer), NEW id \in Nat, NEW keep \in BOOLEAN, Moves(id, keep)
    PROVE  id \in records /\ offset' = Len(buffer) /\ records' \subseteq records
<1>1. Len(buffer) \in Nat /\ Undecoded = {} /\ (offset + 1)..Len(buffer) = {}
  BY DEF Typed, Undecoded
<1>2. Searched(id, keep)
  BY <1>1 DEF Moves, Decoded, Decoding
<1>3. With(Len(buffer)) = records
  BY <1>1 DEF With
<1> QED BY <1>2, <1>3 DEF Searched, Listing, Lists

\* A visit in order: the time of the record is the one that is reached.
LEMMA VisitReached ==
    ASSUME CursorInv, InTime, NEW p \in Nat, Unconditional(p), unit = p, NEW id \in Nat, NEW keep \in BOOLEAN,
           Moves(id, keep), buffer' = buffer, NEW m, Reached(p, m), Ahead(p, m), NEW t, t = buffer[id].time
    PROVE  /\ t \in Nat /\ m \in Nat /\ m <= t /\ Reached(p, t)'
           /\ \A i : Item(i)' = Item(i)
           /\ ~keep => Behind(p)' \subseteq Behind(p)
           /\ keep => \E k \in Nat : /\ Behind(p)' = Behind(p) \cup {k} /\ Item(k).time = t
                                     /\ \A i \in Behind(p) : i < k
           /\ Ahead(p, t)' \/ (~keep /\ Wraps(id) /\ \A x \in records' : buffer[x].time <= t)
<1> DEFINE n == Len(buffer)
           o == Len(out)
<1>1. Typed /\ out' = out /\ arrived' = arrived /\ n \in Nat /\ o \in Nat
  BY BehindFacts DEF CursorInv, Moves
<1>2. id \in 1..n /\ buffer[id] \in Rec /\ t \in Nat
  BY <1>1, Found DEF Rec
<1>3. /\ id \in Pending(p)
      /\ keep => Adds(p, id) /\ Rests(p, id)
      /\ ~keep => Past(p)' \subseteq Past(p) /\ (Rests(p, id) \/ Wraps(id))
  BY VisitedAt
<1>4. m \in Nat /\ m <= t
  BY <1>2, <1>3 DEF Ahead, Reached
<1>5. \A i : Item(i)' = Item(i)
  BY <1>1 DEF Item
<1>6. ~keep => Behind(p)' \subseteq Behind(p)
  BY <1>1, <1>3 DEF Behind
<1>7. ASSUME keep
      PROVE  \E k \in Nat : /\ Behind(p)' = Behind(p) \cup {k} /\ Item(k).time = t
                            /\ \A i \in Behind(p) : i < k
  <2>1. PICK k \in Nat : k = o + id
    BY <1>1
  <2>2. /\ Behind(p)' = Behind(p) \cup {k} /\ Item(k)' = buffer'[id]
        /\ \A i \in Behind(p) : i < k
    <3>1. /\ Typed /\ id \in 1..Len(buffer) /\ k = Len(out) + id /\ out' = out /\ Adds(p, id)
          /\ Len(buffer') = Len(buffer)
          /\ \A x \in 1..Len(buffer) : x /= id => buffer'[x] = buffer[x]
      BY <1>1, <1>2, <1>3, <1>7, <2>1
    <3> QED BY <3>1, AddsBehind
  <2>3. Item(k).time = t
    BY <1>5, <2>2
  <2> QED BY <2>2, <2>3
<1>8. \A i \in Behind(p)' : Item(i).time <= t
  <2>1. \A i \in Behind(p) : Item(i).time <= t
    <3> SUFFICES ASSUME NEW i \in Behind(p) PROVE Item(i).time <= t
      OBVIOUS
    <3>1. Item(i).time <= m /\ Item(i).time \in Nat
      BY <1>1, BehindFacts DEF Reached, Rec
    <3> QED BY <1>2, <1>4, <3>1
  <2>2. CASE keep
    BY <1>2, <1>7, <2>1, <2>2
  <2>3. CASE ~keep
    BY <1>6, <2>1, <2>3
  <2> QED BY <2>2, <2>3
<1>9. Reached(p, t)'
  <2>0. PICK k \in 1..Len(arrived) : buffer[id].time = arrived[k].time
    BY <1>2 DEF InTime
  <2>1. \E j \in 1..Len(arrived) : t <= arrived[j].time
    <3>1. t <= arrived[k].time
      BY <1>2, <2>0
    <3> QED BY <3>1
  <2> QED BY <1>1, <1>2, <1>5, <1>8, <2>1 DEF Reached
<1>10. ASSUME Rests(p, id) PROVE Ahead(p, t)'
  <2> SUFFICES ASSUME NEW y \in Pending(p)' PROVE buffer'[y].time >= t
    BY DEF Ahead
  <2>1. y \in 1..n /\ y > id
    BY <1>1, <1>10, BehindFacts DEF Rests
  <2>2. buffer[id].time <= buffer[y].time
    BY <1>2, <2>1 DEF InTime
  <2>3. buffer[y].time \in Nat
    <3>1. buffer[y] \in Rec
      BY <1>1, <2>1, ElementOfSeq DEF Typed
    <3> QED BY <3>1 DEF Rec
  <2> QED BY <1>2, <2>2, <2>3
<1>11. ASSUME Wraps(id), NEW x \in records' PROVE buffer[x].time <= t
  BY <1>2, <1>11 DEF InTime, Wraps
<1> QED BY <1>2, <1>3, <1>4, <1>5, <1>6, <1>7, <1>9, <1>10, <1>11

(***************************************************************************)
(* Fixed windows: a slot in its window for each record behind the unit.    *)
(***************************************************************************)
InWindow(i) == Item(i).time \div WindowSize
FixedSlots(p, m, s) ==
    /\ \A i \in Behind(p) : /\ s[i] \in 1..MaxLogs
                            /\ s[i] <= window.count \/ InWindow(i) < m \div WindowSize
    /\ \A i, j \in Behind(p) : i < j /\ InWindow(i) = InWindow(j) => s[i] /= s[j]
\* The unit begins again: it will drop all records that are left.
FixedFull(p) == /\ unit = p /\ offset = Len(buffer) /\ window.count = MaxLogs
                /\ \A x \in records : buffer[x].time < window.start + WindowSize
FixedState(p) ==
    \E m, s, q : /\ q \in Nat /\ window.start = q * WindowSize
                 /\ Reached(p, m) /\ m < window.start + WindowSize
                 /\ Ahead(p, m) \/ FixedFull(p)
                 /\ FixedSlots(p, m, s)

\* No record comes to those behind the unit.
LEMMA NarrowsFixed ==
    ASSUME Typed, NEW p, NEW m, NEW s, FixedSlots(p, m, s), Narrows(p), window' = window
    PROVE  \E r : FixedSlots(p, m, r)'
<1>1. PICK f \in [Behind(p)' -> Behind(p)] :
        /\ \A i, j \in Behind(p)' : i < j => f[i] < f[j]
        /\ \A i \in Behind(p)' : Matches(p, i, f[i])
  BY DEF Narrows
<1>2. PICK r : r = [i \in Behind(p)' |-> s[f[i]]]
  OBVIOUS
<1>3. ASSUME NEW i \in Behind(p)'
      PROVE  f[i] \in Behind(p) /\ InWindow(i)' = InWindow(f[i]) /\ r[i] = s[f[i]]
  <2>1. f[i] \in Behind(p) /\ Item(i)'.time = Item(f[i]).time
    BY <1>1 DEF Matches
  <2> QED BY <1>2, <2>1 DEF InWindow
<1>4. ASSUME NEW i \in Behind(p)'
      PROVE  r[i] \in 1..MaxLogs /\ (r[i] <= window'.count \/ InWindow(i)' < m \div WindowSize)
  BY <1>3 DEF FixedSlots
<1>5. ASSUME NEW i \in Behind(p)', NEW j \in Behind(p)', i < j, InWindow(i)' = InWindow(j)'
      PROVE  r[i] /= r[j]
  BY <1>1, <1>3, <1>5 DEF FixedSlots
<1> QED BY <1>4, <1>5 DEF FixedSlots

\* Steps of others keep the state of the window.
LEMMA AwayFixed ==
    ASSUME CursorInv, CursorInv', InTime, Ordered, NEW p \in Nat, Unconditional(p), [Next]_vars,
           ~(Visit /\ unit = p), window' = window, FixedState(p)
    PROVE  FixedState(p)'
<1>1. PICK m, s, q : /\ q \in Nat /\ window.start = q * WindowSize
                     /\ Reached(p, m) /\ m < window.start + WindowSize
                     /\ Ahead(p, m) \/ FixedFull(p)
                     /\ FixedSlots(p, m, s)
  BY DEF FixedState
<1>2. /\ Narrows(p) /\ Reached(p, m)' /\ (Ahead(p, m) => Ahead(p, m)')
      /\ unit = p => Ahead(p, m)' \/ SameCursor
  BY <1>1, AwayReached
<1>3. Ahead(p, m)' \/ FixedFull(p)'
  BY <1>1, <1>2 DEF FixedFull, SameCursor
<1>4. Typed
  BY DEF CursorInv
<1>5. \E r : FixedSlots(p, m, r)'
  BY <1>1, <1>2, <1>4, NarrowsFixed
<1>6. window'.start = q * WindowSize /\ m < window'.start + WindowSize
  BY <1>1
<1> QED BY <1>1, <1>2, <1>3, <1>5, <1>6 DEF FixedState

\* A window that begins, or goes on, at a time.
Begun(t, c, w) ==
    /\ c \in Nat /\ c <= MaxLogs
    /\ \/ t < window.start + WindowSize /\ c = window.count /\ w = window.start
       \/ t >= window.start + WindowSize /\ c = 0 /\ w = (t \div WindowSize) * WindowSize

\* What the fixed window makes of a record.
LEMMA FixedResult ==
    ASSUME Typed, NEW t \in Nat, NEW keep, keep = flb_sampling_fixed_window(window, t).keep,
           window' = flb_sampling_fixed_window(window, t).window
    PROVE  \E c, w : /\ Begun(t, c, w) /\ (keep <=> c < MaxLogs) /\ window'.start = w
                     /\ keep => window'.count = c + 1
                     /\ ~keep => window'.count = c
<1>1. /\ window.start \in Nat /\ window.count \in Nat /\ window.count <= MaxLogs /\ MaxLogs \in Nat
      /\ WindowSize \in Nat
  BY SamplingAssumption DEF Typed, Window
<1> DEFINE starts == t >= window.start + WindowSize
           w == IF starts THEN (t \div WindowSize) * WindowSize ELSE window.start
           c == IF starts THEN 0 ELSE window.count
<1>2. /\ keep = (c < MaxLogs)
      /\ window' = [start |-> w, count |-> IF c < MaxLogs THEN c + 1 ELSE c]
  BY DEF flb_sampling_fixed_window
<1>3. Begun(t, c, w)
  BY <1>1 DEF Begun
<1> HIDE DEF c, w
<1>4. keep <=> c < MaxLogs
  BY <1>2
<1>5. window'.start = w /\ window'.count = IF c < MaxLogs THEN c + 1 ELSE c
  BY <1>2
<1>6. (keep => window'.count = c + 1) /\ (~keep => window'.count = c)
  BY <1>4, <1>5
<1> QED BY <1>3, <1>4, <1>5, <1>6

\* The unit visits a record in order.
LEMMA VisitFixedAhead ==
    ASSUME CursorInv, InTime, NEW p \in Nat, Unconditional(p), unit = p, NEW id \in Nat, NEW keep \in BOOLEAN,
           Moves(id, keep), Fixes(id, keep), NEW m, NEW s, NEW q \in Nat,
           window.start = q * WindowSize, Reached(p, m), m < window.start + WindowSize,
           Ahead(p, m), FixedSlots(p, m, s)
    PROVE  FixedState(p)'
<1> DEFINE S == WindowSize
<1>1. Typed /\ buffer' = buffer /\ unit' = p /\ S \in Nat /\ MaxLogs \in Nat
  BY SamplingAssumption DEF CursorInv, Fixes, Moves
<1>2. PICK t : t = buffer[id].time
  OBVIOUS
<1>3. /\ t \in Nat /\ m \in Nat /\ m <= t /\ Reached(p, t)'
      /\ \A i : Item(i)' = Item(i)
      /\ ~keep => Behind(p)' \subseteq Behind(p)
      /\ keep => \E k \in Nat : /\ Behind(p)' = Behind(p) \cup {k} /\ Item(k).time = t
                                /\ \A i \in Behind(p) : i < k
      /\ Ahead(p, t)' \/ (~keep /\ Wraps(id) /\ \A x \in records' : buffer[x].time <= t)
  BY <1>1, <1>2, VisitReached
<1>4. PICK c, w : /\ Begun(t, c, w) /\ (keep <=> c < MaxLogs) /\ window'.start = w
                  /\ keep => window'.count = c + 1
                  /\ ~keep => window'.count = c
  <2>1. /\ keep = flb_sampling_fixed_window(window, t).keep
        /\ window' = flb_sampling_fixed_window(window, t).window
    BY <1>2 DEF Fixes
  <2> QED BY <1>1, <1>3, <2>1, FixedResult
<1>5. PICK v \in Nat : v = t \div S
  BY <1>3, WholeWindows
<1>6. \E r \in Nat : w = r * S /\ t < w + S
  <2>1. CASE t < window.start + S /\ w = window.start
    BY <2>1
  <2>2. CASE w = v * S
    <3>1. t < v * S + S
      BY <1>3, <1>5, WindowOf
    <3> QED BY <2>2, <3>1
  <2> QED BY <1>4, <1>5, <2>1, <2>2 DEF Begun
<1>7. c \in Nat /\ c <= MaxLogs /\ m \div S <= v /\ m \div S \in Nat
  BY <1>3, <1>4, <1>5, LaterWindow DEF Begun
<1>8. ASSUME NEW i \in Behind(p)
      PROVE  s[i] \in 1..MaxLogs /\ InWindow(i) \in Nat /\ (s[i] <= c \/ InWindow(i) < v)
  <2>1. s[i] \in 1..MaxLogs /\ (s[i] <= window.count \/ InWindow(i) < m \div S)
    BY DEF FixedSlots
  <2>2. Item(i).time \in Nat /\ Item(i).time <= m
    BY <1>1, BehindFacts DEF Rec, Reached
  <2>3. InWindow(i) <= m \div S /\ InWindow(i) \in Nat
    BY <1>3, <2>2, LaterWindow DEF InWindow
  <2>4. CASE c = window.count
    BY <1>7, <2>1, <2>3, <2>4
  <2>5. CASE t >= window.start + S
    <3>1. m \div S <= q
      BY <1>3, WindowOf
    <3>2. ~(t < q * S + S) /\ q * S \in Nat
      BY <1>1, <1>3, <2>5, WindowOf
    <3>3. ~(v <= q)
      BY <1>3, <1>5, <3>2, WindowOf
    <3> QED BY <1>7, <2>1, <2>3, <3>1, <3>3
  <2> QED BY <1>4, <2>4, <2>5 DEF Begun
<1>9. \A i : InWindow(i)' = InWindow(i)
  BY <1>3 DEF InWindow
<1>10. \E r : FixedSlots(p, t, r)'
  <2>1. CASE keep
    <3>1. PICK k \in Nat : /\ Behind(p)' = Behind(p) \cup {k} /\ Item(k).time = t
                           /\ \A i \in Behind(p) : i < k
      BY <1>3, <2>1
    <3>2. PICK r : r = [i \in Behind(p) \cup {k} |-> IF i = k THEN c + 1 ELSE s[i]]
      OBVIOUS
    <3>3. k \notin Behind(p) /\ r[k] = c + 1 /\ \A i \in Behind(p) : r[i] = s[i]
      BY <3>1, <3>2
    <3>4. window'.count = c + 1 /\ c + 1 \in 1..MaxLogs /\ InWindow(k) = v
      BY <1>1, <1>4, <1>5, <1>7, <2>1, <3>1 DEF InWindow
    <3>5. ASSUME NEW i \in Behind(p)'
          PROVE  r[i] \in 1..MaxLogs /\ (r[i] <= window'.count \/ InWindow(i)' < v)
      <4>1. CASE i \in Behind(p)
        BY <1>7, <1>8, <1>9, <3>3, <3>4, <4>1
      <4>2. CASE i = k
        BY <1>7, <3>3, <3>4, <4>2
      <4> QED BY <3>1, <4>1, <4>2
    <3>6. ASSUME NEW i \in Behind(p)', NEW j \in Behind(p)', i < j, InWindow(i)' = InWindow(j)'
          PROVE  r[i] /= r[j]
      <4>1. i \in Behind(p)
        <5> SUFFICES ASSUME i = k PROVE FALSE
          BY <3>1
        <5>1. \A x \in Behind(p) : x \in Nat
          BY <1>1, BehindFacts
        <5> QED BY <3>1, <3>6, <5>1
      <4>2. CASE j \in Behind(p)
        BY <1>9, <3>3, <3>6, <4>1, <4>2 DEF FixedSlots
      <4>3. CASE j = k
        BY <1>7, <1>8, <1>9, <3>3, <3>4, <3>6, <4>1, <4>3
      <4> QED BY <3>1, <4>2, <4>3
    <3>7. FixedSlots(p, t, r)'
      BY <1>5, <3>5, <3>6 DEF FixedSlots
    <3> QED BY <3>7
  <2>2. CASE ~keep
    <3>1. Behind(p)' \subseteq Behind(p) /\ window'.count = c
      BY <1>3, <1>4, <2>2
    <3>2. FixedSlots(p, t, s)'
      BY <1>5, <1>8, <1>9, <3>1 DEF FixedSlots
    <3> QED BY <3>2
  <2> QED BY <2>1, <2>2
<1>11. Ahead(p, t)' \/ FixedFull(p)'
  <2> SUFFICES ASSUME ~keep, Wraps(id), \A x \in records' : buffer[x].time <= t PROVE FixedFull(p)'
    BY <1>3
  <2>1. window'.count = MaxLogs
    <3>1. window'.count = c /\ ~(c < MaxLogs)
      BY <1>4
    <3>2. MaxLogs \in Nat /\ c \in Nat /\ c <= MaxLogs
      BY <1>1, <1>7
    <3>3. c = MaxLogs
      BY ONLY <3>1, <3>2
    <3> QED BY ONLY <3>1, <3>3
  <2>2. offset' = Len(buffer') /\ \A x \in records' : x \in 1..Len(buffer)
    BY <1>1 DEF Wraps
  <2>3. w \in Nat /\ t < w + S
    BY <1>1, <1>6
  <2>4. ASSUME NEW x \in records' PROVE buffer'[x].time < window'.start + S
    <3>1. buffer[x] \in Rec
      BY <1>1, <2>2, ElementOfSeq DEF Typed
    <3>2. buffer[x].time \in Nat /\ buffer[x].time <= t
      BY <3>1 DEF Rec
    <3> QED BY <1>1, <1>3, <1>4, <2>3, <3>2
  <2> QED BY <1>1, <2>1, <2>2, <2>4 DEF FixedFull
<1>12. PICK r \in Nat : window'.start = r * S /\ t < window'.start + S
  BY <1>4, <1>6
<1> QED BY <1>3, <1>10, <1>11, <1>12 DEF FixedState

\* The unit visits a record again, and drops it.
LEMMA VisitFixedAgain ==
    ASSUME CursorInv, NEW p \in Nat, Unconditional(p), unit = p, NEW id \in Nat, NEW keep \in BOOLEAN,
           Moves(id, keep), Fixes(id, keep), NEW m, NEW s, NEW q \in Nat,
           window.start = q * WindowSize, Reached(p, m), m < window.start + WindowSize,
           FixedFull(p), FixedSlots(p, m, s)
    PROVE  FixedState(p)'
<1>1. /\ Typed /\ buffer' = buffer /\ unit' = p /\ WindowSize \in Nat /\ MaxLogs \in Nat /\ Typed'
      /\ out' = out /\ arrived' = arrived /\ offset = Len(buffer)
  BY MovesTyped, SamplingAssumption DEF CursorInv, Fixes, Moves, Visits, FixedFull
<1>2. id \in records /\ offset' = Len(buffer) /\ records' \subseteq records
  BY <1>1, SearchOnly
<1>3. PICK t : t = buffer[id].time
  OBVIOUS
<1>4. t \in Nat /\ t < window.start + WindowSize /\ window.count = MaxLogs
  <2>1. buffer[id] \in Rec
    BY <1>1, Found
  <2> QED BY <1>2, <1>3, <2>1 DEF Rec, FixedFull
<1>5. PICK c, w : /\ Begun(t, c, w) /\ (keep <=> c < MaxLogs) /\ window'.start = w
                  /\ keep => window'.count = c + 1
                  /\ ~keep => window'.count = c
  <2>1. /\ keep = flb_sampling_fixed_window(window, t).keep
        /\ window' = flb_sampling_fixed_window(window, t).window
    BY <1>3 DEF Fixes
  <2> QED BY <1>1, <1>4, <2>1, FixedResult
<1>6. ~keep /\ window'.start = window.start /\ window'.count = window.count
  <2>1. window.start \in Nat
    BY <1>1 DEF Typed, Window
  <2>2. c = window.count /\ w = window.start
    BY <1>1, <1>4, <1>5, <2>1 DEF Begun
  <2> QED BY <1>1, <1>4, <1>5, <2>2
<1>7. Past(p)' \subseteq Past(p)
  BY <1>1, <1>6, VisitedAt
<1>8. Narrows(p)
  BY <1>1, <1>7, StayNarrows
<1>9. Reached(p, m)'
  BY <1>1, <1>8, NarrowsReached
<1>10. FixedSlots(p, m, s)'
  <2>1. Behind(p)' \subseteq Behind(p)
    BY <1>1, <1>7 DEF Behind
  <2>2. \A i : InWindow(i)' = InWindow(i)
    BY <1>1 DEF InWindow, Item
  <2> QED BY <1>6, <2>1, <2>2 DEF FixedSlots
<1>11. FixedFull(p)'
  BY <1>1, <1>2, <1>6 DEF FixedFull
<1> QED BY <1>6, <1>9, <1>10, <1>11 DEF FixedState

\* A step that is not a visit of the log_sampling unit leaves its window alone.
LEMMA WindowStays ==
    ASSUME Typed, [Next]_vars, NEW p, At("fixed", p) \/ At("sliding", p), ~(Visit /\ unit = p)
    PROVE  window' = window /\ buckets' = buckets
<1>1. CASE Visit
  <2>1. PICK id \in Nat, keep \in BOOLEAN : Moves(id, keep) /\ Visits(id, keep)
    BY <1>1, VisitMoves
  <2>2. ~In("fixed") /\ ~In("sliding")
    BY <1>1, OneSampling
  <2> QED BY <2>1, <2>2 DEF Visits, Modifies, Queries, Remembers, Recognises, Fixes, Slides, Decays
<1>2. CASE UndefinedRead \/ UnitDone \/ RunFilter
  BY <1>2 DEF UndefinedRead, UnitDone, RunFilter, contexts
<1>3. CASE Tick \/ Compact \/ UNCHANGED vars
  BY <1>3, StillTyped
<1>4. CASE \E n \in 1..setting.MaxBatch : \E batch \in [1..n -> Inputs] : LogAppend(batch)
  BY <1>4 DEF LogAppend, contexts
<1> QED BY <1>1, <1>2, <1>3, <1>4 DEF Next, Run

\* The setting never changes.
LEMMA SettingStays ==
    ASSUME [Next]_vars
    PROVE  setting' = setting
BY DEF Next, Run, Visit, VisitModify, VisitSql, VisitDedup, VisitFixed, VisitSliding, VisitExponential,
       Settle, UndefinedRead, UnitDone, RunFilter, LogAppend, Tick, Compact, vars

FixedAt(p) == At("fixed", p) /\ Ordered /\ \A t \in setting.StartTimes : t % WindowSize = 0
FixedInv == \A p \in DOMAIN Chain : FixedAt(p) => InTime /\ FixedState(p)

\* Every step keeps a slot for each record behind a fixed window.
LEMMA FixedNext ==
    ASSUME CursorInv, CursorInv', FixedInv, [Next]_vars
    PROVE  FixedInv'
<1>1. Typed /\ Typed' /\ setting' = setting
  <2>1. setting' = setting
    BY SettingStays
  <2> QED BY <2>1 DEF CursorInv
<1>2. Chain' = Chain /\ \A p : FixedAt(p)' <=> FixedAt(p)
  BY <1>1, SameChain DEF FixedAt, At
<1>3. SUFFICES ASSUME NEW p \in DOMAIN Chain, FixedAt(p) PROVE InTime' /\ FixedState(p)'
  BY <1>2 DEF FixedInv
<1>4. /\ p \in Nat /\ Unconditional(p) /\ InTime /\ FixedState(p) /\ At("fixed", p) /\ Ordered
  BY <1>1, <1>3, SettingFacts DEF FixedInv, FixedAt, At, Unconditional, Typed
<1>5. CASE ~(Visit /\ unit = p)
  <2>1. window' = window
    BY <1>1, <1>4, <1>5, WindowStays
  <2>2. InTime'
    BY <1>4, <1>5, AwayReached
  <2> QED BY <1>4, <1>5, <2>1, <2>2, AwayFixed
<1>6. CASE Visit /\ unit = p
  <2>1. PICK id \in Nat, keep \in BOOLEAN : Moves(id, keep) /\ Visits(id, keep)
    BY <1>1, <1>6, VisitMoves
  <2>2. Fixes(id, keep)
    BY <1>4, <1>6, <2>1 DEF Visits, Modifies, Queries, Remembers, Recognises, Slides, Decays, In, At
  <2>3. InTime'
    BY <1>4, <2>1, <2>2 DEF InTime, Moves, Fixes
  <2>4. PICK m, s, q : /\ q \in Nat /\ window.start = q * WindowSize
                       /\ Reached(p, m) /\ m < window.start + WindowSize
                       /\ Ahead(p, m) \/ FixedFull(p)
                       /\ FixedSlots(p, m, s)
    BY <1>4 DEF FixedState
  <2>5. CASE Ahead(p, m)
    BY <1>4, <1>6, <2>1, <2>2, <2>3, <2>4, <2>5, VisitFixedAhead
  <2>6. CASE FixedFull(p)
    BY <1>4, <1>6, <2>1, <2>2, <2>3, <2>4, <2>6, VisitFixedAgain
  <2> QED BY <2>4, <2>5, <2>6
<1> QED BY <1>5, <1>6

\* A service that is started at the beginning of a window.
LEMMA FixedInit ==
    ASSUME Init
    PROVE  FixedInv
<1> SUFFICES ASSUME NEW p \in DOMAIN Chain, FixedAt(p) PROVE InTime /\ FixedState(p)
  BY DEF FixedInv
<1>1. Behind(p) = {} /\ Pending(p) = {} /\ Typed
  BY InitBehind, InitTyped
<1>2. InTime
  BY DEF InTime, Init
<1>3. clock % WindowSize = 0 /\ clock \in Nat /\ window.start = clock
  BY <1>1 DEF Init, FixedAt, Typed, NewWindow
<1>4. PICK S \in Nat : S = WindowSize /\ S > 0
  BY SamplingAssumption
<1>5. PICK q \in Nat : clock = q * WindowSize
  <2>1. PICK c \in Nat : c = clock /\ c % S = 0
    BY <1>3, <1>4
  <2>2. PICK v \in Nat : v = c \div S
    BY <1>4
  <2>3. c = v * S + (c % S)
    BY <1>4, <2>2
  <2>4. c = v * S
    BY <1>4, <2>1, <2>3
  <2> QED BY <1>4, <2>1, <2>4
<1>6. Reached(p, 0) /\ Ahead(p, 0) /\ FixedSlots(p, 0, <<>>)
  BY <1>1 DEF Reached, Ahead, FixedSlots
<1>7. 0 < window.start + WindowSize
  BY <1>3, <1>4
<1>8. FixedState(p)
  BY <1>3, <1>5, <1>6, <1>7 DEF FixedState
<1> QED BY <1>2, <1>8

\* No two records that went on in a window have the same slot.
LEMMA FixedHolds ==
    ASSUME CursorInv, FixedInv
    PROVE  FixedBound
<1> SUFFICES ASSUME Has("fixed"), Ordered, \A t \in setting.StartTimes : t % WindowSize = 0, NEW t \in Seconds
             PROVE  Kept(FixedWindow(t)) <= MaxLogs
  BY DEF FixedBound
<1>1. PICK p \in DOMAIN Chain : Chain[p].kind = "fixed" /\ ~Chain[p].condition
  BY DEF Has
<1>2. FixedAt(p)
  BY <1>1 DEF FixedAt, At
<1>3. PICK m, s : FixedSlots(p, m, s)
  BY <1>2 DEF FixedInv, FixedState
<1>4. out \in Seq(Rec) /\ Len(out) \in Nat /\ DOMAIN out = 1..Len(out) /\ MaxLogs \in Nat
  BY SamplingAssumption DEF CursorInv, Typed
<1> DEFINE K == {i \in DOMAIN out : out[i].time \in FixedWindow(t)}
           L == 1..MaxLogs
           f == [i \in K |-> s[i]]
<1>5. ASSUME NEW i \in K
      PROVE  /\ i \in Nat /\ i \in Behind(p) /\ InWindow(i) = t \div WindowSize /\ f[i] = s[i] /\ f[i] \in L
  <2>1. i \in 1..Len(out) /\ i \in Behind(p) /\ Item(i) = out[i]
    BY <1>4 DEF Behind, Item
  <2>2. InWindow(i) = t \div WindowSize
    BY <2>1 DEF InWindow, FixedWindow
  <2> QED BY <1>3, <1>4, <2>1, <2>2 DEF FixedSlots
<1>6. ASSUME NEW i \in K, NEW j \in K, i < j PROVE f[i] /= f[j]
  BY <1>3, <1>5, <1>6 DEF FixedSlots
<1>7. \A i \in K : i \in Nat /\ f[i] \in L
  BY <1>5
<1>8. f \in [K -> L]
  BY <1>7
<1> HIDE DEF f, K
<1>9. \A i, j \in K : f[i] = f[j] => i = j
  BY <1>6, <1>7
<1>10. IsFiniteSet(L) /\ Cardinality(L) = IF 1 > MaxLogs THEN 0 ELSE MaxLogs - 1 + 1
  BY <1>4, FS_Interval
<1>11. Cardinality(L) = MaxLogs
  BY <1>4, <1>10
<1> HIDE DEF L
<1>12. f \in Injection(K, L)
  BY <1>8, <1>9 DEF Injection, IsInjective
<1>13. IsFiniteSet(K) /\ Cardinality(K) <= Cardinality(L)
  BY <1>10, <1>12, FS_Injection
<1> QED BY <1>11, <1>13 DEF Kept, K

(***************************************************************************)
(* Sliding windows: a slot in the bucket of its second for each record     *)
(* behind the unit that is not older than a window.                        *)
(***************************************************************************)
Index(i) == Item(i).time % WindowSize
Since(p, m) == {i \in Behind(p) : m - WindowSize < Item(i).time}
Within(p, u) == {i \in Behind(p) : u - WindowSize < Item(i).time /\ Item(i).time <= u}
SlotsIn(X, b, s) ==
    /\ \A i \in X : /\ Index(i) \in Buckets /\ s[i] \in 1..b[Index(i)].count
                    /\ b[Index(i)].timestamp >= Item(i).time
    /\ \A i, j \in X : i < j /\ Index(i) = Index(j) => s[i] /= s[j]
SlidingSlots(p, m, s) == SlotsIn(Since(p, m), buckets, s)
Windows(p) == \A u \in Nat : Cardinality(Within(p, u)) <= MaxLogs
\* The unit begins again: it will drop all records that are left.
SlidingFull(p) == /\ unit = p /\ offset = Len(buffer) /\ total_in_window(buckets) >= MaxLogs
                  /\ \A x \in records : Cleared(buckets, buffer[x].time) = buckets
SlidingState(p) ==
    /\ Windows(p)
    /\ \E m, s : /\ Reached(p, m) /\ SlidingSlots(p, m, s)
                 /\ Ahead(p, m) \/ SlidingFull(p)

\* A set of numbers with a value of a finite set for each of them.
Separates(f, A, B) ==
    /\ A \subseteq Nat /\ IsFiniteSet(B) /\ f \in [A -> B]
    /\ \A i, j \in A : i < j => f[i] /= f[j]

\* Numbers that have values of their own are no more than the values.
LEMMA Injects ==
    ASSUME NEW A, NEW B, NEW f, Separates(f, A, B)
    PROVE  /\ IsFiniteSet(A) /\ Cardinality(A) <= Cardinality(B)
           /\ Cardinality(A) \in Nat /\ Cardinality(B) \in Nat
<1>1. \A i, j \in A : f[i] = f[j] => i = j
  BY DEF Separates
<1>2. f \in Injection(A, B) /\ IsFiniteSet(B)
  BY <1>1 DEF Injection, IsInjective, Separates
<1>3. IsFiniteSet(A) /\ Cardinality(A) <= Cardinality(B)
  BY <1>2, FS_Injection
<1> QED BY <1>2, <1>3, FS_CardinalityType

\* Records with slots are no more than the buckets count.
LEMMA SlotsCounted ==
    ASSUME NEW b \in [Buckets -> Bucket], NEW X, X \subseteq Nat, NEW s, SlotsIn(X, b, s)
    PROVE  /\ IsFiniteSet(X) /\ Cardinality(X) <= total_in_window(b)
           /\ Cardinality(X) \in Nat /\ total_in_window(b) \in Nat
<1> DEFINE C == Counted(b, WindowSize)
           f == [i \in X |-> <<Index(i), s[i]>>]
<1>1. total_in_window(b) = Cardinality(C) /\ IsFiniteSet(C)
  BY TotalCounts
<1>2. ASSUME NEW i \in X PROVE <<Index(i), s[i]>> \in C
  <2>1. PICK k, z : k = Index(i) /\ z = s[i]
    OBVIOUS
  <2>2. k \in Buckets /\ z \in 1..b[k].count
    BY <2>1 DEF SlotsIn
  <2> DEFINE Z == 1..b[k].count
             Y == {k}
  <2>3. <<k, z>> \in Y \X Z
    <3> HIDE DEF Z
    <3>1. z \in Z /\ k \in Y
      BY <2>2 DEF Z
    <3> QED BY <3>1
  <2>4. Y \X Z \subseteq C
    <3>1. k \in 0..(WindowSize - 1)
      BY <2>2 DEF Buckets
    <3>2. Y \X Z \in {{j} \X (1..b[j].count) : j \in 0..(WindowSize - 1)}
      BY <3>1
    <3> QED BY <3>2 DEF Counted
  <2> HIDE DEF Y, Z, C
  <2>5. <<k, z>> \in C
    BY <2>3, <2>4
  <2> QED BY <2>1, <2>5
<1>3. f \in [X -> C]
  <2> HIDE DEF C
  <2> QED BY <1>2
<1>4. ASSUME NEW i \in X, NEW j \in X, i < j PROVE f[i] /= f[j]
  <2>1. f[i] = <<Index(i), s[i]>> /\ f[j] = <<Index(j), s[j]>>
    OBVIOUS
  <2> HIDE DEF f
  <2>2. Index(i) = Index(j) => s[i] /= s[j]
    BY <1>4 DEF SlotsIn
  <2> QED BY <2>1, <2>2
<1> HIDE DEF f, C
<1>5. \A i, j \in X : i < j => f[i] /= f[j]
  BY <1>4
<1>6. /\ IsFiniteSet(X) /\ Cardinality(X) <= Cardinality(C)
      /\ Cardinality(X) \in Nat /\ Cardinality(C) \in Nat
  <2>1. Separates(f, X, C)
    BY <1>1, <1>3, <1>5 DEF Separates
  <2> QED BY <2>1, Injects
<1> QED BY <1>1, <1>6

\* What is cleared at a time has no slot that counts.
LEMMA SlotsCleared ==
    ASSUME Typed, NEW p, NEW m \in Nat, NEW t \in Nat, m <= t, NEW s, SlidingSlots(p, m, s)
    PROVE  SlotsIn(Since(p, t), Cleared(buckets, t), s)
<1> DEFINE c == Cleared(buckets, t)
<1>1. buckets \in [Buckets -> Bucket] /\ WindowSize \in Nat
  BY SamplingAssumption DEF Typed
<1>2. \A i \in Buckets : c[i] = IF Expired(buckets[i], t) THEN NoBucket ELSE buckets[i]
  BY <1>1, ClearedTyped
<1> HIDE DEF c
<1>3. ASSUME NEW i \in Since(p, t)
      PROVE  i \in Since(p, m) /\ Index(i) \in Buckets /\ c[Index(i)] = buckets[Index(i)]
  <2>1. i \in Behind(p) /\ t - WindowSize < Item(i).time /\ Item(i).time \in Nat
    BY <1>3, BehindFacts DEF Since, Rec
  <2>2. m - WindowSize < Item(i).time
    BY <1>1, <2>1
  <2>3. i \in Since(p, m)
    BY <2>1, <2>2 DEF Since
  <2>4. Index(i) \in Buckets /\ buckets[Index(i)].timestamp >= Item(i).time
    BY <2>3 DEF SlidingSlots, SlotsIn
  <2>5. buckets[Index(i)].timestamp \in Nat
    <3>1. buckets[Index(i)] \in Bucket
      BY <1>1, <2>4
    <3> QED BY <3>1 DEF Bucket
  <2>6. ~Expired(buckets[Index(i)], t)
    BY <1>1, <2>1, <2>4, <2>5 DEF Expired
  <2> QED BY <1>2, <2>3, <2>4, <2>6
<1>4. SlotsIn(Since(p, t), c, s)
  <2>1. \A i \in Since(p, t) : /\ Index(i) \in Buckets /\ s[i] \in 1..c[Index(i)].count
                               /\ c[Index(i)].timestamp >= Item(i).time
    BY <1>3 DEF SlidingSlots, SlotsIn
  <2>2. \A i, j \in Since(p, t) : i < j /\ Index(i) = Index(j) => s[i] /= s[j]
    BY <1>3 DEF SlidingSlots, SlotsIn
  <2> QED BY <2>1, <2>2 DEF SlotsIn
<1> QED BY <1>4 DEF c

\* Nothing is left to clear at an earlier time.
LEMMA ClearedBefore ==
    ASSUME NEW b \in [Buckets -> Bucket], NEW t \in Nat, NEW e \in Nat, e <= t
    PROVE  Cleared(Cleared(b, t), e) = Cleared(b, t)
<1> DEFINE c == Cleared(b, t)
<1>1. c \in [Buckets -> Bucket] /\ WindowSize \in Nat
  BY ClearedTyped, SamplingAssumption
<1>2. \A i \in Buckets : c[i] = IF Expired(b[i], t) THEN NoBucket ELSE b[i]
  BY ClearedTyped
<1> HIDE DEF c
<1>3. ASSUME NEW i \in Buckets PROVE (IF Expired(c[i], e) THEN NoBucket ELSE c[i]) = c[i]
  <2>1. CASE c[i] = NoBucket
    BY <2>1
  <2>2. CASE c[i] /= NoBucket
    <3>1. c[i] = b[i] /\ ~Expired(b[i], t)
      BY <1>2, <2>2
    <3>2. b[i].timestamp \in Nat
      <4>1. b[i] \in Bucket
        OBVIOUS
      <4> QED BY <4>1 DEF Bucket
    <3>3. ~Expired(b[i], e)
      BY <1>1, <3>1, <3>2 DEF Expired
    <3> QED BY <3>1, <3>3
  <2> QED BY <2>1, <2>2
<1>4. Cleared(c, e) = [i \in Buckets |-> c[i]]
  BY <1>3 DEF Cleared
<1>5. Cleared(c, e) = c
  BY <1>1, <1>4
<1> QED BY <1>5 DEF c

\* There are finitely many records behind a unit.
LEMMA FiniteBehind ==
    ASSUME Typed, NEW p
    PROVE  /\ Behind(p) \subseteq Nat
           /\ \A X : X \subseteq Behind(p) => IsFiniteSet(X) /\ Cardinality(X) \in Nat
<1>1. PICK n \in Nat : n = Len(out) + Len(buffer)
  BY BehindFacts
<1>2. Behind(p) \subseteq 1..n
  BY <1>1, BehindFacts
<1>3. IsFiniteSet(1..n)
  BY FS_Interval
<1>4. \A X : X \subseteq Behind(p) => IsFiniteSet(X)
  BY <1>2, <1>3, FS_Subset
<1> QED BY <1>2, <1>4, FS_CardinalityType

\* No record comes to those behind the unit: the slots stay.
LEMMA NarrowsSlots ==
    ASSUME NEW p, NEW m, NEW s, SlidingSlots(p, m, s), Narrows(p), buckets' = buckets
    PROVE  \E r : SlidingSlots(p, m, r)'
<1>1. PICK f \in [Behind(p)' -> Behind(p)] :
        /\ \A i, j \in Behind(p)' : i < j => f[i] < f[j]
        /\ \A i \in Behind(p)' : Matches(p, i, f[i])
  BY DEF Narrows
<1>2. PICK r : r = [i \in Behind(p)' |-> s[f[i]]]
  OBVIOUS
<1>3. ASSUME NEW i \in Since(p, m)'
      PROVE  /\ i \in Behind(p)' /\ f[i] \in Since(p, m) /\ Index(i)' = Index(f[i]) /\ r[i] = s[f[i]]
             /\ Item(i)'.time = Item(f[i]).time
  <2>1. i \in Behind(p)' /\ m - WindowSize < Item(i)'.time
    BY <1>3 DEF Since
  <2>2. f[i] \in Behind(p) /\ Item(i)'.time = Item(f[i]).time
    BY <1>1, <2>1 DEF Matches
  <2> QED BY <1>2, <2>1, <2>2 DEF Since, Index
<1>4. \A i \in Since(p, m)' : /\ Index(i)' \in Buckets /\ r[i] \in 1..buckets'[Index(i)'].count
                              /\ buckets'[Index(i)'].timestamp >= Item(i)'.time
  BY <1>3 DEF SlidingSlots, SlotsIn
<1>5. ASSUME NEW i \in Since(p, m)', NEW j \in Since(p, m)', i < j, Index(i)' = Index(j)'
      PROVE  r[i] /= r[j]
  BY <1>1, <1>3, <1>5 DEF SlidingSlots, SlotsIn
<1>6. SlidingSlots(p, m, r)'
  BY <1>4, <1>5 DEF SlidingSlots, SlotsIn
<1> QED BY <1>6

\* Nor does a window get another record.
LEMMA NarrowsWindows ==
    ASSUME Typed, Typed', NEW p, Windows(p), Narrows(p)
    PROVE  Windows(p)'
<1>1. PICK f \in [Behind(p)' -> Behind(p)] :
        /\ \A i, j \in Behind(p)' : i < j => f[i] < f[j]
        /\ \A i \in Behind(p)' : Matches(p, i, f[i])
  BY DEF Narrows
<1> SUFFICES ASSUME NEW u \in Nat PROVE Cardinality(Within(p, u)') <= MaxLogs
  BY DEF Windows
<1> DEFINE A == Within(p, u)'
           B == Within(p, u)
           g == [i \in A |-> f[i]]
<1>2. A \subseteq Behind(p)' /\ B \subseteq Behind(p)
  BY DEF Within
<1>3. IsFiniteSet(B) /\ Cardinality(B) \in Nat /\ Behind(p) \subseteq Nat
  BY <1>2, FiniteBehind
<1>4. Behind(p)' \subseteq Nat
  <2>1. /\ Len(out') \in Nat /\ Len(buffer') \in Nat /\ offset' \in Nat /\ records' \subseteq 1..offset'
    BY DEF Typed
  <2>2. Past(p)' \subseteq Nat
    <3>1. records' \subseteq Nat /\ Undecoded' \subseteq Nat
      BY <2>1 DEF Undecoded
    <3> QED BY <3>1 DEF Past
  <2>3. 1..Len(out') \subseteq Nat /\ \A x \in Past(p)' : Len(out') + x \in Nat
    BY <2>1, <2>2
  <2> QED BY <2>3 DEF Behind
<1>5. ASSUME NEW i \in A PROVE f[i] \in B
  <2>1. i \in Behind(p)' /\ u - WindowSize < Item(i)'.time /\ Item(i)'.time <= u
    BY <1>5 DEF Within
  <2>2. f[i] \in Behind(p) /\ Item(i)'.time = Item(f[i]).time
    BY <1>1, <2>1 DEF Matches
  <2> QED BY <2>1, <2>2 DEF Within
<1> HIDE DEF A, B
<1>6. g \in [A -> B]
  BY <1>5
<1>7. \A i, j \in A : i < j => g[i] /= g[j]
  <2> SUFFICES ASSUME NEW i \in A, NEW j \in A, i < j PROVE f[i] /= f[j]
    OBVIOUS
  <2>1. f[i] \in Nat /\ f[j] \in Nat /\ f[i] < f[j]
    BY <1>1, <1>2, <1>3
  <2> QED BY <2>1
<1>8. A \subseteq Nat
  BY <1>2, <1>4
<1> HIDE DEF g
<1>9. Cardinality(A) <= Cardinality(B) /\ Cardinality(A) \in Nat
  <2>1. Separates(g, A, B)
    BY <1>3, <1>6, <1>7, <1>8 DEF Separates
  <2> QED BY <2>1, Injects
<1>10. Cardinality(B) <= MaxLogs /\ MaxLogs \in Nat
  BY SamplingAssumption DEF Windows, B
<1>11. Cardinality(A) <= MaxLogs
  BY <1>3, <1>9, <1>10
<1> QED BY <1>11 DEF A

\* Steps of others keep the state of the buckets.
LEMMA AwaySliding ==
    ASSUME CursorInv, CursorInv', InTime, Ordered, NEW p \in Nat, Unconditional(p), [Next]_vars,
           ~(Visit /\ unit = p), buckets' = buckets, SlidingState(p)
    PROVE  SlidingState(p)'
<1>1. PICK m, s : /\ Reached(p, m) /\ SlidingSlots(p, m, s)
                  /\ Ahead(p, m) \/ SlidingFull(p)
  BY DEF SlidingState
<1>2. /\ Narrows(p) /\ Reached(p, m)' /\ (Ahead(p, m) => Ahead(p, m)')
      /\ unit = p => Ahead(p, m)' \/ SameCursor
  BY <1>1, AwayReached
<1>3. Ahead(p, m)' \/ SlidingFull(p)'
  BY <1>1, <1>2 DEF SlidingFull, SameCursor
<1>4. PICK r : SlidingSlots(p, m, r)'
  BY <1>1, <1>2, NarrowsSlots
<1>5. Windows(p)'
  BY <1>2, NarrowsWindows DEF SlidingState, CursorInv
<1> QED BY <1>2, <1>3, <1>4, <1>5 DEF SlidingState

\* What the sliding window makes of a record, with the buckets c left after clearing.
Slid(t, keep, c) ==
    /\ c \in [Buckets -> Bucket] /\ (keep <=> total_in_window(c) < MaxLogs)
    /\ ~keep => buckets' = c
    /\ keep => /\ buckets'[t % WindowSize].timestamp = t
               /\ buckets'[t % WindowSize].count = c[t % WindowSize].count + 1
               /\ \A i \in Buckets : i /= t % WindowSize => buckets'[i] = c[i]

\* flb_sampling_sliding_window clears the buckets and then decides by what they count.
LEMMA SlidingResult ==
    ASSUME Typed, NEW t \in Nat, NEW keep, keep = flb_sampling_sliding_window(buckets, t).keep,
           buckets' = flb_sampling_sliding_window(buckets, t).buckets
    PROVE  \E c : c = Cleared(buckets, t) /\ Slid(t, keep, c)
<1>1. PICK c : c = Cleared(buckets, t)
  OBVIOUS
<1>2. PICK i : i = t % WindowSize
  OBVIOUS
<1>3. c \in [Buckets -> Bucket] /\ i \in Buckets
  BY <1>1, <1>2, ClearedTyped, WholeWindows DEF Typed
<1> DEFINE new == [timestamp |-> t, count |-> c[i].count + 1]
<1>4. keep = (total_in_window(c) < MaxLogs)
  BY <1>1 DEF flb_sampling_sliding_window
<1>5. buckets' = IF total_in_window(c) < MaxLogs THEN [c EXCEPT ![i] = new] ELSE c
  BY <1>1, <1>2 DEF flb_sampling_sliding_window
<1>6. keep <=> total_in_window(c) < MaxLogs
  BY <1>4
<1>7. new.timestamp = t /\ new.count = c[i].count + 1
  OBVIOUS
<1> HIDE DEF new
<1>8. ASSUME keep
      PROVE  buckets'[i] = new /\ \A j \in Buckets : j /= i => buckets'[j] = c[j]
  BY <1>3, <1>5, <1>6, <1>8
<1>9. ~keep => buckets' = c
  BY <1>5, <1>6
<1>10. Slid(t, keep, c)
  BY <1>2, <1>3, <1>6, <1>7, <1>8, <1>9 DEF Slid
<1> QED BY <1>1, <1>10

\* A record that is dropped leaves the slots of the others.
LEMMA DropsSlots ==
    ASSUME NEW p, NEW t, NEW c, NEW s, SlotsIn(Since(p, t), c, s), buckets' = c,
           Behind(p)' \subseteq Behind(p), \A i : Item(i)' = Item(i)
    PROVE  SlidingSlots(p, t, s)'
<1>1. Since(p, t)' \subseteq Since(p, t)
  BY DEF Since
<1>2. \A i : Index(i)' = Index(i)
  BY DEF Index
<1>3. \A i \in Since(p, t)' : /\ Index(i)' \in Buckets /\ s[i] \in 1..buckets'[Index(i)'].count
                              /\ buckets'[Index(i)'].timestamp >= Item(i)'.time
  BY <1>1, <1>2 DEF SlotsIn
<1>4. \A i, j \in Since(p, t)' : i < j /\ Index(i)' = Index(j)' => s[i] /= s[j]
  BY <1>1, <1>2 DEF SlotsIn
<1> QED BY <1>3, <1>4 DEF SlidingSlots, SlotsIn

\* A record that is let pass gets the next slot of the bucket of its second.
LEMMA KeepsSlots ==
    ASSUME Typed, NEW p, NEW t \in Nat, NEW c, NEW s, SlotsIn(Since(p, t), c, s), Slid(t, TRUE, c),
           NEW k \in Nat, Behind(p)' = Behind(p) \cup {k}, Item(k).time = t,
           \A i \in Behind(p) : i < k, \A i : Item(i)' = Item(i),
           \A i \in Behind(p) : Item(i).time <= t
    PROVE  \E r : SlidingSlots(p, t, r)'
<1>1. PICK x : x = t % WindowSize
  OBVIOUS
<1>2. /\ x \in Buckets /\ c \in [Buckets -> Bucket] /\ buckets'[x].timestamp = t
      /\ buckets'[x].count = c[x].count + 1
      /\ \A i \in Buckets : i /= x => buckets'[i] = c[i]
  BY <1>1, WholeWindows DEF Slid
<1>3. c[x].count \in Nat
  <2>1. c[x] \in Bucket
    BY <1>2
  <2> QED BY <2>1, SamplingAssumption DEF Bucket
<1>4. Behind(p) \subseteq Nat
  BY FiniteBehind
<1>5. PICK r : r = [i \in Behind(p) \cup {k} |-> IF i = k THEN c[x].count + 1 ELSE s[i]]
  OBVIOUS
<1>6. k \notin Behind(p) /\ r[k] = c[x].count + 1 /\ \A i \in Behind(p) : r[i] = s[i]
  BY <1>4, <1>5
<1>7. Index(k) = x /\ \A i : Index(i)' = Index(i)
  BY <1>1 DEF Index
<1>8. ASSUME NEW i \in Since(p, t)'
      PROVE  i = k \/ (i \in Since(p, t) /\ i \in Behind(p))
  BY <1>8 DEF Since
<1>9. ASSUME NEW i \in Since(p, t)'
      PROVE  /\ Index(i) \in Buckets /\ r[i] \in 1..buckets'[Index(i)].count
             /\ buckets'[Index(i)].timestamp >= Item(i).time
  <2>1. CASE i = k
    BY <1>2, <1>3, <1>6, <1>7, <2>1
  <2>2. CASE i \in Since(p, t) /\ i \in Behind(p)
    <3>1. /\ Index(i) \in Buckets /\ r[i] \in 1..c[Index(i)].count
          /\ c[Index(i)].timestamp >= Item(i).time
      BY <1>6, <2>2 DEF SlotsIn
    <3>2. CASE Index(i) = x
      <4>1. r[i] \in 1..(c[x].count + 1)
        BY <1>3, <3>1, <3>2
      <4>2. t >= Item(i).time
        <5>1. Item(i).time \in Nat
          BY <2>2, BehindFacts DEF Rec
        <5> QED BY <2>2, <5>1
      <4> QED BY <1>2, <3>1, <3>2, <4>1, <4>2
    <3>3. CASE Index(i) /= x
      BY <1>2, <3>1, <3>3
    <3> QED BY <3>2, <3>3
  <2> QED BY <1>8, <2>1, <2>2
<1>10. ASSUME NEW i \in Since(p, t)', NEW j \in Since(p, t)', i < j, Index(i) = Index(j)
       PROVE  r[i] /= r[j]
  <2>1. i \in Since(p, t) /\ i \in Behind(p)
    <3> SUFFICES ASSUME i = k PROVE FALSE
      BY <1>8
    <3>1. j = k \/ j \in Behind(p)
      BY <1>8
    <3>2. j = k \/ (j < k /\ j \in Nat)
      BY <1>4, <3>1
    <3> QED BY <1>10, <3>2
  <2>2. CASE j = k
    <3>1. r[i] \in 1..c[x].count
      BY <1>6, <1>7, <1>10, <2>1, <2>2 DEF SlotsIn
    <3> QED BY <1>3, <1>6, <2>2, <3>1
  <2>3. CASE j \in Since(p, t) /\ j \in Behind(p)
    BY <1>6, <1>10, <2>1, <2>3 DEF SlotsIn
  <2> QED BY <1>8, <2>2, <2>3
<1>11. SlidingSlots(p, t, r)'
  <2>1. \A i \in Since(p, t)' : /\ Index(i)' \in Buckets /\ r[i] \in 1..buckets'[Index(i)'].count
                                /\ buckets'[Index(i)'].timestamp >= Item(i)'.time
    BY <1>7, <1>9
  <2>2. \A i, j \in Since(p, t)' : i < j /\ Index(i)' = Index(j)' => r[i] /= r[j]
    BY <1>7, <1>10
  <2> QED BY <2>1, <2>2 DEF SlidingSlots, SlotsIn
<1> QED BY <1>11

\* The windows that end before the record do not count it; in the others there are
\* no more records than the buckets count, and it.
LEMMA KeepsWindows ==
    ASSUME Typed, NEW p, Windows(p), NEW t \in Nat, NEW c, NEW s, SlotsIn(Since(p, t), c, s),
           c \in [Buckets -> Bucket], total_in_window(c) < MaxLogs,
           NEW k, Behind(p)' = Behind(p) \cup {k}, Item(k).time = t, \A i : Item(i)' = Item(i)
    PROVE  Windows(p)'
<1>1. MaxLogs \in Nat /\ WindowSize \in Nat
  BY SamplingAssumption
<1>2. Behind(p) \subseteq Nat /\ Since(p, t) \subseteq Behind(p)
  BY FiniteBehind DEF Since
<1>3. /\ IsFiniteSet(Since(p, t)) /\ Cardinality(Since(p, t)) <= total_in_window(c)
      /\ Cardinality(Since(p, t)) \in Nat /\ total_in_window(c) \in Nat
  BY <1>2, SlotsCounted
<1>4. SUFFICES ASSUME NEW u \in Nat PROVE Cardinality(Within(p, u)') <= MaxLogs
  BY DEF Windows
<1> DEFINE A == Within(p, u)'
           B == Within(p, u)
           C == Since(p, t)
<1>5. CASE u < t
  <2>1. A \subseteq B
    BY <1>5 DEF Within
  <2>2. IsFiniteSet(B) /\ Cardinality(B) <= MaxLogs
    BY FiniteBehind DEF Within, Windows
  <2>3. Cardinality(A) <= Cardinality(B) /\ Cardinality(A) \in Nat /\ Cardinality(B) \in Nat
    BY <2>1, <2>2, FS_Subset, FS_CardinalityType
  <2> HIDE DEF A, B
  <2>4. Cardinality(A) <= MaxLogs
    BY <1>1, <2>2, <2>3
  <2> QED BY <2>4 DEF A
<1>6. CASE t <= u
  <2>1. A \subseteq C \cup {k}
    <3> SUFFICES ASSUME NEW i \in A, i /= k PROVE i \in C
      OBVIOUS
    <3>1. i \in Behind(p) /\ u - WindowSize < Item(i).time
      BY DEF Within
    <3>2. Item(i).time \in Nat
      BY <3>1, BehindFacts DEF Rec
    <3>3. t - WindowSize < Item(i).time
      BY <1>1, <1>6, <3>1, <3>2
    <3> QED BY <3>1, <3>3 DEF Since
  <2> HIDE DEF A, C
  <2>2. IsFiniteSet(C \cup {k}) /\ Cardinality(C \cup {k}) <= Cardinality(C) + 1
    <3>1. IsFiniteSet(C) /\ Cardinality(C) \in Nat
      BY <1>3 DEF C
    <3>2. PICK n \in Nat : n = Cardinality(C)
      BY <3>1
    <3>3. IsFiniteSet(C \cup {k}) /\ Cardinality(C \cup {k}) = IF k \in C THEN n ELSE n + 1
      BY <3>1, <3>2, FS_AddElement
    <3> QED BY <3>2, <3>3
  <2>3. /\ Cardinality(A) <= Cardinality(C \cup {k}) /\ Cardinality(A) \in Nat
        /\ Cardinality(C \cup {k}) \in Nat
    BY <2>1, <2>2, FS_Subset, FS_CardinalityType
  <2>4. Cardinality(C) \in Nat /\ Cardinality(C) + 1 <= MaxLogs
    BY <1>1, <1>3 DEF C
  <2>5. Cardinality(A) <= MaxLogs
    BY <1>1, <2>2, <2>3, <2>4
  <2> QED BY <2>5 DEF A
<1> QED BY <1>5, <1>6

\* The unit visits a record in order.
LEMMA VisitSlidingAhead ==
    ASSUME CursorInv, InTime, NEW p \in Nat, Unconditional(p), unit = p, NEW id \in Nat, NEW keep \in BOOLEAN,
           Moves(id, keep), Slides(id, keep), NEW m, NEW s, Reached(p, m),
           Ahead(p, m), SlidingSlots(p, m, s), Windows(p)
    PROVE  SlidingState(p)'
<1>1. Typed /\ buffer' = buffer /\ unit' = p /\ MaxLogs \in Nat
  BY SamplingAssumption DEF CursorInv, Slides, Moves
<1>2. PICK t : t = buffer[id].time
  OBVIOUS
<1>3. /\ t \in Nat /\ m \in Nat /\ m <= t /\ Reached(p, t)'
      /\ \A i : Item(i)' = Item(i)
      /\ ~keep => Behind(p)' \subseteq Behind(p)
      /\ keep => \E k \in Nat : /\ Behind(p)' = Behind(p) \cup {k} /\ Item(k).time = t
                                /\ \A i \in Behind(p) : i < k
      /\ Ahead(p, t)' \/ (~keep /\ Wraps(id) /\ \A x \in records' : buffer[x].time <= t)
  BY <1>1, <1>2, VisitReached
<1>4. PICK c : c = Cleared(buckets, t) /\ Slid(t, keep, c)
  <2>1. /\ keep = flb_sampling_sliding_window(buckets, t).keep
        /\ buckets' = flb_sampling_sliding_window(buckets, t).buckets
    BY <1>2 DEF Slides
  <2> QED BY <1>1, <1>3, <2>1, SlidingResult
<1>5. SlotsIn(Since(p, t), c, s)
  BY <1>1, <1>3, <1>4, SlotsCleared
<1>6. c \in [Buckets -> Bucket] /\ (keep <=> total_in_window(c) < MaxLogs)
  BY <1>4 DEF Slid
<1>7. CASE ~keep
  <2>1. buckets' = c /\ Behind(p)' \subseteq Behind(p)
    BY <1>3, <1>4, <1>7 DEF Slid
  <2>2. SlidingSlots(p, t, s)'
    BY <1>3, <1>5, <2>1, DropsSlots
  <2>3. Windows(p)'
    <3> SUFFICES ASSUME NEW u \in Nat PROVE Cardinality(Within(p, u)') <= MaxLogs
      BY DEF Windows
    <3> DEFINE A == Within(p, u)'
               B == Within(p, u)
    <3>1. A \subseteq B
      BY <1>3, <2>1 DEF Within
    <3>2. IsFiniteSet(B) /\ Cardinality(B) <= MaxLogs
      BY <1>1, FiniteBehind DEF Within, Windows
    <3>3. Cardinality(A) <= Cardinality(B) /\ Cardinality(A) \in Nat /\ Cardinality(B) \in Nat
      BY <3>1, <3>2, FS_Subset, FS_CardinalityType
    <3> HIDE DEF A, B
    <3>4. Cardinality(A) <= MaxLogs
      BY <1>1, <3>2, <3>3
    <3> QED BY <3>4 DEF A
  <2>4. Ahead(p, t)' \/ SlidingFull(p)'
    <3> SUFFICES ASSUME Wraps(id), \A x \in records' : buffer[x].time <= t PROVE SlidingFull(p)'
      BY <1>3
    <3>1. offset' = Len(buffer') /\ \A x \in records' : x \in 1..Len(buffer)
      BY <1>1 DEF Wraps
    <3>2. total_in_window(c) >= MaxLogs
      <4>1. 0 \in Buckets
        BY SamplingAssumption DEF Buckets
      <4>2. total_in_window(c) \in Nat
        BY <1>6, <4>1, CountBelowTotal
      <4>3. ~(total_in_window(c) < MaxLogs)
        BY <1>6, <1>7
      <4> QED BY <1>1, <4>2, <4>3
    <3>3. ASSUME NEW x \in records' PROVE Cleared(c, buffer[x].time) = c
      <4>1. buffer[x] \in Rec
        BY <1>1, <3>1, ElementOfSeq DEF Typed
      <4>2. PICK e \in Nat : e = buffer[x].time /\ e <= t
        BY <4>1 DEF Rec
      <4>3. buckets \in [Buckets -> Bucket]
        BY <1>1 DEF Typed
      <4>4. Cleared(c, e) = c
        BY <1>3, <1>4, <4>2, <4>3, ClearedBefore
      <4> QED BY <4>2, <4>4
    <3>4. total_in_window(buckets') = total_in_window(c)
      BY <2>1
    <3>5. \A x \in records' : Cleared(buckets', buffer'[x].time) = buckets'
      BY <1>1, <2>1, <3>3
    <3> QED BY <1>1, <3>1, <3>2, <3>4, <3>5 DEF SlidingFull
  <2> QED BY <1>3, <2>2, <2>3, <2>4 DEF SlidingState
<1>8. CASE keep
  <2>1. PICK k \in Nat : /\ Behind(p)' = Behind(p) \cup {k} /\ Item(k).time = t
                         /\ \A i \in Behind(p) : i < k
    BY <1>3, <1>8
  <2>2. \A i \in Behind(p) : Item(i).time <= t
    BY <1>3, <2>1 DEF Reached
  <2>3. Slid(t, TRUE, c)
    BY <1>4, <1>8 DEF Slid
  <2>4. PICK r : SlidingSlots(p, t, r)'
    BY <1>1, <1>3, <1>5, <2>1, <2>2, <2>3, KeepsSlots
  <2>5. Windows(p)'
    BY <1>1, <1>3, <1>5, <1>6, <1>8, <2>1, KeepsWindows
  <2>6. Ahead(p, t)'
    BY <1>3, <1>8
  <2> QED BY <1>3, <2>4, <2>5, <2>6 DEF SlidingState
<1> QED BY <1>7, <1>8

\* The unit visits a record again, and drops it.
LEMMA VisitSlidingAgain ==
    ASSUME CursorInv, NEW p \in Nat, Unconditional(p), unit = p, NEW id \in Nat, NEW keep \in BOOLEAN,
           Moves(id, keep), Slides(id, keep), NEW m, NEW s, Reached(p, m),
           SlidingFull(p), SlidingSlots(p, m, s), Windows(p)
    PROVE  SlidingState(p)'
<1>1. /\ Typed /\ buffer' = buffer /\ unit' = p /\ MaxLogs \in Nat /\ Typed'
      /\ out' = out /\ arrived' = arrived /\ offset = Len(buffer)
  BY MovesTyped, SamplingAssumption DEF CursorInv, Slides, Moves, Visits, SlidingFull
<1>2. id \in records /\ offset' = Len(buffer) /\ records' \subseteq records
  BY <1>1, SearchOnly
<1>3. PICK t : t = buffer[id].time
  OBVIOUS
<1>4. t \in Nat
  BY <1>1, <1>3, Found DEF Rec
<1>5. PICK c : c = Cleared(buckets, t) /\ Slid(t, keep, c)
  <2>1. /\ keep = flb_sampling_sliding_window(buckets, t).keep
        /\ buckets' = flb_sampling_sliding_window(buckets, t).buckets
    BY <1>3 DEF Slides
  <2> QED BY <1>1, <1>4, <2>1, SlidingResult
<1>6. ~keep /\ buckets' = buckets
  <2>1. c = buckets /\ total_in_window(c) >= MaxLogs /\ c \in [Buckets -> Bucket]
    BY <1>2, <1>3, <1>5 DEF SlidingFull, Slid
  <2>2. total_in_window(c) \in Nat
    <3>1. 0 \in Buckets
      BY SamplingAssumption DEF Buckets
    <3> QED BY <2>1, <3>1, CountBelowTotal
  <2>3. ~(total_in_window(c) < MaxLogs)
    BY <1>1, <2>1, <2>2
  <2> QED BY <1>5, <2>1, <2>3 DEF Slid
<1>7. Past(p)' \subseteq Past(p)
  BY <1>1, <1>6, VisitedAt
<1>8. Narrows(p)
  BY <1>1, <1>7, StayNarrows
<1>9. Reached(p, m)'
  BY <1>1, <1>8, NarrowsReached
<1>10. PICK r : SlidingSlots(p, m, r)'
  BY <1>6, <1>8, NarrowsSlots
<1>11. Windows(p)'
  BY <1>1, <1>8, NarrowsWindows
<1>12. SlidingFull(p)'
  <2>1. total_in_window(buckets') = total_in_window(buckets)
    BY <1>6
  <2> QED BY <1>1, <1>2, <1>6, <2>1 DEF SlidingFull
<1> QED BY <1>9, <1>10, <1>11, <1>12 DEF SlidingState

SlidingAt(p) == At("sliding", p) /\ Ordered
SlidingInv == \A p \in DOMAIN Chain : SlidingAt(p) => InTime /\ SlidingState(p)

\* Every step keeps a slot for each recent record behind a sliding window.
LEMMA SlidingNext ==
    ASSUME CursorInv, CursorInv', SlidingInv, [Next]_vars
    PROVE  SlidingInv'
<1>1. Typed /\ Typed' /\ setting' = setting
  <2>1. setting' = setting
    BY SettingStays
  <2> QED BY <2>1 DEF CursorInv
<1>2. Chain' = Chain /\ \A p : SlidingAt(p)' <=> SlidingAt(p)
  BY <1>1, SameChain DEF SlidingAt, At
<1>3. SUFFICES ASSUME NEW p \in DOMAIN Chain, SlidingAt(p) PROVE InTime' /\ SlidingState(p)'
  BY <1>2 DEF SlidingInv
<1>4. /\ p \in Nat /\ Unconditional(p) /\ InTime /\ SlidingState(p) /\ At("sliding", p) /\ Ordered
  <2>1. p \in Nat
    BY <1>1, <1>3, SettingFacts DEF Typed
  <2>2. InTime /\ SlidingState(p)
    BY <1>3 DEF SlidingInv
  <2>3. Unconditional(p) /\ At("sliding", p) /\ Ordered
    BY <1>3 DEF SlidingAt, At, Unconditional
  <2> QED BY <2>1, <2>2, <2>3
<1>5. CASE ~(Visit /\ unit = p)
  <2>1. buckets' = buckets
    BY <1>1, <1>4, <1>5, WindowStays
  <2>2. InTime'
    BY <1>4, <1>5, AwayReached
  <2> QED BY <1>4, <1>5, <2>1, <2>2, AwaySliding
<1>6. CASE Visit /\ unit = p
  <2>1. PICK id \in Nat, keep \in BOOLEAN : Moves(id, keep) /\ Visits(id, keep)
    BY <1>1, <1>6, VisitMoves
  <2>2. Slides(id, keep)
    BY <1>4, <1>6, <2>1 DEF Visits, Modifies, Queries, Remembers, Recognises, Fixes, Decays, In, At
  <2>3. InTime'
    BY <1>4, <2>1, <2>2 DEF InTime, Moves, Slides
  <2>4. Windows(p)
    BY <1>4 DEF SlidingState
  <2>5. PICK m, s : /\ Reached(p, m) /\ SlidingSlots(p, m, s)
                    /\ Ahead(p, m) \/ SlidingFull(p)
    BY <1>4 DEF SlidingState
  <2>6. CASE Ahead(p, m)
    BY <1>4, <1>6, <2>1, <2>2, <2>3, <2>4, <2>5, <2>6, VisitSlidingAhead
  <2>7. CASE SlidingFull(p)
    BY <1>4, <1>6, <2>1, <2>2, <2>3, <2>4, <2>5, <2>7, VisitSlidingAgain
  <2> QED BY <2>5, <2>6, <2>7
<1> QED BY <1>5, <1>6

\* The buckets are empty and nothing is behind the unit.
LEMMA SlidingInit ==
    ASSUME Init
    PROVE  SlidingInv
<1> SUFFICES ASSUME NEW p \in DOMAIN Chain PROVE InTime /\ SlidingState(p)
  BY DEF SlidingInv
<1>1. Behind(p) = {} /\ Pending(p) = {}
  BY InitBehind
<1>2. InTime
  BY DEF InTime, Init
<1>3. Windows(p)
  <2>1. \A u : Within(p, u) = {}
    BY <1>1 DEF Within
  <2>2. Cardinality({}) = 0 /\ MaxLogs \in Nat
    BY FS_EmptySet, SamplingAssumption
  <2> QED BY <2>1, <2>2 DEF Windows
<1>4. Since(p, 0) = {}
  BY <1>1 DEF Since
<1>5. Reached(p, 0) /\ Ahead(p, 0) /\ SlidingSlots(p, 0, <<>>)
  BY <1>1, <1>4 DEF Reached, Ahead, SlidingSlots, SlotsIn
<1>6. SlidingState(p)
  BY <1>3, <1>5 DEF SlidingState
<1> QED BY <1>2, <1>6

\* What went on is behind the unit.
LEMMA SlidingHolds ==
    ASSUME CursorInv, SlidingInv
    PROVE  SlidingBound
<1> SUFFICES ASSUME Has("sliding"), Ordered, NEW t \in Seconds
             PROVE  Kept(SlidingWindow(t)) <= MaxLogs
  BY DEF SlidingBound
<1>1. PICK p \in DOMAIN Chain : Chain[p].kind = "sliding" /\ ~Chain[p].condition
  BY DEF Has
<1>2. Windows(p)
  BY <1>1 DEF SlidingInv, SlidingAt, At, SlidingState
<1>3. /\ Typed /\ out \in Seq(Rec) /\ Len(out) \in Nat /\ DOMAIN out = 1..Len(out) /\ MaxLogs \in Nat
  BY SamplingAssumption DEF CursorInv, Typed
<1>4. t \in Nat
  BY <1>3, SettingFacts DEF Seconds, Typed
<1> DEFINE K == {i \in DOMAIN out : out[i].time \in SlidingWindow(t)}
           W == Within(p, t)
<1>5. K \subseteq W
  <2> SUFFICES ASSUME NEW i \in K PROVE i \in W
    OBVIOUS
  <2>1. i \in 1..Len(out) /\ i \in Behind(p) /\ Item(i) = out[i]
    BY <1>3 DEF Behind, Item
  <2> QED BY <2>1 DEF Within, SlidingWindow
<1>6. IsFiniteSet(W) /\ Cardinality(W) \in Nat /\ Cardinality(W) <= MaxLogs
  BY <1>2, <1>3, <1>4, FiniteBehind DEF Within, Windows
<1> HIDE DEF W, K
<1>7. Cardinality(K) <= Cardinality(W) /\ Cardinality(K) \in Nat
  BY <1>5, <1>6, FS_Subset, FS_CardinalityType
<1>8. Cardinality(K) <= MaxLogs
  BY <1>3, <1>6, <1>7
<1> QED BY <1>8 DEF Kept, K

\* The slots of the windows hold from the start.
THEOREM WindowInvHolds == Spec => [](CursorInv /\ FixedInv /\ SlidingInv)
<1>1. Init => FixedInv /\ SlidingInv
  BY FixedInit, SlidingInit
<1>2. CursorInv /\ CursorInv' /\ FixedInv /\ SlidingInv /\ [Next]_vars => FixedInv' /\ SlidingInv'
  BY FixedNext, SlidingNext
<1> QED BY <1>1, <1>2, CursorInvHolds, PTL DEF Spec

\* For records in the order of their time, log_sampling lets no more than
\* max_logs_per_window records of a window go on (flb_sampling_fixed_window for a
\* service started at the beginning of a window, flb_sampling_sliding_window for
\* any span of window_size seconds): whatever other units are before and after
\* it, and although removing a record may send the unit over its list again.
THEOREM WindowsBounded == Spec => []WindowBound
<1>1. CursorInv /\ FixedInv /\ SlidingInv => WindowBound
  BY FixedHolds, SlidingHolds DEF WindowBound
<1> QED BY <1>1, WindowInvHolds, PTL

=============================================================================
