-------------------------- MODULE InputRingProofs --------------------------
(***************************************************************************)
(* Proofs about the ring between a threaded input and the engine, for any  *)
(* capacity, any size of a slot, any window and any number of entries: the *)
(* ring is a queue, no entry disappears on the way, and the thread follows *)
(* what the engine thinks of it.                                           *)
(*                                                                         *)
(* The bytes of entry i of the ring are at the distances (i - 1) * n to    *)
(* i * n - 1 from r, where n is the size of a slot, round the ring.  The   *)
(* first part is about these distances, the second about the two threads.  *)
(***************************************************************************)
EXTENDS InputRing, FiniteSetTheorems, SequenceTheorems, TLAPS

-----------------------------------------------------------------------------
(* Positions and distances. *)

\* The position at distance d after p.
At(p, d) == (p + d) % size

\* The distance from p to q.
Distance(q, p) == (q - p + size) % size

\* The size of the ring: one byte more than the entries need.
LEMMA Sizes ==
    /\ size \in Nat /\ size > SlotBytes
    /\ SlotBytes \in Nat /\ SlotBytes > 0 /\ Capacity \in Nat /\ Capacity > 0
    /\ Positions = 0..(size - 1)
    /\ Capacity * SlotBytes = size - 1
  BY InputRingAssumption DEF size, Positions

\* A number below twice the modulus.
LEMMA ModTwice ==
    ASSUME NEW n \in Nat, n > 0, NEW x \in 0..(n + n - 1)
    PROVE  x % n = IF x < n THEN x ELSE x - n
  OBVIOUS

\* A position and a distance.
LEMMA AtValue ==
    ASSUME NEW p \in Positions, NEW d \in 0..(size - 1)
    PROVE  /\ At(p, d) = IF p + d < size THEN p + d ELSE p + d - size
           /\ At(p, d) \in Positions
<1>1. p + d \in 0..(size + size - 1)
  BY Sizes
<1>2. (p + d) % size = IF p + d < size THEN p + d ELSE p + d - size
  BY <1>1, Sizes, ModTwice
<1> QED
  BY <1>2, Sizes DEF At

\* Distances add up.
LEMMA AtAdd ==
    ASSUME NEW p \in Positions, NEW a \in 0..(size - 1), NEW b \in 0..(size - 1),
           a + b < size
    PROVE  At(At(p, a), b) = At(p, a + b)
<1>1. At(p, a) \in Positions /\ At(p, a) = IF p + a < size THEN p + a ELSE p + a - size
  BY AtValue
<1>2. At(At(p, a), b) = IF At(p, a) + b < size THEN At(p, a) + b ELSE At(p, a) + b - size
  BY <1>1, AtValue
<1>3. a + b \in 0..(size - 1)
  BY Sizes
<1>4. At(p, a + b) = IF p + (a + b) < size THEN p + (a + b) ELSE p + (a + b) - size
  BY <1>3, AtValue
<1> QED
  BY <1>1, <1>2, <1>4, Sizes

\* Different distances lead to different positions; no distance to p itself.
LEMMA AtDiffers ==
    ASSUME NEW p \in Positions, NEW a \in 0..(size - 1), NEW b \in 0..(size - 1)
    PROVE  /\ At(p, a) = At(p, b) => a = b
           /\ At(p, 0) = p
<1>1. /\ At(p, a) = IF p + a < size THEN p + a ELSE p + a - size
      /\ At(p, b) = IF p + b < size THEN p + b ELSE p + b - size
  BY AtValue
<1>2. At(p, 0) = IF p + 0 < size THEN p + 0 ELSE p + 0 - size
  <2>1. 0 \in 0..(size - 1)
    BY Sizes
  <2> QED BY <2>1, AtValue
<1>3. At(p, a) = At(p, b) => a = b
  BY <1>1, Sizes
<1> QED
  BY <1>2, <1>3, Sizes

\* Distance measures what At adds.
LEMMA DistanceOf ==
    ASSUME NEW p \in Positions
    PROVE  /\ \A d \in 0..(size - 1) : Distance(At(p, d), p) = d
           /\ \A q \in Positions : /\ Distance(q, p) \in 0..(size - 1)
                                   /\ q = At(p, Distance(q, p))
<1>1. ASSUME NEW q \in Positions
      PROVE  Distance(q, p) = IF q - p + size < size THEN q - p + size ELSE q - p
  <2>1. q - p + size \in 0..(size + size - 1)
    BY Sizes
  <2>2. (q - p + size) % size = IF q - p + size < size THEN q - p + size
                                ELSE q - p + size - size
    BY <2>1, Sizes, ModTwice
  <2> QED
    BY <2>2, Sizes DEF Distance
<1>2. ASSUME NEW d \in 0..(size - 1) PROVE Distance(At(p, d), p) = d
  <2>1. At(p, d) \in Positions /\ At(p, d) = IF p + d < size THEN p + d ELSE p + d - size
    BY AtValue
  <2>2. Distance(At(p, d), p) = IF At(p, d) - p + size < size THEN At(p, d) - p + size
                                ELSE At(p, d) - p
    BY <1>1, <2>1
  <2> QED
    BY <2>1, <2>2, Sizes
<1>3. ASSUME NEW q \in Positions
      PROVE  Distance(q, p) \in 0..(size - 1) /\ q = At(p, Distance(q, p))
  <2>1. Distance(q, p) \in 0..(size - 1)
    BY <1>1, Sizes
  <2>2. At(p, Distance(q, p)) = IF p + Distance(q, p) < size THEN p + Distance(q, p)
                                ELSE p + Distance(q, p) - size
    BY <2>1, AtValue
  <2> QED
    BY <1>1, <2>1, <2>2, Sizes
<1> QED BY <1>2, <1>3

\* Slots: where they begin and end.
LEMMA Slots ==
    ASSUME NEW n \in 0..Capacity
    PROVE  /\ n * SlotBytes \in 0..(size - 1)
           /\ (n * SlotBytes) \div SlotBytes = n
           /\ (n + 1) * SlotBytes = n * SlotBytes + SlotBytes
           /\ (n - 1) * SlotBytes = n * SlotBytes - SlotBytes
           /\ n < Capacity => n * SlotBytes + SlotBytes <= size - 1
           /\ \A i \in 1..n : /\ (i - 1) * SlotBytes \in 0..(size - 1)
                              /\ (i - 1) * SlotBytes + SlotBytes <= n * SlotBytes
<1>1. \A a, b \in Nat : a <= b => a * SlotBytes <= b * SlotBytes
  BY Sizes
<1>2. \A a \in Int : (a + 1) * SlotBytes = a * SlotBytes + SlotBytes
  BY Sizes
<1>3. \A a \in Nat : (a * SlotBytes) \div SlotBytes = a
  BY Sizes
<1> QED
  BY <1>1, <1>2, <1>3, Sizes

-----------------------------------------------------------------------------
(* Entries in memory. *)

\* The bytes of entry e are at p.
HasEntry(m, p, e) == \A k \in 1..SlotBytes : m[At(p, k - 1)] = <<e, k>>

\* From p on there are n entries, and these they are.
Holds(m, p, n) == \A i \in 1..n : \E e \in Entries : HasEntry(m, At(p, (i - 1) * SlotBytes), e)
Seen(m, p, n)  == [i \in 1..n |-> Decode(m, At(p, (i - 1) * SlotBytes))]

\* The positions of a slot.
LEMMA SpanAt ==
    ASSUME NEW p \in Positions, NEW k \in 1..SlotBytes
    PROVE  Span(p)[k] = At(p, k - 1) /\ At(p, k - 1) \in Positions
<1>1. k - 1 \in 0..(size - 1) /\ p + k - 1 = p + (k - 1)
  BY Sizes
<1> QED
  BY <1>1, AtValue DEF Span, At

\* An entry is read as it was written.
LEMMA DecodeEntry ==
    ASSUME NEW m, NEW p \in Positions, NEW e, HasEntry(m, p, e)
    PROVE  Decode(m, p) = e
<1>1. At(p, 0) = p /\ 1 \in 1..SlotBytes /\ 0 = 1 - 1
  BY Sizes, AtDiffers
<1>2. m[p][1] = e
  BY <1>1 DEF HasEntry
<1>3. \A k \in 1..SlotBytes : m[Span(p)[k]] = <<e, k>>
  BY SpanAt DEF HasEntry
<1> QED
  BY <1>2, <1>3 DEF Decode

\* So are all entries, as a sequence.
LEMMA SeenEntries ==
    ASSUME NEW m, NEW p \in Positions, NEW n \in 0..Capacity, Holds(m, p, n)
    PROVE  /\ Seen(m, p, n) \in Seq(Entries) /\ Len(Seen(m, p, n)) = n
           /\ \A i \in 1..n : HasEntry(m, At(p, (i - 1) * SlotBytes), Seen(m, p, n)[i])
<1>1. ASSUME NEW i \in 1..n
      PROVE  /\ Seen(m, p, n)[i] \in Entries
             /\ HasEntry(m, At(p, (i - 1) * SlotBytes), Seen(m, p, n)[i])
  <2>1. At(p, (i - 1) * SlotBytes) \in Positions
    BY Slots, AtValue
  <2>2. PICK e \in Entries : HasEntry(m, At(p, (i - 1) * SlotBytes), e)
    BY DEF Holds
  <2>3. Seen(m, p, n)[i] = e
    BY <2>1, <2>2, DecodeEntry DEF Seen
  <2> QED BY <2>2, <2>3
<1>2. n \in Nat /\ DOMAIN Seen(m, p, n) = 1..n
  BY Sizes DEF Seen
<1>3. Seen(m, p, n) \in [1..n -> Entries]
  BY <1>1 DEF Seen
<1> QED
  BY <1>1, <1>2, <1>3

\* One more entry after the last is one more at the end.
LEMMA SeenPut ==
    ASSUME NEW m, NEW p \in Positions, NEW n \in 0..Capacity, n < Capacity,
           Holds(m, p, n), NEW e \in Entries, HasEntry(m, At(p, n * SlotBytes), e)
    PROVE  /\ Holds(m, p, n + 1)
           /\ Seen(m, p, n + 1) = Append(Seen(m, p, n), e)
<1>1. n \in Nat /\ n + 1 \in 0..Capacity /\ (n + 1) - 1 = n
  BY Sizes
<1>2. Holds(m, p, n + 1)
  <2> SUFFICES ASSUME NEW i \in 1..(n + 1)
               PROVE  \E x \in Entries : HasEntry(m, At(p, (i - 1) * SlotBytes), x)
    BY DEF Holds
  <2>1. CASE i = n + 1
    BY <1>1, <2>1
  <2>2. CASE i /= n + 1
    <3>1. i \in 1..n
      BY <1>1, <2>2
    <3> QED BY <3>1 DEF Holds
  <2> QED BY <2>1, <2>2
<1>3. Seen(m, p, n) \in Seq(Entries) /\ Len(Seen(m, p, n)) = n
  BY SeenEntries
<1>4. Seen(m, p, n + 1)[n + 1] = e
  <2>1. At(p, n * SlotBytes) \in Positions
    BY Slots, AtValue
  <2>2. Decode(m, At(p, n * SlotBytes)) = e
    BY <2>1, DecodeEntry
  <2>3. n + 1 \in 1..(n + 1)
    BY <1>1
  <2> QED
    BY <1>1, <2>2, <2>3 DEF Seen
<1>5. \A i \in 1..n : Seen(m, p, n + 1)[i] = Seen(m, p, n)[i]
  BY <1>1 DEF Seen
<1>6. Seen(m, p, n + 1) \in Seq(Entries) /\ Len(Seen(m, p, n + 1)) = n + 1
  BY <1>1, <1>2, SeenEntries
<1>7. /\ Append(Seen(m, p, n), e) \in Seq(Entries) /\ Len(Append(Seen(m, p, n), e)) = n + 1
      /\ Append(Seen(m, p, n), e)[n + 1] = e
      /\ \A i \in 1..n : Append(Seen(m, p, n), e)[i] = Seen(m, p, n)[i]
  BY <1>1, <1>3, AppendProperties
<1>8. \A i \in 1..(n + 1) : Append(Seen(m, p, n), e)[i] = Seen(m, p, n + 1)[i]
  BY <1>1, <1>4, <1>5, <1>7
<1>9. Seen(m, p, n + 1) = Append(Seen(m, p, n), e)
  BY <1>6, <1>7, <1>8, SeqEqual
<1> QED
  BY <1>2, <1>9

\* Without the first entry the others are what is left.
LEMMA SeenTake ==
    ASSUME NEW m, NEW p \in Positions, NEW n \in 1..Capacity, Holds(m, p, n)
    PROVE  /\ Holds(m, At(p, SlotBytes), n - 1)
           /\ Seen(m, p, n) /= <<>>
           /\ Head(Seen(m, p, n)) = Decode(m, p)
           /\ Seen(m, At(p, SlotBytes), n - 1) = Tail(Seen(m, p, n))
<1>1. n \in 0..Capacity /\ n - 1 \in Nat /\ n \in Nat
  BY Sizes
<1>2. ASSUME NEW i \in 1..(n - 1)
      PROVE  /\ At(At(p, SlotBytes), (i - 1) * SlotBytes) = At(p, ((i + 1) - 1) * SlotBytes)
             /\ i + 1 \in 1..n
  <2>1. i + 1 \in 1..n /\ i \in 1..n /\ i \in 0..Capacity
    BY <1>1, Sizes
  <2>2. /\ (i - 1) * SlotBytes \in 0..(size - 1) /\ i * SlotBytes \in 0..(size - 1)
        /\ SlotBytes \in 0..(size - 1)
        /\ SlotBytes + (i - 1) * SlotBytes = i * SlotBytes
    <3>1. i * SlotBytes \in 0..(size - 1) /\ (i - 1) * SlotBytes = i * SlotBytes - SlotBytes
      BY <2>1, Slots
    <3>2. (i - 1) * SlotBytes \in 0..(size - 1)
      BY <2>1, <1>1, Slots
    <3> QED
      BY <3>1, <3>2, Sizes
  <2>3. At(At(p, SlotBytes), (i - 1) * SlotBytes) = At(p, SlotBytes + (i - 1) * SlotBytes)
    BY <2>2, AtAdd, Sizes
  <2>4. (i + 1) - 1 = i
    BY <2>1
  <2> QED
    BY <2>1, <2>2, <2>3, <2>4
<1>3. Holds(m, At(p, SlotBytes), n - 1)
  BY <1>2 DEF Holds
<1>4. Seen(m, p, n) \in Seq(Entries) /\ Len(Seen(m, p, n)) = n
  BY <1>1, SeenEntries
<1>5. Seen(m, p, n)[1] = Decode(m, p)
  <2>1. 1 \in 1..n /\ (1 - 1) * SlotBytes = 0 /\ 0 \in 0..(size - 1)
    BY <1>1, Sizes
  <2> QED
    BY <2>1, AtDiffers DEF Seen
<1>6. \A i \in 1..(n - 1) : Seen(m, At(p, SlotBytes), n - 1)[i] = Seen(m, p, n)[i + 1]
  BY <1>2 DEF Seen
<1>7. Seen(m, p, n) /= <<>> /\ Head(Seen(m, p, n)) = Seen(m, p, n)[1]
  BY <1>1, <1>4
<1>8. /\ Tail(Seen(m, p, n)) \in Seq(Entries) /\ Len(Tail(Seen(m, p, n))) = n - 1
      /\ \A i \in 1..(n - 1) : Tail(Seen(m, p, n))[i] = Seen(m, p, n)[i + 1]
  BY <1>1, <1>4, <1>7, HeadTailProperties
<1>9. At(p, SlotBytes) \in Positions /\ n - 1 \in 0..Capacity
  <2>1. SlotBytes \in 0..(size - 1)
    BY Sizes
  <2> QED BY SMTT(60), <1>1, <2>1, AtValue, Sizes
<1>10. /\ Seen(m, At(p, SlotBytes), n - 1) \in Seq(Entries)
       /\ Len(Seen(m, At(p, SlotBytes), n - 1)) = n - 1
  BY <1>3, <1>9, SeenEntries
<1>11. Seen(m, At(p, SlotBytes), n - 1) = Tail(Seen(m, p, n))
  BY <1>6, <1>8, <1>10, SeqEqual
<1> QED
  BY <1>3, <1>5, <1>7, <1>11

\* Bytes beyond the entries do not matter.
LEMMA SeenSame ==
    ASSUME NEW m, NEW mm, NEW p \in Positions, NEW n \in 0..Capacity, Holds(m, p, n),
           \A d \in 0..(size - 1) : d < n * SlotBytes => mm[At(p, d)] = m[At(p, d)]
    PROVE  Holds(mm, p, n) /\ Seen(mm, p, n) = Seen(m, p, n)
<1>1. ASSUME NEW i \in 1..n, NEW e, HasEntry(m, At(p, (i - 1) * SlotBytes), e)
      PROVE  HasEntry(mm, At(p, (i - 1) * SlotBytes), e)
  <2> SUFFICES ASSUME NEW k \in 1..SlotBytes
               PROVE  mm[At(At(p, (i - 1) * SlotBytes), k - 1)]
                        = m[At(At(p, (i - 1) * SlotBytes), k - 1)]
    BY <1>1 DEF HasEntry
  <2>1. /\ (i - 1) * SlotBytes \in 0..(size - 1) /\ k - 1 \in 0..(size - 1)
        /\ (i - 1) * SlotBytes + (k - 1) < n * SlotBytes
        /\ n * SlotBytes \in 0..(size - 1)
    BY Slots, Sizes
  <2>2. (i - 1) * SlotBytes + (k - 1) \in 0..(size - 1)
    BY <2>1, Sizes
  <2>3. At(At(p, (i - 1) * SlotBytes), k - 1) = At(p, (i - 1) * SlotBytes + (k - 1))
    BY <2>1, <2>2, AtAdd, Sizes
  <2> QED
    BY <2>1, <2>2, <2>3
<1>2. Holds(mm, p, n)
  BY <1>1 DEF Holds
<1>3. ASSUME NEW i \in 1..n PROVE Seen(mm, p, n)[i] = Seen(m, p, n)[i]
  <2>1. At(p, (i - 1) * SlotBytes) \in Positions
    BY Slots, AtValue
  <2>2. PICK e \in Entries : HasEntry(m, At(p, (i - 1) * SlotBytes), e)
    BY DEF Holds
  <2> QED
    BY <1>1, <2>1, <2>2, DecodeEntry DEF Seen
<1> QED
  BY <1>2, <1>3 DEF Seen

-----------------------------------------------------------------------------
(* Types *)

Byte    == (Entries \cup {NoEntry}) \X (0..SlotBytes)
Writing == {"free", "copy", "publish"}

\* The thread holds an entry while it writes.
TypeInv ==
    /\ TypeOK
    /\ \A p \in DOMAIN stores : stores[p] \in Byte
    /\ ppc \in Writing <=> cur /= NoEntry

\* Entries have positive numbers.
LEMMA EntryNumbers == NoEntry = 0 /\ NoEntry \notin Entries /\ \A e \in Entries : e \in Nat /\ e > 0
  BY InputRingAssumption DEF Entries, NoEntry

\* The bytes of the entry that is written, on the slot at w.
LEMMA BytesOf ==
    ASSUME w \in Positions
    PROVE  /\ \A k \in 1..SlotBytes : /\ At(w, k - 1) \in DOMAIN Bytes
                                      /\ Bytes[At(w, k - 1)] = <<cur, k>>
           /\ \A p \in DOMAIN Bytes : \E k \in 1..SlotBytes : p = At(w, k - 1)
<1>1. Range(Span(w)) = {At(w, k - 1) : k \in 1..SlotBytes}
  <2>1. DOMAIN Span(w) = 1..SlotBytes
    BY DEF Span
  <2> QED
    BY <2>1, SpanAt DEF Range
<1>2. DOMAIN Bytes = {At(w, k - 1) : k \in 1..SlotBytes}
  BY <1>1 DEF Bytes
<1>3. ASSUME NEW k \in 1..SlotBytes
      PROVE  (CHOOSE j \in 1..SlotBytes : Span(w)[j] = At(w, k - 1)) = k
  <2>1. Span(w)[k] = At(w, k - 1)
    BY SpanAt
  <2>2. ASSUME NEW j \in 1..SlotBytes, Span(w)[j] = At(w, k - 1) PROVE j = k
    <3>1. At(w, j - 1) = At(w, k - 1)
      BY <2>2, SpanAt
    <3>2. j - 1 \in 0..(size - 1) /\ k - 1 \in 0..(size - 1)
      BY Sizes
    <3>3. j - 1 = k - 1
      BY <3>1, <3>2, AtDiffers
    <3> QED BY <3>3, Sizes
  <2> QED BY <2>1, <2>2
<1> QED
  BY <1>1, <1>2, <1>3 DEF Bytes

\* The bytes have their type.
LEMMA BytesType ==
    ASSUME TypeInv
    PROVE  DOMAIN Bytes \subseteq Positions /\ \A p \in DOMAIN Bytes : Bytes[p] \in Byte
<1>1. w \in Positions /\ cur \in Entries \cup {NoEntry}
  BY DEF TypeInv, TypeOK
<1>2. \A k \in 1..SlotBytes : At(w, k - 1) \in Positions /\ <<cur, k>> \in Byte
  BY <1>1, SpanAt, Sizes DEF Byte
<1> QED
  BY <1>1, <1>2, BytesOf

\* What is in the memory an entry is read from.
LEMMA DecodeType ==
    ASSUME NEW m \in [Positions -> Byte], NEW p \in Positions
    PROVE  Decode(m, p) \in Entries \cup {NoEntry}
  BY DEF Decode, Byte

\* What is full and what is free.
LEMMA FullType ==
    ASSUME TypeInv
    PROVE  get_full = Distance(w, r) /\ get_full \in 0..(size - 1) /\ get_free \in 0..(size - 1)
<1>1. w \in Positions /\ r \in Positions
  BY DEF TypeInv, TypeOK
<1>2. get_full = Distance(w, r)
  BY DEF get_full, Distance
<1>3. get_full \in 0..(size - 1)
  BY <1>1, <1>2, DistanceOf
<1> QED
  BY <1>2, <1>3, Sizes DEF get_free

\* The steps of the thread keep the types.
LEMMA ThreadType ==
    ASSUME TypeInv, ThreadNext
    PROVE  TypeInv'
<1> USE DEF ring, flags, producer, consumer, pausing, service, history, TypeInv, TypeOK, Writing
<1>0. buff \in [Positions -> Byte] /\ SlotBytes \in Nat /\ RetryLimit \in Nat /\ RetryLimit > 0
  BY InputRingAssumption DEF Byte
<1>1. ASSUME NEW e \in Entries, Append_(e) PROVE TypeInv'
  BY <1>0, <1>1, EntryNumbers DEF Append_, Byte
<1>2. CASE WriteFree
  <2>1. get_free \in 0..(size - 1)
    BY FullType
  <2>2. retries' \in 0..RetryLimit /\ av' \in 0..(size - 1) /\ ppc' \in {"free", "copy"}
    BY <1>0, <1>2, <2>1 DEF WriteFree, GaveUp
  <2> QED
    BY <1>2, <2>2 DEF WriteFree
<1>3. CASE WriteGivesUp
  BY <1>3 DEF WriteGivesUp
<1>4. CASE WriteCopy
  <2>1. buff' \in [Positions -> Byte]
    BY <1>0, <1>4, BytesType DEF WriteCopy
  <2>2. DOMAIN stores' \subseteq Positions /\ \A p \in DOMAIN stores' : stores'[p] \in Byte
    BY <1>4, BytesType DEF WriteCopy
  <2> QED
    BY <1>4, <2>1, <2>2 DEF WriteCopy, Byte
<1>5. CASE WritePublish
  <2>1. w' \in Positions
    <3>1. SlotBytes \in 0..(size - 1)
      BY Sizes
    <3>2. w' = At(w, SlotBytes)
      BY <1>5 DEF WritePublish, At
    <3> QED BY <3>1, <3>2, AtValue
  <2> QED
    BY <1>5, <2>1 DEF WritePublish
<1>6. CASE WriteCheck \/ WriteSet \/ WriteSignal
  <2>1. /\ ppc \in {"check", "set", "signal"} /\ ppc' \in {"set", "idle", "signal"}
        /\ flush_pending' \in BOOLEAN /\ signal' \in BOOLEAN
    BY <1>6 DEF WriteCheck, WriteSet, WriteSignal
  <2> QED
    BY <1>6, <2>1 DEF WriteCheck, WriteSet, WriteSignal
<1>7. CASE HandleMessage
  <2>1. msgs' \in Seq({"pause", "resume", "exit"}) /\ plugin_paused' \in BOOLEAN
    BY <1>7 DEF HandleMessage
  <2> QED
    BY <1>7, <2>1 DEF HandleMessage
<1>8. ASSUME NEW p \in Positions, StoreSeen(p) PROVE TypeInv'
  <2>1. buff' \in [Positions -> Byte]
    BY <1>0, <1>8 DEF StoreSeen
  <2>2. DOMAIN stores' \subseteq Positions /\ \A q \in DOMAIN stores' : stores'[q] \in Byte
    BY <1>8 DEF StoreSeen
  <2> QED
    BY <1>8, <2>1, <2>2 DEF StoreSeen, Byte
<1> QED
  BY <1>1, <1>2, <1>3, <1>4, <1>5, <1>6, <1>7, <1>8 DEF ThreadNext

\* So do the steps of the engine.
LEMMA EngineType ==
    ASSUME TypeInv,
           \/ CollectorNext \/ CollectSignal \/ CollectTimer
           \/ Flush \/ Stop \/ Shutdown \/ Join
    PROVE  TypeInv'
<1> USE DEF ring, flags, producer, consumer, pausing, service, history, TypeInv, TypeOK
<1>0. buff \in [Positions -> Byte] /\ got \in Entries \cup {NoEntry}
  BY DEF Byte
<1>1. CASE CollectLoop
  <2>1. got' \in Entries \cup {NoEntry}
    BY <1>0, <1>1, DecodeType DEF CollectLoop
  <2> QED
    BY <1>1, <2>1 DEF CollectLoop
<1>2. CASE CollectAdvance
  <2>1. r' \in Positions
    <3>1. SlotBytes \in 0..(size - 1)
      BY Sizes
    <3>2. r' = At(r, SlotBytes)
      BY <1>2 DEF CollectAdvance, At
    <3> QED BY <3>1, <3>2, AtValue
  <2> QED
    BY <1>2, <2>1 DEF CollectAdvance
<1>3. CASE CollectAppend
  <2>1. collected' \in Seq(Entries \cup {NoEntry})
    BY <1>0, <1>3, AppendProperties DEF CollectAppend
  <2>2. msgs' \in Seq({"pause", "resume", "exit"}) /\ mem' \in Nat /\ paused' \in BOOLEAN
    <3>1. Append(msgs, "pause") \in Seq({"pause", "resume", "exit"})
      BY AppendProperties
    <3>2. CASE UNCHANGED <<mem, paused, msgs>>
      BY <3>2
    <3>3. CASE /\ mem' = mem + 1 /\ paused' = (mem + 1 >= MemLimit)
               /\ msgs' \in {msgs, Append(msgs, "pause")}
      <4>1. mem' \in Nat /\ msgs' \in Seq({"pause", "resume", "exit"})
        <5>1. mem \in Nat /\ msgs \in Seq({"pause", "resume", "exit"})
          OBVIOUS
        <5>2. mem' \in Nat
          BY <3>3, <5>1
        <5>3. msgs' = msgs \/ msgs' = Append(msgs, "pause")
          BY <3>3
        <5> QED BY <3>1, <5>1, <5>2, <5>3
      <4>2. paused' \in BOOLEAN
        <5>1. CASE mem + 1 >= MemLimit
          BY <3>3, <5>1
        <5>2. CASE ~(mem + 1 >= MemLimit)
          BY <3>3, <5>2
        <5> QED BY <5>1, <5>2
      <4> QED BY <4>1, <4>2
    <3> QED BY <1>3, <3>2, <3>3 DEF CollectAppend
  <2> QED
    BY <1>3, <2>1, <2>2 DEF CollectAppend
<1>4. CASE CollectClear \/ CollectSignal \/ CollectTimer
  <2>1. /\ cpc' \in {"idle", "loop"}
        /\ flush_pending' \in BOOLEAN /\ signal' \in BOOLEAN
    BY <1>4 DEF CollectClear, CollectSignal, CollectTimer
  <2> QED
    BY <1>4, <2>1 DEF CollectClear, CollectSignal, CollectTimer
<1>5. CASE Flush
  <2>1. msgs' \in Seq({"pause", "resume", "exit"}) /\ mem' \in Nat /\ paused' \in BOOLEAN
    BY <1>5, AppendProperties DEF Flush, MayResume
  <2> QED
    BY <1>5, <2>1 DEF Flush
<1>6. CASE Stop
  <2>1. msgs' \in Seq({"pause", "resume", "exit"})
    BY <1>6, AppendProperties DEF Stop
  <2> QED
    BY <1>6, <2>1 DEF Stop
<1>7. CASE Shutdown
  <2>1. (IF paused THEN msgs ELSE Append(msgs, "pause")) \in Seq({"pause", "resume", "exit"})
    BY AppendProperties
  <2>2. <<"exit">> \in Seq({"pause", "resume", "exit"})
    OBVIOUS
  <2>3. msgs' \in Seq({"pause", "resume", "exit"})
    BY <1>7, <2>1, <2>2, ConcatProperties DEF Shutdown
  <2> QED
    BY <1>7, <2>3 DEF Shutdown
<1>8. CASE Join
  BY <1>8 DEF Join
<1> QED
  BY <1>1, <1>2, <1>3, <1>4, <1>5, <1>6, <1>7, <1>8 DEF CollectorNext

\* Every step keeps the types.
LEMMA TypeStep ==
    ASSUME TypeInv, [Next]_vars
    PROVE  TypeInv' /\ setting' = setting
<1> USE DEF ring, flags, producer, consumer, pausing, service, history
<1>1. CASE UNCHANGED vars \/ Finished
  BY <1>1 DEF vars, Finished, TypeInv, TypeOK
<1>2. CASE ThreadNext
  <2>1. setting' = setting
    BY <1>2 DEF ThreadNext, Append_, WriteFree, WriteGivesUp, WriteCopy, WritePublish,
                WriteCheck, WriteSet, WriteSignal, HandleMessage, StoreSeen
  <2> QED BY <1>2, <2>1, ThreadType
<1>3. CASE \/ CollectorNext \/ CollectSignal \/ CollectTimer
           \/ Flush \/ Stop \/ Shutdown \/ Join
  <2>1. setting' = setting
    BY <1>3 DEF CollectorNext, CollectLoop, CollectAdvance, CollectAppend, CollectClear,
                CollectSignal, CollectTimer, Flush, Stop, Shutdown, Join
  <2> QED BY <1>3, <2>1, EngineType
<1> QED
  BY <1>1, <1>2, <1>3 DEF Next

\* The types hold initially.
LEMMA TypeInit == Init => TypeInv
<1> SUFFICES ASSUME Init PROVE TypeInv
  OBVIOUS
<1>1. Empty \in Byte /\ 0 \in Positions /\ 0 \in 0..(size - 1) /\ 0 \in 0..RetryLimit
  BY Sizes, InputRingAssumption DEF Empty, Byte
<1>2. buff \in [Positions -> Byte]
  BY <1>1 DEF Init
<1>3. msgs \in Seq({"pause", "resume", "exit"}) /\ collected \in Seq(Entries \cup {NoEntry})
  BY DEF Init
<1> QED
  BY <1>1, <1>2, <1>3 DEF Init, TypeInv, TypeOK, Byte, Writing

-----------------------------------------------------------------------------
(* Places in the ring. *)

\* The number of entries in the ring.
Count == get_full \div SlotBytes

\* The ring holds whole entries, there is place for the one that is being
\* written, and the one that is being read is in it.
RingInv ==
    /\ Count \in 0..Capacity /\ w = At(r, Count * SlotBytes)
    /\ ppc \in {"copy", "publish"} => Count < Capacity
    /\ cpc = "advance" => Count > 0

\* The number of entries from the place of w.
LEMMA CountOf ==
    ASSUME NEW p \in Positions, NEW q, NEW n \in 0..Capacity, q = At(p, n * SlotBytes)
    PROVE  Distance(q, p) = n * SlotBytes /\ Distance(q, p) \div SlotBytes = n
  BY Slots, DistanceOf

\* What is full, in entries.
LEMMA RingFull ==
    ASSUME TypeInv, RingInv
    PROVE  /\ get_full = Count * SlotBytes
           /\ get_full = 0 <=> Count = 0
           /\ get_free >= SlotBytes => Count < Capacity
<1>1. get_full = Count * SlotBytes
  BY FullType, CountOf DEF TypeInv, TypeOK, RingInv
<1>2. Count \in 0..Capacity
  BY DEF RingInv
<1>3. 0 * SlotBytes = 0 /\ (Count > 0 => Count * SlotBytes > 0)
  BY <1>2, Sizes
<1>4. Count = Capacity => get_free = 0
  BY <1>1, Sizes DEF get_free
<1> QED
  BY <1>1, <1>2, <1>3, <1>4, Sizes

\* The new w: one entry more.
LEMMA CountPublish ==
    ASSUME TypeInv, RingInv, WritePublish
    PROVE  Count' = Count + 1 /\ w' = At(r', Count' * SlotBytes) /\ r' = r
<1>1. /\ Count \in 0..Capacity /\ w = At(r, Count * SlotBytes) /\ Count < Capacity
      /\ r \in Positions /\ r' = r /\ w' = At(w, SlotBytes)
  BY DEF RingInv, TypeInv, TypeOK, WritePublish, At
<1>2. /\ Count * SlotBytes \in 0..(size - 1) /\ SlotBytes \in 0..(size - 1)
      /\ Count * SlotBytes + SlotBytes < size
      /\ (Count + 1) * SlotBytes = Count * SlotBytes + SlotBytes
      /\ Count + 1 \in 0..Capacity
  BY <1>1, Slots, Sizes
<1>3. w' = At(r, (Count + 1) * SlotBytes)
  BY <1>1, <1>2, AtAdd
<1>4. Count' = Distance(w', r') \div SlotBytes
  BY DEF Count, get_full, Distance
<1> QED
  BY <1>1, <1>2, <1>3, <1>4, CountOf

\* The new r: one entry less.
LEMMA CountAdvance ==
    ASSUME TypeInv, RingInv, CollectAdvance
    PROVE  /\ Count' = Count - 1 /\ w' = At(r', Count' * SlotBytes) /\ w' = w
           /\ r' = At(r, SlotBytes) /\ r' \in Positions
<1>1. /\ Count \in 0..Capacity /\ w = At(r, Count * SlotBytes) /\ Count > 0
      /\ r \in Positions /\ w' = w /\ r' = At(r, SlotBytes)
  BY DEF RingInv, TypeInv, TypeOK, CollectAdvance, At
<1>2. /\ Count * SlotBytes \in 0..(size - 1) /\ SlotBytes \in 0..(size - 1)
      /\ (Count - 1) * SlotBytes = Count * SlotBytes - SlotBytes
      /\ Count - 1 \in 0..Capacity
  BY <1>1, Slots, Sizes
<1>3. (Count - 1) * SlotBytes \in 0..(size - 1)
  BY <1>2, Slots
<1>4. w = At(r', (Count - 1) * SlotBytes)
  <2>1. SlotBytes + (Count - 1) * SlotBytes = Count * SlotBytes
    BY <1>2, Sizes
  <2>2. SlotBytes + (Count - 1) * SlotBytes < size
    BY <1>2, <2>1, Sizes
  <2>3. At(At(r, SlotBytes), (Count - 1) * SlotBytes) = At(r, SlotBytes + (Count - 1) * SlotBytes)
    BY <1>1, <1>2, <1>3, <2>2, AtAdd
  <2> QED BY <1>1, <2>1, <2>3
<1>5. Count' = Distance(w', r') \div SlotBytes
  BY DEF Count, get_full, Distance
<1>6. r' \in Positions
  BY <1>1, <1>2, AtValue
<1> QED
  BY <1>1, <1>2, <1>4, <1>5, <1>6, CountOf

\* The ring is cleaned up.
LEMMA CountJoin ==
    ASSUME TypeInv, Join
    PROVE  Count' = 0 /\ w' = At(r', Count' * SlotBytes) /\ get_full' = 0
<1>1. w \in Positions /\ r' = w /\ w' = w
  BY DEF TypeInv, TypeOK, Join
<1>2. 0 \in 0..Capacity /\ 0 * SlotBytes = 0 /\ 0 \in 0..(size - 1)
  BY Sizes
<1>3. w = At(w, 0)
  BY <1>1, <1>2, AtDiffers
<1>4. Count' = Distance(w', r') \div SlotBytes /\ get_full' = Distance(w', r')
  BY DEF Count, get_full, Distance
<1> QED
  BY <1>1, <1>2, <1>3, <1>4, CountOf

\* No other step changes what is in the ring.
LEMMA CountSame ==
    ASSUME w' = w, r' = r
    PROVE  Count' = Count /\ get_full' = get_full /\ get_free' = get_free
  BY DEF Count, get_full, get_free

\* Every step keeps whole entries in the ring.
LEMMA RingStep ==
    ASSUME TypeInv, RingInv, [Next]_vars, phase = "joining" => cpc = "idle"
    PROVE  RingInv'
<1> USE DEF ring, flags, producer, consumer, pausing, service, history
<1>0. Count \in 0..Capacity /\ Count \in Nat /\ w = At(r, Count * SlotBytes)
  BY Sizes DEF RingInv
<1>1. CASE WritePublish
  <2>1. Count < Capacity /\ ppc' = "check"
    BY <1>1 DEF RingInv, WritePublish
  <2> QED
    BY <1>0, <1>1, <2>1, CountPublish, Sizes DEF RingInv
<1>2. CASE CollectAdvance
  <2>1. Count > 0 /\ cpc' = "append" /\ ppc' = ppc
    BY <1>2 DEF RingInv, CollectAdvance
  <2> QED
    BY <1>0, <1>2, <2>1, CountAdvance, Sizes DEF RingInv
<1>3. CASE Join
  <2>1. ppc' = "done" /\ cpc' = "idle"
    BY <1>3 DEF Join
  <2> QED
    BY <1>3, <2>1, CountJoin, Sizes DEF RingInv
<1>4. ASSUME w' = w, r' = r, ppc' \in {"copy", "publish"} => Count < Capacity,
             cpc' = "advance" => Count > 0
      PROVE  RingInv'
  BY <1>0, <1>4, CountSame DEF RingInv
<1>5. CASE WriteFree
  <2>1. ppc' = "copy" => get_free >= SlotBytes
    BY <1>5, FullType, Sizes DEF WriteFree
  <2> QED
    BY <1>4, <1>5, <2>1, RingFull DEF WriteFree, RingInv
<1>6. CASE CollectLoop
  <2>1. cpc' = "advance" => get_full /= 0
    BY <1>6 DEF CollectLoop
  <2> QED
    BY <1>0, <1>4, <1>6, <2>1, RingFull DEF CollectLoop, RingInv
<1>7. CASE UNCHANGED vars \/ Finished
  BY <1>4, <1>7 DEF vars, Finished, RingInv
<1>8. CASE ThreadNext /\ ~WritePublish /\ ~WriteFree
  BY <1>4, <1>8 DEF ThreadNext, Append_, WriteGivesUp, WriteCopy,
                    WriteCheck, WriteSet, WriteSignal, HandleMessage, StoreSeen, RingInv
<1>9. CASE \/ CollectAppend \/ CollectClear \/ CollectSignal \/ CollectTimer
           \/ Flush \/ Stop \/ Shutdown
  BY <1>4, <1>9 DEF CollectAppend, CollectClear, CollectSignal, CollectTimer, Flush, Stop,
                    Shutdown, RingInv
<1> QED
  BY <1>1, <1>2, <1>3, <1>5, <1>6, <1>7, <1>8, <1>9 DEF Next, CollectorNext

-----------------------------------------------------------------------------
(* Pausing and the end. *)

\* What the thread has been told last is what the engine thinks of it.
FollowInv ==
    phase = "running" =>
        /\ ppc /= "done" /\ \A i \in DOMAIN msgs : msgs[i] /= "exit"
        /\ msgs = <<>> => plugin_paused = paused
        /\ msgs /= <<>> => (msgs[Len(msgs)] = "pause" <=> paused)

\* Once the service stops, the thread ends up paused.
StopInv ==
    phase /= "running" =>
        /\ msgs = <<>> => plugin_paused
        /\ msgs /= <<>> => msgs[Len(msgs)] /= "resume"

\* The collector does not run for a paused input, nor when the thread is joined,
\* and the clean-up is the last step.
EndInv ==
    /\ cpc \in {"advance", "append"} => ~paused
    /\ phase \in {"joining", "off"} => cpc = "idle"
    /\ phase = "off" => ppc = "done"
    /\ phase /= "off" => lost = {}

Messages == {"pause", "resume", "exit"}

\* The first and the last of some messages, and of those after the first.
LEMMA MessagesTail ==
    ASSUME NEW s \in Seq(Messages), s /= <<>>
    PROVE  /\ Tail(s) \in Seq(Messages)
           /\ Head(s) \in Messages /\ Head(s) = s[1] /\ 1 \in DOMAIN s
           /\ Tail(s) = <<>> => s[Len(s)] = Head(s)
           /\ Tail(s) /= <<>> => Tail(s)[Len(Tail(s))] = s[Len(s)]
           /\ \A i \in DOMAIN Tail(s) : i + 1 \in DOMAIN s /\ Tail(s)[i] = s[i + 1]
<1>1. /\ Head(s) \in Messages /\ Tail(s) \in Seq(Messages)
      /\ Len(Tail(s)) = Len(s) - 1
      /\ \A i \in 1..Len(Tail(s)) : Tail(s)[i] = s[i + 1]
  BY HeadTailProperties
<1>2. /\ Len(s) \in Nat /\ Len(s) > 0 /\ DOMAIN s = 1..Len(s)
      /\ Len(Tail(s)) \in Nat /\ DOMAIN Tail(s) = 1..Len(Tail(s))
  BY <1>1, EmptySeq, LenProperties
<1>3. Head(s) = s[1]
  BY <1>2
<1>4. Tail(s) = <<>> => Len(s) = 1
  <2>1. Len(<<>>) = 0
    BY EmptySeq
  <2>2. Tail(s) = <<>> => Len(Tail(s)) = 0
    BY <2>1, Zenon
  <2> QED BY <1>1, <1>2, <2>2
<1>5. Tail(s) /= <<>> => Len(Tail(s)) \in 1..Len(Tail(s))
  BY <1>1, <1>2, EmptySeq
<1> QED
  BY <1>1, <1>2, <1>3, <1>4, <1>5

\* One more message at the end.
LEMMA MessagesAppend ==
    ASSUME NEW s \in Seq(Messages), NEW e \in Messages
    PROVE  /\ Append(s, e) \in Seq(Messages) /\ Append(s, e) /= <<>>
           /\ Append(s, e)[Len(Append(s, e))] = e
           /\ \A i \in DOMAIN Append(s, e) :
                 Append(s, e)[i] = e \/ (i \in DOMAIN s /\ Append(s, e)[i] = s[i])
           /\ s \o <<e>> = Append(s, e)
<1>1. /\ Append(s, e) \in Seq(Messages) /\ Append(s, e) /= <<>>
      /\ Len(Append(s, e)) = Len(s) + 1 /\ Append(s, e)[Len(s) + 1] = e
      /\ \A i \in 1..Len(s) : Append(s, e)[i] = s[i]
  BY AppendProperties
<1>2. Len(s) \in Nat /\ DOMAIN s = 1..Len(s) /\ DOMAIN Append(s, e) = 1..(Len(s) + 1)
  BY <1>1, LenProperties
<1>3. s \o <<e>> = Append(s, e)
  BY AppendIsConcat
<1>4. ASSUME NEW i \in DOMAIN Append(s, e)
      PROVE  Append(s, e)[i] = e \/ (i \in DOMAIN s /\ Append(s, e)[i] = s[i])
  <2>1. i \in 1..(Len(s) + 1)
    BY <1>2
  <2>2. CASE i = Len(s) + 1
    BY <1>1, <2>2
  <2>3. CASE i /= Len(s) + 1
    <3>1. i \in 1..Len(s)
      BY <1>2, <2>1, <2>3
    <3> QED BY <1>1, <1>2, <3>1
  <2> QED BY <2>2, <2>3
<1>5. Append(s, e)[Len(Append(s, e))] = e
  BY <1>1, Zenon
<1> QED
  BY <1>1, <1>3, <1>4, <1>5, Zenon

\* What the messages and the thread know of a pause, for the steps of the thread.
LEMMA FollowThread ==
    ASSUME TypeInv, FollowInv, StopInv, ThreadNext
    PROVE  FollowInv' /\ StopInv'
<1> USE DEF ring, flags, producer, consumer, pausing, service, history
<1>0. msgs \in Seq(Messages) /\ plugin_paused \in BOOLEAN /\ paused \in BOOLEAN
  BY DEF TypeInv, TypeOK, Messages
<1>1. CASE HandleMessage
  <2>1. /\ msgs /= <<>> /\ msgs' = Tail(msgs) /\ plugin_paused' = (Head(msgs) /= "resume")
        /\ paused' = paused /\ phase' = phase /\ ppc = "idle"
        /\ ppc' = IF Head(msgs) = "exit" THEN "done" ELSE "idle"
    BY <1>1 DEF HandleMessage
  <2>2. CASE phase = "running"
    <3>1. \A i \in DOMAIN msgs : msgs[i] /= "exit"
      BY <2>2 DEF FollowInv
    <3>2. Head(msgs) \in {"pause", "resume"} /\ ppc' = "idle"
      BY <1>0, <2>1, <3>1, MessagesTail DEF Messages
    <3>3. \A i \in DOMAIN msgs' : msgs'[i] /= "exit"
      BY <1>0, <2>1, <3>1, MessagesTail
    <3>4. msgs[Len(msgs)] = "pause" <=> paused
      BY <2>1, <2>2 DEF FollowInv
    <3>5. msgs' = <<>> => plugin_paused' = paused'
      BY <1>0, <2>1, <3>2, <3>4, MessagesTail
    <3>6. msgs' /= <<>> => (msgs'[Len(msgs')] = "pause" <=> paused')
      BY <1>0, <2>1, <3>4, MessagesTail
    <3> QED
      BY <2>1, <2>2, <3>2, <3>3, <3>5, <3>6 DEF FollowInv, StopInv
  <2>3. CASE phase /= "running"
    <3>1. msgs[Len(msgs)] /= "resume"
      BY <2>1, <2>3 DEF StopInv
    <3>2. msgs' = <<>> => plugin_paused'
      BY <1>0, <2>1, <3>1, MessagesTail
    <3>3. msgs' /= <<>> => msgs'[Len(msgs')] /= "resume"
      BY <1>0, <2>1, <3>1, MessagesTail
    <3> QED
      BY <2>1, <2>3, <3>2, <3>3 DEF FollowInv, StopInv
  <2> QED BY <2>2, <2>3
<1>2. CASE ~HandleMessage
  <2>1. /\ msgs' = msgs /\ plugin_paused' = plugin_paused /\ paused' = paused
        /\ phase' = phase /\ (ppc' = "done" => ppc = "done")
    BY <1>2 DEF ThreadNext, Append_, WriteFree, WriteGivesUp, WriteCopy, WritePublish,
                WriteCheck, WriteSet, WriteSignal, StoreSeen
  <2> QED
    BY <2>1 DEF FollowInv, StopInv
<1> QED BY <1>1, <1>2

\* The same for the steps of the engine.
LEMMA FollowEngine ==
    ASSUME TypeInv, FollowInv, StopInv, EndInv,
           \/ CollectorNext \/ CollectSignal \/ CollectTimer
           \/ Flush \/ Stop \/ Shutdown \/ Join
    PROVE  FollowInv' /\ StopInv'
<1> USE DEF ring, flags, producer, consumer, pausing, service, history
<1>0. msgs \in Seq(Messages) /\ plugin_paused \in BOOLEAN /\ paused \in BOOLEAN
  BY DEF TypeInv, TypeOK, Messages
<1>1. "pause" \in Messages /\ "resume" \in Messages /\ "exit" \in Messages
  BY DEF Messages
<1>2. CASE CollectAppend
  <2>1. ~paused /\ phase' = phase /\ ppc' = ppc /\ plugin_paused' = plugin_paused
    BY <1>2 DEF CollectAppend, EndInv
  <2>2. \/ paused' /\ msgs' = Append(msgs, "pause")
        \/ ~paused' /\ msgs' = msgs
    BY <1>2, <2>1 DEF CollectAppend
  <2>3. CASE paused' /\ msgs' = Append(msgs, "pause")
    <3>1. /\ msgs' /= <<>> /\ msgs'[Len(msgs')] = "pause"
          /\ \A i \in DOMAIN msgs' :
                msgs'[i] = "pause" \/ (i \in DOMAIN msgs /\ msgs'[i] = msgs[i])
      BY <1>0, <1>1, <2>3, MessagesAppend
    <3> QED
      BY <2>1, <2>3, <3>1 DEF FollowInv, StopInv
  <2>4. CASE ~paused' /\ msgs' = msgs
    <3>1. paused' \in BOOLEAN
      BY EngineType DEF TypeInv, TypeOK
    <3>2. paused' = paused
      BY <1>0, <2>1, <2>4, <3>1
    <3> QED
      BY <2>1, <2>4, <3>2 DEF FollowInv, StopInv
  <2> QED BY <2>2, <2>3, <2>4
<1>3. CASE Flush
  <2>1. phase' = phase /\ ppc' = ppc /\ plugin_paused' = plugin_paused
    BY <1>3 DEF Flush
  <2>2. CASE MayResume
    <3>1. phase = "running" /\ ~paused' /\ msgs' = Append(msgs, "resume")
      BY <1>3, <2>2 DEF Flush, MayResume
    <3> QED
      BY <1>0, <1>1, <2>1, <3>1, MessagesAppend DEF FollowInv, StopInv
  <2>3. CASE ~MayResume
    <3>1. paused' = paused /\ msgs' = msgs
      BY <1>0, <1>3, <2>3 DEF Flush
    <3> QED
      BY <2>1, <3>1 DEF FollowInv, StopInv
  <2> QED BY <2>2, <2>3
<1>4. CASE Stop
  <2>1. phase = "running" /\ phase' = "stopping" /\ plugin_paused' = plugin_paused
    BY <1>4 DEF Stop
  <2>2. CASE paused
    <3>1. msgs' = msgs
      BY <1>4, <2>2 DEF Stop
    <3> QED
      BY <2>1, <2>2, <3>1 DEF FollowInv, StopInv
  <2>3. CASE ~paused
    <3>1. msgs' = Append(msgs, "pause")
      BY <1>4, <2>3 DEF Stop
    <3> QED
      BY <1>0, <1>1, <2>1, <3>1, MessagesAppend DEF FollowInv, StopInv
  <2> QED BY <2>2, <2>3
<1>5. CASE Shutdown
  <2>1. phase' = "joining"
    BY <1>5 DEF Shutdown
  <2>2. (IF paused THEN msgs ELSE Append(msgs, "pause")) \in Seq(Messages)
    BY <1>0, <1>1, MessagesAppend
  <2>3. msgs' = Append(IF paused THEN msgs ELSE Append(msgs, "pause"), "exit")
    BY <1>1, <1>5, <2>2, MessagesAppend DEF Shutdown
  <2>4. msgs' /= <<>> /\ msgs'[Len(msgs')] = "exit"
    BY <1>1, <2>2, <2>3, MessagesAppend
  <2> QED
    BY <2>1, <2>4 DEF FollowInv, StopInv
<1>6. CASE Join
  <2>1. phase' = "off" /\ phase = "joining" /\ msgs' = msgs /\ plugin_paused' = plugin_paused
    BY <1>6 DEF Join
  <2> QED
    BY <2>1 DEF FollowInv, StopInv
<1>7. CASE CollectLoop \/ CollectAdvance \/ CollectClear \/ CollectSignal \/ CollectTimer
  <2>1. /\ msgs' = msgs /\ plugin_paused' = plugin_paused /\ paused' = paused
        /\ phase' = phase /\ ppc' = ppc
    BY <1>7 DEF CollectLoop, CollectAdvance, CollectClear, CollectSignal, CollectTimer
  <2> QED
    BY <2>1 DEF FollowInv, StopInv
<1> QED
  BY <1>2, <1>3, <1>4, <1>5, <1>6, <1>7 DEF CollectorNext

\* Every step keeps EndInv.
LEMMA EndStep ==
    ASSUME TypeInv, EndInv, [Next]_vars
    PROVE  EndInv'
<1> USE DEF ring, flags, producer, consumer, pausing, service, history
<1>1. CASE UNCHANGED vars \/ Finished
  BY <1>1 DEF vars, Finished, EndInv
<1>2. CASE ThreadNext
  <2>1. UNCHANGED <<cpc, phase, paused, lost>> /\ (ppc = "done" => ppc' = "done")
    BY <1>2 DEF ThreadNext, Append_, WriteFree, WriteGivesUp, WriteCopy, WritePublish,
                WriteCheck, WriteSet, WriteSignal, HandleMessage, StoreSeen
  <2> QED BY <2>1 DEF EndInv
<1>3. CASE CollectSignal \/ CollectTimer
  BY <1>3 DEF CollectSignal, CollectTimer, Up, EndInv
<1>4. CASE CollectLoop
  <2>1. /\ UNCHANGED <<ppc, paused, phase, lost>> /\ cpc = "loop"
        /\ IF paused \/ get_full = 0 THEN cpc' = "clear" ELSE cpc' = "advance"
    BY <1>4 DEF CollectLoop
  <2> QED BY <2>1 DEF EndInv
<1>5. CASE CollectAdvance \/ CollectAppend \/ CollectClear
  <2>1. /\ UNCHANGED <<ppc, phase, lost>> /\ cpc /= "idle"
        /\ cpc' \in {"advance", "append"} => cpc = "advance" /\ paused' = paused
    BY <1>5 DEF CollectAdvance, CollectAppend, CollectClear
  <2> QED BY <2>1 DEF EndInv
<1>6. CASE Flush \/ Stop \/ Shutdown
  <2>1. /\ UNCHANGED <<ppc, lost, cpc>> /\ cpc = "idle"
        /\ phase /= "off" /\ phase' /= "off"
    BY <1>6 DEF Flush, Stop, Shutdown, Up
  <2> QED BY <2>1 DEF EndInv
<1>7. CASE Join
  <2>1. UNCHANGED <<ppc, paused, cpc>> /\ phase = "joining" /\ phase' = "off" /\ ppc = "done"
    BY <1>7 DEF Join
  <2> QED BY <2>1 DEF EndInv
<1> QED
  BY <1>1, <1>2, <1>3, <1>4, <1>5, <1>6, <1>7 DEF Next, CollectorNext

-----------------------------------------------------------------------------
(* What is in the ring. *)

\* Where stores keep their order, the ring holds entries, and the threads hand
\* over the ones they hold.
DataInv ==
    ~Reorders =>
        /\ DOMAIN stores = {}
        /\ Holds(buff, r, Count)
        /\ ppc = "publish" => HasEntry(buff, w, cur)
        /\ cpc = "advance" => got = Decode(buff, r)

\* The entries in the ring are the ones seen in the bytes.
LEMMA InRingNow ==
    ASSUME TypeInv, DOMAIN stores = {}
    PROVE  InRing = Seen(buff, r, Count)
<1>1. Memory = buff
  BY DEF Memory, TypeInv, TypeOK
<1> QED
  BY <1>1 DEF InRing, Seen, Count, At

\* So they are after a step.
LEMMA InRingNext ==
    ASSUME TypeInv', DOMAIN stores' = {}
    PROVE  InRing' = Seen(buff', r', Count')
<1>1. Memory' = buff'
  BY DEF Memory, TypeInv, TypeOK
<1> QED
  BY <1>1 DEF InRing, Seen, Count, At

\* The bytes of a new entry are beyond those of the others.
LEMMA CopyBeyond ==
    ASSUME TypeInv, RingInv, Count < Capacity
    PROVE  \A d \in 0..(size - 1) : d < Count * SlotBytes => At(r, d) \notin DOMAIN Bytes
<1>1. /\ Count \in 0..Capacity /\ w = At(r, Count * SlotBytes)
      /\ r \in Positions /\ w \in Positions
  BY DEF RingInv, TypeInv, TypeOK
<1> SUFFICES ASSUME NEW d \in 0..(size - 1), d < Count * SlotBytes, At(r, d) \in DOMAIN Bytes
             PROVE  FALSE
  OBVIOUS
<1>2. PICK k \in 1..SlotBytes : At(r, d) = At(w, k - 1)
  BY <1>1, BytesOf
<1>3. /\ Count * SlotBytes \in 0..(size - 1) /\ Count * SlotBytes + SlotBytes <= size - 1
  BY <1>1, Slots
<1>4. /\ k - 1 \in 0..(size - 1) /\ Count * SlotBytes + (k - 1) < size
      /\ Count * SlotBytes + (k - 1) \in 0..(size - 1)
  BY <1>3, Sizes
<1>5. At(w, k - 1) = At(r, Count * SlotBytes + (k - 1))
  BY <1>1, <1>3, <1>4, AtAdd
<1>6. d = Count * SlotBytes + (k - 1)
  BY <1>1, <1>2, <1>4, <1>5, AtDiffers
<1> QED
  BY <1>3, <1>4, <1>6, Sizes

\* Writing the bytes leaves the entries in the ring alone.
LEMMA DataCopy ==
    ASSUME TypeInv, TypeInv', RingInv, DataInv, ~Reorders, WriteCopy
    PROVE  DataInv' /\ InRing' = InRing
<1> USE DEF flags, consumer, pausing, service, history
<1>1. /\ DOMAIN stores = {} /\ Holds(buff, r, Count) /\ ppc = "copy" /\ Count < Capacity
      /\ Count \in 0..Capacity
      /\ cpc = "advance" => got = Decode(buff, r) /\ Count > 0
  BY DEF DataInv, RingInv, WriteCopy
<1>2. /\ w' = w /\ r' = r /\ stores' = stores /\ cur' = cur /\ cpc' = cpc /\ got' = got
      /\ buff' = [p \in Positions |-> IF p \in DOMAIN Bytes THEN Bytes[p] ELSE buff[p]]
      /\ ppc' = "publish"
  BY DEF WriteCopy
<1>3. Count' = Count /\ r \in Positions /\ w \in Positions
  BY <1>2, CountSame DEF TypeInv, TypeOK
<1>4. \A d \in 0..(size - 1) : d < Count * SlotBytes => buff'[At(r, d)] = buff[At(r, d)]
  BY <1>1, <1>2, <1>3, CopyBeyond, AtValue
<1>5. Holds(buff', r, Count) /\ Seen(buff', r, Count) = Seen(buff, r, Count)
  <2> DEFINE mm == buff'
  <2>1. \A d \in 0..(size - 1) : d < Count * SlotBytes => mm[At(r, d)] = buff[At(r, d)]
    BY <1>4
  <2> HIDE DEF mm
  <2>2. Holds(mm, r, Count) /\ Seen(mm, r, Count) = Seen(buff, r, Count)
    BY <1>1, <1>3, <2>1, SeenSame
  <2> QED
    BY <2>2 DEF mm
<1>6. HasEntry(buff', w, cur)
  <2> SUFFICES ASSUME NEW k \in 1..SlotBytes PROVE buff'[At(w, k - 1)] = <<cur, k>>
    BY DEF HasEntry
  <2>1. At(w, k - 1) \in Positions
    BY <1>3, SpanAt
  <2> QED
    BY <1>2, <1>3, <2>1, BytesOf
<1>7. Count > 0 => Decode(buff', r) = Decode(buff, r)
  <2>1. Count > 0 => Count \in 1..Capacity
    BY <1>1, Sizes
  <2> QED
    BY <1>1, <1>3, <1>5, <2>1, SeenTake
<1>8. InRing' = InRing
  BY <1>1, <1>2, <1>3, <1>5, InRingNow, InRingNext
<1> QED
  BY <1>1, <1>2, <1>3, <1>5, <1>6, <1>7, <1>8 DEF DataInv

\* The new w puts the entry into the ring.
LEMMA DataPublish ==
    ASSUME TypeInv, TypeInv', RingInv, DataInv, ~Reorders, WritePublish
    PROVE  /\ DataInv' /\ InRing' = Append(InRing, cur)
           /\ InRing \in Seq(Entries) /\ Len(InRing) < Capacity /\ cur \in Entries
<1> USE DEF flags, consumer, pausing, service, history
<1>1. /\ DOMAIN stores = {} /\ Holds(buff, r, Count) /\ HasEntry(buff, w, cur)
      /\ Count < Capacity /\ Count \in 0..Capacity /\ w = At(r, Count * SlotBytes)
      /\ cpc = "advance" => got = Decode(buff, r)
  BY DEF DataInv, RingInv, WritePublish
<1>2. /\ buff' = buff /\ r' = r /\ stores' = stores /\ cpc' = cpc /\ got' = got
      /\ ppc' = "check" /\ ppc = "publish"
  BY DEF WritePublish
<1>3. cur \in Entries /\ r \in Positions
  BY <1>2 DEF TypeInv, TypeOK, Writing
<1>4. Count' = Count + 1
  BY CountPublish
<1>5. Holds(buff, r, Count + 1) /\ Seen(buff, r, Count + 1) = Append(Seen(buff, r, Count), cur)
  BY <1>1, <1>3, SeenPut
<1>6. InRing = Seen(buff, r, Count) /\ InRing' = Seen(buff, r, Count + 1)
  BY <1>1, <1>2, <1>4, InRingNow, InRingNext
<1>7. Seen(buff, r, Count) \in Seq(Entries) /\ Len(Seen(buff, r, Count)) = Count
  BY <1>1, <1>3, SeenEntries
<1> QED
  BY <1>1, <1>2, <1>3, <1>4, <1>5, <1>6, <1>7 DEF DataInv

\* The new r takes the entry that was read out of the ring.
LEMMA DataAdvance ==
    ASSUME TypeInv, TypeInv', RingInv, DataInv, ~Reorders, CollectAdvance
    PROVE  /\ DataInv' /\ InRing' = Tail(InRing)
           /\ InRing \in Seq(Entries) /\ InRing /= <<>> /\ got = Head(InRing)
<1> USE DEF flags, producer, pausing, service, history
<1>1. /\ DOMAIN stores = {} /\ Holds(buff, r, Count)
      /\ Count \in 0..Capacity /\ Count > 0 /\ got = Decode(buff, r)
      /\ ppc = "publish" => HasEntry(buff, w, cur)
  BY DEF DataInv, RingInv, CollectAdvance
<1>2. /\ buff' = buff /\ w' = w /\ stores' = stores /\ cpc' = "append" /\ got' = got
      /\ ppc' = ppc /\ cur' = cur
  BY DEF CollectAdvance
<1>3. r \in Positions /\ Count \in 1..Capacity
  BY <1>1, Sizes DEF TypeInv, TypeOK
<1>4. Count' = Count - 1 /\ r' = At(r, SlotBytes)
  BY CountAdvance
<1>5. /\ Holds(buff, At(r, SlotBytes), Count - 1) /\ Seen(buff, r, Count) /= <<>>
      /\ Head(Seen(buff, r, Count)) = Decode(buff, r)
      /\ Seen(buff, At(r, SlotBytes), Count - 1) = Tail(Seen(buff, r, Count))
  BY <1>1, <1>3, SeenTake
<1>6. InRing = Seen(buff, r, Count) /\ InRing' = Seen(buff, At(r, SlotBytes), Count - 1)
  BY <1>1, <1>2, <1>4, InRingNow, InRingNext
<1>7. Seen(buff, r, Count) \in Seq(Entries)
  BY <1>1, <1>3, SeenEntries
<1> QED
  BY <1>1, <1>2, <1>4, <1>5, <1>6, <1>7 DEF DataInv

\* The clean-up empties the ring.
LEMMA DataJoin ==
    ASSUME TypeInv, TypeInv', EndInv, DataInv, ~Reorders, Join
    PROVE  DataInv' /\ InRing' = <<>>
<1> USE DEF flags, producer, consumer, pausing, service, history
<1>1. DOMAIN stores' = {} /\ ppc' = "done" /\ cpc' = "idle"
  BY DEF DataInv, Join, EndInv
<1>2. Count' = 0
  BY CountJoin
<1>3. InRing' = Seen(buff', r', 0)
  BY <1>1, <1>2, InRingNext
<1>4. 1..0 = {}
  OBVIOUS
<1>5. Holds(buff', r', 0) /\ Seen(buff', r', 0) = <<>>
  BY <1>4 DEF Holds, Seen
<1> QED
  BY <1>1, <1>2, <1>3, <1>5 DEF DataInv

\* Steps that leave the ring alone.
LEMMA DataSame ==
    ASSUME TypeInv, TypeInv', DataInv, ~Reorders, setting' = setting,
           UNCHANGED <<buff, w, r, stores>>,
           ppc' = "publish" => ppc = "publish" /\ cur' = cur,
           cpc' = "advance" => got' = Decode(buff, r)
    PROVE  DataInv' /\ InRing' = InRing
<1>1. DOMAIN stores = {} /\ DOMAIN stores' = {} /\ Count' = Count
  BY CountSame DEF DataInv
<1>2. InRing' = InRing
  BY <1>1, InRingNow, InRingNext
<1>3. DataInv'
  BY <1>1 DEF DataInv
<1> QED BY <1>2, <1>3

\* What a step does with the ring and with what was taken from it.
QueueStep ==
    \/ /\ WritePublish /\ cur \in Entries /\ Len(InRing) < Capacity
       /\ InRing' = Append(InRing, cur) /\ Taken' = Taken
    \/ /\ CollectAdvance /\ InRing /= <<>>
       /\ InRing' = Tail(InRing) /\ Taken' = Append(Taken, Head(InRing))
    \/ Join /\ InRing' = <<>> /\ Taken' = Taken
    \/ ~WritePublish /\ ~CollectAdvance /\ ~Join /\ UNCHANGED <<InRing, Taken>>

\* Every step keeps the entries and is one of a queue.
LEMMA DataStep ==
    ASSUME TypeInv, TypeInv', RingInv, EndInv, DataInv, ~Reorders, [Next]_vars,
           setting' = setting
    PROVE  DataInv' /\ QueueStep
<1> USE DEF ring, flags, producer, consumer, pausing, service, history
<1>1. CASE WritePublish
  <2>1. Taken' = Taken
    BY <1>1 DEF WritePublish, Taken
  <2> QED
    BY <1>1, <2>1, DataPublish DEF QueueStep
<1>2. CASE CollectAdvance
  <2>1. Taken' = Append(Taken, got)
    BY <1>2 DEF CollectAdvance, Taken
  <2> QED
    BY <1>2, <2>1, DataAdvance DEF QueueStep
<1>3. CASE Join
  <2>1. Taken' = Taken
    BY <1>3 DEF Join, Taken
  <2> QED
    BY <1>3, <2>1, DataJoin DEF QueueStep
<1>4. CASE ~WritePublish /\ ~CollectAdvance /\ ~Join
  <2>0. ASSUME DataInv' /\ InRing' = InRing, Taken' = Taken PROVE DataInv' /\ QueueStep
    BY <1>4, <2>0 DEF QueueStep
  <2>1. CASE WriteCopy
    <3>1. Taken' = Taken
      BY <2>1 DEF WriteCopy, Taken
    <3> QED BY <2>0, <2>1, <3>1, DataCopy
  <2>2. CASE CollectLoop
    <3>1. Taken' = Taken
      BY <2>2 DEF CollectLoop, Taken
    <3>2. /\ UNCHANGED <<buff, w, r, stores, ppc, cur>>
          /\ cpc' = "advance" => got' = Decode(buff, r)
      BY <2>2 DEF CollectLoop
    <3> QED BY <2>0, <3>1, <3>2, DataSame
  <2>3. CASE UNCHANGED vars \/ Finished
    <3>1. UNCHANGED <<buff, w, r, stores, ppc, cur, cpc, got, collected>>
      BY <2>3 DEF vars, Finished
    <3>2. Taken' = Taken
      BY <3>1 DEF Taken
    <3> QED BY <2>0, <3>1, <3>2, DataSame DEF DataInv
  <2>4. CASE ThreadNext /\ ~WriteCopy
    <3>1. \A p : ~StoreSeen(p)
      BY DEF StoreSeen, DataInv
    <3>2. /\ UNCHANGED <<buff, w, r, stores, cpc, got, collected>>
          /\ ppc' = "publish" => ppc = "publish" /\ cur' = cur
      BY <1>4, <2>4, <3>1 DEF ThreadNext, Append_, WriteFree, WriteGivesUp, WriteCheck,
                              WriteSet, WriteSignal, HandleMessage
    <3>3. Taken' = Taken
      BY <3>2 DEF Taken
    <3> QED BY <2>0, <3>2, <3>3, DataSame DEF DataInv
  <2>5. CASE \/ CollectAppend \/ CollectClear \/ CollectSignal \/ CollectTimer
             \/ Flush \/ Stop \/ Shutdown
    <3>1. /\ UNCHANGED <<buff, w, r, stores, ppc, cur>>
          /\ cpc' /= "advance" \/ (cpc' = cpc /\ got' = got)
      BY <2>5 DEF CollectAppend, CollectClear, CollectSignal, CollectTimer, Flush, Stop, Shutdown
    <3>2. Taken' = Taken
      BY <2>5 DEF CollectAppend, CollectClear, CollectSignal, CollectTimer, Flush, Stop,
                  Shutdown, Taken
    <3> QED BY <2>0, <3>1, <3>2, DataSame DEF DataInv
  <2> QED
    BY <1>4, <2>1, <2>2, <2>3, <2>4, <2>5 DEF Next, CollectorNext
<1> QED BY <1>1, <1>2, <1>3, <1>4

-----------------------------------------------------------------------------
(* The theorems. *)

\* The inductive invariant of the ring.
IndInv == /\ TypeInv /\ RingInv
          /\ FollowInv /\ StopInv /\ EndInv
          /\ DataInv

\* It holds initially.
LEMMA IndInvInit == Init => IndInv
<1> SUFFICES ASSUME Init PROVE IndInv
  OBVIOUS
<1>1. TypeInv
  BY TypeInit
<1>2. 0 \in Positions /\ 0 \in 0..Capacity /\ 0 * SlotBytes = 0 /\ At(0, 0) = 0
  BY Sizes, AtDiffers
<1>3. Count = 0 /\ w = At(r, Count * SlotBytes) /\ get_full = 0
  <2>1. w = 0 /\ r = 0 /\ w = At(r, 0 * SlotBytes)
    BY <1>2 DEF Init
  <2>2. Count = Distance(w, r) \div SlotBytes /\ get_full = Distance(w, r)
    BY DEF Count, get_full, Distance
  <2> QED
    BY <1>2, <2>1, <2>2, CountOf
<1>4. RingInv
  BY <1>2, <1>3 DEF Init, RingInv
<1>5. FollowInv /\ StopInv
  <2>1. /\ phase = "running" /\ ppc = "idle" /\ msgs = <<>>
        /\ ~paused /\ ~plugin_paused
    BY DEF Init
  <2>2. \A i \in DOMAIN msgs : FALSE
    BY <2>1
  <2>3. plugin_paused = paused
    BY DEF Init
  <2> QED
    BY <2>1, <2>2, <2>3 DEF FollowInv, StopInv
<1>6. EndInv
  BY DEF Init, EndInv
<1>7. DataInv
  <2>1. 1..0 = {}
    OBVIOUS
  <2>2. Holds(buff, r, Count)
    BY <1>3, <2>1 DEF Holds
  <2> QED
    BY <2>2 DEF Init, DataInv
<1> QED
  BY <1>1, <1>4, <1>5, <1>6, <1>7 DEF IndInv

\* The ring is empty at first.
LEMMA InRingInit ==
    ASSUME Init
    PROVE  InRing = <<>>
<1>1. Count = 0
  <2>1. RingInv /\ w = 0 /\ r = 0
    BY IndInvInit DEF Init, IndInv
  <2>2. 0 \in Positions /\ 0 \in 0..Capacity /\ 0 * SlotBytes = 0 /\ At(0, 0) = 0
    BY Sizes, AtDiffers
  <2>3. Count = Distance(w, r) \div SlotBytes
    BY DEF Count, get_full, Distance
  <2> QED BY <2>1, <2>2, <2>3, CountOf
<1>2. 1..0 = {}
  OBVIOUS
<1>3. InRing = [i \in 1..Count |-> Decode(Memory, (r + (i - 1) * SlotBytes) % size)]
  BY DEF InRing, Count
<1> QED BY <1>1, <1>2, <1>3

\* Every step keeps it.
LEMMA IndInvStep ==
    ASSUME IndInv, [Next]_vars
    PROVE  IndInv'
<1> USE DEF IndInv
<1>1. TypeInv' /\ setting' = setting
  BY TypeStep
<1>2. RingInv'
  BY RingStep DEF EndInv
<1>3. DataInv'
  <2>1. Reorders' = Reorders
    BY <1>1 DEF Reorders
  <2>2. CASE Reorders
    BY <2>1, <2>2 DEF DataInv
  <2> QED
    BY <1>1, <2>2, DataStep
<1>4. FollowInv' /\ StopInv'
  <2>1. CASE UNCHANGED vars \/ Finished
    <3>1. /\ UNCHANGED <<phase, ppc, msgs, plugin_paused, paused>>
      BY <2>1 DEF vars, Finished, producer, pausing, service
    <3> QED BY <3>1 DEF FollowInv, StopInv
  <2>2. CASE ThreadNext
    BY <2>2, FollowThread
  <2>3. CASE \/ CollectorNext \/ CollectSignal \/ CollectTimer
             \/ Flush \/ Stop \/ Shutdown \/ Join
    BY <2>3, FollowEngine
  <2> QED BY <2>1, <2>2, <2>3 DEF Next
<1>5. EndInv'
  BY EndStep
<1> QED BY <1>1, <1>2, <1>3, <1>4, <1>5

\* The ring is never torn and the two threads agree, in every reachable state.
THEOREM IndInvHolds == Spec => []IndInv
  BY IndInvInit, IndInvStep, PTL DEF Spec

\* Whatever the engine thinks of an input whose thread has read its messages is
\* what the plugin does: flb_input_pause and flb_input_resume are never lost
\* and never overtake each other.
THEOREM ThreadAlwaysFollows == Spec => []ThreadFollows
<1>1. IndInv => ThreadFollows
  BY DEF IndInv, FollowInv, ThreadFollows
<1> QED
  BY <1>1, IndInvHolds, PTL

\* lwrb_write, lwrb_read and the clean-up implement a queue of Capacity entries,
\* for any capacity and any size of a slot, at every byte where an entry can wrap.
THEOREM RingIsQueue == Spec => IsQueue
<1>1. Init => Queue!Init
  <2> SUFFICES ASSUME Init PROVE Queue!Init
    OBVIOUS
  <2>2. ~Reorders => InRing = <<>>
    BY InRingInit
  <2>3. Taken = <<>>
    BY DEF Init, Taken
  <2> QED
    BY <2>2, <2>3 DEF Queue!Init, Ordered
<1>2. IndInv /\ [Next]_vars => [Queue!Next]_(Queue!vars)
  <2> SUFFICES ASSUME IndInv, [Next]_vars PROVE [Queue!Next]_(Queue!vars)
    OBVIOUS
  <2>1. TypeInv' /\ setting' = setting
    BY TypeStep DEF IndInv
  <2>2. Reorders' = Reorders
    BY <2>1 DEF Reorders
  <2>3. CASE Reorders
    BY <2>2, <2>3 DEF Queue!vars, Ordered
  <2>4. CASE ~Reorders
    <3>1. QueueStep
      BY <2>1, <2>4, DataStep DEF IndInv
    <3>2. /\ Ordered(InRing) = InRing /\ Ordered(InRing)' = InRing'
          /\ Ordered(Taken) = Taken /\ Ordered(Taken)' = Taken'
      BY <2>2, <2>4 DEF Ordered
    <3> QED
      BY <3>1, <3>2 DEF QueueStep, Queue!Next, Queue!Put, Queue!Take, Queue!Clear, Queue!vars
  <2> QED BY <2>3, <2>4
<1> QED
  BY <1>1, <1>2, IndInvHolds, PTL DEF Spec, IsQueue, Queue!Spec

-----------------------------------------------------------------------------
(* No entry disappears. *)

\* Entries are numbered as they are appended, and stay in that order.
Increasing(s) == \A i, j \in 1..Len(s) : i < j => s[i] < s[j]

\* The entry that is being written, and the number of the ones before it.
There == IF cur = NoEntry THEN {} ELSE {cur}
Old   == IF cur = NoEntry THEN appended ELSE appended - 1

\* One more entry.
LEMMA RangeAppend ==
    ASSUME NEW S, NEW s \in Seq(S), NEW e \in S
    PROVE  Range(Append(s, e)) = Range(s) \cup {e} /\ Len(Append(s, e)) = Len(s) + 1
<1>1. /\ Append(s, e) \in Seq(S) /\ Len(Append(s, e)) = Len(s) + 1
      /\ \A i \in 1..Len(s) : Append(s, e)[i] = s[i]
      /\ Append(s, e)[Len(s) + 1] = e
  BY AppendProperties
<1>2. Len(s) \in Nat /\ DOMAIN s = 1..Len(s) /\ DOMAIN Append(s, e) = 1..(Len(s) + 1)
  BY <1>1, LenProperties
<1>3. 1..(Len(s) + 1) = (1..Len(s)) \cup {Len(s) + 1}
  BY <1>2
<1> DEFINE t == Append(s, e)
<1>4. \A i \in 1..Len(s) : t[i] = s[i]
  BY <1>1
<1>5. t[Len(s) + 1] = e /\ DOMAIN t = (1..Len(s)) \cup {Len(s) + 1}
  BY <1>1, <1>2, <1>3
<1> HIDE DEF t
<1>6. Range(t) = Range(s) \cup {e}
  BY <1>2, <1>4, <1>5 DEF Range
<1> QED
  BY <1>1, <1>6 DEF t

\* One entry less.
LEMMA RangeTail ==
    ASSUME NEW S, NEW s \in Seq(S), s /= <<>>
    PROVE  /\ Range(s) = {Head(s)} \cup Range(Tail(s))
           /\ Len(s) = Len(Tail(s)) + 1 /\ Head(s) \in S /\ Tail(s) \in Seq(S)
<1>1. /\ Head(s) \in S /\ Tail(s) \in Seq(S) /\ Len(Tail(s)) = Len(s) - 1
      /\ \A i \in 1..Len(Tail(s)) : Tail(s)[i] = s[i + 1]
  BY HeadTailProperties
<1>2. Len(s) \in Nat /\ Len(s) > 0 /\ Head(s) = s[1]
  BY EmptySeq, LenProperties
<1>3. /\ DOMAIN s = 1..Len(s) /\ DOMAIN Tail(s) = 1..(Len(s) - 1)
  BY <1>1, LenProperties
<1> DEFINE t == Tail(s)
           n == Len(s)
<1>4. n \in Nat /\ n > 0 /\ DOMAIN s = 1..n /\ DOMAIN t = 1..(n - 1)
  BY <1>2, <1>3
<1>5. \A i \in 1..(n - 1) : t[i] = s[i + 1]
  BY <1>1
<1> HIDE DEF t, n
<1>6. Range(s) = {s[1]} \cup Range(t)
  <2>1. ASSUME NEW x \in Range(s) PROVE x \in {s[1]} \cup Range(t)
    <3>1. PICK i \in 1..n : x = s[i]
      BY <1>4 DEF Range
    <3>2. CASE i = 1
      BY <3>1, <3>2
    <3>3. CASE i /= 1
      <4>1. i - 1 \in 1..(n - 1) /\ (i - 1) + 1 = i
        BY <1>4, <3>3
      <4>2. t[i - 1] = x
        BY <1>5, <3>1, <4>1
      <4> QED BY <1>4, <4>1, <4>2 DEF Range
    <3> QED BY <3>2, <3>3
  <2>2. ASSUME NEW x \in Range(t) PROVE x \in Range(s)
    <3>1. PICK i \in 1..(n - 1) : x = t[i]
      BY <1>4 DEF Range
    <3>2. i + 1 \in 1..n
      BY <1>4
    <3> QED BY <1>4, <1>5, <3>1, <3>2 DEF Range
  <2>3. s[1] \in Range(s)
    <3>1. 1 \in 1..n
      BY <1>4
    <3> QED BY <1>4, <3>1 DEF Range
  <2> QED BY <2>1, <2>2, <2>3
<1> QED
  BY <1>1, <1>2, <1>6 DEF t

\* A sequence that increases has as many members as its length.
LEMMA RangeCount ==
    ASSUME NEW s \in Seq(Nat), Increasing(s)
    PROVE  IsFiniteSet(Range(s)) /\ Cardinality(Range(s)) = Len(s)
<1>1. Len(s) \in Nat /\ DOMAIN s = 1..Len(s) /\ \A i \in 1..Len(s) : s[i] \in Nat
  BY LenProperties, ElementOfSeq
<1>2. \A i, j \in 1..Len(s) : s[i] = s[j] => i = j
  BY <1>1 DEF Increasing
<1>3. s \in Bijection(1..Len(s), Range(s))
  <2>1. s \in [1..Len(s) -> Range(s)]
    BY <1>1 DEF Range
  <2> QED
    BY <1>1, <1>2, <2>1 DEF Bijection, Injection, Surjection, IsInjective, Range
<1>4. ExistsBijection(1..Len(s), Range(s))
  BY <1>3 DEF ExistsBijection
<1>5. IsFiniteSet(1..Len(s))
  BY <1>1, FS_Interval
<1> QED
  BY <1>1, <1>4, <1>5, FS_CountingElements, FS_Bijection

\* A higher number at the end keeps the order.
LEMMA IncreasingAppend ==
    ASSUME NEW s \in Seq(Nat), NEW e \in Nat, Increasing(s), \A i \in 1..Len(s) : s[i] < e
    PROVE  Increasing(Append(s, e)) /\ \A i \in 1..Len(Append(s, e)) : Append(s, e)[i] <= e
<1>1. /\ Len(Append(s, e)) = Len(s) + 1
      /\ \A i \in 1..Len(s) : Append(s, e)[i] = s[i]
      /\ Append(s, e)[Len(s) + 1] = e
  BY AppendProperties
<1>2. Len(s) \in Nat /\ \A i \in 1..Len(s) : s[i] \in Nat
  BY LenProperties, ElementOfSeq
<1> DEFINE t == Append(s, e)
           n == Len(s)
<1>3. /\ n \in Nat /\ \A i \in 1..n : t[i] = s[i] /\ s[i] \in Nat /\ s[i] < e
      /\ t[n + 1] = e /\ Len(t) = n + 1
      /\ \A i, j \in 1..n : i < j => s[i] < s[j]
  BY <1>1, <1>2 DEF Increasing
<1> HIDE DEF t, n
<1>4. Increasing(t) /\ \A i \in 1..Len(t) : t[i] <= e
  BY <1>3 DEF Increasing
<1> QED
  BY <1>4 DEF t

\* So does the loss of the first.
LEMMA IncreasingTail ==
    ASSUME NEW s \in Seq(Nat), s /= <<>>, Increasing(s), NEW n \in Nat,
           \A i \in 1..Len(s) : s[i] <= n
    PROVE  Increasing(Tail(s)) /\ \A i \in 1..Len(Tail(s)) : Tail(s)[i] <= n
<1>1. /\ Len(Tail(s)) = Len(s) - 1
      /\ \A i \in 1..Len(Tail(s)) : Tail(s)[i] = s[i + 1]
  BY HeadTailProperties
<1>2. Len(s) \in Nat /\ Len(s) > 0
  BY EmptySeq, LenProperties
<1> QED
  BY <1>1, <1>2 DEF Increasing

\* Where stores keep their order: the entry that is written is the newest, the
\* ring holds older ones in their order, none of them has failed, and all are
\* accounted for.
AccountInv ==
    ~Reorders =>
        /\ appended \in Nat /\ cur \in {NoEntry, appended}
        /\ failed \in SUBSET (1..Old) /\ IsFiniteSet(lost)
        /\ \A i \in 1..Len(InRing) : InRing[i] <= Old
        /\ Increasing(InRing)
        /\ 1..appended = Range(Taken) \cup Range(InRing) \cup There \cup failed \cup lost
        /\ Cardinality(There) + Len(Taken) + Len(InRing)
              + Cardinality(failed) + Cardinality(lost) = appended

\* What was in the ring when the collector began its run is taken or still in
\* it, and taken when the run has come to its end; what chunks refused was taken.
FoundInv ==
    ~Reorders =>
        /\ found \subseteq Range(Taken) \cup Range(InRing)
        /\ cpc \in {"idle", "clear"} => found \subseteq Range(Taken)
        /\ refused \subseteq Range(collected)

\* They say that all is accounted for, and that the collector empties the ring.
LEMMA AccountedOf == AccountInv /\ FoundInv => Accounted /\ Emptied
<1>1. cpc = "clear" => Taken = collected
  BY DEF Taken
<1> QED
  BY <1>1 DEF AccountInv, FoundInv, Accounted, Emptied, There

\* The types of what is counted.
LEMMA AccountTypes ==
    ASSUME TypeInv, RingInv, DataInv, ~Reorders, AccountInv
    PROVE  /\ InRing \in Seq(Entries) /\ InRing \in Seq(Nat) /\ Len(InRing) \in Nat
           /\ Taken \in Seq(Entries \cup {NoEntry}) /\ Len(Taken) \in Nat
           /\ Old \in Nat /\ (cur /= NoEntry => cur = Old + 1)
           /\ IsFiniteSet(failed) /\ Cardinality(failed) \in Nat
           /\ Cardinality(lost) \in Nat
           /\ Cardinality(There) = IF cur = NoEntry THEN 0 ELSE 1
<1>1. DOMAIN stores = {} /\ Holds(buff, r, Count) /\ Count \in 0..Capacity /\ r \in Positions
  BY DEF DataInv, RingInv, TypeInv, TypeOK
<1>2. InRing \in Seq(Entries)
  BY <1>1, InRingNow, SeenEntries
<1>3. InRing \in Seq(Nat) /\ Len(InRing) \in Nat
  <2>1. Entries \subseteq Nat
    BY EntryNumbers
  <2>2. InRing \in [1..Len(InRing) -> Entries] /\ Len(InRing) \in Nat
    BY <1>2, LenProperties
  <2>3. InRing \in [1..Len(InRing) -> Nat]
    BY <2>1, <2>2
  <2>4. InRing \in Seq(Nat)
    BY <2>2, <2>3
  <2> QED BY <2>2, <2>4
<1>4. Taken \in Seq(Entries \cup {NoEntry})
  <2>1. collected \in Seq(Entries \cup {NoEntry}) /\ got \in Entries \cup {NoEntry}
    BY DEF TypeInv, TypeOK
  <2>2. Append(collected, got) \in Seq(Entries \cup {NoEntry})
    BY <2>1, AppendProperties
  <2> QED BY <2>1, <2>2 DEF Taken
<1>5. Len(Taken) \in Nat
  BY <1>4, LenProperties
<1>6. Old \in Nat /\ (cur /= NoEntry => cur = Old + 1)
  <2>1. cur \in Entries \cup {NoEntry} /\ appended \in Nat /\ cur \in {NoEntry, appended}
    BY DEF TypeInv, TypeOK, AccountInv
  <2>2. CASE cur = NoEntry
    BY <2>1, <2>2 DEF Old
  <2>3. CASE cur /= NoEntry
    <3>1. cur \in Entries /\ cur = appended
      BY <2>1, <2>3
    <3>2. appended > 0
      BY <3>1, EntryNumbers
    <3>3. Old = appended - 1
      BY <2>3 DEF Old
    <3> QED BY <2>1, <3>1, <3>2, <3>3
  <2> QED BY <2>2, <2>3
<1>7. IsFiniteSet(failed) /\ Cardinality(failed) \in Nat
  <2>1. failed \in SUBSET (1..Old)
    BY DEF AccountInv
  <2>2. Old \in Int /\ 1 \in Int
    BY <1>6
  <2>3. IsFiniteSet(1..Old)
    BY <2>2, FS_Interval
  <2>4. IsFiniteSet(failed)
    BY <2>1, <2>3, FS_Subset
  <2> QED
    BY <2>4, FS_CardinalityType
<1>8. Cardinality(There) = IF cur = NoEntry THEN 0 ELSE 1
  BY FS_EmptySet, FS_Singleton DEF There
<1>9. Cardinality(lost) \in Nat
  BY FS_CardinalityType DEF AccountInv
<1> QED
  BY <1>2, <1>3, <1>4, <1>5, <1>6, <1>7, <1>8, <1>9

\* The cardinality of the next There.
LEMMA ThereNext == Cardinality(There') = IF cur' = NoEntry THEN 0 ELSE 1
  BY FS_EmptySet, FS_Singleton DEF There

\* Initially nothing is there.
LEMMA AccountInit == Init => AccountInv
<1> SUFFICES ASSUME Init PROVE AccountInv
  OBVIOUS
<1>2. /\ appended = 0 /\ cur = NoEntry /\ failed = {} /\ lost = {} /\ Taken = <<>>
  BY DEF Init, Taken
<1>3. ~Reorders => InRing = <<>>
  BY InRingInit
<1>4. Range(<<>>) = {} /\ Len(<<>>) = 0 /\ 1..0 = {}
  BY DEF Range
<1>5. There = {} /\ Old = 0 /\ Cardinality({}) = 0 /\ IsFiniteSet({})
  BY <1>2, FS_EmptySet DEF There, Old
<1>6. ASSUME ~Reorders PROVE AccountInv
  <2>1. InRing = <<>>
    BY <1>3, <1>6
  <2>2. 1..appended = Range(Taken) \cup Range(InRing) \cup There \cup failed \cup lost
    BY <1>2, <1>4, <1>5, <2>1
  <2>3. /\ Len(InRing) = 0 /\ Len(Taken) = 0
        /\ Cardinality(There) = 0 /\ Cardinality(failed) = 0 /\ Cardinality(lost) = 0
    BY <1>2, <1>4, <1>5, <2>1
  <2>4. Increasing(InRing) /\ \A i \in 1..Len(InRing) : InRing[i] <= Old
    BY <2>3 DEF Increasing
  <2>5. failed \in SUBSET (1..Old) /\ appended \in Nat /\ IsFiniteSet(lost)
    BY <1>2, <1>5
  <2> QED
    BY <1>2, <2>2, <2>3, <2>4, <2>5 DEF AccountInv
<1> QED
  BY <1>6 DEF AccountInv

\* The entry that was written is in the ring.
LEMMA AccountPublish ==
    ASSUME TypeInv, RingInv, DataInv, ~Reorders, AccountInv, WritePublish,
           cur \in Entries, InRing' = Append(InRing, cur), Taken' = Taken
    PROVE  AccountInv'
<1> USE DEF history
<1>1. /\ InRing \in Seq(Entries) /\ InRing \in Seq(Nat) /\ Len(InRing) \in Nat
      /\ Len(Taken) \in Nat /\ Old \in Nat /\ cur = Old + 1 /\ cur /= NoEntry
      /\ Cardinality(failed) \in Nat /\ Cardinality(lost) \in Nat /\ Cardinality(There) = 1
  BY AccountTypes, EntryNumbers
<1>2. /\ UNCHANGED <<appended, failed, lost>> /\ cur' = NoEntry /\ appended = cur
  BY <1>1 DEF WritePublish, AccountInv
<1>3. There = {cur} /\ There' = {} /\ Old' = cur /\ Cardinality(There') = 0
  BY <1>1, <1>2, ThereNext DEF There, Old
<1>4. /\ Range(InRing') = Range(InRing) \cup {cur} /\ Len(InRing') = Len(InRing) + 1
  BY <1>1, RangeAppend
<1>5. \A i \in 1..Len(InRing) : InRing[i] < cur
  <2> SUFFICES ASSUME NEW i \in 1..Len(InRing) PROVE InRing[i] < cur
    OBVIOUS
  <2>1. InRing[i] \in Nat /\ InRing[i] <= Old
    BY <1>1, ElementOfSeq DEF AccountInv
  <2> QED BY <1>1, <2>1
<1>6. Increasing(InRing') /\ \A i \in 1..Len(InRing') : InRing'[i] <= cur
  <2>1. cur \in Nat /\ Increasing(InRing)
    BY <1>1 DEF AccountInv
  <2> QED BY <1>1, <1>5, <2>1, IncreasingAppend
<1>7. 1..appended = Range(Taken) \cup Range(InRing') \cup {} \cup failed \cup lost
  BY <1>3, <1>4 DEF AccountInv
<1>8. failed \in SUBSET (1..cur) /\ IsFiniteSet(lost)
  BY <1>1 DEF AccountInv
<1>9. 0 + Len(Taken) + Len(InRing') + Cardinality(failed) + Cardinality(lost) = appended
  <2>1. 1 + Len(Taken) + Len(InRing) + Cardinality(failed) + Cardinality(lost) = appended
    BY <1>1 DEF AccountInv
  <2> QED BY <1>1, <1>4, <2>1
<1>10. Cardinality(failed') = Cardinality(failed) /\ Cardinality(lost') = Cardinality(lost)
  BY <1>2
<1> QED
  BY <1>1, <1>2, <1>3, <1>6, <1>7, <1>8, <1>9, <1>10 DEF AccountInv

\* The entry that was read has been taken.
LEMMA AccountAdvance ==
    ASSUME TypeInv, RingInv, DataInv, ~Reorders, AccountInv, CollectAdvance,
           InRing /= <<>>, InRing' = Tail(InRing), Taken' = Append(Taken, Head(InRing))
    PROVE  AccountInv'
<1> USE DEF producer, history
<1>1. /\ InRing \in Seq(Entries) /\ InRing \in Seq(Nat) /\ Len(InRing) \in Nat
      /\ Taken \in Seq(Entries \cup {NoEntry}) /\ Len(Taken) \in Nat
      /\ Old \in Nat /\ Cardinality(failed) \in Nat /\ Cardinality(lost) \in Nat
      /\ Cardinality(There) \in Nat
  BY AccountTypes
<1>2. UNCHANGED <<appended, failed, lost, cur>>
  BY DEF CollectAdvance
<1>3. There' = There /\ Old' = Old
  BY <1>2 DEF There, Old
<1>4. /\ Range(InRing) = {Head(InRing)} \cup Range(InRing') /\ Len(InRing) = Len(InRing') + 1
      /\ Head(InRing) \in Entries /\ Len(InRing') \in Nat
  <2>1. /\ Range(InRing) = {Head(InRing)} \cup Range(Tail(InRing))
        /\ Len(InRing) = Len(Tail(InRing)) + 1
        /\ Head(InRing) \in Entries /\ Tail(InRing) \in Seq(Entries)
    BY <1>1, RangeTail
  <2>2. Len(Tail(InRing)) \in Nat
    BY <2>1, LenProperties
  <2> QED BY <2>1, <2>2
<1>5. /\ Range(Taken') = Range(Taken) \cup {Head(InRing)} /\ Len(Taken') = Len(Taken) + 1
  <2> DEFINE h == Head(InRing)
  <2>1. h \in Entries \cup {NoEntry}
    BY <1>4
  <2> HIDE DEF h
  <2>2. /\ Range(Append(Taken, h)) = Range(Taken) \cup {h}
        /\ Len(Append(Taken, h)) = Len(Taken) + 1
    BY <1>1, <2>1, RangeAppend
  <2>3. Taken' = Append(Taken, h)
    BY DEF h
  <2> QED BY <2>2, <2>3 DEF h
<1>6. Increasing(InRing') /\ \A i \in 1..Len(InRing') : InRing'[i] <= Old
  <2>1. Increasing(InRing) /\ \A i \in 1..Len(InRing) : InRing[i] <= Old
    BY DEF AccountInv
  <2> QED BY <1>1, <2>1, IncreasingTail
<1>7. 1..appended = Range(Taken') \cup Range(InRing') \cup There \cup failed \cup lost
  BY <1>4, <1>5 DEF AccountInv
<1>8. Cardinality(There) + Len(Taken') + Len(InRing')
        + Cardinality(failed) + Cardinality(lost) = appended
  BY <1>1, <1>4, <1>5 DEF AccountInv
<1>9. /\ Cardinality(failed') = Cardinality(failed) /\ Cardinality(lost') = Cardinality(lost)
      /\ Cardinality(There') = Cardinality(There)
  BY <1>2, <1>3
<1> QED
  BY <1>2, <1>3, <1>6, <1>7, <1>8, <1>9 DEF AccountInv

\* What is left in the ring when the thread has ended is lost.
LEMMA AccountJoin ==
    ASSUME TypeInv, RingInv, EndInv, DataInv, ~Reorders, AccountInv, Join,
           InRing' = <<>>, Taken' = Taken
    PROVE  AccountInv'
<1> USE DEF producer
<1>1. /\ InRing \in Seq(Nat) /\ Len(InRing) \in Nat /\ Len(Taken) \in Nat
      /\ Old \in Nat /\ Cardinality(failed) \in Nat /\ Cardinality(There) \in Nat
  BY AccountTypes
<1>2. UNCHANGED <<appended, failed, cur>> /\ lost = {} /\ lost' = Range(InRing)
  BY DEF Join, EndInv
<1>3. There' = There /\ Old' = Old
  BY <1>2 DEF There, Old
<1>4. IsFiniteSet(Range(InRing)) /\ Cardinality(Range(InRing)) = Len(InRing)
  BY <1>1, RangeCount DEF AccountInv
<1>5. Range(InRing') = {} /\ Len(InRing') = 0 /\ Cardinality(lost) = 0
  <2>1. Range(<<>>) = {} /\ Len(<<>>) = 0
    BY DEF Range
  <2>2. Range(InRing') = Range(<<>>) /\ Len(InRing') = Len(<<>>)
    OBVIOUS
  <2> QED BY <1>2, <2>1, <2>2, FS_EmptySet
<1>6. 1..appended = Range(Taken') \cup Range(InRing') \cup There \cup failed \cup lost'
  BY <1>2, <1>5 DEF AccountInv
<1>7. Cardinality(lost') = Len(InRing) /\ IsFiniteSet(lost')
  BY <1>2, <1>4
<1>8. Cardinality(There) + Len(Taken') + Len(InRing')
        + Cardinality(failed) + Cardinality(lost') = appended
  <2>1. Cardinality(There) + Len(Taken) + Len(InRing)
          + Cardinality(failed) + Cardinality(lost) = appended
    BY DEF AccountInv
  <2>2. Len(Taken') = Len(Taken)
    OBVIOUS
  <2> QED
    BY <1>1, <1>5, <1>7, <2>1, <2>2
<1>9. Increasing(InRing') /\ \A i \in 1..Len(InRing') : InRing'[i] <= Old'
  BY <1>5 DEF Increasing
<1>10. /\ Cardinality(failed') = Cardinality(failed) /\ Cardinality(There') = Cardinality(There)
  BY <1>2, <1>3
<1> QED
  BY <1>2, <1>3, <1>6, <1>7, <1>8, <1>9, <1>10 DEF AccountInv

\* A new entry is there.
LEMMA AccountNew ==
    ASSUME TypeInv, RingInv, DataInv, ~Reorders, AccountInv, NEW e \in Entries, Append_(e),
           UNCHANGED <<InRing, Taken>>
    PROVE  AccountInv'
<1> USE DEF history
<1>1. cur = NoEntry
  BY DEF Append_, TypeInv, Writing
<1>2. /\ InRing \in Seq(Nat) /\ Len(InRing) \in Nat /\ Len(Taken) \in Nat
      /\ Cardinality(failed) \in Nat /\ Cardinality(lost) \in Nat /\ Cardinality(There) = 0
      /\ There = {} /\ Old = appended /\ appended \in Nat
  BY <1>1, AccountTypes DEF There, Old, AccountInv
<1>3. /\ cur' = appended + 1 /\ appended' = appended + 1 /\ UNCHANGED <<failed, lost>>
      /\ cur' /= NoEntry
  BY <1>2 DEF Append_, NoEntry
<1>4. There' = {appended + 1} /\ Old' = appended /\ Cardinality(There') = 1
  BY <1>2, <1>3, ThereNext DEF There, Old
<1>5. 1..appended' = Range(Taken') \cup Range(InRing') \cup There' \cup failed' \cup lost'
  <2>1. 1..(appended + 1) = (1..appended) \cup {appended + 1}
    BY <1>2
  <2>2. 1..appended = Range(Taken) \cup Range(InRing) \cup failed \cup lost
    BY <1>2 DEF AccountInv
  <2>3. Range(Taken') = Range(Taken) /\ Range(InRing') = Range(InRing)
    OBVIOUS
  <2> QED
    BY <1>3, <1>4, <2>1, <2>2, <2>3
<1>6. Cardinality(There') + Len(Taken') + Len(InRing')
        + Cardinality(failed') + Cardinality(lost') = appended'
  <2>1. 0 + Len(Taken) + Len(InRing) + Cardinality(failed) + Cardinality(lost) = appended
    BY <1>2 DEF AccountInv
  <2>2. /\ Len(Taken') = Len(Taken) /\ Len(InRing') = Len(InRing)
        /\ Cardinality(failed') = Cardinality(failed) /\ Cardinality(lost') = Cardinality(lost)
    BY <1>3
  <2> QED
    BY SMTT(60), <1>2, <1>3, <1>4, <2>1, <2>2
<1>7. Increasing(InRing') /\ \A i \in 1..Len(InRing') : InRing'[i] <= Old'
  BY <1>2, <1>4 DEF Increasing, AccountInv
<1>8. failed' \in SUBSET (1..Old') /\ IsFiniteSet(lost') /\ appended' \in Nat
  BY <1>2, <1>3, <1>4 DEF AccountInv
<1> QED
  BY <1>3, <1>5, <1>6, <1>7, <1>8 DEF AccountInv

\* An entry the ring has no place for has failed.
LEMMA AccountFailed ==
    ASSUME TypeInv, RingInv, DataInv, ~Reorders, AccountInv, WriteGivesUp,
           UNCHANGED <<InRing, Taken>>
    PROVE  AccountInv'
<1>1. cur /= NoEntry
  BY DEF WriteGivesUp, TypeInv, Writing
<1>2. /\ InRing \in Seq(Nat) /\ Len(InRing) \in Nat /\ Len(Taken) \in Nat
      /\ Cardinality(failed) \in Nat /\ Cardinality(lost) \in Nat /\ Cardinality(There) = 1
      /\ IsFiniteSet(failed)
      /\ There = {cur} /\ Old \in Nat /\ cur = Old + 1 /\ appended \in Nat /\ cur = appended
  BY <1>1, AccountTypes DEF There, AccountInv
<1>3. /\ cur' = NoEntry /\ appended' = appended /\ lost' = lost /\ failed' = failed \cup {cur}
  BY DEF WriteGivesUp
<1>4. There' = {} /\ Old' = cur /\ Cardinality(There') = 0
  BY <1>2, <1>3, ThereNext DEF There, Old
<1>5. 1..appended' = Range(Taken') \cup Range(InRing') \cup There' \cup failed' \cup lost'
  <2>1. Range(Taken') = Range(Taken) /\ Range(InRing') = Range(InRing)
    OBVIOUS
  <2> QED
    BY <1>2, <1>3, <1>4, <2>1 DEF AccountInv
<1>6. Cardinality(failed') = Cardinality(failed) + 1
  <2>1. cur \notin failed
    BY <1>2 DEF AccountInv
  <2>2. Cardinality(failed \cup {cur}) = Cardinality(failed) + 1
    BY <1>2, <2>1, FS_AddElement
  <2> QED BY <1>3, <2>2
<1>7. Cardinality(There') + Len(Taken') + Len(InRing')
        + Cardinality(failed') + Cardinality(lost') = appended'
  <2>1. 1 + Len(Taken) + Len(InRing) + Cardinality(failed) + Cardinality(lost) = appended
    BY <1>2 DEF AccountInv
  <2>2. /\ Len(Taken') = Len(Taken) /\ Len(InRing') = Len(InRing)
        /\ Cardinality(lost') = Cardinality(lost)
    BY <1>3
  <2> QED
    BY <1>2, <1>3, <1>4, <1>6, <2>1, <2>2
<1>8. Increasing(InRing') /\ \A i \in 1..Len(InRing') : InRing'[i] <= Old'
  <2>1. Increasing(InRing) /\ \A i \in 1..Len(InRing) : InRing[i] \in Nat /\ InRing[i] <= Old
    BY <1>2, ElementOfSeq DEF AccountInv
  <2> QED
    BY <1>2, <1>4, <2>1 DEF Increasing
<1>9. failed' \in SUBSET (1..Old') /\ IsFiniteSet(lost') /\ appended' \in Nat
  BY <1>2, <1>3, <1>4 DEF AccountInv
<1> QED
  BY <1>3, <1>5, <1>7, <1>8, <1>9 DEF AccountInv

\* Steps that count nothing.
LEMMA AccountSame ==
    ASSUME AccountInv, ~Reorders, setting' = setting,
           UNCHANGED <<InRing, Taken, appended, cur, failed, lost>>
    PROVE  AccountInv'
<1>1. There' = There /\ Old' = Old
  BY DEF There, Old
<1>2. /\ Cardinality(There') = Cardinality(There) /\ Len(Taken') = Len(Taken)
      /\ Len(InRing') = Len(InRing) /\ Cardinality(failed') = Cardinality(failed)
      /\ Cardinality(lost') = Cardinality(lost)
      /\ Range(Taken') = Range(Taken) /\ Range(InRing') = Range(InRing)
  BY <1>1
<1>3. Increasing(InRing) => Increasing(InRing')
  BY DEF Increasing
<1> QED
  BY <1>1, <1>2, <1>3 DEF AccountInv

\* Every step keeps the account.
LEMMA AccountStep ==
    ASSUME IndInv, AccountInv, [Next]_vars
    PROVE  AccountInv'
<1>1. TypeInv' /\ setting' = setting
  BY TypeStep DEF IndInv
<1>2. Reorders' = Reorders
  BY <1>1 DEF Reorders
<1>3. CASE Reorders
  BY <1>2, <1>3 DEF AccountInv
<1>4. CASE ~Reorders
  <2>1. QueueStep
    BY <1>1, <1>4, DataStep DEF IndInv
  <2>2. CASE /\ WritePublish /\ cur \in Entries
             /\ InRing' = Append(InRing, cur) /\ Taken' = Taken
    BY <1>4, <2>2, AccountPublish DEF IndInv
  <2>3. CASE /\ CollectAdvance /\ InRing /= <<>>
             /\ InRing' = Tail(InRing) /\ Taken' = Append(Taken, Head(InRing))
    BY <1>4, <2>3, AccountAdvance DEF IndInv
  <2>4. CASE Join /\ InRing' = <<>> /\ Taken' = Taken
    BY <1>4, <2>4, AccountJoin DEF IndInv
  <2>5. CASE ~WritePublish /\ ~CollectAdvance /\ ~Join /\ UNCHANGED <<InRing, Taken>>
    <3>1. CASE \E e \in Entries : Append_(e)
      BY <1>4, <2>5, <3>1, AccountNew DEF IndInv
    <3>2. CASE WriteGivesUp
      BY <1>4, <2>5, <3>2, AccountFailed DEF IndInv
    <3>3. CASE ~WriteGivesUp /\ ~(\E e \in Entries : Append_(e))
      <4>1. UNCHANGED <<appended, cur, failed, lost>>
        BY <2>5, <3>3
           DEF vars, Next, ThreadNext, CollectorNext, Finished, WriteFree, WriteCopy,
               WriteCheck, WriteSet, WriteSignal, HandleMessage, StoreSeen, CollectLoop,
               CollectAppend, CollectClear, CollectSignal, CollectTimer, Flush, Stop,
               Shutdown, producer, history
      <4> QED
        BY <1>1, <1>4, <2>5, <4>1, AccountSame
    <3> QED BY <3>1, <3>2, <3>3
  <2> QED BY <2>1, <2>2, <2>3, <2>4, <2>5 DEF QueueStep
<1> QED BY <1>3, <1>4

\* Every step keeps what the collector found.
LEMMA FoundStep ==
    ASSUME IndInv, FoundInv, [Next]_vars
    PROVE  FoundInv'
<1> USE DEF ring, flags, producer, consumer, pausing, service, history
<1>1. TypeInv /\ TypeInv' /\ setting' = setting
  BY TypeStep DEF IndInv
<1>2. Reorders' = Reorders
  BY <1>1 DEF Reorders
<1>3. CASE Reorders
  BY <1>2, <1>3 DEF FoundInv
<1>4. CASE ~Reorders
  <2>1. QueueStep
    BY <1>1, <1>4, DataStep DEF IndInv
  <2>2. /\ InRing \in Seq(Entries) /\ collected \in Seq(Entries \cup {NoEntry})
        /\ got \in Entries \cup {NoEntry} /\ Taken \in Seq(Entries \cup {NoEntry})
    <3>1. DOMAIN stores = {} /\ Holds(buff, r, Count) /\ Count \in 0..Capacity /\ r \in Positions
      BY <1>1, <1>4 DEF DataInv, RingInv, TypeInv, TypeOK, IndInv
    <3>2. InRing \in Seq(Entries)
      BY <1>1, <3>1, InRingNow, SeenEntries
    <3>3. collected \in Seq(Entries \cup {NoEntry}) /\ got \in Entries \cup {NoEntry}
      BY <1>1 DEF TypeInv, TypeOK
    <3>4. Append(collected, got) \in Seq(Entries \cup {NoEntry})
      BY <3>3, AppendProperties
    <3> QED BY <3>2, <3>3, <3>4 DEF Taken
  <2>3. /\ found \subseteq Range(Taken) \cup Range(InRing)
        /\ cpc \in {"idle", "clear"} => found \subseteq Range(Taken)
        /\ refused \subseteq Range(collected)
    BY <1>4 DEF FoundInv
  <2>4. refused' \subseteq Range(collected')
    <3>1. CASE CollectAppend
      <4>1. /\ collected' = Append(collected, got)
            /\ refused' = refused \/ refused' = refused \cup {got}
        BY <3>1 DEF CollectAppend
      <4>2. Range(Append(collected, got)) = Range(collected) \cup {got}
        BY <2>2, RangeAppend
      <4>3. Range(collected') = Range(collected) \cup {got}
        BY <4>1, <4>2
      <4> QED BY <2>3, <4>1, <4>3
    <3>2. CASE ~CollectAppend
      <4>1. UNCHANGED <<collected, refused>>
        BY <3>2 DEF vars, Next, ThreadNext, CollectorNext, Finished, Append_, WriteFree,
               WriteGivesUp, WriteCopy, WritePublish, WriteCheck, WriteSet, WriteSignal,
               HandleMessage, StoreSeen, CollectLoop, CollectAdvance, CollectClear,
               CollectSignal, CollectTimer, Flush, Stop, Shutdown, Join
      <4> QED BY <2>3, <4>1
    <3> QED BY <3>1, <3>2
  <2>5. CASE /\ WritePublish /\ cur \in Entries
             /\ InRing' = Append(InRing, cur) /\ Taken' = Taken
    <3>1. found' = found /\ cpc' = cpc
      BY <2>5 DEF WritePublish
    <3>2. Range(Append(InRing, cur)) = Range(InRing) \cup {cur}
      BY <2>2, <2>5, RangeAppend
    <3>3. Range(InRing') = Range(InRing) \cup {cur} /\ Range(Taken') = Range(Taken)
      BY <2>5, <3>2
    <3> QED BY <2>3, <2>4, <3>1, <3>3 DEF FoundInv
  <2>6. CASE /\ CollectAdvance /\ InRing /= <<>>
             /\ InRing' = Tail(InRing) /\ Taken' = Append(Taken, Head(InRing))
    <3>1. found' = found /\ cpc' = "append"
      BY <2>6 DEF CollectAdvance
    <3>2. Head(InRing) \in Entries
      BY <2>2, <2>6, HeadTailProperties
    <3>3. Range(Append(Taken, Head(InRing))) = Range(Taken) \cup {Head(InRing)}
      BY <2>2, <3>2, RangeAppend
    <3>4. Range(InRing) \subseteq {Head(InRing)} \cup Range(Tail(InRing))
      BY <2>2, <2>6, RangeTail
    <3>5. /\ Range(InRing) \subseteq {Head(InRing)} \cup Range(InRing')
          /\ Range(Taken') = Range(Taken) \cup {Head(InRing)}
      BY <2>6, <3>3, <3>4
    <3> QED BY <2>3, <2>4, <3>1, <3>5 DEF FoundInv
  <2>7. CASE Join /\ InRing' = <<>> /\ Taken' = Taken
    <3>1. found' = found /\ cpc' = cpc /\ cpc = "idle"
      BY <2>7 DEF Join, IndInv, EndInv
    <3>2. Range(Taken') = Range(Taken)
      BY <2>7
    <3> QED BY <2>3, <2>4, <3>1, <3>2 DEF FoundInv
  <2>8. CASE ~WritePublish /\ ~CollectAdvance /\ ~Join /\ UNCHANGED <<InRing, Taken>>
    <3>1. Range(InRing') = Range(InRing) /\ Range(Taken') = Range(Taken)
      BY <2>8
    <3>2. CASE CollectLoop
      <4>1. /\ found' = IF paused THEN {} ELSE found
            /\ cpc' = "clear" => paused \/ get_full = 0
            /\ cpc' \in {"clear", "advance"}
        BY <3>2 DEF CollectLoop
      <4>2. get_full = 0 => Range(InRing) = {}
        <5>1. get_full = 0 => Count = 0
          BY RingFull DEF IndInv
        <5>2. DOMAIN InRing = 1..Count
          BY DEF InRing, Count
        <5>3. Count = 0 => 1..Count = {}
          OBVIOUS
        <5> QED
          BY <5>1, <5>2, <5>3 DEF Range
      <4> QED BY <2>3, <2>4, <3>1, <4>1, <4>2 DEF FoundInv
    <3>3. CASE CollectSignal \/ CollectTimer
      <4>1. found' = Range(InRing) /\ cpc' = "loop"
        BY <3>3 DEF CollectSignal, CollectTimer
      <4> QED BY <2>4, <3>1, <4>1 DEF FoundInv
    <3>4. CASE CollectClear
      <4>1. found' = {}
        BY <3>4 DEF CollectClear
      <4> QED BY <2>4, <4>1 DEF FoundInv
    <3>5. CASE ~CollectLoop /\ ~CollectSignal /\ ~CollectTimer /\ ~CollectClear
      <4>1. found' = found /\ (cpc' = cpc \/ cpc' = "loop")
        BY <2>8, <3>5 DEF vars, Next, ThreadNext, CollectorNext, Finished, Append_, WriteFree,
               WriteGivesUp, WriteCopy, WriteCheck, WriteSet, WriteSignal,
               HandleMessage, StoreSeen, CollectAppend, Flush, Stop, Shutdown
      <4> QED BY <2>3, <2>4, <3>1, <4>1 DEF FoundInv
    <3> QED BY <3>2, <3>3, <3>4, <3>5
  <2> QED BY <2>1, <2>5, <2>6, <2>7, <2>8 DEF QueueStep
<1> QED BY <1>3, <1>4

\* No entry disappears and none is counted twice on the way from the plugin
\* through the ring to the engine, and a run of the collector takes what was in
\* the ring when it began unless the input is paused, for any capacity and any
\* number of entries, whatever entries chunks refuse and whenever the service ends.
THEOREM EntriesAlwaysAccounted == Spec => []RingAccounted
<1>1. Init => IndInv /\ AccountInv /\ FoundInv
  <2>1. Init => FoundInv
    BY DEF Init, FoundInv
  <2> QED BY <2>1, IndInvInit, AccountInit
<1>2. IndInv /\ AccountInv /\ FoundInv /\ [Next]_vars => (IndInv /\ AccountInv /\ FoundInv)'
  BY IndInvStep, AccountStep, FoundStep
<1>3. IndInv /\ AccountInv /\ FoundInv => RingAccounted
  BY AccountedOf DEF IndInv, TypeInv, RingAccounted
<1> QED
  BY <1>1, <1>2, <1>3, PTL DEF Spec

=============================================================================
