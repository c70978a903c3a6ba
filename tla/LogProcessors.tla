--------------------------- MODULE LogProcessors ---------------------------
(***************************************************************************)
(* A chain of processors over the log records an input hands over          *)
(* (flb_processor_run), the list of decoded records the units of the chain *)
(* share and its cursor (flb_mp_chunk_cobj_record_next and _destroy), and  *)
(* the units that remove records: dedup, log_sampling and sql.             *)
(*                                                                         *)
(* A record of the running buffer is named by its place in it, so a list   *)
(* of records is a set of numbers in their order.  One step visits one     *)
(* record.                                                                 *)
(***************************************************************************)
EXTENDS Integers, FiniteSets, Sequences, SequencesExt, RecordDedup, LogSampling

CONSTANT Settings    \* the chains and their inputs checked, see Setting

Kinds == {"modify", "sql", "dedup", "fixed", "sliding", "exponential", "filter"}

\* A chain of units, with one dedup and one log_sampling unit at most, and what
\* it is given: records [body, time, match], whether they arrive in the order of
\* their timestamps, the seconds at which the service may have been started, the
\* calls of the database that may fail, and the BOUNDS: records of a buffer, all
\* records, and the clock.  match is what the conditions of units and the WHERE
\* of a query find in a record.  A unit that rewrites may leave another body and
\* other keys to match in the records it keeps.
Unit == [kind : Kinds, condition : BOOLEAN, rewrites : BOOLEAN]
Single(chain, kinds) ==
    \A i, j \in DOMAIN chain : {chain[i].kind, chain[j].kind} \subseteq kinds => i = j
IsSetting(f) ==
    /\ f.Chain \in Seq(Unit) /\ f.Chain /= <<>>
    /\ Single(f.Chain, {"dedup"}) /\ Single(f.Chain, {"fixed", "sliding", "exponential"})
    /\ IsFiniteSet(f.Inputs) /\ f.StartTimes \subseteq 0..f.MaxClock
    /\ \A r \in f.Inputs : r.time \in Nat /\ r.match \in BOOLEAN
    /\ f.Faults \subseteq {"get", "put"} /\ f.Ordered \in BOOLEAN
    /\ f.MaxBatch \in Nat /\ f.MaxRecords \in Nat /\ f.MaxClock \in Nat

ASSUME ChainAssumption == \A f \in Settings : IsSetting(f)

VARIABLES
    setting,     \* the chain, which never changes
    unit,        \* place of the running unit in the chain, see below
    buffer,      \* cur_buf, with the second dedup kept each record and what it hashed
    offset,      \* records of it the decoder has returned
    records,     \* chunk_cobj->records
    record_pos,  \* chunk_cobj->record_pos, NULL is 0
    store,       \* of the dedup unit
    window, buckets,    \* of the log_sampling unit
    clock,
    visited,     \* history: records the unit visited
    arrived, out \* history: all records that came and that went on

chunk_cobj == <<offset, records, record_pos>>
contexts   == <<store, window, buckets>>
vars       == <<setting, unit, buffer, chunk_cobj, contexts, clock, visited, arrived, out>>

Chain   == setting.Chain
Inputs  == setting.Inputs
Ordered == setting.Ordered
Faults  == setting.Faults

NULL      == 0
Idle      == 0
Undefined == -1    \* freed memory was read

Stamped(record) == [body |-> record.body, time |-> record.time,
                    match |-> record.match, at |-> 0, hashed |-> record.body]

Init ==
    /\ setting \in Settings
    /\ clock \in setting.StartTimes
    /\ unit = Idle /\ buffer = <<>>
    /\ offset = 0 /\ records = {} /\ record_pos = NULL
    /\ store = EmptyStore /\ window = NewWindow(clock) /\ buckets = NewBuckets
    /\ visited = {} /\ arrived = <<>> /\ out = <<>>

Tick ==
    /\ clock < setting.MaxClock
    /\ clock' = clock + 1
    /\ UNCHANGED <<setting, unit, buffer, chunk_cobj, contexts, visited,
                   arrived, out>>

InOrder(batch) ==
    LET all == arrived \o batch
    IN  \A i, j \in DOMAIN all : i < j => all[i].time <= all[j].time

\* input_log_append
LogAppend(batch) ==
    /\ unit = Idle
    /\ Len(arrived) + Len(batch) <= setting.MaxRecords
    /\ Ordered => InOrder(batch)
    /\ arrived' = arrived \o batch
    /\ buffer' = [i \in DOMAIN batch |-> Stamped(batch[i])]
    /\ offset' = 0 /\ records' = {} /\ record_pos' = NULL
    /\ unit' = 1 /\ visited' = {}
    /\ UNCHANGED <<setting, contexts, clock, out>>

-----------------------------------------------------------------------------
(* The cursor. *)

Satisfies(id) == Chain[unit].condition => buffer[id].match
Undecoded     == (offset + 1)..Len(buffer)

Decodes_Unconditionally == Undecoded

\* Records that do not satisfy the condition are decoded and skipped.  When the
\* buffer is used up the rest of the list after record_pos is searched, and
\* all of it when there is no record_pos.
Decodes == {id \in Undecoded : Satisfies(id)}
Listed  == {id \in records \cup Undecoded : id > record_pos /\ Satisfies(id)}

\* The list, the decoder and record_pos after the call; EOF is NULL.
record_next ==
    IF Decodes /= {}
    THEN [offset |-> Min(Decodes), records |-> records \cup (offset + 1)..Min(Decodes),
          record_pos |-> Min(Decodes)]
    ELSE [offset |-> Len(buffer), records |-> records \cup Undecoded,
          record_pos |-> IF Listed = {} THEN NULL ELSE Min(Listed)]

\* The search starts from the links of a record that was freed.
ReadsFreed == Decodes = {} /\ record_pos /= NULL /\ record_pos \notin records

record_destroy_NoReset(next, id) ==
    [next EXCEPT !.records = @ \ {id}]

record_destroy_StaysLinked(next, id) ==
    [next EXCEPT !.record_pos = IF id \in {Min(next.records), Max(next.records)}
                                THEN NULL ELSE @]

flb_mp_chunk_cobj_record_destroy(next, id) ==
    [next EXCEPT !.records = @ \ {id},
                 !.record_pos = IF id \in {Min(next.records), Max(next.records)}
                                THEN NULL ELSE @]

-----------------------------------------------------------------------------
(* The loop of a unit's cb_process_logs. *)

SetCursor(cobj) ==
    /\ offset' = cobj.offset
    /\ records' = cobj.records
    /\ record_pos' = cobj.record_pos

Visiting(kind) ==
    /\ unit \in DOMAIN Chain /\ Chain[unit].kind = kind
    /\ ~ReadsFreed /\ record_next.record_pos /= NULL

\* The record that is visited stays in the list or is removed from it.
Settle(keep) ==
    LET id == record_next.record_pos
    IN  /\ SetCursor(IF keep THEN record_next
                     ELSE flb_mp_chunk_cobj_record_destroy(record_next, id))
        /\ visited' = visited \cup {id}
        /\ UNCHANGED <<setting, unit, clock, arrived, out>>

Visited == buffer[record_next.record_pos]

Bodies  == {r.body : r \in Inputs}

\* What a unit may leave in a record it keeps.
Rewrite ==
    \/ UNCHANGED buffer
    \/ /\ Chain[unit].rewrites
       /\ \E body \in Bodies, match \in BOOLEAN :
             buffer' = [buffer EXCEPT ![record_next.record_pos].body = body,
                                      ![record_next.record_pos].match = match]

\* content_modifier and the like
VisitModify ==
    /\ Visiting("modify")
    /\ Settle(TRUE)
    /\ Rewrite
    /\ UNCHANGED contexts

\* A record that does not satisfy the query is removed; one that does keeps the
\* keys that are selected, under their aliases.
VisitSql ==
    /\ Visiting("sql")
    /\ Settle(Visited.match)
    /\ IF Visited.match THEN Rewrite ELSE UNCHANGED buffer
    /\ UNCHANGED contexts

\* A record that is not known, or cannot be looked up, is kept and added; that
\* it could not be added is ignored.
VisitDedup ==
    /\ Visiting("dedup")
    /\ LET hash == hash_msgpack_data_filtered(Visited.body)
           Keep == /\ Settle(TRUE)
                   /\ buffer' = [buffer EXCEPT ![record_next.record_pos].at = clock,
                                               ![record_next.record_pos].hashed = Visited.body]
                   /\ \/ store' = flb_record_dedup_add(store, hash, clock)
                      \/ "put" \in Faults /\ store' = store
           Drop == Settle(FALSE) /\ UNCHANGED <<buffer, store>>
       IN  \/ Known(store, hash, clock) /\ Drop
           \/ ~Known(store, hash, clock) /\ Keep
           \/ "get" \in Faults /\ Keep
    /\ UNCHANGED <<setting, window, buckets>>

VisitFixed ==
    /\ Visiting("fixed")
    /\ LET sampled == flb_sampling_fixed_window(window, Visited.time)
       IN  Settle(sampled.keep) /\ window' = sampled.window
    /\ UNCHANGED <<setting, buffer, store, buckets>>

VisitSliding ==
    /\ Visiting("sliding")
    /\ LET sampled == flb_sampling_sliding_window(buckets, Visited.time)
       IN  Settle(sampled.keep) /\ buckets' = sampled.buckets
    /\ UNCHANGED <<setting, buffer, store, window>>

VisitExponential ==
    /\ Visiting("exponential")
    /\ \E keep \in flb_sampling_exponential : Settle(keep)
    /\ UNCHANGED <<setting, buffer, contexts>>

\* cb_dedup_compact, on a timer of the engine
Compact ==
    /\ \E i \in DOMAIN Chain : Chain[i].kind = "dedup"
    /\ store' = flb_record_dedup_compact(store, clock)
    /\ UNCHANGED <<setting, unit, buffer, chunk_cobj, window, buckets, clock,
                   visited, arrived, out>>

UndefinedRead ==
    /\ unit \in DOMAIN Chain /\ Chain[unit].kind /= "filter" /\ ReadsFreed
    /\ unit' = Undefined
    /\ UNCHANGED <<setting, buffer, chunk_cobj, contexts, clock, visited,
                   arrived, out>>

-----------------------------------------------------------------------------
(* flb_processor_run *)

\* The buffer with the records of a list, in their order.
Encoded(list) ==
    FoldLeft(LAMBDA s, id : IF id \in list THEN Append(s, buffer[id]) ELSE s,
             <<>>, Upto(Len(buffer)))

\* A new buffer goes to the next unit, or on to the input's chunk.
Forward(new) ==
    /\ offset' = 0 /\ records' = {} /\ record_pos' = NULL
    /\ IF new = <<>> \/ unit = Len(Chain)
       THEN unit' = Idle /\ buffer' = <<>> /\ out' = out \o new
       ELSE unit' = unit + 1 /\ buffer' = new /\ out' = out

\* The list is encoded when no unit is left or a filter comes next; otherwise
\* the next unit goes on with the list.
Finalizes == unit = Len(Chain) \/ Chain[unit + 1].kind = "filter"

UnitDone ==
    /\ unit \in DOMAIN Chain /\ Chain[unit].kind /= "filter"
    /\ ~ReadsFreed /\ record_next.record_pos = NULL
    /\ IF Finalizes
       THEN Forward(Encoded(record_next.records))
       ELSE /\ SetCursor(record_next)
            /\ unit' = unit + 1
            /\ UNCHANGED <<buffer, out>>
    /\ visited' = {}
    /\ UNCHANGED <<setting, contexts, clock, arrived>>

\* cb_filter returns what it likes of the buffer.
RunFilter ==
    /\ unit \in DOMAIN Chain /\ Chain[unit].kind = "filter"
    /\ \E list \in SUBSET DOMAIN buffer : Forward(Encoded(list))
    /\ UNCHANGED <<setting, contexts, clock, visited, arrived>>

Visit == \/ VisitModify \/ VisitSql \/ VisitDedup
         \/ VisitFixed \/ VisitSliding \/ VisitExponential

Run == Visit \/ UndefinedRead \/ UnitDone \/ RunFilter

Next == \/ \E n \in 1..setting.MaxBatch : \E batch \in [1..n -> Inputs] : LogAppend(batch)
        \/ Run \/ Compact \/ Tick

Spec     == Init /\ [][Next]_vars
\* The chain is plain code of one thread.
FairSpec == Spec /\ WF_vars(Run)

-----------------------------------------------------------------------------
(* Properties *)

\* A unit of the chain that sees every record.
Has(kind) == \E i \in DOMAIN Chain : Chain[i].kind = kind /\ ~Chain[i].condition

\* The list holds records of the buffer that were decoded; no window counts
\* more than it may let pass.
TypeOK ==
    /\ setting \in Settings
    /\ unit \in {Idle, Undefined} \cup DOMAIN Chain
    /\ offset \in 0..Len(buffer)
    /\ records \subseteq 1..offset
    /\ record_pos \in 0..offset
    /\ buckets \in [Buckets -> [timestamp : Nat, count : 0..MaxLogs]]
    /\ window.count \in 0..MaxLogs
    /\ Len(out) <= Len(arrived)

\* Records are removed by sql units only whose queries keep the keys that WHERE
\* looks at, so that they decide the same way each time they see a record, and
\* each of them decodes the records itself.
RemovesOnce ==
    \A i \in DOMAIN Chain :
        \/ Chain[i].kind \in {"modify", "filter"}
        \/ /\ Chain[i].kind = "sql" /\ ~Chain[i].rewrites
           /\ i = 1 \/ Chain[i - 1].kind = "filter"

\* record_pos, from which the next call goes on, is a record of the list while
\* there are records to decode, and after that in a chain that removes records
\* in its first pass over the list only.  A unit that goes on with the list of
\* the one before it, or that sees the list again since its last record was
\* removed and decides otherwise than before (as sql does when its own query
\* left out the keys of its WHERE), can leave record_pos at a record it freed.
CursorValid ==
    (offset < Len(buffer) \/ RemovesOnce) /\ record_pos /= NULL => record_pos \in records

\* Decoding and destroying keep the list, the cursor and the buffer in step.
CursorConsistent == TypeOK /\ CursorValid

KeepsAll == unit \in DOMAIN Chain /\ Chain[unit].kind = "modify"

\* A unit that keeps all records sees each one that satisfies its condition once
\* and in order, although decoding, skipping and the list of a unit before it are
\* interleaved in one cursor; and no other, unless it rewrites what its condition
\* looks at.
VisitedOnce ==
    [][KeepsAll =>
         /\ Visit => \A id \in visited : id < record_next.record_pos
         /\ UnitDone =>
              /\ {id \in record_next.records : Satisfies(id)} \subseteq visited
              /\ Chain[unit].rewrites \/ \A id \in visited : Satisfies(id)]_vars

DedupSees == Has("dedup") /\ Faults = {} /\ (IgnoreFields = {} \/ IgnoreRegexes = {})

\* No two records go on that were equal but for the ignored fields when dedup saw
\* them and that it let through within the time to live of each other: when it
\* sees every record, its database works, and one kind of ignore list is used.
\* What later units make of them is not told.
NoDuplicateOut ==
    DedupSees => \A i, j \in DOMAIN out :
        i < j /\ Significant(out[i].hashed) = Significant(out[j].hashed)
        => out[j].at - out[i].at > TTL

\* When the chain is idle, a copy of each record dedup has seen went on: the
\* last one of equal records at the latest is kept.
NothingLost ==
    unit = Idle =>
        \A i \in DOMAIN arrived : \E j \in DOMAIN out :
            Significant(out[j].body) = Significant(arrived[i].body)

\* Each buffer gets through the chain, although removing a record may send the
\* cursor back to the first one, unless the cursor is left at a freed record.
RunEnds == (unit /= Idle) ~> (unit = Idle \/ (unit = Undefined /\ ~RemovesOnce))

Kept(times)  == Cardinality({i \in DOMAIN out : out[i].time \in times})
Seconds      == {r.time : r \in Inputs}
FixedWindow(time)   == {t \in Seconds : t \div WindowSize = time \div WindowSize}
SlidingWindow(time) == {t \in Seconds : time - WindowSize < t /\ t <= time}

\* No window of the fixed kind, which begin at multiples of their size, lets
\* more than max_logs_per_window records pass, when records are in order and
\* the service was started at the beginning of a window.
FixedBound ==
    Has("fixed") /\ Ordered /\ (\A t \in setting.StartTimes : t % WindowSize = 0) =>
        \A t \in Seconds : Kept(FixedWindow(t)) <= MaxLogs

\* Nor does any span of window_size seconds in the sliding kind, when records
\* are in order.
SlidingBound ==
    Has("sliding") /\ Ordered =>
        \A t \in Seconds : Kept(SlidingWindow(t)) <= MaxLogs

\* "Maximum logs to keep per window" is one, for both kinds of window.
WindowBound == FixedBound /\ SlidingBound
=============================================================================
