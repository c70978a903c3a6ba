----------------------------- MODULE InputRing -----------------------------
(***************************************************************************)
(* A threaded input and the engine: the ring the input appends to          *)
(* (flb_ring_buffer.c over lwrb), the signal and the timer that make the   *)
(* engine collect it, the messages that pause, resume and end the thread,  *)
(* and the shutdown.                                                       *)
(*                                                                         *)
(* Two threads.  A step of the ring's code is an action between two        *)
(* accesses of what both use: w, r, the bytes, flush_pending.  The ring    *)
(* has one byte more than its entries need, so an entry wraps at any byte. *)
(***************************************************************************)
EXTENDS Integers, Sequences, FiniteSets, SequencesExt, FiniteSetsExt

CONSTANTS
    Capacity,     \* thread.ring_buffer.capacity, in entries
    SlotBytes,    \* sizeof(void *)
    RetryLimit,   \* retry_limit of append_to_ring_buffer
    MaxEntries,   \* BOUND: on the entries the plugin appends
    Settings      \* the configurations checked, see Setting

\* data_window in bytes, the entries in memory that pause the input, whether
\* stores of one thread may reach the other out of order (the processor's
\* memory model; the code has no barriers), whether a chunk may refuse an entry,
\* whether grace is -1, and the entries that are appended.
Setting == [Window : Nat, MemLimit : Nat \ {0}, Reorders : BOOLEAN,
            Refuses : BOOLEAN, Waits : BOOLEAN, Appends : 0..MaxEntries]

ASSUME InputRingAssumption ==
    /\ Capacity \in Nat \ {0} /\ SlotBytes \in Nat \ {0}
    /\ RetryLimit \in Nat \ {0} /\ MaxEntries \in Nat
    /\ Settings \subseteq Setting

VARIABLES
    setting,                  \* the configuration, which never changes
    buff, w, r,               \* lwrb_t
    stores,                   \* bytes written that the engine does not see yet
    flush_pending, signal,    \* the flag and the pipe of flush requests
    ppc, cur, av, retries,    \* the input thread in append_to_ring_buffer
    cpc, got,                 \* the engine in the collector
    paused,                   \* mem_buf_status
    msgs, plugin_paused,      \* ch_parent_events and what the thread did
    mem,                      \* entries in chunks that are not flushed
    phase,                    \* of the service
    appended, collected,      \* history: entries started, and taken by the engine
    failed, refused, lost,    \* history: entries the ring had no place for, no
                              \* chunk took, and that were thrown away
    found                     \* history: what was in the ring when the collector
                              \* began its run

ring     == <<buff, w, r, stores>>
flags    == <<flush_pending, signal>>
producer == <<ppc, cur, av, retries>>
consumer == <<cpc, got>>
pausing  == <<paused, msgs, plugin_paused>>
service  == <<mem, phase>>
history  == <<appended, collected, failed, refused, lost, found>>
vars     == <<setting, ring, flags, producer, consumer, pausing, service, history>>

Window   == setting.Window
MemLimit == setting.MemLimit
Reorders == setting.Reorders

size      == Capacity * SlotBytes + 1
Positions == 0..(size - 1)
NoEntry   == 0
Entries   == 1..MaxEntries
Empty     == <<NoEntry, 0>>

Init ==
    /\ setting \in Settings
    /\ buff = [p \in Positions |-> Empty] /\ w = 0 /\ r = 0
    /\ stores = [p \in {} |-> Empty]
    /\ flush_pending = FALSE /\ signal = FALSE
    /\ ppc = "idle" /\ cur = NoEntry /\ av = 0 /\ retries = 0
    /\ cpc = "idle" /\ got = NoEntry
    /\ paused = FALSE /\ msgs = <<>> /\ plugin_paused = FALSE
    /\ mem = 0 /\ phase = "running"
    /\ appended = 0 /\ collected = <<>> /\ failed = {} /\ refused = {} /\ lost = {}
    /\ found = {}

(***************************************************************************)
(* lwrb                                                                    *)
(***************************************************************************)
get_full == (w - r + size) % size
get_free == size - get_full - 1
Span(p)  == [k \in 1..SlotBytes |-> (p + k - 1) % size]

\* The entry whose bytes are at p in memory m, or none.
Decode(m, p) ==
    LET e == m[p][1] IN
    IF \A k \in 1..SlotBytes : m[Span(p)[k]] = <<e, k>> THEN e ELSE NoEntry

(***************************************************************************)
(* The input thread: flb_input_chunk_append_raw -> append_to_ring_buffer.  *)
(***************************************************************************)
Append_(e) ==
    /\ ppc = "idle" /\ ~plugin_paused
    /\ e = appended + 1 /\ e <= setting.Appends
    /\ appended' = e
    /\ cur' = e /\ retries' = 0 /\ ppc' = "free"
    /\ UNCHANGED <<setting, ring, flags, av, consumer, pausing, service,
                   collected, failed, refused, lost, found>>

GaveUp(n) == n >= RetryLimit

WriteFree_NoCount ==
    /\ ppc = "free" /\ ~GaveUp(retries)
    /\ av' = get_free
    /\ ppc' = IF get_free < SlotBytes THEN "free" ELSE "copy"
    /\ UNCHANGED <<setting, ring, flags, cur, retries, consumer, pausing,
                   service, history>>
\* lwrb_get_free in flb_ring_buffer_write; lwrb_write looks at r again and can
\* only find more.
WriteFree ==
    /\ ppc = "free" /\ ~GaveUp(retries)
    /\ av' = get_free
    /\ IF get_free < SlotBytes
       THEN ppc' = "free" /\ retries' = retries + 1
       ELSE ppc' = "copy" /\ UNCHANGED retries
    /\ UNCHANGED <<setting, ring, flags, cur, consumer, pausing, service,
                   history>>

WriteGivesUp_Uncounted ==
    /\ ppc = "free" /\ GaveUp(retries)
    /\ cur' = NoEntry /\ ppc' = "idle"
    /\ UNCHANGED <<setting, ring, flags, av, retries, consumer, pausing,
                   service, history>>
\* "could not enqueue records into the ring buffer"
WriteGivesUp ==
    /\ ppc = "free" /\ GaveUp(retries)
    /\ failed' = failed \cup {cur}
    /\ cur' = NoEntry /\ ppc' = "idle"
    /\ UNCHANGED <<setting, ring, flags, av, retries, consumer, pausing,
                   service, appended, collected, refused, lost, found>>

\* The bytes, in the linear part and in the overflow part.
Bytes_Linear == [p \in Range(Span(w)) \cap w..(size - 1) |->
                    <<cur, CHOOSE k \in 1..SlotBytes : Span(w)[k] = p>>]
Bytes == [p \in Range(Span(w)) |->
             <<cur, CHOOSE k \in 1..SlotBytes : Span(w)[k] = p>>]
WriteCopy ==
    /\ ppc = "copy"
    /\ IF Reorders
       THEN stores' = Bytes /\ UNCHANGED buff
       ELSE buff' = [p \in Positions |->
                        IF p \in DOMAIN Bytes THEN Bytes[p] ELSE buff[p]]
            /\ UNCHANGED stores
    /\ ppc' = "publish"
    /\ UNCHANGED <<setting, w, r, flags, cur, av, retries, consumer, pausing,
                   service, history>>

\* A delayed store reaches memory.
StoreSeen(p) ==
    /\ p \in DOMAIN stores
    /\ buff' = [buff EXCEPT ![p] = stores[p]]
    /\ stores' = [q \in DOMAIN stores \ {p} |-> stores[q]]
    /\ UNCHANGED <<setting, w, r, flags, producer, consumer, pausing, service,
                   history>>

\* lwrb_write: the new w, which hands the entry over.
WritePublish ==
    /\ ppc = "publish"
    /\ w' = (w + SlotBytes) % size
    /\ ppc' = "check" /\ cur' = NoEntry
    /\ UNCHANGED <<setting, buff, r, stores, flags, av, retries, consumer,
                   pausing, service, history>>

used_size == Capacity * SlotBytes - (av - SlotBytes)

\* if (!rb->flush_pending).  No store is delayed beyond this call.
WriteCheck ==
    /\ ppc = "check" /\ stores = <<>>
    /\ ppc' = IF ~flush_pending /\ used_size >= Window THEN "set" ELSE "idle"
    /\ UNCHANGED <<setting, ring, flags, cur, av, retries, consumer, pausing,
                   service, history>>
WriteSet ==
    /\ ppc = "set"
    /\ flush_pending' = TRUE
    /\ ppc' = "signal"
    /\ UNCHANGED <<setting, ring, signal, cur, av, retries, consumer, pausing,
                   service, history>>
WriteSignal ==
    /\ ppc = "signal"
    /\ signal' = TRUE
    /\ ppc' = "idle"
    /\ UNCHANGED <<setting, ring, flush_pending, cur, av, retries, consumer,
                   pausing, service, history>>

\* handle_input_event, in the thread's event loop.
HandleMessage ==
    /\ ppc = "idle" /\ msgs /= <<>>
    /\ msgs' = Tail(msgs)
    /\ plugin_paused' = (Head(msgs) /= "resume")
    /\ ppc' = IF Head(msgs) = "exit" THEN "done" ELSE "idle"
    /\ UNCHANGED <<setting, ring, flags, cur, av, retries, consumer, paused,
                   service, history>>

(***************************************************************************)
(* The engine thread: flb_input_chunk_ring_buffer_collector, after a       *)
(* signal and every 250 milliseconds.                                      *)
(***************************************************************************)
Up == phase \in {"running", "stopping"}

\* The entries in the ring, oldest first, as they will be once every store is
\* seen.
Memory == [p \in Positions |-> IF p \in DOMAIN stores THEN stores[p] ELSE buff[p]]
InRing == [i \in 1..(get_full \div SlotBytes) |->
              Decode(Memory, (r + (i - 1) * SlotBytes) % size)]

CollectSignal ==
    /\ Up /\ cpc = "idle" /\ signal
    /\ signal' = FALSE
    /\ cpc' = "loop" /\ found' = Range(InRing)
    /\ UNCHANGED <<setting, ring, flush_pending, producer, got, pausing, service,
                   appended, collected, failed, refused, lost>>

CollectTimer_FlagOnly ==
    /\ Up /\ cpc = "idle"
    /\ cpc' = "clear"
    /\ UNCHANGED <<setting, ring, flags, producer, got, pausing, service, history>>
CollectTimer ==
    /\ Up /\ cpc = "idle"
    /\ cpc' = "loop" /\ found' = Range(InRing)
    /\ UNCHANGED <<setting, ring, flags, producer, got, pausing, service,
                   appended, collected, failed, refused, lost>>

\* The paused input's ring is left alone.
CollectLoop ==
    /\ cpc = "loop"
    /\ LET e == Decode(buff, r) IN
       IF paused \/ get_full = 0
       THEN cpc' = "clear" /\ UNCHANGED got
       ELSE cpc' = "advance" /\ got' = e
    /\ found' = IF paused THEN {} ELSE found
    /\ UNCHANGED <<setting, ring, flags, producer, pausing, service,
                   appended, collected, failed, refused, lost>>

\* lwrb_read: the new r, which gives the place back.
CollectAdvance ==
    /\ cpc = "advance"
    /\ r' = (r + SlotBytes) % size
    /\ cpc' = "append"
    /\ UNCHANGED <<setting, buff, w, stores, flags, producer, got, pausing,
                   service, history>>

\* input_chunk_append_raw, whose result nobody looks at;
\* flb_input_chunk_protect pauses at the limit.
CollectAppend ==
    /\ cpc = "append"
    /\ collected' = Append(collected, got)
    /\ \/ /\ mem' = mem + 1
          /\ paused' = (mem + 1 >= MemLimit)
          /\ msgs' = IF mem + 1 >= MemLimit THEN Append(msgs, "pause") ELSE msgs
          /\ UNCHANGED refused
       \/ /\ setting.Refuses
          /\ refused' = refused \cup {got}
          /\ UNCHANGED <<mem, paused, msgs>>
    /\ cpc' = "loop" /\ got' = NoEntry
    /\ UNCHANGED <<setting, ring, flags, producer, plugin_paused, phase,
                   appended, failed, lost, found>>

CollectClear ==
    /\ cpc = "clear"
    /\ flush_pending' = FALSE
    /\ cpc' = "idle" /\ found' = {}
    /\ UNCHANGED <<setting, ring, signal, producer, got, pausing, service,
                   appended, collected, failed, refused, lost>>

(***************************************************************************)
(* The engine thread: flushes, and the end of the service.                 *)
(***************************************************************************)
\* The chunks are flushed; flb_input_chunk_set_limits resumes the input.
MayResume == paused /\ phase = "running"
Flush_ResumesAlone ==
    /\ Up /\ cpc = "idle" /\ mem > 0
    /\ mem' = 0
    /\ paused' = (paused /\ ~MayResume)
    /\ UNCHANGED <<setting, ring, flags, producer, consumer, msgs,
                   plugin_paused, phase, history>>
Flush ==
    /\ Up /\ cpc = "idle" /\ mem > 0
    /\ mem' = 0
    /\ paused' = (paused /\ ~MayResume)
    /\ msgs' = IF MayResume THEN Append(msgs, "resume") ELSE msgs
    /\ UNCHANGED <<setting, ring, flags, producer, consumer, plugin_paused,
                   phase, history>>

\* flb_engine_stop_ingestion; flb_input_pause does nothing when it is paused.
Stop ==
    /\ phase = "running" /\ cpc = "idle"
    /\ phase' = "stopping"
    /\ msgs' = IF paused THEN msgs ELSE Append(msgs, "pause")
    /\ UNCHANGED <<setting, ring, flags, producer, consumer, paused,
                   plugin_paused, mem, history>>

\* A shutdown tick finds no chunk left, or grace is over: flb_engine_shutdown.
\* Nothing makes it wait for the thread or for a run of the collector.
Shutdown ==
    /\ phase = "stopping" /\ cpc = "idle" /\ (mem = 0 \/ ~setting.Waits)
    /\ phase' = "joining"
    /\ msgs' = (IF paused THEN msgs ELSE Append(msgs, "pause")) \o <<"exit">>
    /\ UNCHANGED <<setting, ring, flags, producer, consumer, paused,
                   plugin_paused, mem, history>>

\* pthread_join, then flb_input_chunk_ring_buffer_cleanup.
Join ==
    /\ phase = "joining" /\ ppc = "done"
    /\ phase' = "off"
    /\ lost' = Range(InRing)
    /\ r' = w
    /\ UNCHANGED <<setting, buff, w, stores, flags, producer, consumer, pausing,
                   mem, appended, collected, failed, refused, found>>

Finished == phase = "off" /\ UNCHANGED vars

ThreadNext ==
    \/ \E e \in Entries : Append_(e)
    \/ WriteFree \/ WriteGivesUp \/ WriteCopy \/ WritePublish
    \/ WriteCheck \/ WriteSet \/ WriteSignal \/ HandleMessage
    \/ \E p \in Positions : StoreSeen(p)
CollectorNext ==
    CollectLoop \/ CollectAdvance \/ CollectAppend \/ CollectClear

Next ==
    \/ ThreadNext \/ CollectorNext \/ CollectSignal \/ CollectTimer
    \/ Flush \/ Stop \/ Shutdown \/ Join \/ Finished

Spec == Init /\ [][Next]_vars

\* Both threads run, timers fire, chunks are flushed.  Whether the plugin
\* appends and whether the service is stopped is left open.
FairSpec ==
    /\ Spec
    /\ WF_vars(ThreadNext /\ ~(\E e \in Entries : Append_(e)))
    /\ WF_vars(CollectorNext) /\ WF_vars(CollectTimer)
    /\ SF_vars(Flush) /\ SF_vars(Shutdown) /\ WF_vars(Join)

(***************************************************************************)
(* Properties.                                                             *)
(***************************************************************************)
\* Types; append_to_ring_buffer tries at most retry_limit times.
TypeOK ==
    /\ setting \in Settings
    /\ buff \in [Positions -> (Entries \cup {NoEntry}) \X (0..SlotBytes)]
    /\ w \in Positions /\ r \in Positions
    /\ DOMAIN stores \subseteq Positions
    /\ flush_pending \in BOOLEAN /\ signal \in BOOLEAN
    /\ ppc \in {"idle", "free", "copy", "publish", "check", "set", "signal", "done"}
    /\ cpc \in {"idle", "loop", "advance", "append", "clear"}
    /\ cur \in Entries \cup {NoEntry} /\ got \in Entries \cup {NoEntry}
    /\ av \in 0..(size - 1) /\ retries \in 0..RetryLimit
    /\ paused \in BOOLEAN /\ plugin_paused \in BOOLEAN
    /\ msgs \in Seq({"pause", "resume", "exit"})
    /\ mem \in Nat
    /\ phase \in {"running", "stopping", "joining", "off"}
    /\ collected \in Seq(Entries \cup {NoEntry})

Taken == IF cpc = "append" THEN Append(collected, got) ELSE collected
Ordered(q) == IF Reorders THEN <<>> ELSE q
Queue == INSTANCE RingQueue WITH items <- Ordered(InRing), taken <- Ordered(Taken)

\* The ring is a queue of Capacity entries: no entry is torn, overwritten,
\* reordered or taken twice, wherever it wraps and however the threads
\* interleave, on a processor that keeps the order of a thread's stores.
IsQueue == Queue!Spec

\* Every entry the plugin handed over is on its way, was taken by the engine,
\* found no place in the ring or was in it when the thread was joined: none is
\* lost on the way, and none is counted twice.  Of what the engine took, chunks
\* may have refused some.  Where stores are reordered the engine may read a
\* place before its bytes have arrived.
Accounted ==
    LET there == IF cur = NoEntry THEN {} ELSE {cur}
    IN ~Reorders =>
       /\ 1..appended = Range(Taken) \cup Range(InRing) \cup there \cup failed \cup lost
       /\ Cardinality(there) + Len(Taken) + Len(InRing)
             + Cardinality(failed) + Cardinality(lost) = appended
       /\ refused \subseteq Range(collected)

\* A run of the collector takes all that was in the ring when it began, unless
\* an entry it took paused the input: what the shutdown throws away was written
\* after the last run began, or belongs to a paused input, which nothing resumes.
Emptied == ~Reorders /\ cpc = "clear" => found \subseteq Range(collected)

\* When the thread has read its messages the plugin is paused exactly when the
\* engine thinks so.
ThreadFollows ==
    phase = "running" /\ msgs = <<>> => plugin_paused = paused

\* What is in the ring is collected, also when the flag hides it from the
\* signal and when the input was paused in between.
EntriesCollected ==
    ~Reorders => \A e \in Entries : e \in Range(InRing) ~>
        (e \in Range(collected) \/ phase /= "running")

\* The thread, which may be waiting for a full ring the engine has stopped to
\* collect, and the engine, which waits for the thread, both end.
ShutdownCompletes == phase = "stopping" ~> phase = "off"

\* No entry disappears between the plugin and the engine: the properties above.
RingAccounted == TypeOK /\ Accounted /\ Emptied
=============================================================================
