------------------------------ MODULE Backlog ------------------------------
(***************************************************************************)
(* Chunks left on disk by an earlier run of the service: the storage       *)
(* backlog (plugins/in_storage_backlog/sb.c), the input chunks it maps     *)
(* (flb_input_chunk_map), eviction from both, and what a crash, a shutdown *)
(* and a restart do to them.                                               *)
(*                                                                         *)
(* A handler of the engine thread is one action.  All chunks have size 1.  *)
(* Data that inputs append in this run appears only as the demand for      *)
(* space it makes (Evict).                                                 *)
(***************************************************************************)
EXTENDS Integers, FiniteSets, Sequences, SequencesExt, FiniteSetsExt

CONSTANTS
    Outputs,   \* 1..n in the order of the configuration
    Chunks,    \* 1..n in the order of their names, oldest first
    MemLimit,  \* storage.backlog.mem_limit
    Settings   \* the configurations and disks checked, see Setting

\* What is in the file of a chunk.  "noopen" is a file that could be opened at
\* the start and cannot afterwards, when descriptors have run out; "corrupt"
\* fails the checks of its layout, "nometa" has no tag, "empty" no content;
\* "none" is no file.
Kinds == {"logs", "traces", "corrupt", "nometa", "empty", "noopen", "none"}

\* The outputs whose match rule fits the tag of each chunk, those stored in it
\* by a conditional route, the outputs with storage.total_limit_size,
\* storage.delete_irrecoverable_chunks, storage.backlog.flush_on_shutdown, the
\* calls that may fail ("alloc": memory may be short when a file is mapped) and
\* a BOUND on the number of starts.
Setting == [Kind : [Chunks -> Kinds],
            Tagged : [Chunks -> SUBSET Outputs], Stored : [Chunks -> SUBSET Outputs],
            Limited : SUBSET Outputs, DeleteBad : BOOLEAN,
            FlushOnShutdown : BOOLEAN, Faults : SUBSET {"alloc"}, MaxStarts : Nat]

ASSUME BacklogAssumption ==
    /\ IsFiniteSet(Outputs) /\ Outputs = 1..Cardinality(Outputs)
    /\ IsFiniteSet(Chunks) /\ Chunks = 1..Cardinality(Chunks)
    /\ MemLimit \in Nat \ {0}
    /\ \A f \in Settings :
          /\ f \in Setting
          /\ f.FlushOnShutdown => \A c \in Chunks : f.Kind[c] /= "noopen"

VARIABLES
    setting,                 \* the configuration, which never changes
    disk,                    \* chunks with a file
    phase,                   \* of the service, "hung" in an endless loop
    starts,
    backlogs,                \* ctx->backlogs: a queue for each output
    chunks,                  \* in->chunks of the backlog input
    ic,                      \* those chunks, see InputChunk
    up,                      \* chunks whose file is mapped
    fs_chunks_size,          \* per limited output
    fs_backlog_chunks_size,  \* per output
    flushed_backlog,         \* the queues were built again at shutdown
    delivered, dropped       \* history: outputs each chunk was sent to, and
                             \* outputs that counted it as dropped

service == <<phase, starts>>
memory  == <<backlogs, chunks, ic, up, fs_chunks_size, fs_backlog_chunks_size,
             flushed_backlog>>
vars    == <<setting, disk, service, memory, delivered, dropped>>

Kind            == setting.Kind
Tagged          == setting.Tagged
Stored          == setting.Stored
Limited         == setting.Limited
DeleteBad       == setting.DeleteBad
FlushOnShutdown == setting.FlushOnShutdown
Faults          == setting.Faults
MaxStarts       == setting.MaxStarts

\* todo: routes to be started, at first or again; running: their callbacks run;
\* evicted: FLB_TASK_ROUTE_DROPPED.
InputChunk == [loaded : BOOLEAN, task : BOOLEAN, mask : SUBSET Outputs,
               todo : SUBSET Outputs, running : SUBSET Outputs,
               evicted : SUBSET Outputs]
NotLoaded == [loaded |-> FALSE, task |-> FALSE, mask |-> {}, todo |-> {},
              running |-> {}, evicted |-> {}]

Init ==
    /\ setting \in Settings
    /\ disk = {c \in Chunks : Kind[c] /= "none"}
    /\ phase = "off" /\ starts = 0
    /\ backlogs = <<>> /\ chunks = <<>>
    /\ ic = [c \in Chunks |-> NotLoaded]
    /\ up = {}
    /\ fs_chunks_size = [o \in Limited |-> 0]
    /\ fs_backlog_chunks_size = [o \in Outputs |-> 0]
    /\ flushed_backlog = FALSE
    /\ delivered = [c \in Chunks |-> {}]
    /\ dropped = [c \in Chunks |-> {}]

(***************************************************************************)
(* The state as a record, for the loops.                                   *)
(***************************************************************************)
Now == [disk |-> disk, backlogs |-> backlogs, chunks |-> chunks, ic |-> ic,
        up |-> up, fs |-> fs_chunks_size, bl |-> fs_backlog_chunks_size,
        dropped |-> dropped]
Becomes(s) ==
    /\ disk' = s.disk /\ backlogs' = s.backlogs /\ chunks' = s.chunks
    /\ ic' = s.ic /\ up' = s.up /\ dropped' = s.dropped
    /\ fs_chunks_size' = s.fs /\ fs_backlog_chunks_size' = s.bl

Upto(n) == [j \in 1..n |-> j]

\* cio_chunk_close with the deletion of the file.
deleted(s, c) == [s EXCEPT !.disk = @ \ {c}, !.up = @ \ {c}]

\* sb_remove_chunk_from_segregated_backlogs: the first reference of each queue.
Holding(s, c, o) == Cardinality({q \in DOMAIN s.backlogs :
                        s.backlogs[q].ins = o /\ c \in Range(s.backlogs[q].chunks)})
removed_FirstOnly(s, c) ==
    LET q == Min({p \in DOMAIN s.backlogs : c \in Range(s.backlogs[p].chunks)}) IN
    [s EXCEPT !.backlogs[q].chunks = RemoveFirst(@, c),
              !.bl[s.backlogs[q].ins] = @ - 1]
removed(s, c) ==
    [s EXCEPT !.backlogs = [q \in DOMAIN @ |->
                              [s.backlogs[q] EXCEPT !.chunks = RemoveFirst(@, c)]],
              !.bl = [o \in Outputs |-> @[o] - Holding(s, c, o)]]

(***************************************************************************)
(* sb_segregate_chunks: new queues, and each file into every queue whose   *)
(* output matches its tag.                                                 *)
(***************************************************************************)
allocate_backlogs(s) ==
    [s EXCEPT !.backlogs = @ \o [o \in 1..Cardinality(Outputs) |->
                                    [ins |-> o, chunks |-> <<>>]]]
append_to_backlogs(s, c) ==
    LET Q == {q \in DOMAIN s.backlogs : s.backlogs[q].ins \in Tagged[c]} IN
    [s EXCEPT !.backlogs = [q \in DOMAIN @ |->
                              IF q \in Q THEN [s.backlogs[q] EXCEPT !.chunks = Append(@, c)]
                              ELSE s.backlogs[q]],
              !.bl = [o \in Outputs |->
                        @[o] + Cardinality({q \in Q : s.backlogs[q].ins = o})],
              !.up = @ \ {c}]
segregate_chunk(s, c) ==
    IF c \notin s.disk \/ (Kind[c] = "corrupt" /\ ~DeleteBad) THEN s
    ELSE IF Kind[c] \in {"corrupt", "nometa"} THEN deleted(s, c)
    ELSE append_to_backlogs(s, c)
segregate(s) == FoldLeft(segregate_chunk, allocate_backlogs(s), Upto(Cardinality(Chunks)))

Start ==
    /\ phase = "off" /\ starts < MaxStarts
    /\ phase' = "running" /\ starts' = starts + 1
    /\ Becomes(segregate(Now))
    /\ UNCHANGED <<setting, flushed_backlog, delivered>>

(***************************************************************************)
(* cb_queue_chunks: one chunk of each queue in turn, until the limit is    *)
(* reached or the queues are empty.                                        *)
(***************************************************************************)
\* The bytes of the backlog input's own stream.  The chunks it maps stay in
\* the streams of the inputs that wrote them.
total_size == 0

\* flb_input_chunk_map: the routes stored in the chunk come before its tag.
routes(c) == IF Stored[c] /= {} THEN Stored[c] ELSE Tagged[c]
\* It finds no use for a file, or no memory for it.
Mappable(a, c) == Kind[c] = "logs" /\ c \notin a.short
mapped(s, c) ==
    [s EXCEPT !.ic[c] = [NotLoaded EXCEPT !.loaded = TRUE, !.mask = routes(c)],
              !.chunks = Append(@, c),
              !.fs = [o \in Limited |-> IF o \in routes(c) THEN @[o] + 1 ELSE @[o]],
              !.up = @ \ {c}]

\* One visit of a queue.  A file that cannot be mapped is deleted.
visit(a, q) ==
    LET c == Head(a.s.backlogs[q].chunks) IN
    IF a.s.backlogs[q].chunks = <<>> \/ Kind[c] = "noopen" THEN a
    ELSE IF Mappable(a, c)
    THEN [a EXCEPT !.s = removed(mapped(a.s, c), c), !.total = @ + 1]
    ELSE [a EXCEPT !.s = deleted(removed(a.s, c), c)]

More_AllQueues(a) == a.total < MemLimit /\ \A q \in DOMAIN a.s.backlogs :
                                      a.s.backlogs[q].chunks /= <<>>
More(a) == a.total < MemLimit /\ \E q \in DOMAIN a.s.backlogs :
                                      a.s.backlogs[q].chunks /= <<>>
round(a) == FoldLeft(visit, a, Upto(Len(a.s.backlogs)))

\* After as many rounds as there are chunks only files that cannot be opened
\* are left in front, and the loop goes on for ever.
all_rounds(short) == FoldLeft(LAMBDA a, k : IF More(a) THEN round(a) ELSE a,
                              [s |-> Now, total |-> total_size, short |-> short],
                              Upto(Cardinality(Chunks)))
\* The files for which memory may be short.
Shortages == IF "alloc" \in Faults THEN SUBSET Chunks ELSE {{}}
QueueChunks ==
    /\ phase = "running"
    /\ total_size < MemLimit
    /\ \E q \in DOMAIN backlogs : backlogs[q].chunks /= <<>>
    /\ \E a \in {all_rounds(short) : short \in Shortages} :
          Becomes(a.s) /\ phase' = IF More(a) THEN "hung" ELSE phase
    /\ UNCHANGED <<setting, starts, flushed_backlog, delivered>>

(***************************************************************************)
(* Delivery of the chunks that were mapped.                                *)
(***************************************************************************)
Serving == phase \in {"running", "stopping"}

\* flb_input_chunk_destroy
destroyed(s, c) ==
    LET t == deleted(s, c) IN
    [t EXCEPT !.chunks = RemoveFirst(@, c),
              !.ic[c] = NotLoaded,
              !.fs = [o \in Limited |-> IF o \in s.ic[c].mask THEN @[o] - 1 ELSE @[o]]]

\* A chunk without routes is deleted when its task finds none.
TaskCreate(c) ==
    /\ Serving /\ ic[c].loaded /\ ~ic[c].task
    /\ Becomes(IF ic[c].mask = {} THEN destroyed(Now, c)
               ELSE [Now EXCEPT !.ic[c].task = TRUE, !.ic[c].todo = ic[c].mask,
                                !.up = @ \cup {c}])
    /\ UNCHANGED <<setting, service, flushed_backlog, delivered>>

\* The chunk goes with its last route.
returned_EarlyEnd(s, c) == IF s.ic[c].running = {} THEN destroyed(s, c) ELSE s
returned(s, c) ==
    IF s.ic[c].running = {} /\ s.ic[c].todo = {} THEN destroyed(s, c) ELSE s

\* A first flush, or a retry, which brings the chunk up again.  The callback of
\* a route that was dropped returns an error at once.
Flushing(s, c, o) ==
    IF o \in s.ic[c].evicted
    THEN returned([s EXCEPT !.ic[c].todo = @ \ {o}, !.dropped[c] = @ \cup {o}], c)
    ELSE [s EXCEPT !.ic[c].todo = @ \ {o}, !.ic[c].running = @ \cup {o}]
FlushStart_NoUp(c, o) ==
    /\ Serving /\ o \in ic[c].todo
    /\ Becomes(Flushing(Now, c, o))
    /\ UNCHANGED <<setting, service, flushed_backlog, delivered>>
FlushStart(c, o) ==
    /\ Serving /\ o \in ic[c].todo
    /\ Becomes(Flushing([Now EXCEPT !.up = @ \cup {c}], c, o))
    /\ UNCHANGED <<setting, service, flushed_backlog, delivered>>

FlushOk(c, o) ==
    /\ Serving /\ o \in ic[c].running
    /\ delivered' = [delivered EXCEPT ![c] = @ \cup {o}]
    /\ Becomes(returned([Now EXCEPT !.ic[c].running = @ \ {o}], c))
    /\ UNCHANGED <<setting, service, flushed_backlog>>
FlushError(c, o) ==
    /\ Serving /\ o \in ic[c].running
    /\ Becomes(returned([Now EXCEPT !.ic[c].running = @ \ {o},
                                    !.dropped[c] = @ \cup {o}], c))
    /\ UNCHANGED <<setting, service, flushed_backlog, delivered>>

\* flb_input_chunk_is_mem_overlimit: the backlog input has no mem_buf_limit.
mem_overlimit == FALSE

\* A chunk that no other callback uses is put down when its input is over its
\* limit, and a chunk with a single route is put down until its retry.
FlushRetry(c, o) ==
    /\ Serving /\ o \in ic[c].running
    /\ ic' = [ic EXCEPT ![c].running = @ \ {o}, ![c].todo = @ \cup {o}]
    /\ up' = IF (ic[c].running = {o} /\ mem_overlimit) \/ ic[c].mask = {o}
             THEN up \ {c} ELSE up
    /\ UNCHANGED <<setting, disk, service, backlogs, chunks, fs_chunks_size,
                   fs_backlog_chunks_size, flushed_backlog, delivered, dropped>>

(***************************************************************************)
(* An append to output o needs one unit of space: from the mapped chunks   *)
(* (flb_input_chunk_release_space, GLOBAL), then from the queue of o       *)
(* (sb_release_output_queue_space).                                        *)
(***************************************************************************)
evict_loaded(a, c, o) ==
    LET s == a.s IN
    IF a.done \/ o \notin s.ic[c].mask \/ o \in s.ic[c].running THEN a
    ELSE IF s.ic[c].running = {}
    THEN [s |-> [destroyed(s, c) EXCEPT !.dropped[c] = @ \cup {o}], done |-> TRUE]
    ELSE [a EXCEPT !.s.ic[c].evicted = @ \cup {o}]

release_queue(s, o) ==
    LET Q == {q \in DOMAIN s.backlogs : s.backlogs[q].ins = o}
        c == Head(s.backlogs[Min(Q)].chunks)
    IN IF s.backlogs[Min(Q)].chunks = <<>> THEN s ELSE deleted(removed(s, c), c)

Evict(o) ==
    LET a == FoldLeft(LAMBDA t, c : evict_loaded(t, c, o),
                      [s |-> Now, done |-> FALSE], chunks)
    IN /\ phase = "running" /\ o \in Limited
       /\ fs_chunks_size[o] + fs_backlog_chunks_size[o] > 0
       /\ Becomes(IF a.done THEN a.s ELSE release_queue(a.s, o))
       /\ UNCHANGED <<setting, service, flushed_backlog, delivered>>

(***************************************************************************)
(* The end of the service, by a request or by a crash.                     *)
(***************************************************************************)
\* flb_engine_stop_ingestion pauses the collector of the backlog.
Stop ==
    /\ phase = "running"
    /\ phase' = "stopping"
    /\ UNCHANGED <<setting, disk, starts, memory, delivered, dropped>>

\* The first tick of the shutdown timer, while chunks are left.
ShutdownTick ==
    /\ phase = "stopping" /\ ~flushed_backlog
    /\ FlushOnShutdown /\ disk /= {}
    /\ Becomes(segregate(Now))
    /\ flushed_backlog' = TRUE
    /\ UNCHANGED <<setting, service, delivered>>

\* Files outlive the process, the rest does not.
End ==
    /\ phase /= "off"
    /\ phase' = "off"
    /\ Becomes([Now EXCEPT !.backlogs = <<>>, !.chunks = <<>>,
                           !.ic = [c \in Chunks |-> NotLoaded], !.up = {},
                           !.fs = [o \in Limited |-> 0],
                           !.bl = [o \in Outputs |-> 0]])
    /\ flushed_backlog' = FALSE
    /\ UNCHANGED <<setting, starts, delivered>>

Next ==
    \/ Start \/ QueueChunks \/ Stop \/ ShutdownTick \/ End
    \/ \E c \in Chunks : TaskCreate(c)
    \/ \E c \in Chunks, o \in Outputs :
          FlushStart(c, o) \/ FlushOk(c, o) \/ FlushError(c, o) \/ FlushRetry(c, o)
    \/ \E o \in Outputs : Evict(o)

Spec == Init /\ [][Next]_vars

\* The collector runs every second, chunks get tasks, retries are dispatched,
\* and what keeps being retried succeeds or fails in the end.
FairSpec ==
    /\ Spec
    /\ WF_vars(Start) /\ WF_vars(QueueChunks)
    /\ \A c \in Chunks : WF_vars(TaskCreate(c))
    /\ \A c \in Chunks, o \in Outputs :
          WF_vars(FlushStart(c, o)) /\ SF_vars(FlushOk(c, o) \/ FlushError(c, o))

(***************************************************************************)
(* Properties.                                                             *)
(***************************************************************************)
\* Types; the unsigned counters of bytes do not go below zero.
TypeOK ==
    /\ setting \in Settings
    /\ disk \subseteq Chunks /\ up \subseteq Chunks
    /\ phase \in {"off", "running", "stopping", "hung"}
    /\ \A q \in DOMAIN backlogs : /\ backlogs[q].ins \in Outputs
                                  /\ backlogs[q].chunks \in Seq(Chunks)
    /\ chunks \in Seq(Chunks)
    /\ ic \in [Chunks -> InputChunk]
    /\ fs_chunks_size \in [Limited -> Nat]
    /\ fs_backlog_chunks_size \in [Outputs -> Nat]
    /\ delivered \in [Chunks -> SUBSET Outputs]
    /\ dropped \in [Chunks -> SUBSET Outputs]

\* A queue refers only to chunks that exist and that nobody has mapped: the
\* chunk a queue gives to flb_input_chunk_map is not given out twice and a
\* chunk that was deleted through one queue is in no other.  The queues that
\* storage.backlog.flush_on_shutdown builds also name the chunks in delivery.
QueuesValid ==
    ~flushed_backlog => \A q \in DOMAIN backlogs :
        /\ \A c \in Range(backlogs[q].chunks) : c \in disk /\ ~ic[c].loaded
        /\ IsInjective(backlogs[q].chunks)

\* The places in the queues of an output.
References(b, o) ==
    UNION {{q} \X DOMAIN b[q].chunks : q \in {p \in DOMAIN b : b[p].ins = o}}

\* "it counts the total of disk space (filesystem) awaiting to be loaded (in
\* backlog)", and the same for what was loaded.
SizesExact ==
    /\ \A o \in Outputs : fs_backlog_chunks_size[o] = Cardinality(References(backlogs, o))
    /\ \A o \in Limited :
          fs_chunks_size[o] = Cardinality({c \in Range(chunks) : o \in ic[c].mask})

\* Loading, discarding, evicting and restarting keep queues and sizes in step.
QueuesConsistent == TypeOK /\ QueuesValid /\ SizesExact

\* "we can only put the chunk down if there are no more active users": the
\* data a callback reads stays mapped, until flush_on_shutdown puts down
\* every chunk.
InUseStaysUp ==
    ~flushed_backlog => \A c \in Chunks : ic[c].running /= {} => c \in up

\* Files with logs are deleted for other reasons: room for an output deletes
\* files that others wait for, and cb_queue_chunks takes a lack of memory for
\* damage ("Failures are all associated with data corruption").
KeepsFiles == Limited = {} /\ "alloc" \notin Faults

\* A file with logs leaves the disk only when every output it was meant for
\* has delivered it or counted it as dropped, whatever crashes and restarts
\* happened and whatever damaged files are around it, as long as no limit
\* and no lack of memory is met (KeepsFiles).
NothingLost ==
    KeepsFiles => \A c \in Chunks \ disk : Kind[c] = "logs" =>
        routes(c) \subseteq delivered[c] \cup dropped[c]

\* "Fluent Bit will look for data chunks that were not delivered and are still
\* in the storage layer": when the service stays up, each of them is loaded
\* and goes, provided its tag matches an output.
EveryChunkLoaded ==
    <>[](phase = "running") =>
        \A c \in Chunks : Kind[c] = "logs" /\ Tagged[c] /= {} => <>(c \notin disk)
=============================================================================
