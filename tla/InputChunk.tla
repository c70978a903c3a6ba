---------------------------- MODULE InputChunk ----------------------------
(***************************************************************************)
(* Ingestion into chunks: the disk space each output is charged for,       *)
(* eviction under storage.total_limit_size, the memory limits of inputs,   *)
(* pausing and resuming (flb_input_chunk.c, flb_input.c, flb_input_log.c). *)
(*                                                                         *)
(* An append runs in the engine thread from beginning to end, so it is one *)
(* action, however many chunks it evicts and inputs it resumes.  Tasks are *)
(* reduced to what eviction looks at: whether a chunk has one, whether it  *)
(* has users, and which routes are active.                                 *)
(*                                                                         *)
(* Sizes are in units of a page: a file has one unit of header and grows   *)
(* by Realloc units at a time (chunkio).  Each input has one tag.          *)
(***************************************************************************)
EXTENDS Integers, FiniteSets, Sequences, SequencesExt, FiniteSetsExt

CONSTANTS
    Inputs,       \* 1..n in the order of the configuration
    Outputs,      \* 1..n, output ids in the order of the configuration
    Chunks,       \* 1..n, chunk objects, reused after they are freed
    MaxUp,        \* storage.max_chunks_up
    Realloc,      \* units a file grows by
    MaxContent,   \* FLB_INPUT_CHUNK_FS_MAX_SIZE
    MaxSize,      \* BOUND: no append has more than this
    Settings,     \* the configurations checked, see Setting
    None

\* A configuration: the storage type of each input, the outputs that match
\* its tag, the inputs with a conditional route instead and those with
\* storage.pause_on_chunks_overlimit, mem_buf_limit of each input (0 is no
\* limit), the outputs with storage.total_limit_size and their limits, storage.trim_files,
\* storage.delete_irrecoverable_chunks, the sizes of the data appended, whether filters
\* may make data larger, and the faults: writing may fail (disk full), and so may
\* loading a file (it cannot be opened or mapped), or loading it again right after it
\* was created.
Setting == [Type : [Inputs -> {"fs", "mem", "memrb"}],
            Routes : [Inputs -> SUBSET Outputs],
            Direct : SUBSET Inputs, PauseOn : SUBSET Inputs,
            MemLimit : [Inputs -> Nat], Limited : SUBSET Outputs,
            Limit : [Outputs -> Nat], Trim : BOOLEAN, DelBad : BOOLEAN,
            Sizes : SUBSET (1..MaxSize), Grows : BOOLEAN,
            Faults : SUBSET {"write", "load", "reload"}]

ASSUME InputChunkAssumption ==
    /\ IsFiniteSet(Inputs) /\ Inputs = 1..Cardinality(Inputs)
    /\ IsFiniteSet(Chunks) /\ Chunks = 1..Cardinality(Chunks)
    /\ IsFiniteSet(Outputs) /\ Outputs = 1..Cardinality(Outputs)
    /\ MaxUp \in Nat /\ MaxContent \in Nat /\ MaxSize \in Nat /\ Realloc \in Nat \ {0}
    /\ \A f \in Settings : f \in Setting /\ f.Sizes /= {}
    /\ None \notin Chunks \cup Inputs

VARIABLES
    setting,             \* the configuration, which never changes
    chunk,               \* the chunks, see Chunk
    chunks,              \* in->chunks, in order of creation
    ht,                  \* ht_log_chunks: the last chunk of the tag
    fs_chunks_size,      \* per limited output
    mem_chunks_size,     \* per input
    mem_buf_status, storage_buf_status,
    collecting,          \* the plugin's collectors run (cb_pause, cb_resume)
    ingestion,           \* is_ingestion_active
    unloadable           \* the chunks whose file cannot be brought up now

vars == <<setting, chunk, chunks, ht, fs_chunks_size, mem_chunks_size, mem_buf_status,
          storage_buf_status, collecting, ingestion, unloadable>>

Type     == setting.Type
Routes   == setting.Routes
Direct   == setting.Direct
PauseOn  == setting.PauseOn
MemLimit == setting.MemLimit
Limit    == setting.Limit
Limited  == setting.Limited
Trim     == setting.Trim
Sizes    == setting.Sizes
Grows    == setting.Grows
Faults   == setting.Faults

FS(i) == Type[i] = "fs"
Status == {"RUNNING", "PAUSED"}

Chunk == [in : Inputs \cup {None}, size : 0..(MaxContent + MaxSize),
          file : 0..(MaxContent + MaxSize + Realloc),
          up : BOOLEAN, locked : BOOLEAN, task : BOOLEAN, users : BOOLEAN,
          routes : 0..Cardinality(Outputs), active : SUBSET Outputs,
          mask : SUBSET Outputs, fs_counted : BOOLEAN]
NoChunk == [in |-> None, size |-> 0, file |-> 0, up |-> FALSE, locked |-> FALSE,
            task |-> FALSE, users |-> FALSE, routes |-> 0, active |-> {},
            mask |-> {}, fs_counted |-> FALSE]

Init ==
    /\ setting \in Settings
    /\ chunk = [c \in Chunks |-> NoChunk]
    /\ chunks = [i \in Inputs |-> <<>>]
    /\ ht = [i \in Inputs |-> None]
    /\ fs_chunks_size = [o \in Limited |-> 0]
    /\ mem_chunks_size = [i \in Inputs |-> 0]
    /\ mem_buf_status = [i \in Inputs |-> "RUNNING"]
    /\ storage_buf_status = [i \in Inputs |-> "RUNNING"]
    /\ collecting = [i \in Inputs |-> TRUE]
    /\ ingestion = TRUE
    /\ unloadable = {}

(***************************************************************************)
(* The state as a record, for the helpers an append goes through one after *)
(* the other.                                                              *)
(***************************************************************************)
Now == [chunk |-> chunk, chunks |-> chunks, ht |-> ht, fs |-> fs_chunks_size,
        mem |-> mem_chunks_size, mem_st |-> mem_buf_status,
        fs_st |-> storage_buf_status, coll |-> collecting]
Becomes(new) ==
    \E s \in {new} :
        /\ chunk' = s.chunk /\ chunks' = s.chunks /\ ht' = s.ht
        /\ fs_chunks_size' = s.fs /\ mem_chunks_size' = s.mem
        /\ mem_buf_status' = s.mem_st /\ storage_buf_status' = s.fs_st
        /\ collecting' = s.coll
        /\ UNCHANGED <<setting, ingestion, unloadable>>

\* The elements of a list that are in S, in their order.
Selected(q, S) == FoldLeft(LAMBDA t, x : IF x \in S THEN Append(t, x) ELSE t, <<>>, q)

Of(s, i) == {c \in Chunks : s.chunk[c].in = i}
Free(s)  == Of(s, None)
Paused(s, i) == s.mem_st[i] = "PAUSED" \/ s.fs_st[i] = "PAUSED"

\* flb_input_chunk_get_real_size: of the file, or of the data in memory.
real_size(r) == IF FS(r.in) THEN r.file ELSE r.size

\* cio_file_sync and cio_file_down: trimming happens when data is synced.
synced(r)  == IF Trim /\ FS(r.in) THEN [r EXCEPT !.file = r.size + 1] ELSE r
down(r)    == IF FS(r.in) THEN [synced(r) EXCEPT !.up = FALSE] ELSE r
lock(r)    == [synced(r) EXCEPT !.locked = TRUE]
TotalUp(s) == Cardinality({c \in Chunks \ Free(s) :
                              FS(s.chunk[c].in) /\ s.chunk[c].up})

\* flb_input_chunk_update_output_instances
update_outputs(s, c, diff) ==
    LET charged == s.chunk[c].mask \cap Limited IN
    [s EXCEPT !.fs = [o \in Limited |->
                        IF o \in charged THEN @[o] + diff ELSE @[o]],
              !.chunk[c].fs_counted = @ \/ charged /= {}]

\* The end of flb_input_chunk_destroy and of flb_input_chunk_destroy_corrupted:
\* what the outputs were charged for is given back and the chunk is freed.
closed(s, c) ==
    LET r == s.chunk[c]
        charged == IF r.fs_counted THEN r.mask \cap Limited ELSE {}
    IN [s EXCEPT !.fs = [o \in Limited |->
                           IF o \in charged THEN @[o] - real_size(r) ELSE @[o]],
                 !.chunks[r.in] = Selected(@, Chunks \ {c}),
                 !.chunk[c] = NoChunk]
\* flb_hash_table_del_ptr: the entry goes if it is the one of the chunk.
unhashed(s, i, c) == [s EXCEPT !.ht[i] = IF @ = c THEN None ELSE @]

\* A chunk that is up, or can be brought up (cio_chunk_up_force).
Loads(s, c) == s.chunk[c].up \/ c \notin unloadable

\* flb_input_chunk_destroy: the tag, which is in the file, finds the entry of
\* the hash table.  If it cannot be read the entry stays.
destroyed_KeepsHash(s, c) == closed(s, c)
destroyed(s, c) ==
    IF Loads(s, c) THEN unhashed(closed(s, c), s.chunk[c].in, c) ELSE closed(s, c)

\* flb_input_chunk_destroy_corrupted
destroyed_corrupted(s, c) ==
    IF setting.DelBad THEN unhashed(closed(s, c), s.chunk[c].in, c) ELSE closed(s, c)

(***************************************************************************)
(* Limits of the inputs.                                                   *)
(***************************************************************************)
total_size(s, i) ==
    SumFunction([c \in {c \in Of(s, i) : s.chunk[c].up} |-> s.chunk[c].size])
is_mem_overlimit_Above(s, i) == MemLimit[i] > 0 /\ s.mem[i] > MemLimit[i]
is_mem_overlimit(s, i) == MemLimit[i] > 0 /\ s.mem[i] >= MemLimit[i]
is_storage_overlimit(s, i) == FS(i) /\ i \in PauseOn /\ TotalUp(s) >= MaxUp

\* flb_input_chunk_set_limits: measure, and resume the input if it was paused
\* and is below its limits again.
set_limits_AlwaysResumes(s, i) ==
    LET t == [s EXCEPT !.mem[i] = total_size(s, i)]
        mem == ~is_mem_overlimit(t, i) /\ t.mem_st[i] = "PAUSED"
        fs  == ~is_storage_overlimit(t, i) /\ t.fs_st[i] = "PAUSED"
    IN [t EXCEPT !.mem_st[i] = IF mem THEN "RUNNING" ELSE @,
                 !.fs_st[i]  = IF fs THEN "RUNNING" ELSE @,
                 !.coll[i]   = @ \/ mem \/ fs]
set_limits(s, i) ==
    LET t == [s EXCEPT !.mem[i] = total_size(s, i)]
        mem == ingestion /\ ~is_mem_overlimit(t, i) /\ t.mem_st[i] = "PAUSED"
        fs  == ingestion /\ ~is_storage_overlimit(t, i) /\ t.fs_st[i] = "PAUSED"
    IN [t EXCEPT !.mem_st[i] = IF mem THEN "RUNNING" ELSE @,
                 !.fs_st[i]  = IF fs THEN "RUNNING" ELSE @,
                 !.coll[i]   = @ \/ mem \/ fs]

\* flb_input_chunk_protect: pause the input at its limit.  A memory ring
\* buffer makes room at the next append instead.
protect(s, i) ==
    IF is_storage_overlimit(s, i)
    THEN [s EXCEPT !.fs_st[i] = "PAUSED", !.coll[i] = FALSE]
    ELSE IF Type[i] = "mem" /\ is_mem_overlimit(s, i)
    THEN [s EXCEPT !.mem_st[i] = "PAUSED", !.coll[i] = FALSE]
    ELSE s

\* flb_task_destroy with the chunk.
task_destroy_NoLimits(s, c) == destroyed(s, c)
task_destroy(s, c) == set_limits(destroyed(s, c), s.chunk[c].in)

(***************************************************************************)
(* Making room.                                                            *)
(***************************************************************************)
\* How many chunks of the sequence q make up the space required, all of them
\* if they do not.
SizeOf(s, q) == SumFunction([j \in DOMAIN q |-> real_size(s.chunk[q[j]])])
Enough(s, q, required) ==
    LET K == {k \in 1..Len(q) : SizeOf(s, SubSeq(q, 1, k)) >= required} IN
    SubSeq(q, 1, IF K = {} THEN Len(q) ELSE Min(K))

\* One chunk loses the route to o.  Its size is given back, and without other
\* routes the chunk goes, with its task unless that has users.
evicted(s, c, o) ==
    LET t == [s EXCEPT !.chunk[c].mask = @ \ {o},
                       !.fs[o] = @ - real_size(s.chunk[c])]
    IN IF t.chunk[c].mask /= {} \/ s.chunk[c].users THEN t
       ELSE IF s.chunk[c].task THEN task_destroy(t, c)
       ELSE destroyed(t, c)

\* flb_input_chunk_release_space for the chunks of input i: not from the new
\* chunk, and not from under a running callback.
release_space(s, new, i, o, required) ==
    LET may(c) == /\ o \in s.chunk[c].mask
                  /\ c /= new
                  /\ s.chunk[c].users => o \notin s.chunk[c].active
        q == Enough(s, Selected(s.chunks[i], {c \in Chunks : may(c)}), required)
    IN [s |-> FoldLeft(LAMBDA t, c : evicted(t, c, o), s, q),
        required |-> required - SizeOf(s, q)]

\* The instances in the order of the configuration.
InOrder(S) == [j \in 1..Cardinality(S) |-> j]

\* flb_input_chunk_release_space_compound: the input of the new chunk first,
\* then the others.  The space required is the size the chunk has now.
release_space_compound(s, new, o) ==
    LET own == s.chunk[new].in
        order == <<own>> \o Selected(InOrder(Inputs), Inputs \ {own})
    IN FoldLeft(LAMBDA a, i : IF a.required > 0
                              THEN release_space(a.s, new, i, o, a.required)
                              ELSE a,
                [s |-> s, required |-> real_size(s.chunk[new])], order)

\* flb_input_chunk_has_overlimit_routes.  The sizes are unsigned (a negative
\* one is huge) and the result is an int with one bit for each output: bits
\* are shifted by the id modulo 32.
Over(s, o, n) == s.fs[o] + n > Limit[o] \/ s.fs[o] + n < 0
Bit(o) == o % 32
has_overlimit_routes(s, c, n) ==
    {Bit(o) : o \in {p \in s.chunk[c].mask \cap Limited : Over(s, p, n)}}

\* flb_input_chunk_place_new_chunk, flb_input_chunk_find_space_new_data
place_new_chunk(s, c, n) ==
    LET over == has_overlimit_routes(s, c, n)
        todo == {o \in s.chunk[c].mask \cap Limited : Bit(o) \in over}
        step(a, o) == LET r == release_space_compound(a.s, c, o) IN
                      IF o \in todo THEN [s |-> r.s, ok |-> a.ok /\ r.required <= 0]
                      ELSE a
    IN IF FS(s.chunk[c].in)
       THEN FoldLeft(step, [s |-> s, ok |-> TRUE], InOrder(Outputs))
       ELSE [s |-> s, ok |-> TRUE]

\* memrb_input_chunk_release_space
memrb_release_space(s, i, n) ==
    LET q == Enough(s, Selected(s.chunks[i], {c \in Chunks : ~s.chunk[c].users}), n)
        step(t, c) == IF t.chunk[c].task THEN task_destroy(t, c) ELSE destroyed(t, c)
    IN [s |-> FoldLeft(step, s, q), ok |-> SizeOf(s, q) >= n]

(***************************************************************************)
(* input_chunk_append_raw.                                                 *)
(***************************************************************************)
\* input_chunk_get: the last chunk of the tag, brought up, unless it is busy
\* or locked or cannot be brought up; otherwise a new one, left down when too
\* many chunks are up.
Candidate(s, i) == s.ht[i] /= None
                   /\ ~s.chunk[s.ht[i]].task /\ ~s.chunk[s.ht[i]].locked
WasDown(s, i) == FS(i) /\ Candidate(s, i) /\ ~s.chunk[s.ht[i]].up
Reused(s, i) == Candidate(s, i) /\ Loads(s, s.ht[i])
CreatedDown(s, i) == FS(i) /\ TotalUp(s) >= MaxUp
Target(s, i) == IF Reused(s, i) THEN s.ht[i] ELSE Min(Free(s))
with_target(s, i) ==
    LET c == Target(s, i) IN
    IF Reused(s, i) THEN [s EXCEPT !.chunk[c].up = TRUE]
    ELSE [s EXCEPT !.chunk[c] = [NoChunk EXCEPT
                       !.in = i, !.file = IF FS(i) THEN 1 ELSE 0,
                       !.up = ~CreatedDown(s, i),
                       !.mask = IF i \in Direct THEN {} ELSE Routes[i]],
                   !.chunks[i] = Append(@, c),
                   !.ht[i] = c]
\* flb_input_chunk_create needs the file too.
CanCreate(s, i) == FS(i) => Min(Free(s)) \notin unloadable

\* cio_file_write: the file grows in steps.
written(r, n) ==
    LET need == 1 + r.size + n
        grow == Realloc * ((need - r.file + Realloc - 1) \div Realloc)
    IN [r EXCEPT !.size = @ + n,
                 !.file = IF FS(r.in) /\ r.file < need THEN @ + grow ELSE @]
locked(r) == IF r.size > MaxContent THEN lock(r) ELSE r

\* A chunk of an input over its memory limit is put down when less than 1% of
\* its space is left.  The space left is unsigned.
NearlyFull(r) == r.size = MaxContent

\* The chunk has its data: limits, accounting, protection.
finish(s, c, set_down, pre_real_size) ==
    LET i  == s.chunk[c].in
        s1 == IF set_down THEN [s EXCEPT !.chunk[c] = down(@)] ELSE s
        s2 == set_limits(s1, i)
        s3 == IF FS(i) /\ is_mem_overlimit(s2, i) /\ NearlyFull(s2.chunk[c])
              THEN [s2 EXCEPT !.chunk[c] = down(@)] ELSE s2
        s4 == LET diff == real_size(s3.chunk[c]) - pre_real_size IN
              IF diff /= 0 THEN update_outputs(s3, c, diff) ELSE s3
    IN protect(s4, i)

\* route_payload_apply_outputs: after each append the mask becomes the
\* outputs of the conditional route.  What the chunk was charged for is
\* not looked at again once it is counted.
apply_outputs(s, c) ==
    LET t == [s EXCEPT !.chunk[c].mask = Routes[s.chunk[c].in]] IN
    IF s.chunk[c].fs_counted THEN t
    ELSE update_outputs(t, c, real_size(s.chunk[c]))

\* n is the size of the data that came in, m what the filters left of it.  out is
\* what happens to it: written, not written, or the chunk not brought up again.
append_raw(s, i, n, m, out, set_down) ==
    LET c == Target(s, i)
        pos == place_new_chunk(with_target(s, i), c, n)
        s2 == [pos.s EXCEPT !.chunk[c].up = TRUE]
        r == s2.chunk[c]
        pre_real_size == IF r.size = 0 THEN 0 ELSE real_size(r)
        data == IF m = 0 THEN r ELSE locked(written(r, m))
        s3 == finish([s2 EXCEPT !.chunk[c] = data], c, set_down, pre_real_size)
    IN IF ~Reused(s, i) /\ ~CanCreate(s, i) THEN s
       ELSE IF with_target(s, i).chunk[c].mask /= {} /\ ~pos.ok
       THEN IF Reused(s, i) THEN pos.s ELSE destroyed(pos.s, c)
       ELSE IF out = "down" /\ ~pos.s.chunk[c].up THEN pos.s
       ELSE IF out = "fails" /\ m > 0 THEN s2
       ELSE IF data.size = 0 THEN set_limits(destroyed(s2, c), i)
       ELSE IF i \in Direct THEN apply_outputs(s3, c) ELSE s3

\* The memory ring buffer makes room for the size that came in.  The last chunk
\* of the tag may turn out to be corrupted when it is brought up: it is destroyed
\* and a new chunk takes its entry, if one can be created.  Of an append that meets
\* a freed chunk in the hash table nothing can be said.
AppendRaw(i, n, m, out) ==
    LET memrb == Type[i] = "memrb" /\ is_mem_overlimit(Now, i)
        room  == IF memrb THEN memrb_release_space(Now, i, n)
                 ELSE [s |-> Now, ok |-> TRUE]
        bad   == out = "corrupted"
        s     == IF bad THEN unhashed(closed(Now, ht[i]), i, ht[i]) ELSE room.s
        set_down == WasDown(room.s, i) \/ (~Reused(s, i) /\ CreatedDown(s, i))
    IN /\ collecting[i]
       /\ m > n => Grows
       /\ out = "fails" => "write" \in Faults /\ FS(i)
       /\ out = "down" => "reload" \in Faults /\ FS(i)
       /\ out = "corrupted" => "load" \in Faults /\ FS(i)
       /\ room.s.ht[i] \in Of(room.s, i) \cup {None}
       /\ bad => WasDown(Now, i) /\ ~Paused(Now, i)
       /\ Reused(s, i) \/ Free(s) /= {}
       /\ Becomes(IF ~room.ok \/ Paused(room.s, i) THEN room.s
                  ELSE IF bad /\ ~CanCreate(s, i) THEN destroyed_corrupted(Now, ht[i])
                  ELSE append_raw(s, i, n, m, out, set_down))

(***************************************************************************)
(* Tasks and the engine.                                                   *)
(***************************************************************************)
\* flb_input_chunk_flush for a new task: the chunk is brought up if the limit
\* allows, locked, and what trimming gave back is accounted for.
flushed_NoDiff(s, c) ==
    [s EXCEPT !.chunk[c] = lock([@ EXCEPT !.up = TRUE])]
flushed(s, c) ==
    LET t == [s EXCEPT !.chunk[c] = lock([@ EXCEPT !.up = TRUE])]
        diff == real_size(t.chunk[c]) - real_size(s.chunk[c])
    IN IF diff /= 0 THEN update_outputs(t, c, diff) ELSE t
MayBeUp(c) == chunk[c].up \/ (TotalUp(Now) < MaxUp /\ c \notin unloadable)

TaskCreate(c) ==
    /\ chunk[c].in /= None /\ ~chunk[c].task
    /\ chunk[c].size > 0
    /\ MayBeUp(c)
    /\ LET t == flushed(Now, c) IN
       Becomes(IF t.chunk[c].mask = {} THEN task_destroy(t, c)
               ELSE [t EXCEPT !.chunk[c].task = TRUE, !.chunk[c].users = TRUE,
                              !.chunk[c].routes = Cardinality(chunk[c].mask)])

\* A flush of an empty chunk, left by a failed write, makes no task, but the
\* chunk stays up and locked.
FlushEmpty(c) ==
    /\ chunk[c].in /= None /\ ~chunk[c].task
    /\ chunk[c].size = 0
    /\ MayBeUp(c)
    /\ chunk' = [chunk EXCEPT ![c].up = TRUE, ![c].locked = TRUE]
    /\ UNCHANGED <<setting, chunks, ht, fs_chunks_size, mem_chunks_size,
                   mem_buf_status, storage_buf_status, collecting, ingestion,
                   unloadable>>

\* A callback starts and returns.
RouteStart(c, o) ==
    /\ chunk[c].users /\ o \in chunk[c].mask \ chunk[c].active
    /\ chunk' = [chunk EXCEPT ![c].active = @ \cup {o}]
    /\ UNCHANGED <<setting, chunks, ht, fs_chunks_size, mem_chunks_size,
                   mem_buf_status, storage_buf_status, collecting, ingestion,
                   unloadable>>
RouteReturn(c, o) ==
    /\ o \in chunk[c].active
    /\ chunk' = [chunk EXCEPT ![c].active = @ \ {o}]
    /\ UNCHANGED <<setting, chunks, ht, fs_chunks_size, mem_chunks_size,
                   mem_buf_status, storage_buf_status, collecting, ingestion,
                   unloadable>>

\* The last user asks for a retry: flb_task_retry_create puts the chunk down
\* if the task has one route or its input is over its memory limit.
TaskRetryWait(c) ==
    LET i == chunk[c].in
        s == [Now EXCEPT !.mem[i] = total_size(Now, i), !.chunk[c].users = FALSE]
        over == is_mem_overlimit(s, i)
        t == IF over \/ chunk[c].routes = 1
             THEN [s EXCEPT !.chunk[c] = down(@)] ELSE s
    IN /\ chunk[c].users /\ chunk[c].active = {}
       /\ Becomes(IF over /\ FS(i) THEN [t EXCEPT !.mem[i] = total_size(t, i)] ELSE t)

\* flb_engine_dispatch_retry
TaskRetry(c) ==
    /\ chunk[c].task /\ ~chunk[c].users
    /\ MayBeUp(c)
    /\ Becomes([flushed(Now, c) EXCEPT !.chunk[c].users = TRUE])

\* The last user is done and no retry is left.
TaskEnd(c) ==
    /\ chunk[c].users /\ chunk[c].active = {}
    /\ Becomes(task_destroy(Now, c))

\* flb_engine_stop_ingestion
StopIngestion ==
    /\ ingestion
    /\ ingestion' = FALSE
    /\ collecting' = [i \in Inputs |-> FALSE]
    /\ UNCHANGED <<setting, chunk, chunks, ht, fs_chunks_size, mem_chunks_size,
                   mem_buf_status, storage_buf_status, unloadable>>

\* External: descriptors, address space or the disk fail and recover.
LoadingChanges(S) ==
    /\ "load" \in Faults
    /\ unloadable' = S
    /\ UNCHANGED <<setting, chunk, chunks, ht, fs_chunks_size, mem_chunks_size,
                   mem_buf_status, storage_buf_status, collecting, ingestion>>

Next ==
    \/ \E i \in Inputs, n \in Sizes, m \in Sizes \cup {0},
          out \in {"ok", "fails", "down", "corrupted"} : AppendRaw(i, n, m, out)
    \/ \E c \in Chunks : \/ TaskCreate(c) \/ FlushEmpty(c)
                         \/ TaskRetryWait(c) \/ TaskRetry(c) \/ TaskEnd(c)
                         \/ \E o \in Outputs : RouteStart(c, o) \/ RouteReturn(c, o)
    \/ StopIngestion
    \/ \E S \in SUBSET Chunks : LoadingChanges(S)

Spec == Init /\ [][Next]_vars

(***************************************************************************)
(* Fairness: idle chunks get a task, callbacks return, retries are         *)
(* dispatched and, as they are limited, end: the callbacks of a task do    *)
(* not overlap for ever and a task is not retried for ever.                *)
(***************************************************************************)
LastReturn(c, o) == RouteReturn(c, o) /\ chunk'[c].active = {}

FairSpec ==
    /\ Spec
    /\ \A c \in Chunks :
          /\ SF_vars(TaskCreate(c))
          /\ SF_vars(TaskRetry(c))
          /\ SF_vars(TaskEnd(c))
          /\ \A o \in Outputs : WF_vars(RouteReturn(c, o)) /\ SF_vars(LastReturn(c, o))

(***************************************************************************)
(* Properties.                                                             *)
(***************************************************************************)
\* Chunks, lists and counters have their types; a chunk takes data only until
\* it is full.
TypeOK ==
    /\ setting \in Settings
    /\ chunk \in [Chunks -> Chunk]
    /\ \A i \in Inputs : chunks[i] \in Seq(Chunks)
    /\ ht \in [Inputs -> Chunks \cup {None}]
    /\ fs_chunks_size \in [Limited -> Int]
    /\ mem_chunks_size \in [Inputs -> Nat]
    /\ mem_buf_status \in [Inputs -> Status]
    /\ storage_buf_status \in [Inputs -> Status]
    /\ collecting \in [Inputs -> BOOLEAN]
    /\ ingestion \in BOOLEAN
    /\ unloadable \subseteq Chunks

\* The lists hold the chunks of their input once each and, as long as files can
\* be loaded, the hash table never points to a chunk that was freed
\* (flb_input_chunk_destroy, whoever calls it).
ListsExact ==
    \A i \in Inputs :
        /\ Range(chunks[i]) = Of(Now, i)
        /\ Len(chunks[i]) = Cardinality(Of(Now, i))
        /\ ("load" \notin Faults => ht[i] \in Of(Now, i) \cup {None})

\* Appends, evictions, flushes, failed writes and failed loads leave the lists,
\* the hash table and the counters consistent.
ListsConsistent == TypeOK /\ ListsExact

\* "it counts the total of disk space (filesystem) used by buffers": what an
\* output is charged for is the size of the chunks that are routed to it,
\* through appends, trimming, eviction and deletion.  Conditional routes are
\* charged for at most once, and an empty chunk that a failing write or load
\* leaves behind is given back without having been charged for.
Countable == Direct = {} /\ Faults \subseteq {"load"}
SizesAccounted ==
    Countable =>
        \A o \in Limited :
            fs_chunks_size[o] =
                SumFunction([c \in {c \in Chunks \ Free(Now) :
                              chunk[c].fs_counted /\ o \in chunk[c].mask}
                     |-> real_size(chunk[c])])

\* The data an input without a file system buffer keeps in memory exceeds
\* its limit by less than one append (protect, memrb).  The ring buffer makes
\* room before the filters run, so it has a bound only if they do not make the
\* data larger.
MemBounded ==
    \A i \in Inputs : ~FS(i) /\ MemLimit[i] > 0 /\ (Type[i] = "memrb" => ~Grows) =>
        total_size(Now, i) < MemLimit[i] + Max(Sizes)

\* The plugin collects exactly when the core takes its data, and nothing
\* resumes it once ingestion was stopped.
PluginAgrees ==
    \A i \in Inputs : collecting[i] <=> ingestion /\ ~Paused(Now, i)

\* An input that is paused is resumed in the end, or the service stops: only
\* the end of a task with a chunk of its own makes it look at its limits
\* (flb_task_destroy).  Evicting for a disk limit and failed writes are not
\* followed by a look.
PausedIsResumed ==
    Limited = {} /\ Faults = {} =>
        \A i \in Inputs : Paused(Now, i) ~> ~Paused(Now, i) \/ ~ingestion
=============================================================================
