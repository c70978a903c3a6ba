# A TLA+ model of the Telemetry Forge Agent's delivery core

The Telemetry Forge Agent is a distribution of Fluent Bit: inputs collect
records, the engine buffers them in chunks, and outputs deliver the chunks. The
question this project asks is the one an operator cares about: *does every record
that was accepted reach each of its outputs, or is it accounted for, whatever the
outputs answer, whichever call fails and whenever the service is stopped?* Around
that core it asks the same of the parts this distribution adds: processors that
deduplicate and sample records, and a configuration that follows a git repository.

The source lives under `src/source/` (core in `src/source/src`, headers in
`src/source/include/fluent-bit`, plugins in `src/source/plugins`). `PROJECT.json`
maps each definition to the lines it models.

## 1. Inventory of the system

| Part | State it keeps | Operations | Talks to | Module |
| --- | --- | --- | --- | --- |
| Engine loop (`flb_engine.c`) | event loop, `grace_count`, flags | flush timer, output events, STOP, shutdown timer, teardown | everything below | `TaskEngine` |
| Dispatch (`flb_engine_dispatch.c`) | none of its own | create tasks for idle chunks, start their routes, dispatch a retry | tasks, outputs | `TaskEngine` |
| Tasks (`flb_task.c`, `flb_task.h`) | `task_map`, users, route states, retries | create, destroy, retry create/clean/reschedule | chunks, scheduler | `TaskEngine` |
| Scheduler (`flb_scheduler.c`) | `requests`, `requests_wait`, `timers_drop`, frame timer | request create, promote, fire, invalidate, clean up | event loop, dispatch | `Scheduler` |
| Output flush and workers (`flb_output.h`, `flb_output_thread.c`) | coroutines, flush contexts, two pipes per thread | create, run the callback, return, forward | engine thread | `TaskEngine` |
| Upstream pool (`flb_upstream.c`, `flb_io.c`, `flb_network.c`) | available, busy and destroyed connections, timeouts | get, wait, recycle, time out, drop, free | output plugins, event loop | `Upstream` |
| Chunks (`flb_input_chunk.c`) | chunks, `routes_mask`, hash table, sizes per output and input | append, trim, evict, flush, destroy | router, chunkio, tasks | `InputChunk`, `TaskEngine` |
| Inputs (`flb_input.c`) | `mem_buf_status`, `storage_buf_status` | pause, resume | chunks, plugin | `InputChunk`, `InputRing` |
| Threaded inputs and the ring (`flb_input_thread.c`, `flb_ring_buffer.c`, lwrb) | a ring of bytes, `flush_pending`, a pipe | write, read, signal, pause, resume, join | two threads | `InputRing` |
| Storage backlog (`in_storage_backlog/sb.c`) | files, a queue per output, sizes | segregate, load, discard, release space | chunks, engine | `Backlog` |
| Processor chains (`flb_processor.c`, `flb_mp.c`) | a list of records and a cursor | run units, encode, decode | inputs | `LogProcessors` |
| Deduplication, sampling | a store with a time to live, windows | process a record, compact | processors | `RecordDedup`, `LogSampling` |
| Remote configuration (`in_git_config`) | reference files, configuration files | poll, stage, commit, roll back | hot reload, libgit2 | `GitConfig` |
| Hot reload (`flb_reload.c`, `fluent-bit.c`) | `flb_bin_restarting`, flags of two contexts | SIGHUP, load, stop, start | whole process | `GitConfig` |
| Event queue (`flb_event_loop.h`) | priority buckets | load, pop, stop at the iteration limit | all handlers | part of `Scheduler`, `Upstream` |
| Router, filters, parsers, LLM tagging, plugins, bundled libraries | see section 8 | | | none |

Three things make this code hard. The engine thread is a sequence of handlers, but
the life of a chunk, a connection or a retry is spread over many of them, and each
handler trusts what an earlier one left. Two threads share a ring, pipes and route
states with hardly a lock. And nearly every call can fail, each failure with a path
of its own through the counters.

What makes each part correct:

- tasks: users equals the flushes that are out; an id resolves to the task it was
  given for; a task ends exactly when nothing refers to it;
- scheduler: one request per retry, none without its retry, never early, in time
  when the loop is, and every request ends;
- dispatch and outputs: one flight at a time per route, the retry limit, nothing
  sent again after it was delivered; a shutdown completes;
- connections: never freed or shared under their user, never handed out broken,
  bounded, and whoever waits is woken;
- chunks and inputs: an output is charged for exactly what is routed to it, memory
  is bounded, and who is paused is resumed;
- the ring: a queue, whatever the two threads do, that is collected and does not
  keep a shutdown from ending;
- the backlog: files leave the disk only when everybody is done with them;
- processors: each record is visited once, duplicates and excess records do not
  pass, others do;
- remote configuration: the last configuration that worked survives, only what
  runs is committed, and the agent ends up with the branch.

## 2. The modules

`TaskEngine` and `Scheduler` take their configuration from constants. The modules
after them have a constant `Settings`, a set of records, and a variable `setting`
that `Init` chooses from it and no action changes: one run covers several
configurations of the component, and a property that the code keeps only in some of
them says so in its hypothesis. The MC modules define `MCSettings`.

### `TaskEngine`

The composition of engine, dispatch, tasks, outputs, workers and eviction, in one
module because their correctness is a statement about all of them. Its variables
follow the structures of the code: `task_map`, `users`, `route` and `attempts`
are fields of `struct flb_task` and its lists; `tid` is `ic->task`; `chunk` and
`mask` are the chunk's `busy` flag and `routes_mask`; `flushes` holds every flush
that was handed out and every return event that was not handled; `requests` counts
the scheduler requests that point to a retry. `routed` and `tries` are history.

The atomicity is the code's. A handler of the engine thread is one action, since
nothing else of that thread runs in between: `HandleOk`, `HandleError`,
`HandleRetry`, `HandleRetryRefused` and `HandleRetryUnscheduled` are the branches of
`handle_output_event`; `RetryFlush`, `RetryReschedule`, `RetryDestroyed` and
`RetryNotQueued` are the outcomes of `flb_engine_dispatch_retry`; `ReleaseSpace` is
one eviction of `flb_input_chunk_release_space`. The dispatch loop is the exception:
it hands flushes to workers while it runs, so it takes one action per iteration
(`phase` is `create` while it visits chunks, `start` in `tasks_start`). Workers
(`FlushStart`, `FlushReturn`, `WorkerForward` for a threaded output) interleave with
every one of these; the flushes of other outputs run on the engine thread, between
handlers.

`Faults` says which calls may fail: `content` (a chunk cannot be read), `alloc` (a
task cannot be built), `route` (a route cannot be allocated), `flush` (a flush
cannot be created or queued, in the engine or in a worker), `up` (a chunk cannot be
brought into memory for a retry), `sched` (a request cannot be scheduled), `dlq` (the
copy of a rejected chunk to the dead letter queue fails, which nobody looks at). Each
follows the path the code takes, leaks included: a task id lost to `alloc` stays
`FREED`, a flush lost in a worker stays `lost` with its user.

`Direct` chooses between chunks that are routed by their mask and chunks that carry
the routes a conditional router stored with them.

Deliberate abstractions. One input instance. Return events are a set, so they may
be handled in any order: more behaviours than the pipes allow, none fewer. The byte
accounting that decides *when* eviction happens is in `InputChunk`; here eviction of
an older chunk is possible whenever a younger idle chunk shares a limited output.
GLOBAL eviction is in `Backlog`. The `SYNCHRONOUS` and `NO_MULTIPLEX` flags (no plugin
sets them) and the formatter test mode are not modelled. An action's metrics are
counted in chunks and not in records.

### `ChunkDelivery`

What the core promises, with two variables: the store of chunks and the routes each
still owes. A route is settled once, by delivery, by being counted as dropped or by
the dead letter queue, and the step that settles the last one deletes the chunk.
`TaskEngine` refines it (`DeliveryPromise`) with the routes that are neither
processed, dropped nor quarantined as the pending ones.

### `Scheduler`

The retry requests inside `flb_scheduler.c`, which `TaskEngine` sees as a counter. A
timer and its request are one record whose `place` is the list it is in: `wait`
(`requests_wait`), `requests` (armed), `drop` (`timers_drop`), `free`, or `orphan`
for a timer whose request could not be allocated. Time is relative: a request has an
`age` and the seconds `left` of its armed timeout, so no clock has to be bounded.
The event loop may handle what is due arbitrarily late; the history variable `late`
remembers that something was, or that a timeout could not be armed. `queue` holds
the timers with an event in the priority queue of the loop, which outlives a round:
an event popped at the iteration limit is dropped and found again (`PopUnhandled`),
and the timers that were invalidated are freed between rounds (`Cleanup`).
`RetryNow` may happen to any retry at any time, which covers the STOP handler.

### `Upstream`

The connections of one upstream on one event loop. `conn[c].place` is the queue a
connection is in, `event` its registration, `queued` whether its event waits in the
loop's priority queue; `coro[k].pc` is where a coroutine has given control back. An
action is what one thread does between two such points: `flb_upstream_conn_get` in
its three outcomes (`GetAvailable`, `GetRefused`, `CreateConn`), the resumption of a
connect or of I/O, the release into the pool or to the destroy queue, the handler of
a closed idle socket (`KaDropped`), the timeout sweep over any set of connections
whose time is up (`ConnTimeouts`), and the freeing between rounds
(`PendingDestroy`). Peers close sockets at any time.

### `InputChunk`

Ingestion: `AppendRaw` is one append from the choice of the chunk, through placing it
(which may evict chunks of every input), writing, charging the outputs and trimming
to the pausing of the input; tasks are reduced to what eviction looks at. Sizes are
in pages and files grow by `Realloc` at a time, because trimming and growing is where
the charge and the file part. An append has two sizes, `n` as it comes in and `m` as
the filters leave it: room is made for the first and the second is written. With the
fault `load`, `unloadable` holds the chunks whose file cannot be brought up at the
moment, and any of them may change at any time; with `reload` a chunk that was created
down is not brought up again, with `write` the data is not written.

### `Backlog`

Files of an earlier run: `Start` segregates them into a queue per output,
`QueueChunks` is one call of the collector with its nested loops (`round`, `visit`),
`Evict` makes room in the queues and in the loaded chunks, the flush actions deliver,
and `End` is a crash at any moment or the end of a stop; memory is lost and the disk
stays. What input plugins append in this run appears as demand for space only. With
the fault `alloc`, memory may be short for any of the files a call of the collector
maps.

### `InputRing` and `RingQueue`

`InputRing` has one action for each access of the two threads to what they share:
the write pointer, the read pointer, the bytes, `flush_pending`, the pipe. An entry
is `SlotBytes` bytes and the ring is one byte longer than its entries, so each wraps
somewhere else. With `Reorders`, stores of the input thread become visible one by
one in any order (`StoreSeen`), as the language allows for plain stores. With
`Refuses`, the chunk an entry is appended to may refuse it. `Shutdown` comes at any
moment between two runs of the collector; with `Waits` (grace -1) not before the data
in memory is flushed. `found` remembers what a run found in the ring. `RingQueue`
is the specification: a bounded queue whose entries are put, taken in order and
thrown away once, at the end. `IsQueue` is the refinement.

### `LogProcessors`, `RecordDedup`, `LogSampling`

`LogProcessors` is `flb_processor_run` with the list of decoded records and its
cursor, which all units of a chain share; a step visits one record. `record_next`
and `flb_mp_chunk_cobj_record_destroy` are the two functions everything rests on.
When they would read a freed record the run goes to `Undefined`. A unit with
`rewrites` may leave anything in a record it keeps (content_modifier, an sql query that
selects keys), so that a second visit may decide otherwise; `hashed` is the content
dedup has looked at. `RecordDedup` and
`LogSampling` are the pure parts: hash, look-up, expiry and compaction; the fixed
and the sliding window.

### `GitConfig`

The polling plugin, the hot reload and the disk. Every change of the disk in
`config_add`, `config_commit` and `config_rollback` is a step of its own, so that a
crash falls between any two; the main thread (`ReloadBegin` to `ReloadDone`) and the
threads that send SIGHUP interleave with them. A configuration is the number of its
commit, and a commit may be refused when it is loaded (`Halting`) or fail to start
(`Aborting`). Calls fail in two ways. The code sees a failed poll, fetch, write,
reference, trigger, thread or reload and returns or rolls back. It does not see a
reference that cannot be read (it counts as absent, `Deref`), one whose line is lost in
`fclose` (it is empty, `SetRef`), a file whose last part is lost there (`Write`), and
what cannot be removed (`DropRef`, `Remove`). A path that was released and is still in
the context is released again (`DoubleFree`): the process may end or go on.

## 3. The runs

| Run | Instance | Asks |
| --- | --- | --- |
| `engine_safety` | 2 chunks, 2 outputs, one threaded, one limited, limits 0 and 1, grace 2 | retry limit, eviction, routes and outcomes; only copies to the dead letter queue fail |
| `engine_faults` | 2 chunks, 1 threaded output, 1 task id, stored routes, every call may fail | `IndInv`, and a stop completes |
| `engine_delivery` | 2 chunks, 2 outputs, 1 task id, unlimited retries, dead letter queue | refinement of `ChunkDelivery` |
| `engine_drain` | 1 chunk, 2 outputs, grace -1 | liveness: tasks end and a stop completes |
| `sched_requests` | 2 retries, 2 timers, frame 2, waits 1, 2, 3 and 5 | lists, event queue, backoff, punctuality, liveness |
| `upstream` | 2 connections, 2 coroutines, three settings | safety of the pool, its limit, liveness of waits and of freeing |
| `input_chunks` | 2 inputs, 2 outputs, 2 chunks, six settings | lists, charges, memory, pausing and resuming |
| `backlog` | 3 files, 2 outputs, six settings | queues, sizes, no loss over restarts, everything is loaded |
| `input_ring` | capacity 2, 2 bytes an entry, 4 entries, five settings | refinement of `RingQueue`, accounting, liveness |
| `processors` | chains of up to five units, up to 5 records, eight settings | cursor, visits, duplicates, windows, termination |
| `git_config` | 3 commits, 2 crashes, six settings | the last good configuration, commits, signals, convergence |
| `proc_restart` | dedup alone, 3 records | violation: a buffer whose last record is a duplicate is lost |

Bounds. Two chunks and two outputs are the smallest instance in which a task has one
route finished and one pending while another task takes ids, flushes and space; one
output is threaded and one is not; the retry limits 0 and 1 are both boundaries of
`RetryExhausted`. `MaxTaskId` is 1 (both chunks have a task) or 0 (they compete for
one id). With grace -1 the tick counter is cut at 2, since the code compares it with
0, 1 and the grace period only. `MaxAttempts` bounds an unlimited retry. The waits
lie on both sides of one and two frames; two timers hold the requests of two
retries, or of one retry while a reschedule creates its new request before the old
one goes; the proofs cover any number of timers. Two
connections and two coroutines let one connection be dropped, recycled and handed
over while the other waits. Two chunks are enough for eviction of the older one by
the younger, and units of a page with files that grow by two give all orders of
charge, trimming and growth. Three files in two queues give one that is alone and
two that are shared. Four entries in a ring of two with a byte to spare start at
different positions, so entries wrap at a byte boundary within them. A window of
three seconds with records over six seconds covers a whole window, its boundary and
the reuse of every bucket. Three commits are one that runs, one that is refused and
one that repairs; two crashes allow a crash during the recovery from a crash.

## 4. The properties

The runs check conjunctions of named parts where the parts need each other; the
parts are stated and commented one by one in the modules.

TaskEngine:

- `IndInv`, with the parts `TypeOK`, `UsersCount`, `NoStaleTask`, `OneFlight`,
  `RequestsBacked` and two about the task map and the dispatch loop: the reference
  counting holds for every combination of failing calls. TLC checks it where all
  calls fail (`engine_faults`); the proof covers every other instance.
- `TriesWithinLimit`: a limit of N means N + 1 deliveries at most.
- `RunningIsActive`: eviction never takes a chunk from under a callback.
- `NothingStranded`: between handlers every retry is with the scheduler or in a
  flush, and every task has one or the other; `NoSilentLoss`: a deleted chunk is
  accounted for on every route; `DeliveredIsFinal`: what was delivered is not sent
  again. Of the failing calls these are checked with a failing dead letter queue only;
  with the others the first two are false, since the code cannot do much when there is
  no memory or no descriptor left.
- `DeliveryPromise`: refinement of `ChunkDelivery`, where the scheduler may refuse a
  retry and the copy to the dead letter queue, then the only trace of the data,
  succeeds. `Drained`, `StopCompletes`.

Scheduler: `ListsInv` (types, `QueueLive`, `OnePerRetry`, `NeverEarly`), `OnTime` (as
long as nothing was late), `EveryRequestEnds`.

Upstream: `PoolConsistent` (types, `HeldIsValid`, `PoolIsHealthy`, `NoDanglingEvent`,
`WaitersArmed`), `LimitHolds`, `WaitsEnd`, `DroppedIsFreed`.

InputChunk: `ListsConsistent` (types, and `ListsExact`, of the hash table as long as
files can be loaded); `SizesAccounted` without conditional routes, failing writes and
failing reloads (`Countable`); `MemBounded`, of a memory ring buffer if filters do not
make data larger; `PluginAgrees`; and `PausedIsResumed` without disk limits and failing
calls.

Backlog: `QueuesConsistent` (types, `SizesExact`, and `QueuesValid` until the queues
are built again at shutdown); `InUseStaysUp` until then; `NothingLost` for logs,
without disk limits and without a lack of memory (`KeepsFiles`); `EveryChunkLoaded` for chunks whose tag matches an output.

InputRing: `IsQueue` and `EntriesCollected` where stores keep their order;
`RingAccounted` (types, `Accounted`, every entry is in one place, and `Emptied`, a run of
the collector that no pause cuts short takes all it found, both where stores keep their
order); `ThreadFollows`; `ShutdownCompletes`. That entries were taken by the engine does
not mean that a chunk has them, and what is written after the last run is thrown away;
section 7 has both.

LogProcessors: `VisitedOnce`; `CursorConsistent` (types, and `CursorValid` as long as
there are records to decode, and after that where records are removed in the first
pass over a list only, `RemovesOnce`, by sql units that leave in a record what their
WHERE looks at); `RunEnds` (every buffer gets through, unless a
freed record is read in a chain without `RemovesOnce`); `NoDuplicateOut` when dedup
sees every record, its database works and one kind of ignore list is used, of the
contents as dedup hashed them, whatever units after it make of a record;
`WindowBound` (`FixedBound`, `SlidingBound`) for a unit without a condition and
records in order, the former for a service started at the beginning of a window.

GitConfig: `DiskConsistent` (types, and `LastGoodKept` for a branch that does not go
back, references that are read, flushed and removed as asked (`Dependable`) and, where
the agent may crash inside a commit, a restart that recovers from it, `Recovers`);
`CommittedRuns` when a reload takes less than a poll interval; `SignalsServed`, about
the signals that were accepted, once hot reload is enabled and when what loads also
starts; `Converges` without failing calls and without signals of an operator. No
property forbids that a signal is refused: the handler does that whenever a reload is
under way.

Each hypothesis is there because the code does not keep the property without it;
section 7 has the lines.

## 5. Fairness

`TaskEngine`: the event loop is level triggered. An event that is ready stays ready
while other handlers run, so the handlers are strongly fair: the flush timer, the
shutdown timer, the steps of each route's flush and each route's retry. The
dispatch loop and the final teardown are weakly fair, as plain sequential code. A
callback is assumed to return in the end; its network I/O has timeouts. Nothing is
assumed about what it returns, and failing calls are never required to succeed.

`Scheduler`: time passes and the loading of expired events is weakly fair; an event
that keeps becoming ready is dispatched in the end, and the frame timer, which is
periodic, arms the timeouts now and then (strong fairness), although a round may
drop an event at its limit and an arming may fail. Priorities, which could starve an
event for ever, are planned as a module of their own.

`Upstream`: a name lookup has a timer of its own, a ready event is loaded, the sweep
runs every 1.5 seconds and reaches a connection whose time is up, and freeing runs
after each round (weak); a coroutine that keeps being resumable is resumed, and one
that has a connection gives it back (strong, since peers and the sweep may disable a
step for a while). Nothing is assumed about peers.

`InputChunk`: a chunk gets its task, its retry and its last return (strong, as the
engine takes other chunks in between). Nothing is assumed about appends.

`Backlog`: the collector runs every second and a task is created for a loaded chunk
(weak); a delivery that is tried again and again is answered with OK or ERROR in the
end (strong), which the retry limit gives. Crashes are bounded by `MaxStarts`.

`InputRing`: both threads go on (weak; the plugin need not append), the timer runs;
flushes, which make room for a paused input, and the end of the grace period come
in the end (strong).

`LogProcessors`: a run is sequential code (weak). `GitConfig`: the main thread, the
signal threads, a collection under way and a restart by the supervisor go on (weak);
the collector's timer and the stop of the old engine, which waits for its collector,
come in the end (strong). Nothing is assumed about pushes and operators.

## 6. The proofs

TLAPS checks them for every value of the constants that satisfies the named
assumptions of the modules (`ConstantsAssumption`, `SchedulerAssumption`,
`UpstreamAssumption`, `GitConfigAssumption`, `InputRingAssumption`,
`InputChunkAssumption`, `BacklogAssumption`, `ChainAssumption`, `DedupAssumption`,
`SamplingAssumption`): any number of chunks, outputs, tasks, connections, commits,
files, records, entries and any sizes and limits, where TLC has two or three of each.
A theorem that needs more says so in its statement, as the property does for TLC.
Every invariant and every action property that a run checks is stated by a theorem.

| Module | Theorems that state a property of a run | Inductive invariant |
| --- | --- | --- |
| `TaskEngineProofs` | `IndInvHolds`, `TriesBounded`, `RunningAlwaysActive`, `DeliveredStaysFinal`, `NothingLostSilently`, `DeliveryPromised`, `NothingEverStranded` | `IndInv`, `RouteHistory`, `Outcomes`, `OpenIsUnsettled`, `AlwaysMoving` |
| `EventLoopProofs` | `ListsHold`, `Punctual`, `PoolAlwaysConsistent`, `LimitAlwaysHolds` | `ListsInv`, `TimeInv`, `PoolInv` |
| `GitConfigProofs` | `OnlyLoadedIsCommitted`, `DiskAlwaysConsistent` | `LoadedFrom`, `DiskInv` |
| `InputRingProofs` | `ThreadAlwaysFollows`, `RingIsQueue`, `EntriesAlwaysAccounted` | `IndInv`, `AccountInv`, `FoundInv` |
| `InputChunkProofs` | `ListsAlwaysConsistent`, `PluginAlwaysAgrees`, `MemAlwaysBounded`, `SizesAlwaysAccounted` | `FullInv` |
| `BacklogProofs` | `QueuesStayConsistent`, `RunningStaysMapped`, `NoFileLost` | `IndInv` |
| `LogProcessorsProofs` | `CursorStaysConsistent`, `EachVisitedOnce`, `NoDuplicateGoesOn`, `WindowsBounded` | `CursorInv`, `DedupInv`, `FixedInv`, `SlidingInv` |
| `FoldProofs` | `FoldKeeps` (a rule for loops, used by the three modules before it) | |

`TaskEngineProofs`. `UsersCount` is not inductive. That a return event decrements the
right task needs `NoStaleTask`; that the task is not destroyed while a flush is out
needs `UsersCount`; that a retry adds exactly one flush needs `OneFlight`, and that
needs `RequestsBacked`; that starting a new task's route adds a flush that did not
exist needs to know what the dispatch loop has not started yet. `IndInv` joins the
four with `TaskMapExact` (the map and the tasks point to each other, and exactly the
busy chunks have a task) and `DispatchExact` (the chunks the loop has yet to visit
are idle; the routes it has yet to start belong to live tasks and are neither in
flight nor scheduled; outside the loop there are none). There is one lemma for each
action, and lemmas for the shapes the actions share: a task that ends, a flush that
changes its stage, a flush that is added. Cardinality facts come from
`FiniteSetTheorems`. The theorems are `IndInvHolds`, `TypeCorrect`, `UsersCounted`,
`NoTaskStale`, `OneFlightAtATime` and `RequestsAlwaysBacked`, the last five for one part
of `IndInv` each; they make no assumption about `Faults`.

Its second half is about outcomes. A step changes one route in one of five ways
(`RouteStep`: created, flushed, retried, closed, or left alone), and every action is
shown once to be such a step. `RouteHistory` says that the attempts of a route
account for its flushes and that a delivered route is closed; `TriesBounded`,
`RunningAlwaysActive` and `DeliveredStaysFinal` follow from it and hold whatever call
fails. The fate of chunks needs a second view of the same steps (`ChunkStep`):
accepted, given a task, settled on a route, evicted from one, or left by the engine.
`Outcomes` (a route is delivered, counted, quarantined, or still owed by the chunk)
gives `NothingLostSilently`, `OpenIsUnsettled` (exactly the unsettled routes of a
chunk are open) gives `DeliveryPromised`, the refinement of `ChunkDelivery`, and
`AlwaysMoving` gives `NothingEverStranded`. Their hypotheses name the failing calls
after which the code does lose track (`NoSilentFault`, `DeliveryAssumption`,
`NoStrandingFault`); they are satisfied by the instances of `engine_safety` and
`engine_delivery` and allow more, for instance tasks that cannot be allocated. Copies to
the dead letter queue may fail, except where the scheduler may refuse a retry
(`NoSilentFault`): such a retry is counted nowhere and its copy is all that is left.
`NothingLostSilently` also assumes that at most one output has a disk limit. That
hypothesis came out of the proof: with two, a route that was only *marked* as dropped
by the eviction for one output is not counted when the eviction for the other deletes
the task; TLC confirms it on an instance with two limited outputs.

`EventLoopProofs`, about `Scheduler`. `ListsInv` (types, `QueueLive`, `OnePerRetry`,
`NeverEarly`) is inductive as it stands; the proof reduces the actions to four shapes:
timers dropped, dropped and one replaced, advanced, and emptied. `OnTime` needs more:
a waiting request must see a frame timer before it is due. `TimeInv` says so: the age
of a waiting request plus the seconds until the frame timer is handled do not exceed
its timeout, unless something was late. Its theorem `Punctual` has no side assumption:
`OnTime` itself speaks of the states in which nothing was late so far.

`EventLoopProofs`, about `Upstream`. `PoolConsistent` leaves open what a connection
looks like that was dropped under the coroutine that has it. `PoolInv` adds that its
socket is closed and that a coroutine whose name lookup ends finds the error the sweep
left. It is stated per connection, per coroutine and per pair, since an action touches
one connection and its coroutine, or sweeps over connections and touches no coroutine.

`GitConfigProofs`. Types need two facts of their own (a collection has its commit; no
collection runs in a process that is down). `CommittedRuns` follows from `LoadedFrom`:
what the plugin is about to commit is what the engine has loaded. `DiskInv` describes
the references between any two changes of the disk: which of them names the last good
configuration (`RefsInv`), which file operation comes next (`StepsInv`), and, where a
crash may fall inside a commit, that a start first repeats that commit (`TurnsInv`,
`LoadedInv`, `CommitsAgain`). The proof showed that `LastGoodKept` was too strong for
crashes inside a commit: without `Recovers` (after such a crash no call of the reload
or of the commit fails and no signal or poll comes in between) the next commit deletes
the file. The condition is now part of the property, and so is `Dependable`: with
references that are read, flushed and removed as asked the steps on the disk are the
plain ones (`DependableSteps`, `ReadingSteps`), and TLC has a counterexample for each of
the three faults alone. Writes that fail unnoticed are not excluded: `DiskInv` speaks of
the existence of files only. `TypesHold` and `OnlyLoadedIsCommitted` hold whatever
fails.

`InputRingProofs`. `RingInv` has the arithmetic of the ring for any `Capacity` and
`SlotBytes`: the places between the pointers, modulo the size, that are an integral
number of slots, and what the thread has written but not published. `DataInv` says
that each slot between the pointers holds the bytes of one entry, wherever it wraps;
`FollowInv` and `StopInv` relate the messages in the pipe to what the engine thinks
of the thread. `RingIsQueue` is the refinement of `RingQueue`,
step by step. `AccountInv` adds that entries are produced, stored and taken in
increasing order, which is why none is counted twice; `FoundInv`, that what a run of the
collector found is taken or still in the ring, gives `Emptied`.

`InputChunkProofs`. An append is one action that may run through four nested loops
and change every input, so the invariant `FullInv(s, X)` is stated of a state *record*
`s`, as the helpers are, and each helper is shown to keep it; `X` holds the chunk that
is being filled and may be empty for the moment. It has three layers. `BaseInv`:
types, a chunk is in the list of its input once, the hash table points into it, an
input is paused for the reason of its type only, a full chunk is locked. `MemInv`: the
chunks of an input without files are up, what it was last measured at bounds its
data, and at its limit it is paused (without that a paused input could be given more).
`CountInv`: the charges are the sums they should be, a chunk with data for a limited
output is counted, and a locked one was trimmed, so that flushing it again changes no
charge. Sums over chunks are handled by their changes (`TotalChange`,
`ChargedChange`): when one chunk changes, a sum changes by that chunk's part.
The hypotheses are those of the properties, so `CountInv` is stated under `Countable`
and the hash table is covered while files can be loaded; lists, pausing and charges
hold with failing loads, too.

`BacklogProofs`. The handlers work on the state as a record here too, so the invariant
is `StateInv(s, w, d, X)`: `X` holds the file that was just taken from one queue and
is still in others. `QueuesConsistent` alone is not inductive: that discarding a file
changes the sizes by the right amount needs the queues to name a file once
(`QueuesOK`), and that loading one charges each output once needs a chunk that is not
loaded to have no routes (`ChunkOK`). `InUseStaysUp` needs that only chunks with a
task have running routes. `NoFileLost` rests on `Accounted`: a route of a loaded chunk
that neither waits nor runs is delivered or dropped, and a restart, which forgets the
waiting ones, builds them again from the file. The size of the queues of an output is
the number of places in them (`References`), so that removing a file removes one
place from each queue that names it and the counter follows. The loops over files,
queues, rounds and loaded chunks are instances of `FoldKeeps`.

`LogProcessorsProofs`. `CursorInv` says where the cursor is: at the last decoded record
as long as there are records to decode (`CursorDecodes`), and otherwise at a record of
the list if units remove records in their first pass only, for which one has to know
that an `sql` unit that does not rewrite its records leaves nothing it would remove
(`SqlKept`). `ModifyVisited`, what a
unit that keeps all records has visited, gives `EachVisitedOnce`.

What leaves the chain is harder, since a record that a unit let pass may be dropped,
encoded into a new buffer and renumbered several times before it goes on. The proofs
therefore speak of the sequence `Behind(p)` of all records behind the unit at `p`:
those that went on, followed by those of the buffer that the unit is done with
(`Past`). A step that is not a visit of that unit only thins this sequence out and
keeps its order (`Narrows`), and only thins out the records that are still pending
(`Shifts`); a visit adds its record at the end, or adds nothing. With that each unit
has an invariant of its own.
Dedup: the store knows every record behind the unit whose time to live is not over
(`Covers`), so one that is let pass has no copy within it. Windows: `FixedInv` gives
each record behind the unit a slot from 1 to `max_logs_per_window`, different for
records of one window; `SlidingInv` gives each recent one a slot in the bucket of its
second, so that the sum over the buckets bounds their number. Both need the time
that was reached: what is pending is not earlier, except when the cursor was sent
back to the start of its list. Then the window is full and stays full, and the
records that are seen again are all dropped (`FixedFull`, `SlidingFull`): the defect
of section 7 loses records but never exceeds a limit.

`FoldProofs`. The installed provers cannot instantiate an induction theorem with an
operator. They can use one that is proved in a module whose CONSTANTS are the
operators, with the module instantiated for each loop. `FoldProofs` has the principle
of the least number, the existence of the function a fold recurses with, and
`FoldKeeps`: a fold over a list of any length keeps what each step keeps. The sums and
the five loops of `InputChunk` are instances.

Proving changed the modules. Some changes are of form only and leave what the models
allow as it was: `check_existing_config` (`GitConfig`) had a CASE with overlapping
guards and is now IF/ELSE in the order of the code; `InputChunk` selects from lists
with a fold (`Selected`), sums with `SumFunction` and takes instances in the order of
their numbers (`InOrder`) instead of sorting a set; `Backlog` takes the files in the
order of their numbers and counts places in queues; `Encoded` and `total_in_window` are
folds; the specification of `Upstream` has names of its own, as one module has its
proofs and those of `Scheduler`.

Others are properties that were wrong. `LastGoodKept` (`GitConfig`) and
`NothingLostSilently` have the conditions above. In `LogProcessors` three statements
held only because the run had three records or the wrong chains: a unit that decodes
records itself can also be left at a freed record, once it sees its list again and
removes one in the middle of it (the condition of `CursorValid` and `RunEnds` is now
`RemovesOnce`, and the setting `Again` has four records in one buffer); a fixed or
sliding window with a condition bounds the records it sees and not those that go on
(`Has`); and a chain with two dedup units would have shared one store, which
`IsSetting` excludes.

Only model-checked: liveness (`Drained`, `StopCompletes`, `EveryRequestEnds`,
`WaitsEnd`, `DroppedIsFreed`, `PausedIsResumed`, `EveryChunkLoaded`,
`EntriesCollected`, `ShutdownCompletes`, `RunEnds`, `SignalsServed`, `Converges`),
which TLAPS cannot prove under fairness.

## 7. Where the code and its words differ

One case is a run of its own, because data that no limit, failure or shutdown touches
is lost. `proc_restart`: destroying the last record of a list sets the cursor to NULL
(`flb_mp.c:1453`), the next call starts over from the first record, and dedup finds
the records it has just added and removes them as duplicates of themselves. A buffer
whose last record is a duplicate is lost altogether.

The others were met while modelling; the actions behave as the code does, and each is
excluded by the hypothesis of a property or is a behaviour no property forbids.

Engine and tasks:

- Eviction of a route from a chunk whose task waits for a retry clears the mask and
  counts the records as dropped, but leaves the retry (`flb_input_chunk.c:334`): the
  chunk is still sent.
- A task takes the routes a conditional router stored in its chunk without looking at
  the mask (`flb_task.c:641`), so an eviction before the task is counted and has no
  effect.
- A first flush that cannot be created leaves a task nobody will finish
  (`flb_engine_dispatch.c:214`). With grace -1 the shutdown waits for its chunk for
  ever (`flb_engine.c:1183`).
- The result of the copy to the dead letter queue is ignored (`flb_engine.c:275`). An
  error and a retry beyond the limit are counted as dropped all the same; a retry that
  cannot be scheduled (522-533) is not, so when its copy fails too nothing tells of the
  data (`NoSilentFault`).

Upstream (gauges, not modelled): a connection dropped while a coroutine has it is
dropped again on release and decrements the total twice (`flb_upstream.c:538`); one
that times out decrements the gauge of busy connections twice (1061 and 871).

Chunks and inputs:

- Room is made for what a chunk already has and not for what is added
  (`flb_input_chunk.c:602`), so an append goes over the output's limit.
- The next append of a conditional route gives a chunk back to an output it was
  evicted from without charging it (`flb_input_log.c:196`). `SizesAccounted` is
  checked and proved with `Direct` empty.
- A chunk left empty by a failed write was never charged, but its eviction gives the
  size back (`flb_input_chunk.c:339`); so does one that is left empty because it could
  not be brought up again after it was created (`Countable`).
- The entry of a chunk in the hash table is found by its tag, which is in the file: a
  chunk that is destroyed while its file cannot be loaded stays in the table
  (`flb_input_chunk.c:2182-2198`), and so does a corrupted one that is not to be deleted
  (2098). The next append of the tag then reads freed memory. `ListsExact` says nothing
  of the table where loads fail, and the model has no append that meets such an entry. A
  file that is damaged while the service runs is met by an append only.
- A memory ring buffer makes room for the data as it came in (2633) and writes what the
  filters made of it (2758-2773). Filters that make data larger let it grow without a
  bound (hypothesis of `MemBounded`); an input that pauses is bounded all the same.
- An input whose last chunk is evicted by another input is not looked at again and
  stays paused (`flb_input_chunk.c:409`; hypothesis of `PausedIsResumed`).
- The space left in a chunk beyond its maximum wraps around (line 2884), so the chunk
  stays in memory; the outputs over their limit are the bits of an int (line 743), so
  output 32 is taken for output 0.

Backlog:

- The segregation at shutdown puts down chunks a callback is reading (`sb.c:418`;
  hypothesis of `InUseStaysUp` and `QueuesValid`).
- A chunk with stored routes whose tag matches no output is put in no queue
  (`sb.c:315`; hypothesis of `EveryChunkLoaded`); one with traces counts no records
  and is deleted (`flb_input_chunk.c:1042`).
- The collector measures its own stream, which holds no chunk (`sb.c:529`), so the
  memory limit bounds each call and not their sum.
- A file that cannot be opened stays in front of the only queue left and the loop
  does not end (`sb.c:577`; phase `hung`).
- Making room for one output deletes a waiting file other outputs have not got, and
  counts it nowhere (`sb.c:495`; hypothesis of `NothingLost`).
- A file for which there is no memory when it is mapped (`flb_input_chunk.c:941-945`,
  962-971) is deleted as a damaged one, although nothing is wrong with it (`sb.c:618-629`,
  where a comment says "Failures are all associated with data corruption"). In the second
  of the two places the chunk is closed already, and closed again. Hypothesis of
  `NothingLost`.
- The guard on the users of a task (`flb_task.c:369`) has no effect for the chunks of
  the backlog, whose input has no `mem_buf_limit`; `FlushRetry` has it all the same.

Ring:

- The shutdown does not wait for a last run of the collector (`flb_engine.c:1182-1205`):
  what the thread writes after it is thrown away with the ring. An input that is paused
  at the stop is not resumed and its ring is thrown away, too (`flb_input_chunk.c:2402`,
  3045). Nobody counts these entries.
- The result of the append of an entry is ignored (`flb_input_chunk.c:3064-3067`): the
  engine has taken it and no chunk has it (`refused`).
- An entry written between the collector's last look and its reset of
  `flush_pending` fills the window without a request; the timer finds it
  (`EntriesCollected`).
- The pointer that publishes an entry is a plain store (`lwrb.c:164`); where stores
  are reordered the engine may read a place before its bytes are there.

Processors:

- A unit that goes over a list that is decoded already, that of the unit before it or
  its own a second time, and removes a record in the middle leaves the cursor on freed
  memory (`flb_mp.c:1453`; `RemovesOnce`).
- An sql query destroys the keys it does not select (`sql.c:611-641`). When the last
  record of a buffer is removed the list is seen again, the WHERE finds its key missing
  and is false (204-206): records that were kept are removed, and a chain of one sql unit
  can leave the cursor on freed memory (setting `Projecting`).
- What dedup promises is about the contents it has hashed: units after it may make
  different records equal.
- With both ignore lists configured nothing is ignored (`flb_record_dedup.c:111`;
  `DedupSees`).
- A record dropped at the end of a buffer sends the cursor back, and records kept
  before are put to the full window again (`log_sampling.c:295`).
- The first fixed window overlaps the second unless the service starts at a multiple
  of the window (line 235); a late record sets the time of a newer bucket back (110);
  a bucket exactly one window old is reused with its count (101).

Remote configuration (`git_config.c`):

- When a refused commit is reverted, the commit before it is staged while `old.ref`
  names it, and committing it deletes its file (528; `Linear`). After a crash inside a
  commit and a halted reload the current file is deleted as a staged leftover (464).
- A configuration that loads and cannot start ends the process, and each restart
  loads it again before it polls (923); one that is refused is preferred to `old`
  after each restart (1128).
- The collector is not paused during a reload, since its id is 0 (852): polls inside a
  reload may commit a configuration that was never loaded (849) or write the file
  that is being loaded (`Prompt`). A push between the poll and the fetch stores the
  later content under the earlier name (983).
- A reference that cannot be read counts as absent (101-108): `config_add` then makes no
  backup of the current one and removes it (450-482). The result of `fclose` is ignored:
  a full disk leaves an empty reference that is renamed into place (171), or a part of a
  file that is staged (427). A `new.ref` that cannot be removed after a commit (533-537)
  has the next `config_add` delete the current file (464). `Dependable` excludes the
  references from `LastGoodKept`; a part of a file is staged like any other.
- When the thread of a reload cannot be created, `conf_path_file` is released and still
  in the context (891); the next reload, or the end of the context, releases it again
  (846-848).
- A SIGHUP during a reload, or in the second after a halted one, is refused and
  forgotten (`fluent-bit.c:630`). No property forbids it; the next poll makes up for it
  if the branch is then at a commit that is not the current one.
- A SIGHUP before hot reload is enabled leaves `flb_bin_restarting` at
  `FLB_RELOAD_NOT_ENABLED` and no later signal is accepted (`fluent-bit.c:1257`;
  `Enabled` in `SignalsServed`, `~Operator` in `Converges`). After a halted reload a shutdown is reported as one by a reload
  (`flb_reload.c:538`).

## 8. What is not modelled, and the plan

Not modelled: plugins other than the ones above (an output is a callback that returns
anything after any delay), the router, filters and parsers (pure transformations of
configuration and data), LLM tagging (one synchronous call per record, no state),
the telemetryforge plugins (they report and read nothing back), metrics, conversion
of data, configuration and start-up, and the allocations inside an sql expression (a
record whose WHERE cannot be evaluated is kept). The greater part of the repository's two million
lines is bundled third-party code (sqlite, rocksdb, librdkafka, onigmo, simdutf and
others) and some hundred plugins that each speak one protocol; of the bundled code
only lwrb and the parts of chunkio that decide sizes are modelled, since the core's
properties depend on them. That is why the mapped lines are a small share of the
tree although the core they come from is covered.

Next, in this order:

1. `EventLoop`: priorities, the iteration limit and starvation.
2. `OutputThread`: stopping a worker with flushes under way.
