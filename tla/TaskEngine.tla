----------------------------- MODULE TaskEngine -----------------------------
(***************************************************************************)
(* The delivery core of the agent: the engine loop creates one task per    *)
(* buffered chunk, starts one flush per route of the task, collects the    *)
(* return events of the output plugins, keeps the retries and drops or     *)
(* deletes the chunk at the end (flb_engine.c, flb_engine_dispatch.c,      *)
(* flb_task.c, flb_output.c, flb_output.h, flb_output_thread.c and the     *)
(* eviction of flb_input_chunk.c).                                         *)
(*                                                                         *)
(* The engine thread runs one handler at a time: a handler that calls no   *)
(* other thread is one action, the dispatch loop is one action per         *)
(* iteration (phase /= "idle"), and the worker threads of threaded         *)
(* outputs interleave with both.  Outputs of this module do not set the    *)
(* SYNCHRONOUS or NO_MULTIPLEX flags and are not in test mode.             *)
(***************************************************************************)
EXTENDS Integers, FiniteSets

CONSTANTS
    Chunks,         \* input chunks that can ever be created
    Outputs,        \* output instances
    Threaded,       \* outputs that run in a pool of workers
    Limited,        \* outputs with a storage.total_limit_size
    Direct,         \* chunks store the routes of a conditional router
    RetryLimit,     \* [Outputs -> Int]: -1 is unlimited, 0 is no retry
    MaxTaskId,      \* the task map holds the ids 0..MaxTaskId
    KeepRejected,   \* storage.keep.rejected with a storage path
    Grace,          \* shutdown grace period in ticks of a second, -1: wait
    Faults,         \* the calls that may fail: see FaultKinds
    MaxAttempts,    \* BOUND on the attempts of an unlimited retry
    NULL,           \* a free entry of the task map
    FREED           \* an entry that still points to released memory

FaultKinds == {"content", "alloc", "route", "flush", "up", "sched", "dlq"}

ASSUME ConstantsAssumption ==
    /\ Threaded \subseteq Outputs
    /\ Limited \subseteq Outputs
    /\ Direct \in BOOLEAN
    /\ RetryLimit \in [Outputs -> Int]
    /\ \A o \in Outputs : RetryLimit[o] >= -1
    /\ MaxTaskId \in Nat
    /\ KeepRejected \in BOOLEAN
    /\ Grace \in Int /\ Grace >= -1
    /\ Faults \subseteq FaultKinds
    /\ MaxAttempts \in Nat
    /\ NULL \notin Chunks
    /\ FREED \notin Chunks
    /\ NULL /= FREED

TaskIds == 0..MaxTaskId
NoId    == -1
Routes  == Chunks \X Outputs

VARIABLES
    chunk,       \* "none", "idle", "busy" (has a task), "gone", "kept"
    mask,        \* routes_mask of the chunk
    routed,      \* the routes mask the router gave it (history)
    task_map,    \* config->task_map
    tid,         \* id of the chunk's task, NoId without one
    users,       \* task->users
    route,       \* status of the task's routes, "NONE" without the route
    attempts,    \* attempts of the task's retry to an output, 0 without one
    requests,    \* scheduler requests that point to the retry
    flushes,     \* flushes handed out and return events not handled yet
    tries,       \* flushes created for a route so far
    phase,       \* where the dispatch loop stands
    to_create,   \* chunks the dispatch loop has not visited
    to_start,    \* routes of NEW tasks that tasks_start has not visited
    stop_event,  \* the running dispatch belongs to a STOP event
    engine,      \* "running", "stopping", "exiting", "stopped"
    grace_count, \* config->grace_count
    processed,   \* output proc_records, in chunks, by route
    dropped,     \* output dropped_records, in chunks, by route
    dlq          \* routes whose chunk was copied to the dead letter queue

chunkVars  == <<chunk, mask, routed>>
taskVars   == <<task_map, tid, users, route>>
retryVars  == <<attempts, requests>>
flushVars  == <<flushes, tries>>
loopVars   == <<phase, to_create, to_start, stop_event>>
exitVars   == <<engine, grace_count>>
metricVars == <<processed, dropped, dlq>>
vars == <<chunkVars, taskVars, retryVars, flushVars, loopVars, exitVars,
          metricVars>>

Stages == {"queued", "running", "worker", "returned", "lost"}
Returns == {"OK", "ERROR", "RETRY"}
Flush == [chunk : Chunks, out : Outputs, n : Nat, stage : Stages,
          ret : Returns \cup {"NONE"}, task_id : TaskIds \cup {NoId}]

NoRetries == [o \in Outputs |-> 0]
NoRoutes  == [o \in Outputs |-> "NONE"]

Init ==
    /\ chunk = [c \in Chunks |-> "none"]
    /\ mask = [c \in Chunks |-> {}]
    /\ routed = [c \in Chunks |-> {}]
    /\ task_map = [i \in TaskIds |-> NULL]
    /\ tid = [c \in Chunks |-> NoId]
    /\ users = [c \in Chunks |-> 0]
    /\ route = [c \in Chunks |-> NoRoutes]
    /\ attempts = [c \in Chunks |-> NoRetries]
    /\ requests = [c \in Chunks |-> NoRetries]
    /\ flushes = {}
    /\ tries = [c \in Chunks |-> NoRetries]
    /\ phase = "idle"
    /\ to_create = {}
    /\ to_start = {}
    /\ stop_event = FALSE
    /\ engine = "running"
    /\ grace_count = 0
    /\ processed = [c \in Chunks |-> NoRetries]
    /\ dropped = [c \in Chunks |-> NoRetries]
    /\ dlq = {}

(***************************************************************************)
(* Helpers of the engine's handlers.                                       *)
(***************************************************************************)
\* The engine thread is between two handlers.
EngineIdle == phase = "idle" /\ engine \in {"running", "stopping"}

\* A call that may fail.
MayFail(kind) == kind \in Faults

\* map_get_task_id: the ids that can be handed out, and the lowest of them.
FreeIds == {i \in TaskIds : task_map[i] = NULL}
get_task_id(i) == i \in FreeIds /\ \A j \in FreeIds : i <= j

\* flb_sched_request_invalidate: only the first request that matches goes.
Invalidated(n) == IF n > 0 THEN n - 1 ELSE 0

\* The requests of a task's outputs after all its retries are destroyed:
\* each retry takes its own request with it.
RequestsAfterDestroy(c) ==
    [o \in Outputs |-> IF attempts[c][o] > 0 THEN Invalidated(requests[c][o])
                                             ELSE requests[c][o]]

\* flb_task_destroy: the id, the routes, the chunk (deleted) and the retries.
task_destroy(c) ==
    /\ task_map' = [task_map EXCEPT ![tid[c]] = NULL]
    /\ tid' = [tid EXCEPT ![c] = NoId]
    /\ route' = [route EXCEPT ![c] = NoRoutes]
    /\ chunk' = [chunk EXCEPT ![c] = "gone"]
    /\ mask' = [mask EXCEPT ![c] = {}]
    /\ UNCHANGED routed
    /\ attempts' = [attempts EXCEPT ![c] = NoRetries]
    /\ requests' = [requests EXCEPT ![c] = RequestsAfterDestroy(c)]

\* flb_task_retry_destroy of the retry to o, if there is one.
RetriesWithout(c, o) == [attempts[c] EXCEPT ![o] = 0]
RequestsWithout(c, o) ==
    IF attempts[c][o] > 0
    THEN [requests[c] EXCEPT ![o] = Invalidated(@)]
    ELSE requests[c]

retry_destroy(c, o) ==
    /\ attempts' = [attempts EXCEPT ![c] = RetriesWithout(c, o)]
    /\ requests' = [requests EXCEPT ![c] = RequestsWithout(c, o)]

\* flb_task_users_release on a task left with u users, after the retry to o
\* has been destroyed.
users_release_IgnoresRetries(c, o, u) ==
    IF u = 0
    THEN task_destroy(c)
    ELSE retry_destroy(c, o) /\ UNCHANGED <<chunkVars, task_map, tid, route>>
users_release_Never(c, o, u) ==
    retry_destroy(c, o) /\ UNCHANGED <<chunkVars, task_map, tid, route>>
users_release(c, o, u) ==
    IF u = 0 /\ RetriesWithout(c, o) = NoRetries
    THEN task_destroy(c)
    ELSE retry_destroy(c, o) /\ UNCHANGED <<chunkVars, task_map, tid, route>>

\* flb_output_task_flush when it succeeds: the task has one more user and a
\* flush waits in the pipe of the engine or of a worker.
NewFlush(c, o) == [chunk |-> c, out |-> o, n |-> tries[c][o] + 1,
                   stage |-> "queued", ret |-> "NONE", task_id |-> NoId]
task_flush(c, o) ==
    /\ users' = [users EXCEPT ![c] = @ + 1]
    /\ tries' = [tries EXCEPT ![c][o] = @ + 1]
    /\ flushes' = flushes \cup {NewFlush(c, o)}

\* flb_task_set_route_status: nothing happens without the route.
set_route_status(c, o, status) ==
    route' = IF route[c][o] = "NONE" THEN route
             ELSE [route EXCEPT ![c][o] = status]

\* handle_dlq_if_available: nobody looks at the result of the copy.
quarantine(c, o) ==
    \/ KeepRejected /\ dlq' = dlq \cup {<<c, o>>}
    \/ (KeepRejected => MayFail("dlq")) /\ dlq' = dlq

Count(metric, c, o) == [metric EXCEPT ![c][o] = @ + 1]

(***************************************************************************)
(* Ingestion: a chunk appears, and new data may evict older chunks.        *)
(***************************************************************************)
\* An input appends to a new chunk; the router has set the routes mask.
AppendChunk(c, routes) ==
    /\ EngineIdle /\ engine = "running"
    /\ chunk[c] = "none"
    /\ chunk' = [chunk EXCEPT ![c] = "idle"]
    /\ mask' = [mask EXCEPT ![c] = routes]
    /\ routed' = [routed EXCEPT ![c] = routes]
    /\ UNCHANGED <<taskVars, retryVars, flushVars, loopVars, exitVars,
                   metricVars>>

\* flb_input_chunk_drop_task_route: a route in the middle of a flush stays.
MayDropRoute_Always(c, o) == TRUE
MayDropRoute(c, o) == users[c] /= 0 => route[c][o] = "INACTIVE"

\* flb_input_chunk_release_space: data for chunk d does not fit under the
\* limit of output o, so the older chunk c of the same input loses its route.
\* The route of a task with users is only marked, and counted when its flush
\* returns an error.
ReleaseSpace(d, c, o) ==
    /\ EngineIdle /\ engine = "running"
    /\ o \in Limited
    /\ d /= c /\ chunk[d] = "idle" /\ o \in mask[d]
    /\ chunk[c] \in {"idle", "busy"} /\ o \in mask[c]
    /\ MayDropRoute(c, o)
    /\ dropped' = IF users[c] = 0 THEN Count(dropped, c, o) ELSE dropped
    /\ IF users[c] = 0 /\ mask[c] = {o}
       THEN IF tid[c] = NoId
            THEN /\ chunk' = [chunk EXCEPT ![c] = "gone"]
                 /\ mask' = [mask EXCEPT ![c] = {}]
                 /\ UNCHANGED <<routed, task_map, tid, route, retryVars>>
            ELSE task_destroy(c)
       ELSE /\ mask' = [mask EXCEPT ![c] = @ \ {o}]
            /\ IF users[c] = 0 THEN UNCHANGED route
                               ELSE set_route_status(c, o, "DROPPED")
            /\ UNCHANGED <<chunk, routed, task_map, tid, retryVars>>
    /\ UNCHANGED <<users, flushVars, loopVars, exitVars, processed, dlq>>

(***************************************************************************)
(* flb_engine_flush: the dispatch loop.                                    *)
(***************************************************************************)
\* The flush timer fires.
FlushTimer ==
    /\ EngineIdle
    /\ \E c \in Chunks : chunk[c] = "idle"
    /\ phase' = "create"
    /\ to_create' = {c \in Chunks : chunk[c] = "idle"}
    /\ UNCHANGED <<chunkVars, taskVars, retryVars, flushVars, to_start,
                   stop_event, exitVars, metricVars>>

\* No task id is left: the rest of the chunks wait for the next flush.
NoTaskAvailable ==
    /\ phase = "create" /\ to_create /= {} /\ FreeIds = {}
    /\ to_create' = {}
    /\ UNCHANGED <<chunkVars, taskVars, retryVars, flushVars, phase,
                   to_start, stop_event, exitVars, metricVars>>

\* The chunk has no content to flush, or it cannot be read.
SkipChunk(c) ==
    /\ phase = "create" /\ c \in to_create /\ FreeIds /= {}
    /\ MayFail("content")
    /\ to_create' = to_create \ {c}
    /\ UNCHANGED <<chunkVars, taskVars, retryVars, flushVars, phase,
                   to_start, stop_event, exitVars, metricVars>>

\* flb_task_create without memory: the task is freed, its id is not.
CreateTaskFails(c, i) ==
    /\ phase = "create" /\ c \in to_create /\ get_task_id(i)
    /\ MayFail("alloc")
    /\ task_map' = [task_map EXCEPT ![i] = FREED]
    /\ to_create' = to_create \ {c}
    /\ UNCHANGED <<chunkVars, tid, users, route, retryVars, flushVars, phase,
                   to_start, stop_event, exitVars, metricVars>>

\* The routes flb_task_create may end with: one per bit of the mask, or per
\* route stored with the chunk, whatever the mask says.  Without memory for a
\* route that one is missing, or all are when they come from the chunk.
TaskRoutes(c) ==
    LET wanted == IF Direct THEN routed[c] ELSE mask[c]
        without == IF Direct THEN {{}} ELSE SUBSET wanted
    IN  {wanted} \cup (IF MayFail("route") THEN without ELSE {})

\* flb_task_create: a chunk without routes loses its task at once and is
\* deleted.
CreateTask(c, i) ==
    /\ phase = "create" /\ c \in to_create /\ get_task_id(i)
    /\ to_create' = to_create \ {c}
    /\ \E r \in TaskRoutes(c) :
          IF r = {}
          THEN /\ chunk' = [chunk EXCEPT ![c] = "gone"]
               /\ UNCHANGED <<task_map, tid, route, to_start>>
          ELSE /\ chunk' = [chunk EXCEPT ![c] = "busy"]
               /\ task_map' = [task_map EXCEPT ![i] = c]
               /\ tid' = [tid EXCEPT ![c] = i]
               /\ route' = [route EXCEPT ![c] =
                     [o \in Outputs |-> IF o \in r THEN "INACTIVE" ELSE "NONE"]]
               /\ to_start' = to_start \cup ({c} \X r)
    /\ UNCHANGED <<mask, routed, users, retryVars, flushVars, phase,
                   stop_event, exitVars, metricVars>>

\* tasks_start begins: every NEW task becomes RUNNING.
TasksStart ==
    /\ phase = "create" /\ to_create = {}
    /\ phase' = "start"
    /\ UNCHANGED <<chunkVars, taskVars, retryVars, flushVars, to_create,
                   to_start, stop_event, exitVars, metricVars>>

\* The flush cannot be created or handed over: the user is taken back.
flush_fails(c) == MayFail("flush") /\ UNCHANGED <<users, flushVars>>

\* tasks_start flushes a route of a new task and ignores the outcome.
StartRoute(c, o) ==
    /\ phase = "start" /\ <<c, o>> \in to_start
    /\ to_start' = to_start \ {<<c, o>>}
    /\ task_flush(c, o) \/ flush_fails(c)
    /\ UNCHANGED <<chunkVars, task_map, tid, route, retryVars, phase,
                   to_create, stop_event, exitVars, metricVars>>

\* The dispatch ends and the engine returns to its event loop.
DispatchDone ==
    /\ phase = "start" /\ to_start = {} /\ ~stop_event
    /\ phase' = "idle"
    /\ UNCHANGED <<chunkVars, taskVars, retryVars, flushVars, to_create,
                   to_start, stop_event, exitVars, metricVars>>

(***************************************************************************)
(* A flush in its coroutine: the engine's thread runs the ones of outputs  *)
(* without workers, between two handlers; a worker runs the others.        *)
(***************************************************************************)
CanRun(o) == IF o \in Threaded THEN engine /= "stopped" ELSE EngineIdle

\* flb_output_return: the route is inactive again and the event with the
\* return value, the task id and the output id is on its way.
output_return(f, ret) ==
    /\ set_route_status(f.chunk, f.out, "INACTIVE")
    /\ flushes' = (flushes \ {f}) \cup
          {[f EXCEPT !.stage = IF f.out \in Threaded THEN "worker"
                                                     ELSE "returned",
                     !.ret = ret, !.task_id = tid[f.chunk]]}

\* output_pre_cb_flush: a dropped route returns an error, another one is
\* active from now on and its callback runs.
FlushStart(f) ==
    /\ f \in flushes /\ f.stage = "queued" /\ CanRun(f.out)
    /\ IF route[f.chunk][f.out] = "DROPPED"
       THEN output_return(f, "ERROR")
       ELSE /\ set_route_status(f.chunk, f.out, "ACTIVE")
            /\ flushes' = (flushes \ {f}) \cup {[f EXCEPT !.stage = "running"]}
    /\ UNCHANGED <<chunkVars, task_map, tid, users, retryVars, tries,
                   loopVars, exitVars, metricVars>>

\* output_pre_cb_flush: nothing is left to deliver after the processors.
FlushEmpty(f) ==
    /\ f \in flushes /\ f.stage = "queued" /\ CanRun(f.out)
    /\ output_return(f, "OK")
    /\ UNCHANGED <<chunkVars, task_map, tid, users, retryVars, tries,
                   loopVars, exitVars, metricVars>>

\* output_thread: flb_output_flush_create fails in the worker, which goes on
\* to its next event.  The user the engine counted stays.
WorkerCreateFails(f) ==
    /\ f \in flushes /\ f.stage = "queued" /\ f.out \in Threaded
    /\ CanRun(f.out) /\ MayFail("flush")
    /\ flushes' = (flushes \ {f}) \cup {[f EXCEPT !.stage = "lost"]}
    /\ UNCHANGED <<chunkVars, taskVars, retryVars, tries, loopVars, exitVars,
                   metricVars>>

\* The plugin's callback ends with FLB_OUTPUT_RETURN.
FlushReturn(f, ret) ==
    /\ f \in flushes /\ f.stage = "running" /\ CanRun(f.out)
    /\ ret = "RETRY" /\ RetryLimit[f.out] = -1
          => attempts[f.chunk][f.out] < MaxAttempts
    /\ output_return(f, ret)
    /\ UNCHANGED <<chunkVars, task_map, tid, users, retryVars, tries,
                   loopVars, exitVars, metricVars>>

\* handle_output_event of the worker: the event goes on to the engine.
WorkerForward(f) ==
    /\ f \in flushes /\ f.stage = "worker" /\ CanRun(f.out)
    /\ flushes' = (flushes \ {f}) \cup {[f EXCEPT !.stage = "returned"]}
    /\ UNCHANGED <<chunkVars, taskVars, retryVars, tries, loopVars, exitVars,
                   metricVars>>

(***************************************************************************)
(* handle_output_event of the engine.                                      *)
(***************************************************************************)
\* The task of an event is the one its id maps to now.
EventOf(f, c) ==
    /\ EngineIdle
    /\ f \in flushes /\ f.stage = "returned"
    /\ c = task_map[f.task_id]
    /\ flushes' = flushes \ {f}

\* flb_task_retry_clean and flb_task_users_dec with the release check.
FinishRoute(c, o) ==
    /\ users' = [users EXCEPT ![c] = @ - 1]
    /\ users_release(c, o, users[c] - 1)

HandleOk(f, c) ==
    /\ EventOf(f, c) /\ f.ret = "OK"
    /\ processed' = Count(processed, c, f.out)
    /\ FinishRoute(c, f.out)
    /\ UNCHANGED <<tries, loopVars, exitVars, dropped, dlq>>

HandleError(f, c) ==
    /\ EventOf(f, c) /\ f.ret = "ERROR"
    /\ quarantine(c, f.out)
    /\ dropped' = Count(dropped, c, f.out)
    /\ FinishRoute(c, f.out)
    /\ UNCHANGED <<tries, loopVars, exitVars, processed>>

\* flb_task_retry_create returns NULL (and so does a limit of no retries).
RetryExhausted_OffByOne(c, o) ==
    /\ RetryLimit[o] >= 0
    /\ attempts[c][o] > RetryLimit[o]
RetryExhausted(c, o) ==
    /\ RetryLimit[o] >= 0
    /\ attempts[c][o] >= RetryLimit[o]

HandleRetryRefused(f, c) ==
    /\ EventOf(f, c) /\ f.ret = "RETRY"
    /\ RetryExhausted(c, f.out)
    /\ quarantine(c, f.out)
    /\ dropped' = Count(dropped, c, f.out)
    /\ FinishRoute(c, f.out)
    /\ UNCHANGED <<tries, loopVars, exitVars, processed>>

\* The retry context counts one more attempt and the scheduler takes it.
HandleRetry_NotScheduled(f, c) ==
    /\ EventOf(f, c) /\ f.ret = "RETRY"
    /\ ~RetryExhausted(c, f.out)
    /\ attempts' = [attempts EXCEPT ![c][f.out] = @ + 1]
    /\ users' = [users EXCEPT ![c] = @ - 1]
    /\ UNCHANGED <<chunkVars, task_map, tid, route, requests, tries, loopVars,
                   exitVars, metricVars>>
HandleRetry(f, c) ==
    /\ EventOf(f, c) /\ f.ret = "RETRY"
    /\ ~RetryExhausted(c, f.out)
    /\ attempts' = [attempts EXCEPT ![c][f.out] = @ + 1]
    /\ users' = [users EXCEPT ![c] = @ - 1]
    /\ requests' = [requests EXCEPT ![c][f.out] = @ + 1]
    /\ UNCHANGED <<chunkVars, task_map, tid, route, tries, loopVars, exitVars,
                   metricVars>>

\* flb_sched_request_create fails: the retry goes, and maybe the task.
HandleRetryUnscheduled(f, c) ==
    /\ EventOf(f, c) /\ f.ret = "RETRY"
    /\ ~RetryExhausted(c, f.out)
    /\ MayFail("sched")
    /\ quarantine(c, f.out)
    /\ FinishRoute(c, f.out)
    /\ UNCHANGED <<tries, loopVars, exitVars, processed, dropped>>

HandleOutputEvent(f, c) ==
    \/ HandleOk(f, c)
    \/ HandleError(f, c)
    \/ HandleRetryRefused(f, c)
    \/ HandleRetry(f, c)
    \/ HandleRetryUnscheduled(f, c)

(***************************************************************************)
(* flb_sched_event_handler with flb_engine_dispatch_retry.                 *)
(***************************************************************************)
RetryFires(c, o) == EngineIdle /\ requests[c][o] > 0 /\ tid[c] /= NoId

\* The retry is flushed and its request is done with.
RetryFlush(c, o) ==
    /\ RetryFires(c, o)
    /\ task_flush(c, o)
    /\ requests' = [requests EXCEPT ![c][o] = @ - 1]
    /\ UNCHANGED <<chunkVars, task_map, tid, route, attempts, loopVars,
                   exitVars, metricVars>>

\* The chunk cannot be brought up: a new request replaces the one that fired
\* (no visible change), or the retry, and maybe the task, is destroyed.
RescheduledRequests_BothStay(c, o) == [requests EXCEPT ![c][o] = @ + 1]
RescheduledRequests(c, o) == [requests EXCEPT ![c][o] = (@ + 1) - 1]

reschedule_fails(c, o) == MayFail("sched") /\ users_release(c, o, users[c])

RetryReschedule(c, o) ==
    /\ RetryFires(c, o)
    /\ MayFail("up")
    /\ \/ /\ requests' = RescheduledRequests(c, o)
          /\ UNCHANGED <<chunkVars, task_map, tid, route, attempts>>
       \/ reschedule_fails(c, o)
    /\ UNCHANGED <<users, flushVars, loopVars, exitVars, metricVars>>

\* The content cannot be read, or the flush cannot be created: the retry is
\* destroyed and the task is left as it is.
RetryDestroyed(c, o) ==
    /\ RetryFires(c, o)
    /\ MayFail("content") \/ (MayFail("flush") /\ o \notin Threaded)
    /\ retry_destroy(c, o)
    /\ UNCHANGED <<chunkVars, taskVars, flushVars, loopVars, exitVars,
                   metricVars>>

\* The task cannot be handed to a worker, which flb_output_task_flush does
\* not report: the request is done with and the retry stays.
RetryNotQueued(c, o) ==
    /\ RetryFires(c, o)
    /\ MayFail("flush") /\ o \in Threaded
    /\ requests' = [requests EXCEPT ![c][o] = @ - 1]
    /\ UNCHANGED <<chunkVars, taskVars, attempts, flushVars, loopVars,
                   exitVars, metricVars>>

DispatchRetry(c, o) ==
    \/ RetryFlush(c, o)
    \/ RetryReschedule(c, o)
    \/ RetryDestroyed(c, o)
    \/ RetryNotQueued(c, o)

(***************************************************************************)
(* Shutdown.                                                               *)
(***************************************************************************)
\* flb_engine_manager reads STOP: the data is flushed first.
StopEvent ==
    /\ EngineIdle
    /\ stop_event' = TRUE
    /\ phase' = "create"
    /\ to_create' = {c \in Chunks : chunk[c] = "idle"}
    /\ UNCHANGED <<chunkVars, taskVars, retryVars, flushVars, to_start,
                   exitVars, metricVars>>

\* flb_engine_reschedule_retries: the retries of tasks without users, each
\* with its request replaced by an immediate one (unless that fails).
Rescheduled_OldGoneOnly(failed) ==
    [c \in Chunks |-> [o \in Outputs |->
        IF tid[c] /= NoId /\ users[c] = 0 /\ attempts[c][o] > 0
        THEN Invalidated(requests[c][o])
        ELSE requests[c][o]]]
Rescheduled_BusyToo(failed) ==
    [c \in Chunks |-> [o \in Outputs |->
        IF tid[c] /= NoId /\ attempts[c][o] > 0
        THEN Invalidated(requests[c][o]) + 1
        ELSE requests[c][o]]]
Rescheduled(failed) ==
    [c \in Chunks |-> [o \in Outputs |->
        IF tid[c] /= NoId /\ users[c] = 0 /\ attempts[c][o] > 0
        THEN Invalidated(requests[c][o]) + (IF <<c, o>> \in failed THEN 0 ELSE 1)
        ELSE requests[c][o]]]

\* The rest of the STOP handler: retries are brought forward once, the
\* ingestion stops and the shutdown timer runs.
StopIngestion ==
    /\ phase = "start" /\ to_start = {} /\ stop_event
    /\ phase' = "idle"
    /\ stop_event' = FALSE
    /\ engine' = "stopping"
    /\ IF grace_count = 0
       THEN \E failed \in (IF MayFail("sched") THEN SUBSET Routes ELSE {{}}) :
               requests' = Rescheduled(failed)
       ELSE UNCHANGED requests
    /\ UNCHANGED <<chunkVars, taskVars, attempts, flushVars, to_create,
                   to_start, grace_count, metricVars>>

\* What the shutdown timer waits for: running tasks and stored chunks.
RunningTasks == {c \in Chunks : tid[c] /= NoId
                                /\ (users[c] > 0 \/ attempts[c] /= NoRetries)}
StoredChunks == {c \in Chunks : chunk[c] \in {"idle", "busy"}}
MustWait_Forever ==
    \/ RunningTasks \cup StoredChunks /= {} /\ grace_count + 1 < Grace
    \/ Grace = -1
MustWait == /\ RunningTasks \cup StoredChunks /= {}
            /\ grace_count + 1 < Grace \/ Grace = -1

\* grace_count is compared with Grace, 0 and 1 only; without a grace period
\* it is cut at 2.
Tick_Never(n) == n
Tick(n) == IF Grace = -1 /\ n = 2 THEN n ELSE n + 1

\* The shutdown timer: flush again what is left, or leave.
ShutdownTick ==
    /\ EngineIdle /\ engine = "stopping"
    /\ grace_count' = Tick(grace_count)
    /\ IF MustWait
       THEN /\ phase' = "create"
            /\ to_create' = {c \in Chunks : chunk[c] = "idle"}
            /\ UNCHANGED engine
       ELSE /\ engine' = "exiting"
            /\ UNCHANGED <<phase, to_create>>
    /\ UNCHANGED <<chunkVars, taskVars, retryVars, flushVars, to_start,
                   stop_event, metricVars>>

\* flb_output_exit joins the workers, which first run what was queued to
\* them; flb_input_exit_all then destroys the tasks and keeps the chunks.
\* Flushes of the engine's own coroutines and unread events are abandoned.
EngineExit ==
    /\ engine = "exiting"
    /\ \A f \in flushes :
          f.out \in Threaded => f.stage \notin {"queued", "running"}
    /\ engine' = "stopped"
    /\ chunk' = [c \in Chunks |-> IF chunk[c] \in {"idle", "busy"} THEN "kept"
                                                                   ELSE chunk[c]]
    /\ task_map' = [i \in TaskIds |-> IF task_map[i] \in Chunks THEN NULL
                                                                ELSE task_map[i]]
    /\ tid' = [c \in Chunks |-> NoId]
    /\ users' = [c \in Chunks |-> 0]
    /\ route' = [c \in Chunks |-> NoRoutes]
    /\ mask' = [c \in Chunks |-> {}]
    /\ attempts' = [c \in Chunks |-> NoRetries]
    /\ requests' = [c \in Chunks |-> RequestsAfterDestroy(c)]
    /\ flushes' = {}
    /\ UNCHANGED <<routed, tries, loopVars, grace_count, metricVars>>

\* The process has left flb_engine_start.
Stopped == engine = "stopped" /\ UNCHANGED vars

-----------------------------------------------------------------------------
DispatchStep ==
    \/ NoTaskAvailable
    \/ \E c \in Chunks : SkipChunk(c)
    \/ \E c \in Chunks, i \in TaskIds : CreateTaskFails(c, i) \/ CreateTask(c, i)
    \/ TasksStart
    \/ \E c \in Chunks, o \in Outputs : StartRoute(c, o)
    \/ DispatchDone
    \/ StopIngestion

FlushStep ==
    \E f \in flushes :
        \/ FlushStart(f)
        \/ FlushEmpty(f)
        \/ WorkerCreateFails(f)
        \/ \E ret \in Returns : FlushReturn(f, ret)
        \/ WorkerForward(f)

EventStep == \E f \in flushes, c \in Chunks : HandleOutputEvent(f, c)

RetryStep == \E c \in Chunks, o \in Outputs : DispatchRetry(c, o)

Next ==
    \/ \E c \in Chunks, r \in SUBSET Outputs : AppendChunk(c, r)
    \/ \E d, c \in Chunks, o \in Outputs : ReleaseSpace(d, c, o)
    \/ FlushTimer
    \/ DispatchStep
    \/ FlushStep
    \/ EventStep
    \/ RetryStep
    \/ StopEvent
    \/ ShutdownTick
    \/ EngineExit
    \/ Stopped

Spec == Init /\ [][Next]_vars

(***************************************************************************)
(* Fairness.  The event loop is level triggered: an event that is ready    *)
(* stays ready while other handlers run, so its handler is strongly fair.  *)
(* A callback returns in the end (its I/O has timeouts), a timer expires.  *)
(***************************************************************************)
FlushOf(c, o) ==
    \E f \in flushes :
        /\ f.chunk = c /\ f.out = o
        /\ \/ FlushStart(f)
           \/ \E ret \in Returns : FlushReturn(f, ret)
           \/ WorkerForward(f)
           \/ HandleOutputEvent(f, c)

Fairness ==
    /\ WF_vars(DispatchStep)
    /\ SF_vars(FlushTimer)
    /\ \A c \in Chunks, o \in Outputs :
          SF_vars(FlushOf(c, o)) /\ SF_vars(DispatchRetry(c, o))
    /\ SF_vars(ShutdownTick)
    /\ WF_vars(EngineExit)

FairSpec == Spec /\ Fairness

-----------------------------------------------------------------------------
(***************************************************************************)
(* Properties.                                                             *)
(***************************************************************************)
PerRoute(S) == [Chunks -> [Outputs -> S]]

\* Every variable has the type of the structure it models.
TypeOK ==
    /\ chunk \in [Chunks -> {"none", "idle", "busy", "gone", "kept"}]
    /\ mask \in [Chunks -> SUBSET Outputs]
    /\ routed \in [Chunks -> SUBSET Outputs]
    /\ task_map \in [TaskIds -> Chunks \cup {NULL, FREED}]
    /\ tid \in [Chunks -> TaskIds \cup {NoId}]
    /\ users \in [Chunks -> Nat]
    /\ route \in PerRoute({"NONE", "INACTIVE", "ACTIVE", "DROPPED"})
    /\ attempts \in PerRoute(Nat)
    /\ requests \in PerRoute(Nat)
    /\ flushes \in SUBSET Flush
    /\ tries \in PerRoute(Nat)
    /\ phase \in {"idle", "create", "start"}
    /\ to_create \in SUBSET Chunks
    /\ to_start \in SUBSET Routes
    /\ stop_event \in BOOLEAN
    /\ engine \in {"running", "stopping", "exiting", "stopped"}
    /\ grace_count \in Nat
    /\ processed \in PerRoute(Nat)
    /\ dropped \in PerRoute(Nat)
    /\ dlq \in SUBSET Routes

FlushesOf(c) == {f \in flushes : f.chunk = c}
Settled(c, o) == processed[c][o] > 0 \/ dropped[c][o] > 0 \/ <<c, o>> \in dlq
InFlight(c, o) == \E f \in flushes : f.chunk = c /\ f.out = o

\* The counter flb_task_users_dec tests before it destroys a task is exactly
\* the number of flushes that still hold the task, whatever fails and
\* however the workers interleave.
UsersCount == \A c \in Chunks : users[c] = Cardinality(FlushesOf(c))

\* No flush outlives its task: as long as a worker, a coroutine or an event
\* in a pipe refers to a task, the task map still maps the task's id to it,
\* so handle_output_event never resolves an event to another chunk's task.
NoStaleTask ==
    \A f \in flushes :
        /\ tid[f.chunk] \in TaskIds
        /\ task_map[tid[f.chunk]] = f.chunk
        /\ f.stage \in {"worker", "returned"} => f.task_id = tid[f.chunk]

\* A chunk is never delivered twice at the same time to the same output: one
\* flush at most, and none while a retry is with the scheduler.
OneFlight ==
    /\ \A f, g \in flushes : f.chunk = g.chunk /\ f.out = g.out => f = g
    /\ \A c \in Chunks, o \in Outputs :
          requests[c][o] > 0 => ~InFlight(c, o)

\* The scheduler holds at most one request per retry and never one whose
\* retry has been freed (flb_sched_event_handler would dispatch it).
RequestsBacked ==
    \A c \in Chunks, o \in Outputs :
        /\ requests[c][o] <= 1
        /\ requests[c][o] = 1 => attempts[c][o] > 0 /\ tid[c] /= NoId

\* An output with a retry limit of N sees a chunk N + 1 times at most.
TriesWithinLimit ==
    \A c \in Chunks, o \in Outputs :
        RetryLimit[o] >= 0 => tries[c][o] <= RetryLimit[o] + 1

\* The callback of an output runs only on an active route: eviction has not
\* taken the chunk from under it (flb_input_chunk_drop_task_route).
RunningIsActive ==
    \A f \in flushes :
        f.stage = "running" => route[f.chunk][f.out] = "ACTIVE"

\* Between two handlers every retry is either with the scheduler or in a
\* flush, and every task has a flush or a retry: nothing is stranded that
\* no event will ever finish.
NothingStranded ==
    EngineIdle =>
        \A c \in Chunks : tid[c] /= NoId =>
            /\ \A o \in Outputs : attempts[c][o] > 0 =>
                  requests[c][o] > 0 \/ InFlight(c, o)
            /\ users[c] > 0 \/ attempts[c] /= NoRetries

\* A chunk is deleted only when each of its routes was delivered, counted as
\* dropped or copied to the dead letter queue.
NoSilentLoss ==
    \A c \in Chunks : chunk[c] = "gone" =>
        \A o \in routed[c] : Settled(c, o)

\* What was delivered is never sent again to the same output, and is counted
\* once.
DeliveredIsFinal ==
    [][\A c \in Chunks, o \in Outputs : processed[c][o] > 0 =>
          /\ tries'[c][o] = tries[c][o]
          /\ processed'[c][o] = processed[c][o]]_vars

(***************************************************************************)
(* The inductive invariant of the reference counting: what UsersCount,     *)
(* NoStaleTask, OneFlight and RequestsBacked need of each other and of the *)
(* dispatch loop.                                                          *)
(***************************************************************************)
TaskMapExact ==
    /\ \A c \in Chunks : tid[c] /= NoId => task_map[tid[c]] = c
    /\ \A i \in TaskIds : task_map[i] \in Chunks => tid[task_map[i]] = i
    /\ \A c \in Chunks : tid[c] /= NoId <=> chunk[c] = "busy"
    /\ \A c \in Chunks, o \in Outputs : attempts[c][o] > 0 => tid[c] /= NoId

DispatchExact ==
    /\ phase /= "create" => to_create = {}
    /\ phase = "idle" => to_start = {}
    /\ phase /= "idle" => engine \in {"running", "stopping"}
    /\ \A c \in to_create : chunk[c] = "idle"
    /\ \A c \in Chunks, o \in Outputs : <<c, o>> \in to_start =>
          tid[c] /= NoId /\ requests[c][o] = 0 /\ ~InFlight(c, o)

\* Task ids, users, flushes and scheduler requests agree whatever call fails:
\* the map and the tasks point to each other, the dispatch loop only starts
\* routes nobody has started, and the four properties above hold.
IndInv ==
    /\ TypeOK
    /\ IsFiniteSet(flushes)
    /\ TaskMapExact
    /\ DispatchExact
    /\ UsersCount
    /\ NoStaleTask
    /\ OneFlight
    /\ RequestsBacked

(***************************************************************************)
(* The delivery promise: ChunkDelivery, with the routes that are neither   *)
(* delivered, dropped nor quarantined as the pending ones.                 *)
(***************************************************************************)
Abstract == INSTANCE ChunkDelivery WITH
    store <- [c \in Chunks |-> CASE chunk[c] = "none" -> "absent"
                                 [] chunk[c] = "gone" -> "deleted"
                                 [] chunk[c] = "kept" -> "kept"
                                 [] OTHER -> "stored"],
    pending <- [c \in Chunks |-> {o \in routed[c] : ~Settled(c, o)}]

\* The engine implements ChunkDelivery: with retries, failing schedulers,
\* exhausted task ids and workers that return in any order, a chunk is
\* deleted by exactly the event that settles its last route. A retry the
\* scheduler refuses is settled by its copy in the dead letter queue alone,
\* so that copy must not fail too: handle_dlq_if_available ignores its result.
DeliveryPromise == Abstract!Spec

\* Every chunk that got a task is deleted in the end, or kept at shutdown.
Drained == \A c \in Chunks : chunk[c] = "busy" ~> chunk[c] \in {"gone", "kept"}

\* A service that was asked to stop stops.
StopCompletes == engine = "stopping" ~> engine = "stopped"
=============================================================================
