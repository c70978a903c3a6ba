------------------------------ MODULE Scheduler ------------------------------
(***************************************************************************)
(* The scheduler of retry requests (flb_scheduler.c) as the engine's event *)
(* loop drives it: a request waits in requests_wait until its time falls   *)
(* into the next frame, is promoted to requests with a timeout of the      *)
(* operating system, and is dispatched by flb_sched_event_handler.  Timers *)
(* are invalidated while events may still be queued and are freed after    *)
(* the round of the event loop.                                            *)
(*                                                                         *)
(* A timer and the request linked to it are one entry.  Times are relative *)
(* to the present: the age of a request (now - created) and the seconds    *)
(* left to an expiry, so that no clock has to be bounded.  The wall clock  *)
(* does not step back.                                                     *)
(***************************************************************************)
EXTENDS Integers, FiniteSets

CONSTANTS
    Retries,   \* retry contexts the engine schedules
    Timers,    \* BOUND: timers that exist at the same time
    Frame,     \* FLB_SCHED_REQUEST_FRAME, in seconds
    Waits,     \* seconds flb_sched_request_create may choose
    Faults,    \* calls that may fail: "timeout" (timerfd), "request" (memory)
    NONE       \* no retry

ASSUME SchedulerAssumption ==
    /\ Frame \in Nat \ {0}
    /\ Waits \subseteq Nat \ {0}
    /\ Faults \subseteq {"timeout", "request"}
    /\ NONE \notin Retries

VARIABLES
    timer,       \* the timers, each with the request linked to it
    frame_left,  \* seconds until the frame timer expires
    frame_ready, \* the frame timer has expired and is not handled yet
    late,        \* history: something due was not handled within the second,
                 \* or a timeout could not be armed
    queue,       \* timers with an event in the priority queue of the loop
    shutting_down

frameVars == <<frame_left, frame_ready, late>>
vars == <<timer, frameVars, queue, shutting_down>>

\* Unused memory, requests_wait, requests, a timer whose request could not be
\* allocated, and timers_drop.
Places == {"free", "wait", "requests", "orphan", "drop"}

\* age is time(NULL) - request->created, cut beyond the timeout; left is the
\* time until the armed timeout expires.
Timer == [place : Places, data : Retries \cup {NONE}, timeout : Nat,
          age : Nat, left : Nat]

\* A timer without a request.
Bare(place) == [place |-> place, data |-> NONE, timeout |-> 0,
                age |-> 0, left |-> 0]

Init ==
    /\ timer = [t \in Timers |-> Bare("free")]
    /\ frame_left = Frame
    /\ frame_ready = FALSE /\ late = FALSE
    /\ queue = {}
    /\ shutting_down = FALSE

Place(t) == timer[t].place
Live(t) == Place(t) \in {"wait", "requests"}
RequestOf(r) == {t \in Timers : Live(t) /\ timer[t].data = r}

(***************************************************************************)
(* Time and the event loop.                                                *)
(***************************************************************************)
Expired(t) == Place(t) = "requests" /\ timer[t].left = 0

\* A request a second later.
Older(q) == [q EXCEPT !.age  = IF q.age > q.timeout THEN @ ELSE @ + 1,
                      !.left = IF @ = 0 THEN 0 ELSE @ - 1]

\* A second passes.  The frame timer is periodic, whenever it is handled.
Tick ==
    /\ late' = (late \/ frame_ready \/ \E t \in Timers : Expired(t))
    /\ timer' = [t \in Timers |-> IF Live(t) THEN Older(timer[t]) ELSE timer[t]]
    /\ frame_left' = IF frame_left = 1 THEN Frame ELSE frame_left - 1
    /\ frame_ready' = (frame_ready \/ frame_left = 1)
    /\ UNCHANGED <<queue, shutting_down>>

\* flb_event_load_bucket_queue: an expired timer is loaded once.
LoadEvent(t) ==
    /\ Expired(t) /\ t \notin queue
    /\ queue' = queue \cup {t}
    /\ UNCHANGED <<timer, frameVars, shutting_down>>

\* flb_event_priority_live_foreach: the event popped when max_iter is reached
\* is not handled; the loop finds it again in the next round.
PopUnhandled(t) ==
    /\ t \in queue
    /\ queue' = queue \ {t}
    /\ UNCHANGED <<timer, frameVars, shutting_down>>

\* flb_sched_timer_cleanup after the round: events may be left in the queue.
Cleanup ==
    /\ \E t \in Timers : Place(t) = "drop"
    /\ timer' = [t \in Timers |-> IF Place(t) = "drop" THEN Bare("free")
                                                       ELSE timer[t]]
    /\ UNCHANGED <<frameVars, queue, shutting_down>>

(***************************************************************************)
(* Requests.                                                               *)
(***************************************************************************)
\* A new request: the timeout is armed within the frame only
\* (schedule_request_now and schedule_request_wait).
NewRequest(r, seconds) ==
    IF seconds > Frame
    THEN [Bare("wait") EXCEPT !.data = r, !.timeout = seconds]
    ELSE [Bare("requests") EXCEPT !.data = r, !.timeout = seconds,
                                  !.left = seconds]

\* The seconds flb_sched_request_create chooses: one at shutdown, the backoff
\* otherwise.
Seconds == IF shutting_down THEN {1} ELSE Waits

\* flb_sched_request_destroy of the requests of T: the timers are invalidated,
\* and mk_event_timeout_destroy takes their events out of the queue.
TimersWithout(T) == [t \in Timers |-> IF t \in T THEN Bare("drop") ELSE timer[t]]
QueueWithout(T) == queue \ T

\* flb_sched_request_create.  When the timeout cannot be created, timer and
\* request are freed and nothing has changed.
RequestCreate(t, r, seconds) ==
    /\ RequestOf(r) = {}
    /\ seconds \in Seconds
    /\ Place(t) = "free"
    /\ timer' = [timer EXCEPT ![t] = NewRequest(r, seconds)]
    /\ UNCHANGED <<frameVars, queue, shutting_down>>

\* The request cannot be allocated: the timer stays in the list of timers.
RequestCreateFails(t) ==
    /\ "request" \in Faults
    /\ Place(t) = "free"
    /\ timer' = [timer EXCEPT ![t] = Bare("orphan")]
    /\ UNCHANGED <<frameVars, queue, shutting_down>>

\* flb_sched_request_invalidate by flb_task_retry_destroy: the request of the
\* retry goes, in whichever list it is.
Invalidate(r) ==
    /\ RequestOf(r) /= {}
    /\ timer' = TimersWithout(RequestOf(r))
    /\ queue' = QueueWithout(RequestOf(r))
    /\ UNCHANGED <<frameVars, shutting_down>>

\* flb_engine_reschedule_retries, which the STOP handler runs for the retries
\* of tasks without users: the request there may be is invalidated, and
\* flb_sched_retry_now arms a new one unless that fails.
RetryNow(t, r) ==
    /\ Place(t) = "free"
    /\ timer' = [TimersWithout(RequestOf(r)) EXCEPT ![t] = NewRequest(r, 0)]
    /\ queue' = QueueWithout(RequestOf(r))
    /\ UNCHANGED <<frameVars, shutting_down>>

RetryNowFails(r) == Faults /= {} /\ Invalidate(r)

\* The engine stops the ingestion.
Shutdown ==
    /\ ~shutting_down
    /\ shutting_down' = TRUE
    /\ UNCHANGED <<timer, frameVars, queue>>

(***************************************************************************)
(* flb_sched_event_handler.                                                *)
(***************************************************************************)
\* The event of a request timer is popped and dispatched; the request is
\* destroyed afterwards, or with its retry by flb_engine_dispatch_retry.  The
\* handler returns early on a timer that is not active.
Fire(t) ==
    /\ t \in queue
    /\ queue' = queue \ {t}
    /\ timer' = IF Place(t) = "requests" THEN TimersWithout({t}) ELSE timer
    /\ UNCHANGED <<frameVars, shutting_down>>

\* The chunk of the retry cannot be brought up: flb_task_retry_reschedule
\* creates the next request before the one that fired is destroyed.
FireReschedule_KeepsOld(t, u, seconds) ==
    /\ t \in queue /\ Place(t) = "requests"
    /\ Place(u) = "free" /\ seconds \in Seconds
    /\ timer' = [timer EXCEPT ![u] = NewRequest(timer[t].data, seconds)]
    /\ queue' = queue \ {t}
    /\ UNCHANGED <<frameVars, shutting_down>>
FireReschedule(t, u, seconds) ==
    /\ t \in queue /\ Place(t) = "requests"
    /\ Place(u) = "free" /\ seconds \in Seconds
    /\ timer' = [TimersWithout({t}) EXCEPT
                    ![u] = NewRequest(timer[t].data, seconds)]
    /\ queue' = queue \ {t}
    /\ UNCHANGED <<frameVars, shutting_down>>

\* schedule_request_promote: when a waiting request is armed, and with what.
MayPromote_InFrameOnly(q) == q.place = "wait" /\ q.age + Frame = q.timeout
MayPromote_AfterTimeout(q) == q.place = "wait" /\ q.age >= q.timeout
MayPromote(q) == q.place = "wait" /\ q.age + Frame >= q.timeout
PromotedLeft(q) == IF q.age > q.timeout THEN 1 ELSE q.timeout - q.age

\* The frame timer: requests whose timeout cannot be armed stay in the list.
FrameTimer ==
    /\ frame_ready
    /\ frame_ready' = FALSE
    /\ \E failed \in (IF "timeout" \in Faults THEN SUBSET Timers ELSE {{}}) :
          /\ timer' = [t \in Timers |->
                IF MayPromote(timer[t]) /\ t \notin failed
                THEN [timer[t] EXCEPT !.place = "requests",
                                      !.left = PromotedLeft(timer[t])]
                ELSE timer[t]]
          /\ late' = (late \/ failed /= {})
    /\ UNCHANGED <<frame_left, queue, shutting_down>>

-----------------------------------------------------------------------------
Next ==
    \/ Tick
    \/ \E t \in Timers : LoadEvent(t) \/ PopUnhandled(t) \/ Fire(t)
    \/ \E t, u \in Timers, s \in Waits \cup {1} : FireReschedule(t, u, s)
    \/ \E t \in Timers, r \in Retries, s \in Waits \cup {1} :
          RequestCreate(t, r, s)
    \/ \E t \in Timers : RequestCreateFails(t)
    \/ \E r \in Retries : Invalidate(r) \/ RetryNowFails(r)
    \/ \E t \in Timers, r \in Retries : RetryNow(t, r)
    \/ Shutdown
    \/ FrameTimer
    \/ Cleanup

Spec == Init /\ [][Next]_vars

(***************************************************************************)
(* Fairness: time passes, and the event loop gets to every event that      *)
(* stays ready, even when a round now and then ends before it.  Timeouts   *)
(* may fail again and again, but not for ever.                             *)
(***************************************************************************)
Dispatch(t) ==
    Fire(t) \/ \E u \in Timers, s \in Waits \cup {1} : FireReschedule(t, u, s)

FrameTimerArms ==
    FrameTimer /\ \A t \in Timers : MayPromote(timer[t]) => timer'[t] /= timer[t]

Fairness ==
    /\ WF_vars(Tick)
    /\ SF_vars(FrameTimerArms)
    /\ \A t \in Timers : WF_vars(LoadEvent(t)) /\ SF_vars(Dispatch(t))

FairSpec == Spec /\ Fairness

-----------------------------------------------------------------------------
(***************************************************************************)
(* Properties.                                                             *)
(***************************************************************************)
\* Every timer and request has the type of its structure and belongs to a
\* retry; no timeout is armed with a negative time.
TypeOK ==
    /\ timer \in [Timers -> Timer]
    /\ \A t \in Timers : Live(t) => timer[t].data /= NONE
    /\ frame_left \in 1..Frame
    /\ frame_ready \in BOOLEAN /\ late \in BOOLEAN
    /\ queue \in SUBSET Timers
    /\ shutting_down \in BOOLEAN

\* An event that waits in the priority queue, over as many rounds as
\* FLB_ENGINE_LOOP_MAX_ITER makes it wait, belongs to a timer that is in use
\* and due: flb_sched_event_handler never reads an invalidated, freed or
\* reused timer.
QueueLive == \A t \in queue : Expired(t)

\* A retry never has two requests, so it is never dispatched twice, although
\* flb_task_retry_reschedule creates the new one before the old one goes.
OnePerRetry == \A r \in Retries : \A t, u \in RequestOf(r) : t = u

\* Backoff is respected: whatever path a request takes through the lists, and
\* however late the frame timer is handled, its timeout does not expire
\* before the seconds flb_sched_request_create chose have passed.
NeverEarly ==
    \A t \in Timers : Place(t) = "requests" =>
        timer[t].age + timer[t].left >= timer[t].timeout

\* The lists of flb_scheduler.c are consistent whatever fails, is invalidated
\* or handled late: the four properties above.
ListsInv == TypeOK /\ QueueLive /\ OnePerRetry /\ NeverEarly

\* As long as the event loop is prompt, a request is promoted in time and
\* expires in exactly the second it was scheduled for.
OnTime ==
    late \/ \A t \in Timers :
        /\ Place(t) = "wait" => timer[t].age <= timer[t].timeout
        /\ Place(t) = "requests" =>
              timer[t].age + timer[t].left = timer[t].timeout

\* No request waits for ever: it is promoted, dispatched or invalidated.
EveryRequestEnds ==
    \A t \in Timers : /\ Place(t) = "wait" ~> Place(t) /= "wait"
                      /\ Place(t) = "requests" ~> Place(t) /= "requests"
=============================================================================
