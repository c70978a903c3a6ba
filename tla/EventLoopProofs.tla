-------------------------- MODULE EventLoopProofs --------------------------
(***************************************************************************)
(* Proofs about two parts that the engine's event loop drives: the         *)
(* scheduler, whose timers it handles, and the connections of an upstream, *)
(* whose events and timeouts it handles.                                   *)
(***************************************************************************)
EXTENDS Scheduler, Upstream, FiniteSetTheorems, TLAPS

(***************************************************************************)
(* The lists of the scheduler are consistent and its timeouts are right    *)
(* for every frame, every backoff and every number of retries and timers.  *)
(***************************************************************************)
\* What a new request looks like.
LEMMA NewRequestShape ==
  ASSUME NEW r \in Retries, NEW s \in Nat
  PROVE  /\ NewRequest(r, s) \in Timer
         /\ NewRequest(r, s).place \in {"wait", "requests"}
         /\ NewRequest(r, s).data = r
         /\ NewRequest(r, s).age = 0
         /\ NewRequest(r, s).timeout = s
         /\ NewRequest(r, s).place = "requests" => NewRequest(r, s).left = s
         /\ NewRequest(r, s).place = "wait" => s > Frame
BY SchedulerAssumption DEF NewRequest, Bare, Timer, Places

\* What a timer without a request looks like.
LEMMA BareShape ==
  ASSUME NEW p \in Places
  PROVE  Bare(p) \in Timer /\ Bare(p).place = p /\ Bare(p).data = NONE
BY DEF Bare, Timer

\* A second changes neither the list nor the retry of a request, and takes
\* nothing from the time it has to wait in all.
LEMMA OlderShape ==
  ASSUME NEW q \in Timer
  PROVE  /\ Older(q) \in Timer
         /\ Older(q).place = q.place /\ Older(q).data = q.data
         /\ Older(q).timeout = q.timeout
         /\ q.left = 0 => Older(q).left = 0
         /\ q.age + q.left >= q.timeout
               => Older(q).age + Older(q).left >= q.timeout
         /\ q.age <= q.timeout => Older(q).age = q.age + 1
         /\ q.left > 0 => Older(q).left = q.left - 1
<1>1. q.age \in Nat /\ q.left \in Nat /\ q.timeout \in Nat
  BY DEF Timer
<1>2. /\ Older(q).age = IF q.age > q.timeout THEN q.age ELSE q.age + 1
      /\ Older(q).left = IF q.left = 0 THEN 0 ELSE q.left - 1
      /\ Older(q).place = q.place /\ Older(q).data = q.data
      /\ Older(q).timeout = q.timeout
  BY DEF Older, Timer
<1>3. Older(q) \in Timer
  <2> DEFINE a == IF q.age > q.timeout THEN q.age ELSE q.age + 1
             l == IF q.left = 0 THEN 0 ELSE q.left - 1
  <2>1. a \in Nat
    BY <1>1
  <2>2. l \in Nat
    BY <1>1
  <2>3. Older(q) = [q EXCEPT !.age = a, !.left = l]
    BY DEF Older
  <2> HIDE DEF a, l
  <2> QED BY <2>1, <2>2, <2>3 DEF Timer
<1>4. q.age + q.left >= q.timeout => Older(q).age + Older(q).left >= q.timeout
  <2>1. CASE q.age > q.timeout
    BY <1>1, <1>2, <2>1
  <2>2. CASE ~(q.age > q.timeout)
    BY <1>1, <1>2, <2>2
  <2> QED BY <2>1, <2>2
<1>5. q.age <= q.timeout => Older(q).age = q.age + 1
  BY <1>1, <1>2
<1>6. q.left > 0 => Older(q).left = q.left - 1
  BY <1>1, <1>2
<1>7. q.left = 0 => Older(q).left = 0
  BY <1>2
<1> QED BY <1>2, <1>3, <1>4, <1>5, <1>6, <1>7

\* A promoted request is in the list of armed requests and not early.
LEMMA PromotedShape ==
  ASSUME NEW q \in Timer, MayPromote(q), NEW p,
         p = [q EXCEPT !.place = "requests", !.left = PromotedLeft(q)]
  PROVE  /\ p \in Timer /\ p.place = "requests" /\ p.data = q.data
         /\ p.timeout = q.timeout /\ p.age = q.age
         /\ p.age + p.left >= p.timeout
         /\ q.age <= q.timeout => p.age + p.left = p.timeout
<1>1. q.age \in Nat /\ q.left \in Nat /\ q.timeout \in Nat
  BY DEF Timer
<1>2. PromotedLeft(q) \in Nat /\ q.age + PromotedLeft(q) >= q.timeout
  BY <1>1 DEF PromotedLeft
<1>3. q.age <= q.timeout => q.age + PromotedLeft(q) = q.timeout
  BY <1>1 DEF PromotedLeft
<1>4. /\ p.place = "requests" /\ p.data = q.data /\ p.timeout = q.timeout
      /\ p.age = q.age /\ p.left = PromotedLeft(q)
  BY DEF Timer
<1>5. p \in Timer
  BY <1>2 DEF Timer, Places
<1> QED BY <1>2, <1>3, <1>4, <1>5

\* The initial lists are empty.
LEMMA InitLists == Init => ListsInv
<1> SUFFICES ASSUME Init PROVE ListsInv
  OBVIOUS
<1>1. Bare("free") \in Timer /\ Bare("free").place = "free"
  BY BareShape DEF Places
<1>2. \A t \in Timers : Place(t) = "free"
  BY <1>1 DEF Init, Place
<1>3. TypeOK
  <2>1. timer \in [Timers -> Timer]
    BY <1>1 DEF Init
  <2>2. \A t \in Timers : ~Live(t)
    BY <1>2 DEF Live
  <2>3. frame_left \in 1..Frame
    BY SchedulerAssumption DEF Init
  <2> QED BY <2>1, <2>2, <2>3 DEF Init, TypeOK
<1>4. QueueLive
  BY DEF Init, QueueLive
<1>5. OnePerRetry
  BY <1>2 DEF OnePerRetry, RequestOf, Live
<1>6. NeverEarly
  BY <1>2 DEF NeverEarly
<1> QED BY <1>3, <1>4, <1>5, <1>6 DEF ListsInv

\* Dropping the timers of T, one of which may be replaced by a new request.
LEMMA TimersReplaced ==
  ASSUME ListsInv, NEW T \in SUBSET Timers, NEW t \in Timers, t \notin T,
         NEW r \in Retries, NEW s \in Nat, Place(t) = "free",
         timer' = [TimersWithout(T) EXCEPT ![t] = NewRequest(r, s)],
         RequestOf(r) \subseteq T, queue' = queue \ T,
         UNCHANGED <<frameVars, shutting_down>>
  PROVE  ListsInv'
<1> DEFINE q == NewRequest(r, s)
<1>1. /\ q \in Timer /\ q.place \in {"wait", "requests"} /\ q.data = r
      /\ q.age = 0 /\ q.timeout = s /\ (q.place = "requests" => q.left = s)
  BY NewRequestShape
<1>2. Bare("drop") \in Timer /\ Bare("drop").place = "drop"
  BY BareShape DEF Places
<1> HIDE DEF q
<1>3. \A u \in Timers : timer'[u] = IF u = t THEN q
                                    ELSE IF u \in T THEN Bare("drop")
                                    ELSE timer[u]
  BY DEF TimersWithout, q
<1>4. timer' \in [Timers -> Timer]
  BY <1>1, <1>2 DEF TimersWithout, ListsInv, TypeOK, q
<1>5. TypeOK'
  <2>1. \A u \in Timers : Live(u)' => timer'[u].data /= NONE
    BY <1>1, <1>2, <1>3, SchedulerAssumption DEF ListsInv, TypeOK, Live, Place
  <2> QED BY <1>4, <2>1 DEF ListsInv, TypeOK, frameVars
<1>6. QueueLive'
  BY <1>3 DEF ListsInv, TypeOK, QueueLive, Expired, Place
<1>7. OnePerRetry'
  <2> SUFFICES ASSUME NEW x \in Retries, NEW u \in RequestOf(x)', NEW v \in RequestOf(x)'
               PROVE  u = v
    BY DEF OnePerRetry
  <2>1. ASSUME NEW w \in RequestOf(x)', w /= t
        PROVE  w \in RequestOf(x) /\ w \notin T /\ x /= r
    BY <1>2, <1>3, <2>1 DEF RequestOf, Live, Place
  <2>2. t \in RequestOf(x)' => x = r
    BY <1>1, <1>3 DEF RequestOf, Live, Place
  <2> QED BY <2>1, <2>2 DEF ListsInv, OnePerRetry
<1>8. NeverEarly'
  <2> SUFFICES ASSUME NEW u \in Timers, timer'[u].place = "requests"
               PROVE  timer'[u].age + timer'[u].left >= timer'[u].timeout
    BY DEF NeverEarly, Place
  <2>1. CASE u = t
    BY <1>1, <1>3, <2>1
  <2>2. CASE u /= t
    <3>1. timer'[u] = timer[u]
      BY <1>2, <1>3, <2>2
    <3> QED BY <3>1 DEF ListsInv, NeverEarly, Place
  <2> QED BY <2>1, <2>2
<1> QED BY <1>5, <1>6, <1>7, <1>8 DEF ListsInv

\* Dropping the timers of T.
LEMMA TimersDropped ==
  ASSUME ListsInv, NEW T \in SUBSET Timers, timer' = TimersWithout(T),
         queue' = queue \ T, UNCHANGED <<frameVars, shutting_down>>
  PROVE  ListsInv'
<1>2. Bare("drop") \in Timer /\ Bare("drop").place = "drop"
  BY BareShape DEF Places
<1>3. \A u \in Timers : timer'[u] = IF u \in T THEN Bare("drop") ELSE timer[u]
  BY DEF TimersWithout
<1>4. timer' \in [Timers -> Timer]
  BY <1>2 DEF TimersWithout, ListsInv, TypeOK
<1>5. TypeOK'
  <2>1. \A u \in Timers : Live(u)' => timer'[u].data /= NONE
    BY <1>2, <1>3 DEF ListsInv, TypeOK, Live, Place
  <2> QED BY <1>4, <2>1 DEF ListsInv, TypeOK, frameVars
<1>6. QueueLive'
  BY <1>3 DEF ListsInv, TypeOK, QueueLive, Expired, Place
<1>7. OnePerRetry'
  BY <1>2, <1>3 DEF ListsInv, OnePerRetry, RequestOf, Live, Place
<1>8. NeverEarly'
  BY <1>2, <1>3 DEF ListsInv, NeverEarly, Place
<1> QED BY <1>5, <1>6, <1>7, <1>8 DEF ListsInv

\* Timers that keep their list and their retry, or go from wait to requests.
LEMMA TimersAdvance ==
  ASSUME ListsInv, timer' \in [Timers -> Timer],
         \A t \in Timers :
            /\ timer'[t].data = timer[t].data
            /\ timer'[t].place \in {"wait", "requests"}
                  <=> timer[t].place \in {"wait", "requests"}
            /\ timer[t].place = "requests" /\ timer[t].left = 0
                  => timer'[t].place = "requests" /\ timer'[t].left = 0
            /\ timer'[t].place = "requests"
                  => timer'[t].age + timer'[t].left >= timer'[t].timeout,
         frame_left' \in 1..Frame, frame_ready' \in BOOLEAN, late' \in BOOLEAN,
         UNCHANGED <<queue, shutting_down>>
  PROVE  ListsInv'
<1>1. TypeOK'
  BY DEF ListsInv, TypeOK, Live, Place
<1>2. QueueLive'
  BY DEF ListsInv, TypeOK, QueueLive, Expired, Place
<1>3. OnePerRetry'
  BY DEF ListsInv, OnePerRetry, RequestOf, Live, Place
<1>4. NeverEarly'
  BY DEF NeverEarly, Place
<1> QED BY <1>1, <1>2, <1>3, <1>4 DEF ListsInv

\* A second passes.
LEMMA TickLists == ListsInv /\ Tick => ListsInv'
<1> SUFFICES ASSUME ListsInv, Tick PROVE ListsInv'
  OBVIOUS
<1>1. timer \in [Timers -> Timer]
  BY DEF ListsInv, TypeOK
<1>2. \A t \in Timers : timer'[t] = IF Live(t) THEN Older(timer[t]) ELSE timer[t]
  BY DEF Tick
<1>3. timer' \in [Timers -> Timer]
  BY <1>1, OlderShape DEF Tick
<1>4. ASSUME NEW t \in Timers
      PROVE  /\ timer'[t].data = timer[t].data
             /\ timer'[t].place = timer[t].place
             /\ timer[t].left = 0 => timer'[t].left = 0
             /\ timer'[t].place = "requests"
                   => timer'[t].age + timer'[t].left >= timer'[t].timeout
  <2>1. CASE Live(t)
    <3>1. timer'[t] = Older(timer[t]) /\ timer[t] \in Timer
      BY <1>1, <1>2, <2>1
    <3>2. Place(t) = "requests" =>
             timer[t].age + timer[t].left >= timer[t].timeout
      BY DEF ListsInv, NeverEarly
    <3> QED BY <3>1, <3>2, OlderShape DEF Place
  <2>2. CASE ~Live(t)
    BY <1>2, <2>2 DEF Live, Place
  <2> QED BY <2>1, <2>2
<1>5. frame_left' \in 1..Frame
  BY SchedulerAssumption DEF Tick, ListsInv, TypeOK
<1>6. frame_ready' \in BOOLEAN /\ late' \in BOOLEAN
  BY DEF Tick
<1>7. UNCHANGED <<queue, shutting_down>>
  BY DEF Tick
<1> QED BY <1>3, <1>4, <1>5, <1>6, <1>7, TimersAdvance

\* The frame timer promotes requests.
LEMMA FrameTimerLists == ListsInv /\ FrameTimer => ListsInv'
<1> SUFFICES ASSUME ListsInv, FrameTimer PROVE ListsInv'
  OBVIOUS
<1> DEFINE P(q) == [q EXCEPT !.place = "requests", !.left = PromotedLeft(q)]
<1>1. timer \in [Timers -> Timer]
  BY DEF ListsInv, TypeOK
<1>2. PICK failed : timer' = [t \in Timers |->
                       IF MayPromote(timer[t]) /\ t \notin failed
                       THEN P(timer[t]) ELSE timer[t]]
  BY DEF FrameTimer
<1>3. ASSUME NEW q \in Timer, MayPromote(q)
      PROVE  /\ P(q) \in Timer /\ P(q).place = "requests"
             /\ P(q).data = q.data /\ P(q).timeout = q.timeout
             /\ P(q).age + P(q).left >= P(q).timeout
  BY <1>3, PromotedShape
<1> HIDE DEF P
<1>4. timer' \in [Timers -> Timer]
  BY <1>1, <1>2, <1>3
<1>5. ASSUME NEW t \in Timers
      PROVE  /\ timer'[t].data = timer[t].data
             /\ timer'[t].place \in {"wait", "requests"}
                   <=> timer[t].place \in {"wait", "requests"}
             /\ timer[t].place = "requests" => timer'[t] = timer[t]
             /\ timer'[t].place = "requests"
                   => timer'[t].age + timer'[t].left >= timer'[t].timeout
  <2>1. CASE MayPromote(timer[t]) /\ t \notin failed
    <3>1. timer'[t] = P(timer[t]) /\ timer[t] \in Timer
      BY <1>1, <1>2, <2>1
    <3>2. timer[t].place = "wait"
      BY <2>1 DEF MayPromote
    <3> QED BY <1>3, <2>1, <3>1, <3>2
  <2>2. CASE ~(MayPromote(timer[t]) /\ t \notin failed)
    <3>1. timer'[t] = timer[t]
      BY <1>2, <2>2
    <3> QED BY <3>1 DEF ListsInv, NeverEarly, Place
  <2> QED BY <2>1, <2>2
<1>6. frame_left' \in 1..Frame /\ UNCHANGED <<queue, shutting_down>>
  BY DEF FrameTimer, ListsInv, TypeOK
<1>7. frame_ready' \in BOOLEAN /\ late' \in BOOLEAN
  BY DEF FrameTimer
<1> QED BY <1>4, <1>5, <1>6, <1>7, TimersAdvance

\* Steps of the event loop that touch no timer.
LEMMA QueueLists ==
  ASSUME ListsInv, NEW t \in Timers, LoadEvent(t) \/ PopUnhandled(t)
  PROVE  ListsInv'
<1>1. timer' = timer /\ queue' \subseteq queue \cup {t}
      /\ (queue' \subseteq queue \/ Expired(t))
  BY DEF LoadEvent, PopUnhandled
<1>2. frame_left' = frame_left /\ frame_ready' = frame_ready
      /\ late' = late /\ shutting_down' \in BOOLEAN
  BY DEF LoadEvent, PopUnhandled, frameVars, ListsInv, TypeOK
<1>3. TypeOK'
  BY <1>1, <1>2 DEF ListsInv, TypeOK, Live, Place
<1>4. QueueLive'
  BY <1>1 DEF ListsInv, QueueLive, Expired, Place
<1>5. OnePerRetry' /\ NeverEarly'
  BY <1>1 DEF ListsInv, OnePerRetry, NeverEarly, RequestOf, Live, Place
<1> QED BY <1>3, <1>4, <1>5 DEF ListsInv

\* Timers leave or enter the unused memory without a request.
LEMMA BareLists ==
  ASSUME ListsInv, NEW S \in SUBSET Timers, NEW p \in Places \ {"wait", "requests"},
         \A t \in S : ~Live(t),
         timer' = [t \in Timers |-> IF t \in S THEN Bare(p) ELSE timer[t]],
         UNCHANGED <<frameVars, queue, shutting_down>>
  PROVE  ListsInv'
<1>1. Bare(p) \in Timer /\ Bare(p).place = p
  BY BareShape
<1>2. \A t \in Timers : timer'[t] = IF t \in S THEN Bare(p) ELSE timer[t]
  OBVIOUS
<1>3. timer' \in [Timers -> Timer]
  BY <1>1 DEF ListsInv, TypeOK
<1>4. \A t \in Timers : timer'[t].place \in {"wait", "requests"}
                           => timer'[t] = timer[t]
  BY <1>1, <1>2
<1>5. \A t \in Timers : timer[t].place \in {"wait", "requests"}
                           => timer'[t] = timer[t]
  BY <1>2 DEF Live, Place
<1>6. TypeOK'
  BY <1>3, <1>4 DEF ListsInv, TypeOK, frameVars, Live, Place
<1>7. QueueLive'
  BY <1>5 DEF ListsInv, TypeOK, QueueLive, Expired, Place
<1>8. OnePerRetry'
  BY <1>4 DEF ListsInv, OnePerRetry, RequestOf, Live, Place
<1>9. NeverEarly'
  BY <1>4 DEF ListsInv, NeverEarly, Place
<1> QED BY <1>6, <1>7, <1>8, <1>9 DEF ListsInv

\* Every step of the scheduler keeps its lists consistent.
LEMMA NextLists == ListsInv /\ [Next]_vars => ListsInv'
<1> SUFFICES ASSUME ListsInv, [Next]_vars PROVE ListsInv'
  OBVIOUS
<1>1. timer \in [Timers -> Timer] /\ queue \in SUBSET Timers
  BY DEF ListsInv, TypeOK
<1>2. Seconds \subseteq Nat /\ 0 \in Nat
  BY SchedulerAssumption DEF Seconds
<1>3. \A r \in Retries : /\ RequestOf(r) \in SUBSET Timers
                          /\ \A t \in RequestOf(r) : Place(t) /= "free"
  BY DEF RequestOf, Live
<1>4. CASE Tick
  BY <1>4, TickLists
<1>5. CASE FrameTimer
  BY <1>5, FrameTimerLists
<1>6. ASSUME NEW t \in Timers, LoadEvent(t) \/ PopUnhandled(t) PROVE ListsInv'
  BY <1>6, QueueLists
<1>7. CASE Shutdown
  <2>1. timer' = timer /\ queue' = queue /\ UNCHANGED frameVars
        /\ shutting_down' \in BOOLEAN
    BY <1>7 DEF Shutdown
  <2>2. TypeOK'
    BY <2>1 DEF ListsInv, TypeOK, frameVars, Live, Place
  <2>3. QueueLive' /\ OnePerRetry' /\ NeverEarly'
    BY <2>1 DEF ListsInv, QueueLive, OnePerRetry, NeverEarly, RequestOf,
                Expired, Live, Place
  <2> QED BY <2>2, <2>3 DEF ListsInv
<1>8. CASE Cleanup
  <2> DEFINE S == {t \in Timers : Place(t) = "drop"}
  <2>1. timer' = [t \in Timers |-> IF t \in S THEN Bare("free") ELSE timer[t]]
    BY <1>8 DEF Cleanup
  <2>2. \A t \in S : ~Live(t)
    BY DEF Live
  <2>3. S \in SUBSET Timers
    OBVIOUS
  <2>4. "free" \in Places \ {"wait", "requests"}
    BY DEF Places
  <2>5. UNCHANGED <<frameVars, queue, shutting_down>>
    BY <1>8 DEF Cleanup
  <2> HIDE DEF S
  <2> QED BY <2>1, <2>2, <2>3, <2>4, <2>5, BareLists
<1>9. ASSUME NEW t \in Timers, RequestCreateFails(t) PROVE ListsInv'
  <2>1. timer' = [u \in Timers |-> IF u \in {t} THEN Bare("orphan") ELSE timer[u]]
    BY <1>1, <1>9 DEF RequestCreateFails
  <2>2. \A u \in {t} : ~Live(u)
    BY <1>9 DEF RequestCreateFails, Live
  <2>3. "orphan" \in Places \ {"wait", "requests"}
    BY DEF Places
  <2>4. UNCHANGED <<frameVars, queue, shutting_down>>
    BY <1>9 DEF RequestCreateFails
  <2> QED BY <2>1, <2>2, <2>3, <2>4, BareLists
<1>10. ASSUME NEW r \in Retries, Invalidate(r) \/ RetryNowFails(r)
       PROVE  ListsInv'
  <2>1. /\ timer' = TimersWithout(RequestOf(r))
        /\ queue' = queue \ RequestOf(r)
        /\ UNCHANGED <<frameVars, shutting_down>>
    BY <1>10 DEF Invalidate, RetryNowFails, QueueWithout
  <2> QED BY <1>3, <2>1, TimersDropped
<1>11. ASSUME NEW t \in Timers, Fire(t) PROVE ListsInv'
  <2>1. Place(t) = "requests"
    BY <1>11 DEF Fire, ListsInv, QueueLive, Expired
  <2>2. /\ timer' = TimersWithout({t}) /\ queue' = queue \ {t}
        /\ UNCHANGED <<frameVars, shutting_down>>
    BY <1>11, <2>1 DEF Fire
  <2> QED BY <2>2, TimersDropped
<1>12. ASSUME NEW t \in Timers, NEW r \in Retries, NEW s, RequestCreate(t, r, s)
       PROVE  ListsInv'
  <2>1. TimersWithout({}) = timer
    BY <1>1 DEF TimersWithout
  <2>2. /\ timer' = [TimersWithout({}) EXCEPT ![t] = NewRequest(r, s)]
        /\ RequestOf(r) \subseteq {} /\ queue' = queue \ {}
        /\ Place(t) = "free" /\ UNCHANGED <<frameVars, shutting_down>>
    BY <1>12, <2>1 DEF RequestCreate
  <2>3. s \in Nat
    BY <1>2, <1>12 DEF RequestCreate
  <2>4. {} \in SUBSET Timers /\ t \notin {}
    OBVIOUS
  <2> QED BY <2>2, <2>3, <2>4, TimersReplaced
<1>13. ASSUME NEW t \in Timers, NEW r \in Retries, RetryNow(t, r)
       PROVE  ListsInv'
  <2>1. /\ timer' = [TimersWithout(RequestOf(r)) EXCEPT ![t] = NewRequest(r, 0)]
        /\ queue' = queue \ RequestOf(r) /\ Place(t) = "free"
        /\ UNCHANGED <<frameVars, shutting_down>>
    BY <1>13 DEF RetryNow, QueueWithout
  <2>2. t \notin RequestOf(r)
    BY <1>3, <2>1
  <2> QED BY <1>2, <1>3, <2>1, <2>2, TimersReplaced
<1>14. ASSUME NEW t \in Timers, NEW u \in Timers, NEW s, FireReschedule(t, u, s)
       PROVE  ListsInv'
  <2> DEFINE r == timer[t].data
  <2>1. Place(t) = "requests" /\ Place(u) = "free" /\ s \in Nat
    BY <1>2, <1>14 DEF FireReschedule
  <2>2. r \in Retries /\ t \in RequestOf(r)
    BY <1>1, <2>1 DEF ListsInv, TypeOK, Live, Timer, RequestOf
  <2>3. RequestOf(r) \subseteq {t}
    BY <2>2 DEF ListsInv, OnePerRetry
  <2>4. u \notin {t}
    BY <2>1
  <2>5. /\ timer' = [TimersWithout({t}) EXCEPT ![u] = NewRequest(r, s)]
        /\ queue' = queue \ {t} /\ UNCHANGED <<frameVars, shutting_down>>
    BY <1>14 DEF FireReschedule
  <2> HIDE DEF r
  <2> QED BY <2>1, <2>2, <2>3, <2>4, <2>5, TimersReplaced
<1>15. CASE UNCHANGED vars
  <2>1. UNCHANGED <<timer, frame_left, frame_ready, late, queue, shutting_down>>
    BY <1>15 DEF vars, frameVars
  <2> QED BY <2>1 DEF ListsInv, TypeOK, QueueLive, OnePerRetry, NeverEarly,
             RequestOf, Expired, Live, Place
<1> QED BY <1>4, <1>5, <1>6, <1>7, <1>8, <1>9, <1>10, <1>11, <1>12, <1>13,
           <1>14, <1>15 DEF Next

\* The lists and the queue of the event loop are consistent in every
\* reachable state, however late events are handled and whatever fails.
THEOREM ListsHold == Spec => []ListsInv
<1>1. Init => ListsInv
  BY InitLists
<1>2. ListsInv /\ [Next]_vars => ListsInv'
  BY NextLists
<1> QED BY <1>1, <1>2, PTL DEF Spec

\* Timers and requests keep their types: no timeout is armed with a negative
\* time, and a linked request always belongs to a retry.
THEOREM TypeCorrect == Spec => []TypeOK
<1>1. ListsInv => TypeOK
  BY DEF ListsInv
<1> QED BY <1>1, ListsHold, PTL

\* flb_sched_event_handler only sees timers that are in use and due: no event
\* in the priority queue refers to an invalidated, freed or reused timer.
THEOREM QueueAlwaysLive == Spec => []QueueLive
<1>1. ListsInv => QueueLive
  BY DEF ListsInv
<1> QED BY <1>1, ListsHold, PTL

\* A retry is in the lists at most once, so it is never dispatched twice.
THEOREM NeverTwoRequests == Spec => []OnePerRetry
<1>1. ListsInv => OnePerRetry
  BY DEF ListsInv
<1> QED BY <1>1, ListsHold, PTL

\* The backoff is respected for every frame length and every wait.
THEOREM BackoffRespected == Spec => []NeverEarly
<1>1. ListsInv => NeverEarly
  BY DEF ListsInv
<1> QED BY <1>1, ListsHold, PTL

-----------------------------------------------------------------------------
(***************************************************************************)
(* Punctuality.  OnTime is not inductive: that a waiting request is not    *)
(* overdue when the frame timer promotes it depends on the frame timer     *)
(* expiring at least once before the request is due.                       *)
(***************************************************************************)
\* The seconds until the frame timer is handled, by a prompt event loop.
UntilFrame == IF frame_ready THEN 0 ELSE frame_left

InTime(q, f) ==
    /\ q.place = "wait" => q.age + f <= q.timeout
    /\ q.place = "requests" => q.age + q.left = q.timeout

\* As long as the loop is prompt no request has missed its second, and every
\* waiting one sees a frame timer before it is due.
AllInTime == \A t \in Timers : InTime(timer[t], UntilFrame)
TimeInv == ListsInv /\ (late \/ AllInTime)

\* The frame timer is at most a frame away.
LEMMA UntilFrameShape ==
  ASSUME TypeOK PROVE UntilFrame \in Nat /\ UntilFrame <= Frame
<1>1. Frame \in Nat /\ frame_left \in Nat /\ frame_left <= Frame
  BY SchedulerAssumption DEF TypeOK
<1> QED BY <1>1 DEF UntilFrame

\* A new request is in time: a waiting one is more than a frame away.
LEMMA NewInTime ==
  ASSUME NEW r \in Retries, NEW s \in Nat, NEW f \in Nat, f <= Frame
  PROVE  InTime(NewRequest(r, s), f)
<1>1. /\ NewRequest(r, s).age = 0 /\ NewRequest(r, s).timeout = s
      /\ NewRequest(r, s).place = "requests" => NewRequest(r, s).left = s
      /\ NewRequest(r, s).place = "wait" => s > Frame
  BY NewRequestShape
<1>2. Frame \in Nat
  BY SchedulerAssumption
<1> QED BY <1>1, <1>2 DEF InTime

\* A second keeps a request in time that has a second left.
LEMMA OlderInTime ==
  ASSUME NEW q \in Timer, NEW f \in Nat, f > 0, InTime(q, f),
         ~(q.place = "requests" /\ q.left = 0)
  PROVE  InTime(Older(q), f - 1)
<1>1. q.age \in Nat /\ q.left \in Nat /\ q.timeout \in Nat
  BY DEF Timer
<1>2. /\ Older(q).place = q.place /\ Older(q).timeout = q.timeout
      /\ q.age <= q.timeout => Older(q).age = q.age + 1
      /\ q.left > 0 => Older(q).left = q.left - 1
  BY OlderShape
<1>3. CASE q.place = "wait"
  BY <1>1, <1>2, <1>3 DEF InTime
<1>4. CASE q.place = "requests"
  BY <1>1, <1>2, <1>4 DEF InTime
<1> QED BY <1>2, <1>3, <1>4 DEF InTime

\* The requests the frame timer leaves behind are more than a frame away, the
\* others are armed with the time they have left.
LEMMA PromoteInTime ==
  ASSUME NEW q \in Timer, InTime(q, 0), NEW f \in Nat, f <= Frame
  PROVE  InTime(IF MayPromote(q)
                THEN [q EXCEPT !.place = "requests", !.left = PromotedLeft(q)]
                ELSE q, f)
<1>1. q.age \in Nat /\ q.left \in Nat /\ q.timeout \in Nat /\ Frame \in Nat
  BY SchedulerAssumption DEF Timer
<1>2. CASE MayPromote(q)
  <2> DEFINE p == [q EXCEPT !.place = "requests", !.left = PromotedLeft(q)]
  <2>1. q.age <= q.timeout
    BY <1>1, <1>2 DEF MayPromote, InTime
  <2>2. p.place = "requests" /\ p.age + p.left = p.timeout
    BY <1>2, <2>1, PromotedShape
  <2>3. InTime(p, f)
    BY <2>2 DEF InTime
  <2> QED BY <1>2, <2>3
<1>3. CASE ~MayPromote(q)
  BY <1>1, <1>3 DEF MayPromote, InTime
<1> QED BY <1>2, <1>3

\* Handlers of the engine: a timer is kept, loses its request or gets a new one.
LEMMA HandlersInTime ==
  ASSUME TypeOK, AllInTime, TypeOK', UNCHANGED frameVars,
         \A t \in Timers :
            \/ timer'[t] = timer[t]
            \/ \E p \in {"free", "orphan", "drop"} : timer'[t] = Bare(p)
            \/ \E r \in Retries, s \in Nat : timer'[t] = NewRequest(r, s)
  PROVE  \A t \in Timers : InTime(timer'[t], UntilFrame')
<1>1. UntilFrame' = UntilFrame
  BY DEF frameVars, UntilFrame
<1>2. UntilFrame \in Nat /\ UntilFrame <= Frame
  BY UntilFrameShape
<1> SUFFICES ASSUME NEW t \in Timers PROVE InTime(timer'[t], UntilFrame)
  BY <1>1
<1>3. CASE timer'[t] = timer[t]
  BY <1>3 DEF AllInTime
<1>4. ASSUME NEW p \in {"free", "orphan", "drop"}, timer'[t] = Bare(p)
      PROVE  InTime(timer'[t], UntilFrame)
  BY <1>4, BareShape DEF InTime, Places
<1>5. ASSUME NEW r \in Retries, NEW s \in Nat, timer'[t] = NewRequest(r, s)
      PROVE  InTime(timer'[t], UntilFrame)
  BY <1>2, <1>5, NewInTime
<1> QED BY <1>3, <1>4, <1>5

\* A loop that is prompt after a step was prompt before it.
LEMMA LateStays ==
  ASSUME late \in BOOLEAN, late' = FALSE, [Next]_vars PROVE late = FALSE
<1>1. CASE Tick
  BY <1>1 DEF Tick
<1>2. CASE FrameTimer
  BY <1>2 DEF FrameTimer
<1>3. CASE UNCHANGED frameVars
  BY <1>3 DEF frameVars
<1>4. Tick \/ FrameTimer \/ UNCHANGED frameVars
  BY DEF Next, vars, LoadEvent, PopUnhandled, Fire, FireReschedule,
         RequestCreate, RequestCreateFails, Invalidate, RetryNowFails, RetryNow,
         Shutdown, Cleanup
<1> QED BY <1>1, <1>2, <1>3, <1>4

\* Every step of a prompt scheduler keeps its requests in time.
LEMMA NextInTime == TimeInv /\ [Next]_vars => TimeInv'
<1> SUFFICES ASSUME TimeInv, [Next]_vars PROVE TimeInv'
  OBVIOUS
<1>1. ListsInv'
  BY NextLists DEF TimeInv
<1>2. timer \in [Timers -> Timer] /\ TypeOK /\ TypeOK'
  BY <1>1 DEF TimeInv, ListsInv, TypeOK
<1> SUFFICES ASSUME late' = FALSE PROVE AllInTime'
  BY <1>1, <1>2 DEF TimeInv, TypeOK
<1>0. AllInTime
  BY <1>2, LateStays DEF TimeInv, TypeOK
<1> SUFFICES \A t \in Timers : InTime(timer'[t], UntilFrame')
  BY DEF AllInTime
<1>3. UntilFrame \in Nat /\ UntilFrame <= Frame
  BY <1>2, UntilFrameShape
<1>4. CASE Tick
  <2>1. ~frame_ready /\ \A t \in Timers : ~Expired(t)
    BY <1>4 DEF Tick
  <2>2. UntilFrame = frame_left /\ frame_left \in Nat /\ frame_left > 0
    BY <1>2, <2>1, SchedulerAssumption DEF UntilFrame, TypeOK
  <2>3. UntilFrame' = UntilFrame - 1
    <3>1. CASE frame_left = 1
      <4>1. frame_ready'
        BY <1>4, <3>1 DEF Tick
      <4>2. UntilFrame' = 0
        BY <4>1 DEF UntilFrame
      <4> QED BY <2>2, <3>1, <4>2
    <3>2. CASE frame_left /= 1
      <4>1. frame_ready' = FALSE /\ frame_left' = frame_left - 1
        BY <1>4, <2>1, <3>2 DEF Tick
      <4> QED BY <2>2, <4>1 DEF UntilFrame
    <3> QED BY <3>1, <3>2
  <2> SUFFICES ASSUME NEW t \in Timers PROVE InTime(timer'[t], UntilFrame - 1)
    BY <2>3
  <2>4. InTime(timer[t], UntilFrame) /\ timer[t] \in Timer
    BY <1>2, <1>0 DEF AllInTime
  <2>5. CASE Live(t)
    <3>1. timer'[t] = Older(timer[t])
      BY <1>4, <2>5 DEF Tick
    <3>2. ~(timer[t].place = "requests" /\ timer[t].left = 0)
      BY <2>1 DEF Expired, Place
    <3> QED BY <1>3, <2>2, <2>4, <3>1, <3>2, OlderInTime
  <2>6. CASE ~Live(t)
    <3>1. timer'[t] = timer[t]
      BY <1>4, <2>6 DEF Tick
    <3> QED BY <2>6, <3>1 DEF Live, Place, InTime
  <2> QED BY <2>5, <2>6
<1>5. CASE FrameTimer
  <2>1. UntilFrame = 0
    BY <1>5 DEF FrameTimer, UntilFrame
  <2>2. UntilFrame' \in Nat /\ UntilFrame' <= Frame
    <3>1. frame_ready' = FALSE /\ frame_left' = frame_left
      BY <1>5 DEF FrameTimer
    <3>2. Frame \in Nat /\ frame_left \in Nat /\ frame_left <= Frame
      BY <1>2, SchedulerAssumption DEF TypeOK
    <3> QED BY <3>1, <3>2 DEF UntilFrame
  <2> SUFFICES ASSUME NEW t \in Timers PROVE InTime(timer'[t], UntilFrame')
    OBVIOUS
  <2> DEFINE q == timer[t]
             P == [q EXCEPT !.place = "requests", !.left = PromotedLeft(q)]
  <2>3. timer'[t] = IF MayPromote(q) THEN P ELSE q
    BY <1>5 DEF FrameTimer
  <2>4. InTime(q, 0) /\ q \in Timer
    BY <1>2, <1>0, <2>1 DEF AllInTime
  <2>5. InTime(IF MayPromote(q) THEN P ELSE q, UntilFrame')
    BY <2>2, <2>4, PromoteInTime
  <2> QED BY <2>3, <2>5
<1>6. CASE UNCHANGED timer /\ UNCHANGED frameVars
  BY <1>0, <1>2, <1>6, HandlersInTime
<1>7. CASE Cleanup
  <2>1. \A t \in Timers : timer'[t] = timer[t] \/ timer'[t] = Bare("free")
    BY <1>7 DEF Cleanup
  <2> QED BY <1>0, <1>2, <1>7, <2>1, HandlersInTime DEF Cleanup
<1>8. ASSUME NEW T \in SUBSET Timers, timer' = TimersWithout(T),
             UNCHANGED frameVars
      PROVE  \A t \in Timers : InTime(timer'[t], UntilFrame')
  <2>1. \A t \in Timers : timer'[t] = timer[t] \/ timer'[t] = Bare("drop")
    BY <1>8 DEF TimersWithout
  <2> QED BY <1>0, <1>2, <1>8, <2>1, HandlersInTime
<1>9. ASSUME NEW T \in SUBSET Timers, NEW u \in Timers, NEW r \in Retries,
             NEW s \in Nat, UNCHANGED frameVars,
             timer' = [TimersWithout(T) EXCEPT ![u] = NewRequest(r, s)]
      PROVE  \A t \in Timers : InTime(timer'[t], UntilFrame')
  <2>1. \A t \in Timers : \/ timer'[t] = timer[t] \/ timer'[t] = Bare("drop")
                           \/ timer'[t] = NewRequest(r, s)
    BY <1>9 DEF TimersWithout
  <2> QED BY <1>0, <1>2, <1>9, <2>1, HandlersInTime
<1>10. Seconds \subseteq Nat /\ 0 \in Nat
  BY SchedulerAssumption DEF Seconds
<1>11. ASSUME NEW t \in Timers,
              LoadEvent(t) \/ PopUnhandled(t) \/ Fire(t) \/ Shutdown
       PROVE  \A v \in Timers : InTime(timer'[v], UntilFrame')
  <2>1. /\ timer' = timer \/ timer' = TimersWithout({t})
        /\ UNCHANGED frameVars
    BY <1>11 DEF LoadEvent, PopUnhandled, Fire, Shutdown
  <2> QED BY <1>6, <1>8, <2>1
<1>12. ASSUME NEW t \in Timers, RequestCreateFails(t)
       PROVE  \A v \in Timers : InTime(timer'[v], UntilFrame')
  <2>1. \A v \in Timers : timer'[v] = timer[v] \/ timer'[v] = Bare("orphan")
    BY <1>2, <1>12 DEF RequestCreateFails
  <2> QED BY <1>0, <1>2, <1>12, <2>1, HandlersInTime DEF RequestCreateFails
<1>13. ASSUME NEW r \in Retries, Invalidate(r) \/ RetryNowFails(r)
       PROVE  \A v \in Timers : InTime(timer'[v], UntilFrame')
  <2>1. RequestOf(r) \in SUBSET Timers
    BY DEF RequestOf
  <2> QED BY <1>8, <1>13, <2>1 DEF Invalidate, RetryNowFails
<1>14. ASSUME NEW t \in Timers, NEW r \in Retries, NEW s, RequestCreate(t, r, s)
       PROVE  \A v \in Timers : InTime(timer'[v], UntilFrame')
  <2>1. TimersWithout({}) = timer
    BY <1>2 DEF TimersWithout
  <2> QED BY <1>9, <1>10, <1>14, <2>1 DEF RequestCreate
<1>15. ASSUME NEW t \in Timers, NEW r \in Retries, RetryNow(t, r)
       PROVE  \A v \in Timers : InTime(timer'[v], UntilFrame')
  <2>1. RequestOf(r) \in SUBSET Timers
    BY DEF RequestOf
  <2> QED BY <1>9, <1>10, <1>15, <2>1 DEF RetryNow
<1>16. ASSUME NEW t \in Timers, NEW u \in Timers, NEW s, FireReschedule(t, u, s)
       PROVE  \A v \in Timers : InTime(timer'[v], UntilFrame')
  <2>1. timer[t].data \in Retries
    BY <1>2, <1>16 DEF FireReschedule, TypeOK, Live, Timer
  <2> QED BY <1>9, <1>10, <1>16, <2>1 DEF FireReschedule
<1>17. CASE Shutdown
  BY <1>6, <1>17 DEF Shutdown
<1>18. CASE UNCHANGED vars
  BY <1>6, <1>18 DEF vars
<1> QED BY <1>4, <1>5, <1>7, <1>11, <1>12, <1>13, <1>14, <1>15, <1>16, <1>17,
           <1>18 DEF Next

\* A prompt event loop dispatches every request in exactly the second its
\* backoff chose: the frame that promotes it never comes too late, for every
\* frame length and every wait.
THEOREM Punctual == Spec => []OnTime
<1>1. Init => TimeInv
  <2> SUFFICES ASSUME Init PROVE TimeInv
    OBVIOUS
  <2>1. \A t \in Timers : timer[t] = Bare("free")
    BY DEF Init
  <2>2. Bare("free").place = "free"
    BY BareShape DEF Places
  <2> QED BY <2>1, <2>2, InitLists DEF TimeInv, AllInTime, InTime
<1>2. TimeInv /\ [Next]_vars => TimeInv'
  BY NextInTime
<1>3. TimeInv => OnTime
  <2> SUFFICES ASSUME TimeInv, ~late, NEW t \in Timers
               PROVE  /\ Place(t) = "wait" => timer[t].age <= timer[t].timeout
                      /\ Place(t) = "requests" =>
                            timer[t].age + timer[t].left = timer[t].timeout
    BY DEF OnTime
  <2>1. InTime(timer[t], UntilFrame) /\ timer[t] \in Timer
    BY DEF TimeInv, AllInTime, ListsInv, TypeOK
  <2>2. UntilFrame \in Nat
    BY UntilFrameShape DEF TimeInv, ListsInv
  <2>3. timer[t].age \in Nat /\ timer[t].timeout \in Nat
    BY <2>1 DEF Timer
  <2> QED BY <2>1, <2>2, <2>3 DEF InTime, Place
<1> QED BY <1>1, <1>2, <1>3, PTL DEF Spec

(***************************************************************************)
(* Proofs about the pool of connections in module Upstream, for any number of  *)
(* connections and coroutines and every configuration: the pool stays      *)
(* consistent whoever drops a connection, and net.max_worker_connections   *)
(* is never exceeded.                                                      *)
(*                                                                         *)
(* PoolConsistent is not inductive.  It leaves open the state of a         *)
(* connection that was dropped under the coroutine that has it, so PoolInv *)
(* adds that its socket is closed and that a coroutine whose name lookup   *)
(* ends finds the error the sweep left there.  PoolInv is stated per       *)
(* connection, per coroutine and per pair, which is how the code changes   *)
(* the state: an action touches one connection and the coroutine that has  *)
(* it, or sweeps over connections and touches no coroutine.                *)
(***************************************************************************)
\* A connection alone: what is registered or queued is in use or available, a
\* dropped connection has no socket, an available one is open and watched.
ConnOK(r) ==
    /\ r \in Conn
    /\ r.event /= "none" \/ r.queued =>
          r.place \in {"busy", "av"} /\ r.event /= "none"
    /\ r.place = "destroy" => r.sock = "closed"
    /\ r.place = "av" => /\ r.sock /= "closed" /\ r.net_error = "none"
                         /\ r.event = "custom" /\ ~r.busy_flag

\* A coroutine alone: it has a connection unless it is idle.
CoroOK(q) ==
    /\ q \in Coro
    /\ q.pc = "idle" <=> q.conn = NoConn

\* A coroutine and its connection: nobody has freed it; a coroutine that waits
\* can be resumed; the sweep leaves an error for one in a name lookup.
LinkOK(q, r) ==
    /\ r.place \in {"busy", "destroy"} /\ r.busy_flag
    /\ q.pc \in {"connecting", "io"} => r.event = "thread" /\ r.sock /= "closed"
    /\ q.pc = "dns" => /\ r.event = "none"
                       /\ r.place = "destroy" => r.net_error /= "none"

Exclusive ==
    \A k, j \in Coros : coro[k].conn = coro[j].conn /\ coro[k].conn /= NoConn
                            => k = j

PoolInv ==
    /\ setting \in Settings /\ running \in BOOLEAN
    /\ DOMAIN conn = Conns /\ conn = [c \in Conns |-> conn[c]]
    /\ DOMAIN coro = Coros /\ coro = [k \in Coros |-> coro[k]]
    /\ \A c \in Conns : ConnOK(conn[c])
    /\ \A k \in Coros : CoroOK(coro[k])
    /\ \A k \in Coros : coro[k].pc /= "idle" => LinkOK(coro[k], conn[coro[k].conn])
    /\ Exclusive

\* The configurations are of their type.
LEMMA SettingType ==
    ASSUME setting \in Settings
    PROVE  /\ Keepalive \in BOOLEAN /\ MaxConnections \in Nat
           /\ MaxRecycle \in Nat /\ IoTimeout \in BOOLEAN
  BY UpstreamAssumption
     DEF Setting, Keepalive, MaxConnections, MaxRecycle, IoTimeout

\* PoolInv is at least as strong as what the run checks.
LEMMA PoolInvImplies == PoolInv => PoolConsistent
<1> SUFFICES ASSUME PoolInv PROVE PoolConsistent
  OBVIOUS
<1>1. UpstreamTypeOK
  BY DEF PoolInv, UpstreamTypeOK, ConnOK, CoroOK
<1>2. \A k \in Coros : coro[k].conn \in Conns \cup {NoConn}
  BY DEF PoolInv, CoroOK, Coro
<1>3. \A k \in Coros : coro[k].pc = "idle" <=> coro[k].conn = NoConn
  BY DEF PoolInv, CoroOK
<1>4. HeldIsValid
  BY <1>2, <1>3 DEF PoolInv, LinkOK, HeldIsValid, Users, Exclusive
<1>5. PoolIsHealthy
  <2> SUFFICES ASSUME NEW c \in Conns, conn[c].place = "av"
               PROVE  /\ conn[c].sock /= "closed" /\ conn[c].net_error = "none"
                      /\ conn[c].event = "custom"
                      /\ ~conn[c].busy_flag /\ Users(c) = {}
    BY DEF PoolIsHealthy, In
  <2>1. Users(c) = {}
    BY <1>3, UpstreamAssumption DEF PoolInv, LinkOK, Users
  <2> QED
    BY <2>1 DEF PoolInv, ConnOK
<1>6. NoDanglingEvent
  BY DEF PoolInv, ConnOK, NoDanglingEvent
<1>7. WaitersArmed
  BY DEF PoolInv, LinkOK, WaitersArmed, Waiting
<1> QED
  BY <1>1, <1>4, <1>5, <1>6, <1>7 DEF PoolConsistent

\* No connection exists before the first one is asked for.
LEMMA InitPool == UpstreamInit => PoolInv
<1> SUFFICES ASSUME UpstreamInit PROVE PoolInv
  OBVIOUS
<1>1. ConnOK(Freed)
  BY SettingType DEF UpstreamInit, ConnOK, Conn, Freed
<1>2. CoroOK(IdleCoro)
  BY UpstreamAssumption DEF CoroOK, Coro, IdleCoro
<1> QED
  BY <1>1, <1>2 DEF UpstreamInit, PoolInv, Exclusive, IdleCoro

\* The step of a coroutine k with the connection it has: they become q and r,
\* nothing else changes, and k keeps the connection or is idle.
CoroStep(k, q, r) ==
    /\ coro[k].pc /= "idle"
    /\ conn' = [conn EXCEPT ![coro[k].conn] = r]
    /\ coro' = [coro EXCEPT ![k] = q]
    /\ setting' = setting /\ running' = running

\* A step of one coroutine keeps the invariant if it keeps it for the pair.
LEMMA CoroStepPool ==
    ASSUME PoolInv, NEW k \in Coros, NEW q, NEW r, CoroStep(k, q, r),
           ConnOK(r), q \in Coro,
           \/ q.pc = "idle" /\ q.conn = NoConn
           \/ q.pc /= "idle" /\ q.conn = coro[k].conn /\ LinkOK(q, r)
    PROVE  PoolInv'
<1> DEFINE c == coro[k].conn
<1>1. c \in Conns
  BY DEF PoolInv, CoroOK, Coro, CoroStep
<1>2. /\ conn' = [d \in Conns |-> IF d = c THEN r ELSE conn[d]]
      /\ coro' = [j \in Coros |-> IF j = k THEN q ELSE coro[j]]
  BY <1>1 DEF CoroStep, PoolInv
<1>3. CoroOK(q)
  BY <1>1, UpstreamAssumption DEF CoroOK
<1>4. \A d \in Conns : ConnOK(conn'[d])
  BY <1>2 DEF PoolInv
<1>5. \A j \in Coros \ {k} : coro[j].conn /= c
  BY <1>1, UpstreamAssumption DEF PoolInv, Exclusive
<1>6. \A j \in Coros : coro'[j].pc /= "idle" => LinkOK(coro'[j], conn'[coro'[j].conn])
  <2> SUFFICES ASSUME NEW j \in Coros, coro'[j].pc /= "idle"
               PROVE  LinkOK(coro'[j], conn'[coro'[j].conn])
    OBVIOUS
  <2>1. CASE j = k
    BY <2>1, <1>1, <1>2
  <2>2. CASE j /= k
    <3>1. coro'[j] = coro[j] /\ coro[j].conn \in Conns
      BY <2>2, <1>2 DEF PoolInv, CoroOK, Coro
    <3> QED
      BY <3>1, <2>2, <1>2, <1>5 DEF PoolInv
  <2> QED BY <2>1, <2>2
<1>7. Exclusive'
  BY <1>2, <1>5 DEF PoolInv, Exclusive
<1>8. Conn' = Conn /\ setting' \in Settings /\ running' \in BOOLEAN
  BY DEF PoolInv, CoroStep, Conn, MaxRecycle
<1>9. \A d \in Conns : ConnOK(conn[d])'
  BY <1>4, <1>8 DEF ConnOK
<1>10. \A j \in Coros : CoroOK(coro[j])'
  BY <1>2, <1>3 DEF PoolInv, CoroOK
<1>11. \A j \in Coros : (coro[j].pc /= "idle" => LinkOK(coro[j], conn[coro[j].conn]))'
  BY <1>6 DEF LinkOK
<1> QED
  BY <1>2, <1>7, <1>8, <1>9, <1>10, <1>11 DEF PoolInv

\* A step that changes no coroutine.
Others(new) ==
    /\ conn' = [c \in Conns |-> new[c]]
    /\ coro' = coro /\ setting' = setting

\* It keeps the invariant if no connection is left in a bad state, alone or
\* for the coroutine that has it.
LEMMA OthersPool ==
    ASSUME PoolInv, NEW new, Others(new), running' \in BOOLEAN,
           \A c \in Conns : ConnOK(new[c]),
           \A k \in Coros : coro[k].pc /= "idle" => LinkOK(coro[k], new[coro[k].conn])
    PROVE  PoolInv'
<1>1. Conn' = Conn /\ setting' \in Settings
  BY DEF PoolInv, Others, Conn, MaxRecycle
<1>2. \A d \in Conns : ConnOK(conn[d])'
  BY <1>1 DEF ConnOK, Others
<1>3. \A j \in Coros : CoroOK(coro[j])'
  BY DEF PoolInv, CoroOK, Others
<1>4. \A j \in Coros : (coro[j].pc /= "idle" => LinkOK(coro[j], conn[coro[j].conn]))'
  <2> SUFFICES ASSUME NEW j \in Coros, coro[j].pc /= "idle"
               PROVE  LinkOK(coro[j], conn'[coro[j].conn])
    BY DEF Others, LinkOK
  <2>1. coro[j].conn \in Conns
    BY DEF PoolInv, CoroOK, Coro
  <2> QED
    BY <2>1 DEF Others
<1>5. Exclusive'
  BY DEF PoolInv, Exclusive, Others
<1> QED
  BY <1>1, <1>2, <1>3, <1>4, <1>5 DEF PoolInv, Others

\* An idle coroutine k gets the connection c, which no coroutine has.
LEMMA TakePool ==
    ASSUME PoolInv, NEW k \in Coros, NEW c \in Conns, NEW q, NEW new,
           coro[k].pc = "idle", conn[c].place \in {"none", "av"},
           coro' = [coro EXCEPT ![k] = q], conn' = [d \in Conns |-> new[d]],
           setting' = setting, running' = running,
           q \in Coro, q.pc /= "idle", q.conn = c,
           \A d \in Conns : ConnOK(new[d]), LinkOK(q, new[c]),
           \A d \in Conns \ {c} : new[d] = conn[d] \/ conn[d].place = "av"
    PROVE  PoolInv'
<1>1. coro' = [j \in Coros |-> IF j = k THEN q ELSE coro[j]]
  BY DEF PoolInv
<1>2. Conn' = Conn /\ setting' \in Settings /\ running' \in BOOLEAN
  BY DEF PoolInv, Conn, MaxRecycle
<1>3. \A d \in Conns : ConnOK(conn[d])'
  BY <1>2 DEF ConnOK
<1>4. \A j \in Coros : CoroOK(coro[j])'
  BY <1>1, UpstreamAssumption DEF PoolInv, CoroOK
<1>5. \A j \in Coros \ {k} : coro[j].conn /= c
  BY UpstreamAssumption DEF PoolInv, LinkOK, CoroOK
<1>6. \A j \in Coros : coro'[j].pc /= "idle" => LinkOK(coro'[j], conn'[coro'[j].conn])
  <2> SUFFICES ASSUME NEW j \in Coros, coro'[j].pc /= "idle"
               PROVE  LinkOK(coro'[j], conn'[coro'[j].conn])
    OBVIOUS
  <2>1. CASE j = k
    BY <2>1, <1>1
  <2>2. CASE j /= k
    <3>1. coro'[j] = coro[j] /\ coro[j].conn \in Conns \ {c}
      BY <2>2, <1>1, <1>5 DEF PoolInv, CoroOK, Coro
    <3>2. new[coro[j].conn] = conn[coro[j].conn]
      BY <3>1 DEF PoolInv, LinkOK
    <3> QED
      BY <3>1, <3>2 DEF PoolInv
  <2> QED BY <2>1, <2>2
<1>7. \A j \in Coros : (coro[j].pc /= "idle" => LinkOK(coro[j], conn[coro[j].conn]))'
  BY <1>6 DEF LinkOK
<1>8. Exclusive'
  BY <1>1, <1>5 DEF PoolInv, Exclusive
<1> QED
  BY <1>1, <1>2, <1>3, <1>4, <1>7, <1>8 DEF PoolInv

-----------------------------------------------------------------------------
(* What the helpers do to one connection. *)

\* A dropped connection is in order, and so is the coroutine that has it
\* unless it waits for the event or a name lookup.
LEMMA Dropped ==
    ASSUME NEW r, ConnOK(r)
    PROVE  /\ ConnOK(prepare_destroy_conn(r))
           /\ prepare_destroy_conn(r).busy_flag = r.busy_flag
           /\ prepare_destroy_conn(r).place = "destroy"
           /\ prepare_destroy_conn(r).event = "none"
           /\ prepare_destroy_conn(r).net_error = r.net_error
  BY DEF ConnOK, Conn, prepare_destroy_conn

\* A dropped connection of a coroutine that uses it still is that coroutine's.
LEMMA DroppedInUse ==
    ASSUME NEW q, NEW r, ConnOK(r), LinkOK(q, r),
           q.pc \notin {"connecting", "io", "dns"}
    PROVE  LinkOK(q, prepare_destroy_conn(r))
  BY Dropped DEF LinkOK

\* A connection that was freed, or was never allocated, is in order.
LEMMA FreedOK == ASSUME setting \in Settings PROVE ConnOK(Freed)
  BY SettingType DEF ConnOK, Conn, Freed

\* The record of a coroutine between two calls is in order.
LEMMA IdleOK == IdleCoro \in Coro /\ IdleCoro.pc = "idle" /\ IdleCoro.conn = NoConn
  BY DEF IdleCoro, Coro

\* A coroutine that is not idle has a connection, in use or dropped.
LEMMA HasConn ==
    ASSUME PoolInv, NEW k \in Coros, coro[k].pc /= "idle"
    PROVE  /\ coro[k].conn \in Conns /\ coro[k] \in Coro
           /\ ConnOK(conn[coro[k].conn]) /\ LinkOK(coro[k], conn[coro[k].conn])
  BY DEF PoolInv, CoroOK, Coro

-----------------------------------------------------------------------------
(* flb_upstream_conn_get *)

\* An available connection is taken, broken ones are dropped on the way.
LEMMA GetAvailablePool ==
    ASSUME PoolInv, NEW k \in Coros, NEW B \in Broken, NEW c \in Conns,
           GetAvailable(k, B, c)
    PROVE  PoolInv'
<1> DEFINE q == [coro[k] EXCEPT !.pc = "using", !.conn = c]
           taken == [conn[c] EXCEPT !.place = "busy", !.busy_flag = TRUE,
                                    !.net_error = "none"]
           new == [d \in Conns |-> IF d \in B THEN prepare_destroy_conn(conn[d])
                                   ELSE IF d = c THEN taken ELSE conn[d]]
<1>1. B \subseteq In("av") /\ c \in In("av") \ B
  BY DEF Broken, GetAvailable
<1>2. q \in Coro /\ q.pc = "using" /\ q.conn = c
  BY DEF PoolInv, CoroOK, Coro
<1>3. ConnOK(taken) /\ LinkOK(q, taken)
  <2>1. ConnOK(conn[c]) /\ conn[c].place = "av"
    BY <1>1 DEF PoolInv, In
  <2>2. ConnOK(taken) /\ taken.place = "busy" /\ taken.busy_flag
    BY <2>1 DEF ConnOK, Conn
  <2> HIDE DEF taken, q
  <2> QED
    BY <2>2, <1>2 DEF LinkOK
<1>4. \A d \in Conns : ConnOK(new[d])
  BY <1>3, Dropped DEF PoolInv
<1>5. /\ coro' = [coro EXCEPT ![k] = q] /\ conn' = [d \in Conns |-> new[d]]
      /\ setting' = setting /\ running' = running /\ coro[k].pc = "idle"
  BY DEF GetAvailable, PoolInv
<1>6. conn[c].place = "av" /\ \A d \in Conns \ {c} : new[d] = conn[d] \/ conn[d].place = "av"
  BY <1>1 DEF In
<1>7. LinkOK(q, new[c])
  BY <1>1, <1>3
<1> HIDE DEF q, new
<1> QED
  BY <1>2, <1>4, <1>5, <1>6, <1>7, TakePool

\* Broken connections are dropped and the limit refuses a new one.
LEMMA GetRefusedPool ==
    ASSUME PoolInv, NEW k \in Coros, GetRefused(k)
    PROVE  PoolInv'
<1> DEFINE new == [d \in Conns |-> IF d \in In("av") THEN prepare_destroy_conn(conn[d])
                                                     ELSE conn[d]]
<1>1. \A d \in Conns : ConnOK(new[d])
  BY Dropped DEF PoolInv
<1>2. \A j \in Coros : coro[j].pc /= "idle" => LinkOK(coro[j], new[coro[j].conn])
  BY HasConn DEF LinkOK, In
<1>3. Others(new) /\ running' \in BOOLEAN
  BY DEF GetRefused, Others, PoolInv
<1> HIDE DEF new
<1> QED
  BY <1>1, <1>2, <1>3, OthersPool

\* A connection is created, on an object that nobody has.
LEMMA CreateConnPool ==
    ASSUME PoolInv, NEW k \in Coros, CreateConn(k)
    PROVE  PoolInv'
<1> DEFINE B == IF Keepalive THEN In("av") ELSE {}
           c == NextFree
           q == [coro[k] EXCEPT !.pc = "dns", !.conn = c]
           created == [Freed EXCEPT !.place = "busy", !.busy_flag = TRUE,
                                    !.recycle = Keepalive]
           new == [d \in Conns |-> IF d \in B THEN prepare_destroy_conn(conn[d])
                                   ELSE IF d = c THEN created ELSE conn[d]]
<1>1. c \in Conns /\ conn[c].place = "none"
  BY DEF NextFree, CreateConn, In
<1>2. q \in Coro /\ q.pc = "dns" /\ q.conn = c
  BY <1>1 DEF PoolInv, CoroOK, Coro
<1>3. ConnOK(created) /\ LinkOK(q, created)
  <2>1. Keepalive \in BOOLEAN /\ MaxRecycle \in Nat
    BY SettingType DEF PoolInv
  <2>2. created \in Conn
    <3>1. Freed \in Conn
      BY <2>1 DEF Conn, Freed
    <3> QED
      BY <3>1, <2>1 DEF Conn
  <2>3. /\ created.place = "busy" /\ created.busy_flag /\ created.event = "none"
        /\ ~created.queued
    BY DEF Freed
  <2> HIDE DEF created, q
  <2> QED
    BY <2>2, <2>3, <1>2 DEF ConnOK, LinkOK
<1>4. \A d \in Conns : ConnOK(new[d])
  BY <1>3, Dropped DEF PoolInv
<1>5. /\ coro' = [coro EXCEPT ![k] = q] /\ conn' = [d \in Conns |-> new[d]]
      /\ setting' = setting /\ running' = running /\ coro[k].pc = "idle"
  BY <1>1 DEF CreateConn, PoolInv
<1>6. \A d \in Conns \ {c} : new[d] = conn[d] \/ conn[d].place = "av"
  BY DEF In
<1>7. LinkOK(q, new[c])
  BY <1>1, <1>3 DEF In
<1> HIDE DEF q, new, c
<1> QED
  BY <1>1, <1>2, <1>4, <1>5, <1>6, <1>7, TakePool

-----------------------------------------------------------------------------
(* Steps of a coroutine that has a connection. *)

\* create_conn fails, wherever it is and whoever dropped the connection.
LEMMA CreateFailedPool ==
    ASSUME PoolInv, NEW k \in Coros, coro[k].pc /= "idle", create_failed(k)
    PROVE  PoolInv'
<1> DEFINE d == prepare_destroy_conn(conn[coro[k].conn])
           r == [d EXCEPT !.busy_flag = FALSE]
<1>1. CoroStep(k, IdleCoro, r)
  BY HasConn DEF create_failed, CoroStep, PoolInv
<1>2. ConnOK(d) /\ d.place = "destroy"
  BY HasConn, Dropped
<1> HIDE DEF d
<1>3. ConnOK(r)
  BY <1>2 DEF ConnOK, Conn
<1> HIDE DEF r
<1> QED
  BY <1>1, <1>3, IdleOK, CoroStepPool

\* The socket connects: the coroutine waited for it, or its connection was not
\* dropped during the name lookup.
LEMMA ConnectedPool ==
    ASSUME PoolInv, NEW k \in Coros, connected(k),
           \/ coro[k].pc = "connecting"
           \/ coro[k].pc = "dns" /\ conn[coro[k].conn].net_error = "none"
    PROVE  PoolInv'
<1> DEFINE c == coro[k].conn
           r == [conn[c] EXCEPT !.sock = "up", !.event = "none", !.queued = FALSE,
                                !.busy_flag = TRUE]
           q == [coro[k] EXCEPT !.pc = "using"]
<1>1. ConnOK(conn[c]) /\ LinkOK(coro[k], conn[c]) /\ coro[k] \in Coro /\ c \in Conns
  BY HasConn
<1>2. CoroStep(k, q, r)
  BY <1>1 DEF connected, CoroStep, PoolInv
<1>3. conn[c].place = "busy"
  BY <1>1 DEF LinkOK, ConnOK
<1>4. ConnOK(r) /\ r.place = "busy" /\ r.busy_flag
  BY <1>1, <1>3 DEF ConnOK, Conn
<1>5. q \in Coro /\ q.pc = "using" /\ q.conn = c
  BY <1>1 DEF Coro
<1> HIDE DEF r, q
<1>6. LinkOK(q, r)
  BY <1>4, <1>5 DEF LinkOK
<1> QED
  BY <1>2, <1>4, <1>5, <1>6, CoroStepPool

\* A socket is registered and the coroutine waits for it.
LEMMA ConnectingPool ==
    ASSUME PoolInv, NEW k \in Coros, connecting(k),
           \/ coro[k].pc = "connecting"
           \/ coro[k].pc = "dns" /\ conn[coro[k].conn].net_error = "none"
    PROVE  PoolInv'
<1> DEFINE c == coro[k].conn
           r == [conn[c] EXCEPT !.sock = "up", !.event = "thread", !.queued = FALSE]
           q == [coro[k] EXCEPT !.pc = "connecting"]
<1>1. ConnOK(conn[c]) /\ LinkOK(coro[k], conn[c]) /\ coro[k] \in Coro /\ c \in Conns
  BY HasConn
<1>2. CoroStep(k, q, r)
  BY <1>1 DEF connecting, CoroStep, PoolInv
<1>3. conn[c].place = "busy" /\ conn[c].busy_flag
  BY <1>1 DEF LinkOK, ConnOK
<1>4. /\ ConnOK(r) /\ r.place = "busy" /\ r.busy_flag
      /\ r.event = "thread" /\ r.sock = "up"
  BY <1>1, <1>3 DEF ConnOK, Conn
<1>5. q \in Coro /\ q.pc = "connecting" /\ q.conn = c
  BY <1>1 DEF Coro
<1> HIDE DEF r, q
<1>6. LinkOK(q, r)
  BY <1>4, <1>5 DEF LinkOK
<1> QED
  BY <1>2, <1>4, <1>5, <1>6, CoroStepPool

\* The name lookup ends.
LEMMA DnsDonePool ==
    ASSUME PoolInv, NEW k \in Coros, DnsDone(k)
    PROVE  PoolInv'
  BY CreateFailedPool, ConnectedPool, ConnectingPool DEF DnsDone

\* The event of a socket that connects is handled.
LEMMA ConnectResumePool ==
    ASSUME PoolInv, NEW k \in Coros, ConnectResume(k)
    PROVE  PoolInv'
  BY CreateFailedPool, ConnectedPool, ConnectingPool DEF ConnectResume

\* A call would block: a connection with a socket was not dropped.
LEMMA IoWaitPool ==
    ASSUME PoolInv, NEW k \in Coros, NEW keep \in BOOLEAN, IoWait(k, keep)
    PROVE  PoolInv'
<1> DEFINE c == coro[k].conn
           r == [conn[c] EXCEPT !.event = "thread"]
           q == [coro[k] EXCEPT !.pc = "io", !.backup = conn[c].event, !.keep = keep]
<1>1. ConnOK(conn[c]) /\ LinkOK(coro[k], conn[c]) /\ coro[k] \in Coro /\ c \in Conns
  BY HasConn DEF IoWait
<1>2. CoroStep(k, q, r)
  BY <1>1 DEF IoWait, CoroStep, PoolInv
<1>3. conn[c].place = "busy" /\ conn[c].busy_flag /\ conn[c].sock /= "closed"
  BY <1>1 DEF LinkOK, ConnOK, IoWait
<1>4. /\ ConnOK(r) /\ r.place = "busy" /\ r.busy_flag
      /\ r.event = "thread" /\ r.sock /= "closed"
  BY <1>1, <1>3 DEF ConnOK, Conn
<1>5. q \in Coro /\ q.pc = "io" /\ q.conn = c
  BY <1>1 DEF Coro, ConnOK, Conn
<1> HIDE DEF r, q
<1>6. LinkOK(q, r)
  BY <1>4, <1>5 DEF LinkOK
<1> QED
  BY <1>2, <1>4, <1>5, <1>6, CoroStepPool

\* The coroutine is resumed: it waits again, or it ends its call and the
\* registration of before the call comes back.
LEMMA IoResumePool ==
    ASSUME PoolInv, NEW k \in Coros, IoResume(k)
    PROVE  PoolInv'
<1> DEFINE c == coro[k].conn
           r == conn[c]
           again == [coro[k] EXCEPT !.keep = FALSE]
           done == [coro[k] EXCEPT !.pc = "using", !.backup = "none", !.keep = FALSE]
           seen == [r EXCEPT !.queued = FALSE]
           back == restored(r, coro[k].backup)
<1>1. /\ ConnOK(r) /\ LinkOK(coro[k], r) /\ coro[k] \in Coro /\ c \in Conns
      /\ coro[k].pc = "io" /\ r.event = "thread"
  BY HasConn DEF IoResume
<1>2. r.place = "busy" /\ r.busy_flag /\ r.sock /= "closed"
  BY <1>1 DEF ConnOK, LinkOK
<1>3. /\ ConnOK(seen) /\ seen.place = "busy" /\ seen.busy_flag
      /\ seen.event = "thread" /\ seen.sock /= "closed"
  BY <1>1, <1>2 DEF ConnOK, Conn
<1>4. ConnOK(back) /\ back.place = "busy" /\ back.busy_flag
  BY <1>1, <1>2 DEF ConnOK, Conn, Coro, restored
<1>5. \A e \in {r.net_error, "error"} :
         /\ ConnOK([back EXCEPT !.net_error = e])
         /\ [back EXCEPT !.net_error = e].place = "busy"
         /\ [back EXCEPT !.net_error = e].busy_flag
  <2>1. r.net_error \in {"none", "timedout", "error"}
    BY <1>1 DEF ConnOK, Conn
  <2> HIDE DEF back, r
  <2> QED
    BY <1>4, <2>1 DEF ConnOK, Conn
<1>6. again \in Coro /\ again.pc = "io" /\ again.conn = c
  BY <1>1 DEF Coro
<1>7. done \in Coro /\ done.pc = "using" /\ done.conn = c
  BY <1>1 DEF Coro
<1>8. \/ CoroStep(k, again, seen)
      \/ CoroStep(k, done, IF coro[k].keep THEN seen ELSE back)
      \/ \E e \in {r.net_error, "error"} : CoroStep(k, done, [back EXCEPT !.net_error = e])
  BY <1>1 DEF IoResume, CoroStep, PoolInv
<1> HIDE DEF again, done, seen, back, r
<1>9. CASE CoroStep(k, again, seen)
  <2>1. LinkOK(again, seen)
    BY <1>3, <1>6 DEF LinkOK
  <2> QED
    BY <1>9, <2>1, <1>3, <1>6, CoroStepPool
<1>10. CASE CoroStep(k, done, IF coro[k].keep THEN seen ELSE back)
  <2>1. LinkOK(done, seen) /\ LinkOK(done, back)
    BY <1>3, <1>4, <1>7 DEF LinkOK
  <2> QED
    BY <1>10, <2>1, <1>3, <1>4, <1>7, CoroStepPool
<1>11. ASSUME NEW e \in {r.net_error, "error"},
              CoroStep(k, done, [back EXCEPT !.net_error = e])
       PROVE  PoolInv'
  <2>1. LinkOK(done, [back EXCEPT !.net_error = e])
    BY <1>5, <1>7 DEF LinkOK
  <2> QED
    BY <1>11, <2>1, <1>5, <1>7, CoroStepPool
<1> QED
  BY <1>8, <1>9, <1>10, <1>11

\* A call on a broken socket fails at once.
LEMMA IoFailsPool ==
    ASSUME PoolInv, NEW k \in Coros, IoFails(k)
    PROVE  PoolInv'
<1> DEFINE c == coro[k].conn
           r == [conn[c] EXCEPT !.net_error = "error"]
<1>1. /\ ConnOK(conn[c]) /\ LinkOK(coro[k], conn[c]) /\ coro[k] \in Coro
      /\ c \in Conns /\ coro[k].pc = "using"
  BY HasConn DEF IoFails
<1>2. CoroStep(k, coro[k], r)
  BY <1>1 DEF IoFails, CoroStep, PoolInv
<1>3. ConnOK(r) /\ r.place \in {"busy", "destroy"} /\ r.busy_flag
  BY <1>1 DEF ConnOK, LinkOK, Conn
<1> HIDE DEF r
<1>4. LinkOK(coro[k], r)
  BY <1>1, <1>3 DEF LinkOK
<1> QED
  BY <1>1, <1>2, <1>3, <1>4, CoroStepPool

\* flb_upstream_conn_recycle
LEMMA ConnRecycleOffPool ==
    ASSUME PoolInv, NEW k \in Coros, ConnRecycleOff(k)
    PROVE  PoolInv'
<1> DEFINE c == coro[k].conn
           r == [conn[c] EXCEPT !.recycle = FALSE]
<1>1. /\ ConnOK(conn[c]) /\ LinkOK(coro[k], conn[c]) /\ coro[k] \in Coro
      /\ c \in Conns /\ coro[k].pc = "using"
  BY HasConn DEF ConnRecycleOff
<1>2. CoroStep(k, coro[k], r)
  BY <1>1 DEF ConnRecycleOff, CoroStep, PoolInv
<1>3. ConnOK(r) /\ r.place \in {"busy", "destroy"} /\ r.busy_flag
  BY <1>1 DEF ConnOK, LinkOK, Conn
<1> HIDE DEF r
<1>4. LinkOK(coro[k], r)
  BY <1>1, <1>3 DEF LinkOK
<1> QED
  BY <1>1, <1>2, <1>3, <1>4, CoroStepPool

\* flb_upstream_conn_release puts a healthy connection into the pool: one that
\* was dropped meanwhile has no socket, so it is not taken for healthy.
LEMMA ReleaseToPoolPool ==
    ASSUME PoolInv, NEW k \in Coros, ReleaseToPool(k)
    PROVE  PoolInv'
<1> DEFINE c == coro[k].conn
           n == KaCount(conn[c])
           r == [[restored(conn[c], "custom") EXCEPT !.place = "av", !.ka_count = n]
                    EXCEPT !.busy_flag = FALSE]
<1>1. ConnOK(conn[c]) /\ c \in Conns
  BY HasConn DEF ReleaseToPool
<1>2. CoroStep(k, IdleCoro, r)
  BY <1>1 DEF ReleaseToPool, release, CoroStep, PoolInv
<1>3. n \in 0..MaxRecycle
  <2>1. conn[c].ka_count \in 0..MaxRecycle /\ MaxRecycle \in Nat
    BY <1>1, SettingType DEF ConnOK, Conn, PoolInv
  <2> QED
    BY <2>1 DEF ReleaseToPool, UsedUp, KaCount
<1>4. conn[c].sock /= "closed" /\ conn[c].net_error = "none"
  BY DEF ReleaseToPool, Reusable
<1>5. ConnOK(r)
  <2> HIDE DEF n
  <2> QED
    BY <1>1, <1>3, <1>4 DEF ConnOK, Conn, restored
<1> HIDE DEF r
<1> QED
  BY <1>2, <1>5, IdleOK, CoroStepPool

\* Or it drops it.
LEMMA ReleaseDestroyPool ==
    ASSUME PoolInv, NEW k \in Coros, ReleaseDestroy(k)
    PROVE  PoolInv'
<1> DEFINE c == coro[k].conn
           d == prepare_destroy_conn(conn[c])
           r == [d EXCEPT !.busy_flag = FALSE]
<1>1. ConnOK(d) /\ d.place = "destroy"
  BY HasConn, Dropped DEF ReleaseDestroy
<1>2. CoroStep(k, IdleCoro, r)
  BY HasConn DEF ReleaseDestroy, release, CoroStep, PoolInv
<1> HIDE DEF d
<1>3. ConnOK(r)
  BY <1>1 DEF ConnOK, Conn
<1> HIDE DEF r
<1> QED
  BY <1>2, <1>3, IdleOK, CoroStepPool

-----------------------------------------------------------------------------
(* Steps of the loop. *)

\* A step that makes one connection c into r keeps the invariant if it keeps it
\* for every coroutine that has c.
LEMMA OneConnPool ==
    ASSUME PoolInv, NEW c \in Conns, NEW r, conn' = [conn EXCEPT ![c] = r],
           coro' = coro, setting' = setting, running' = running, ConnOK(r),
           \A k \in Coros : coro[k].pc /= "idle" /\ coro[k].conn = c
                                => LinkOK(coro[k], r)
    PROVE  PoolInv'
<1> DEFINE new == [conn EXCEPT ![c] = r]
<1>1. \A d \in Conns : new[d] = IF d = c THEN r ELSE conn[d]
  BY DEF PoolInv
<1>2. Others(new) /\ running' \in BOOLEAN
  BY DEF Others, PoolInv
<1> HIDE DEF new
<1>3. \A d \in Conns : ConnOK(new[d])
  BY <1>1 DEF PoolInv
<1>4. \A k \in Coros : coro[k].pc /= "idle" => LinkOK(coro[k], new[coro[k].conn])
  BY <1>1, HasConn
<1> QED
  BY <1>2, <1>3, <1>4, OthersPool

\* The remote end closes; a waiting coroutine still has a socket.
LEMMA PeerClosesPool ==
    ASSUME PoolInv, NEW c \in Conns, PeerCloses(c)
    PROVE  PoolInv'
<1> DEFINE r == [conn[c] EXCEPT !.sock = "down"]
<1>1. ConnOK(conn[c]) /\ conn[c].sock = "up"
  BY DEF PoolInv, PeerCloses
<1>2. /\ ConnOK(r) /\ r.sock = "down" /\ r.place = conn[c].place
      /\ r.busy_flag = conn[c].busy_flag /\ r.event = conn[c].event
      /\ r.net_error = conn[c].net_error
  BY <1>1 DEF ConnOK, Conn
<1>3. /\ conn' = [conn EXCEPT ![c] = r] /\ coro' = coro
      /\ setting' = setting /\ running' = running
  BY DEF PeerCloses
<1> HIDE DEF r
<1>4. \A k \in Coros : coro[k].pc /= "idle" /\ coro[k].conn = c => LinkOK(coro[k], r)
  BY <1>2 DEF PoolInv, LinkOK
<1> QED
  BY <1>2, <1>3, <1>4, OneConnPool

\* An event enters or leaves the priority queue.
LEMMA QueuedPool ==
    ASSUME PoolInv, NEW c \in Conns, EventReady(c) \/ EventUnhandled(c)
    PROVE  PoolInv'
<1> DEFINE R(b) == [conn[c] EXCEPT !.queued = b]
<1>1. ConnOK(conn[c])
  BY DEF PoolInv
<1>2. \A b \in BOOLEAN : /\ R(b).place = conn[c].place /\ R(b).sock = conn[c].sock
                         /\ R(b).busy_flag = conn[c].busy_flag
                         /\ R(b).event = conn[c].event
                         /\ R(b).net_error = conn[c].net_error
  BY <1>1 DEF ConnOK, Conn
<1>3. \A b \in BOOLEAN, k \in Coros :
         coro[k].pc /= "idle" /\ coro[k].conn = c => LinkOK(coro[k], R(b))
  <2> HIDE DEF R
  <2> QED
    BY <1>2 DEF PoolInv, LinkOK
<1>4. ConnOK(R(FALSE))
  BY <1>1 DEF ConnOK, Conn
<1>5. EventReady(c) => ConnOK(R(TRUE))
  BY <1>1 DEF ConnOK, Conn, EventReady
<1>6. \E b \in BOOLEAN : conn' = [conn EXCEPT ![c] = R(b)] /\ (b => EventReady(c))
  BY DEF EventReady, EventUnhandled
<1>7. coro' = coro /\ setting' = setting /\ running' = running
  BY DEF EventReady, EventUnhandled
<1>8. PICK b \in BOOLEAN : conn' = [conn EXCEPT ![c] = R(b)] /\ ConnOK(R(b))
  BY <1>4, <1>5, <1>6
<1> HIDE DEF R
<1> QED
  BY <1>3, <1>7, <1>8, OneConnPool

\* cb_upstream_conn_ka_dropped: no coroutine waits on a watched connection.
LEMMA KaDroppedPool ==
    ASSUME PoolInv, NEW c \in Conns, KaDropped(c)
    PROVE  PoolInv'
<1> DEFINE r == prepare_destroy_conn(conn[c])
<1>1. ConnOK(r)
  BY Dropped DEF PoolInv
<1>2. \A k \in Coros : coro[k].pc /= "idle" /\ coro[k].conn = c => LinkOK(coro[k], r)
  <2> SUFFICES ASSUME NEW k \in Coros, coro[k].pc /= "idle", coro[k].conn = c
               PROVE  LinkOK(coro[k], r)
    OBVIOUS
  <2>1. ConnOK(conn[c]) /\ LinkOK(coro[k], conn[c]) /\ conn[c].event = "custom"
    BY HasConn DEF KaDropped
  <2>2. coro[k].pc \notin {"connecting", "io", "dns"}
    BY <2>1 DEF LinkOK
  <2> QED
    BY <2>1, <2>2, DroppedInUse
<1>3. /\ conn' = [conn EXCEPT ![c] = r] /\ coro' = coro
      /\ setting' = setting /\ running' = running
  BY DEF KaDropped
<1> HIDE DEF r
<1> QED
  BY <1>1, <1>2, <1>3, OneConnPool

\* The sweep: a registered connection is shut down, never closed, so that the
\* coroutine that waits for it can be resumed.
LEMMA ConnTimeoutsPool ==
    ASSUME PoolInv, NEW T, NEW A, ConnTimeouts(T, A)
    PROVE  PoolInv'
<1> DEFINE new == [c \in Conns |-> IF c \in T THEN timed_out(conn[c])
                                   ELSE IF c \in A THEN prepare_destroy_conn(conn[c])
                                   ELSE conn[c]]
<1>1. \A c \in Conns : c \in T => conn[c].place = "busy"
  BY DEF ConnTimeouts, MayTimeOut, In
<1>2. ASSUME NEW c \in Conns, c \in T
      PROVE  /\ ConnOK(timed_out(conn[c]))
             /\ timed_out(conn[c]).place \in {"busy", "destroy"}
             /\ timed_out(conn[c]).busy_flag = conn[c].busy_flag
             /\ timed_out(conn[c]).event = conn[c].event
             /\ timed_out(conn[c]).net_error = "timedout"
             /\ conn[c].event /= "none" /\ conn[c].sock /= "closed"
                  => timed_out(conn[c]).sock /= "closed"
  <2>1. ConnOK(conn[c]) /\ conn[c].place = "busy"
    BY <1>1, <1>2 DEF PoolInv
  <2>2. CASE conn[c].event /= "none"
    BY <2>1, <2>2 DEF timed_out, ConnOK, Conn
  <2>3. CASE conn[c].event = "none"
    BY <2>1, <2>3 DEF timed_out, prepare_destroy_conn, ConnOK, Conn
  <2> QED BY <2>2, <2>3
<1>3. \A c \in Conns : ConnOK(new[c])
  BY <1>2, Dropped DEF PoolInv
<1>4. \A k \in Coros : coro[k].pc /= "idle" => LinkOK(coro[k], new[coro[k].conn])
  <2> SUFFICES ASSUME NEW k \in Coros, coro[k].pc /= "idle"
               PROVE  LinkOK(coro[k], new[coro[k].conn])
    OBVIOUS
  <2> DEFINE c == coro[k].conn
  <2>1. c \in Conns /\ ConnOK(conn[c]) /\ LinkOK(coro[k], conn[c])
    BY HasConn
  <2>2. CASE c \in T
    <3>1. new[c] = timed_out(conn[c])
      BY <2>1, <2>2
    <3> QED
      BY <3>1, <2>1, <2>2, <1>2 DEF LinkOK
  <2>3. CASE c \notin T
    <3>1. c \notin A
      BY <2>1 DEF LinkOK, ConnTimeouts, In
    <3>2. new[c] = conn[c]
      BY <3>1, <2>1, <2>3
    <3> QED
      BY <3>2, <2>1
  <2> QED BY <2>2, <2>3
<1>5. Others(new) /\ running' \in BOOLEAN
  BY DEF ConnTimeouts, Others, PoolInv
<1> HIDE DEF new
<1> QED
  BY <1>3, <1>4, <1>5, OthersPool

\* Memory is freed between two rounds: never a connection with a user.
LEMMA PendingDestroyPool ==
    ASSUME PoolInv, PendingDestroy
    PROVE  PoolInv'
<1> DEFINE D == {c \in In("destroy") : Destroyable(c)}
           new == [c \in Conns |-> IF c \in D THEN Freed ELSE conn[c]]
<1>1. \A c \in Conns : ConnOK(new[c])
  BY FreedOK DEF PoolInv
<1>2. \A k \in Coros : coro[k].pc /= "idle" => LinkOK(coro[k], new[coro[k].conn])
  BY HasConn DEF LinkOK, Destroyable
<1>3. Others(new) /\ running' \in BOOLEAN
  BY DEF PendingDestroy, Others, PoolInv
<1> HIDE DEF new
<1> QED
  BY <1>1, <1>2, <1>3, OthersPool

\* The upstream is destroyed: no coroutine is left.
LEMMA StopPool ==
    ASSUME PoolInv, Stop
    PROVE  PoolInv'
<1> DEFINE new == [c \in Conns |->
                     IF conn[c].place = "destroy" /\ conn[c].queued THEN conn[c] ELSE Freed]
<1>1. \A c \in Conns : ConnOK(new[c])
  BY FreedOK DEF PoolInv
<1>2. \A k \in Coros : coro[k].pc = "idle"
  BY DEF Stop
<1>3. Others(new) /\ running' \in BOOLEAN
  BY DEF Stop, Others
<1> HIDE DEF new
<1> QED
  BY <1>1, <1>2, <1>3, OthersPool

-----------------------------------------------------------------------------
(* The theorems. *)

\* Every step keeps the invariant.
LEMMA NextPool == PoolInv /\ [UpstreamNext]_upstream_vars => PoolInv'
<1> SUFFICES ASSUME PoolInv, [UpstreamNext]_upstream_vars PROVE PoolInv'
  OBVIOUS
<1>1. CASE UNCHANGED upstream_vars
  BY <1>1 DEF upstream_vars, PoolInv, ConnOK, CoroOK, LinkOK, Exclusive, Conn, Coro, MaxRecycle
<1>2. ASSUME NEW k \in Coros,
             \/ \E B \in Broken, c \in Conns : GetAvailable(k, B, c)
             \/ GetRefused(k) \/ CreateConn(k) \/ DnsDone(k) \/ ConnectResume(k)
      PROVE  PoolInv'
  BY <1>2, GetAvailablePool, GetRefusedPool, CreateConnPool, DnsDonePool,
     ConnectResumePool
<1>3. ASSUME NEW k \in Coros,
             \/ \E keep \in BOOLEAN : IoWait(k, keep)
             \/ IoResume(k) \/ IoFails(k) \/ ConnRecycleOff(k)
             \/ ReleaseToPool(k) \/ ReleaseDestroy(k)
      PROVE  PoolInv'
  BY <1>3, IoWaitPool, IoResumePool, IoFailsPool, ConnRecycleOffPool,
     ReleaseToPoolPool, ReleaseDestroyPool
<1>4. ASSUME NEW c \in Conns,
             PeerCloses(c) \/ EventReady(c) \/ EventUnhandled(c) \/ KaDropped(c)
      PROVE  PoolInv'
  BY <1>4, PeerClosesPool, QueuedPool, KaDroppedPool
<1> QED
  BY <1>1, <1>2, <1>3, <1>4, ConnTimeoutsPool, PendingDestroyPool, StopPool DEF UpstreamNext

\* The inductive invariant holds in every reachable state.
THEOREM PoolInvHolds == UpstreamSpec => []PoolInv
  BY InitPool, NextPool, PTL DEF UpstreamSpec

\* Coroutines, the handler of closed keepalive sockets, the timeout sweep and
\* the deferred free leave every connection in a state the others can rely on:
\* none is freed or handed out while a coroutine has it, the pool offers only
\* open watched connections, no event of a dropped one is left in the loop, and
\* a waiting coroutine can be resumed.
THEOREM PoolAlwaysConsistent == UpstreamSpec => []PoolConsistent
  BY PoolInvHolds, PoolInvImplies, PTL

\* Only create_conn allocates a connection, and it allocates one.
LEMMA AllocatedSteps ==
    ASSUME PoolInv, [UpstreamNext]_upstream_vars
    PROVE  \/ Allocated' \subseteq Allocated
           \/ ~LimitReached /\ \E c \in Conns : Allocated' \subseteq Allocated \cup {c}
<1> SUFFICES ASSUME ~\E k \in Coros : CreateConn(k)
             PROVE  \A c \in Conns : conn[c].place = "none" => conn'[c].place = "none"
  <2>1. ASSUME NEW k \in Coros, CreateConn(k)
        PROVE  ~LimitReached /\ \E c \in Conns : Allocated' \subseteq Allocated \cup {c}
    <3>1. NextFree \in Conns
      BY <2>1 DEF NextFree, CreateConn, In
    <3>2. Allocated' \subseteq Allocated \cup {NextFree}
      <4> SUFFICES ASSUME NEW d \in Conns, d /= NextFree, conn[d].place = "none"
                   PROVE  conn'[d].place = "none"
        BY DEF Allocated
      <4> QED
        BY <2>1 DEF CreateConn, In
    <3> QED
      BY <2>1, <3>1, <3>2 DEF CreateConn
  <2> QED
    BY <2>1 DEF Allocated
<1> USE HasConn
<1>1. CASE UNCHANGED upstream_vars
  BY <1>1 DEF upstream_vars
<1>2. ASSUME NEW k \in Coros, NEW B \in Broken, NEW d \in Conns, GetAvailable(k, B, d)
      PROVE  \A c \in Conns : conn[c].place = "none" => conn'[c].place = "none"
  BY <1>2 DEF GetAvailable, Broken, In
<1>3. ASSUME NEW k \in Coros, GetRefused(k)
      PROVE  \A c \in Conns : conn[c].place = "none" => conn'[c].place = "none"
  BY <1>3 DEF GetRefused, Broken, In
<1>4. ASSUME NEW k \in Coros, NEW r, coro[k].pc /= "idle",
             conn' = [conn EXCEPT ![coro[k].conn] = r]
      PROVE  \A c \in Conns : conn[c].place = "none" => conn'[c].place = "none"
  <2>1. conn[coro[k].conn].place /= "none"
    BY <1>4 DEF LinkOK
  <2> QED
    BY <1>4, <2>1 DEF PoolInv
<1>5. ASSUME NEW k \in Coros,
             \/ DnsDone(k) \/ ConnectResume(k)
             \/ \E keep \in BOOLEAN : IoWait(k, keep)
             \/ IoResume(k) \/ IoFails(k) \/ ConnRecycleOff(k)
             \/ ReleaseToPool(k) \/ ReleaseDestroy(k)
      PROVE  \A c \in Conns : conn[c].place = "none" => conn'[c].place = "none"
  <2>1. coro[k].pc /= "idle"
    BY <1>5 DEF DnsDone, ConnectResume, IoWait, IoResume, IoFails, ConnRecycleOff,
                ReleaseToPool, ReleaseDestroy
  <2>2. \E r : conn' = [conn EXCEPT ![coro[k].conn] = r]
    BY <1>5 DEF DnsDone, ConnectResume, IoWait, IoResume, IoFails, ConnRecycleOff,
                ReleaseToPool, ReleaseDestroy, release, create_failed, connected, connecting
  <2> QED
    BY <2>1, <2>2, <1>4
<1>6. ASSUME NEW d \in Conns,
             PeerCloses(d) \/ EventReady(d) \/ EventUnhandled(d) \/ KaDropped(d)
      PROVE  \A c \in Conns : conn[c].place = "none" => conn'[c].place = "none"
  BY <1>6 DEF PeerCloses, EventReady, EventUnhandled, KaDropped, PoolInv, ConnOK, Conn
<1>7. ASSUME NEW T, NEW A, ConnTimeouts(T, A)
      PROVE  \A c \in Conns : conn[c].place = "none" => conn'[c].place = "none"
  BY <1>7 DEF ConnTimeouts, MayTimeOut, In
<1>8. CASE PendingDestroy \/ Stop
  BY <1>8 DEF PendingDestroy, Stop, Freed
<1> QED
  BY <1>1, <1>2, <1>3, <1>5, <1>6, <1>7, <1>8 DEF UpstreamNext

\* The limit counts a connection until its memory is freed, and no step goes
\* past it.
LEMMA LimitStep ==
    ASSUME PoolInv, LimitHolds, [UpstreamNext]_upstream_vars
    PROVE  LimitHolds'
<1>0. setting' = setting
  BY ZenonT(60) DEF UpstreamNext, upstream_vars, GetAvailable, GetRefused, CreateConn, DnsDone, ConnectResume,
         IoWait, IoResume, IoFails, ConnRecycleOff, ReleaseToPool, ReleaseDestroy,
         release, create_failed, connected, connecting, PeerCloses, EventReady,
         EventUnhandled, KaDropped, ConnTimeouts, PendingDestroy, Stop
<1> SUFFICES ASSUME MaxConnections > 0
             PROVE  Cardinality(Allocated') <= MaxConnections
  BY <1>0 DEF LimitHolds, MaxConnections
<1>1. IsFiniteSet(Allocated)
  BY FS_Subset, UpstreamAssumption DEF Allocated
<1>2. Cardinality(Allocated) \in Nat /\ MaxConnections \in Nat
  BY <1>1, FS_CardinalityType, SettingType DEF PoolInv
<1>3. CASE Allocated' \subseteq Allocated
  <2>1. Cardinality(Allocated') <= Cardinality(Allocated) /\ Cardinality(Allocated') \in Nat
    BY <1>1, <1>3, FS_Subset, FS_CardinalityType
  <2> QED
    BY <2>1, <1>2 DEF LimitHolds
<1>4. ASSUME ~LimitReached, NEW c \in Conns, Allocated' \subseteq Allocated \cup {c}
      PROVE  Cardinality(Allocated') <= MaxConnections
  <2>1. Cardinality(Allocated) < MaxConnections
    BY <1>2, <1>4 DEF LimitReached
  <2>2. /\ IsFiniteSet(Allocated \cup {c})
        /\ Cardinality(Allocated \cup {c}) <= Cardinality(Allocated) + 1
    <3>1. CASE c \in Allocated
      <4>1. Allocated \cup {c} = Allocated
        BY <3>1
      <4>2. Cardinality(Allocated \cup {c}) = Cardinality(Allocated)
        BY <4>1
      <4>3. IsFiniteSet(Allocated \cup {c})
        BY <4>1, <1>1
      <4> QED
        BY <4>2, <4>3, <1>2
    <3>2. CASE c \notin Allocated
      <4> DEFINE A == Allocated
      <4>1. IsFiniteSet(A) /\ c \notin A /\ Cardinality(A) \in Nat
        BY <3>2, <1>1, <1>2
      <4> HIDE DEF A
      <4>2. IsFiniteSet(A \cup {c}) /\ Cardinality(A \cup {c}) = Cardinality(A) + 1
        BY <4>1, FS_AddElement
      <4>3. Cardinality(A \cup {c}) <= Cardinality(A) + 1
        BY <4>1, <4>2
      <4> QED BY <4>2, <4>3 DEF A
    <3> QED BY <3>1, <3>2
  <2>3. Cardinality(Allocated') <= Cardinality(Allocated \cup {c})
    BY <1>4, <2>2, FS_Subset
  <2>4. Cardinality(Allocated') \in Nat /\ Cardinality(Allocated \cup {c}) \in Nat
    BY <1>4, <2>2, FS_Subset, FS_CardinalityType
  <2> QED
    BY <1>2, <2>1, <2>2, <2>3, <2>4
<1> QED
  BY <1>3, <1>4, AllocatedSteps

\* net.max_worker_connections bounds the connections that exist, the ones that
\* wait to be freed included, for every limit and any number of coroutines.
THEOREM LimitAlwaysHolds == UpstreamSpec => []LimitHolds
<1>1. UpstreamInit => LimitHolds
  <2> SUFFICES ASSUME UpstreamInit PROVE Allocated = {} /\ MaxConnections \in Nat
    BY FS_EmptySet DEF LimitHolds
  <2> QED
    BY SettingType DEF UpstreamInit, Allocated, Freed
<1>2. PoolInv /\ LimitHolds /\ [UpstreamNext]_upstream_vars => LimitHolds'
  BY LimitStep
<1> QED
  BY <1>1, <1>2, PoolInvHolds, PTL DEF UpstreamSpec

=============================================================================
