-------------------------- MODULE TaskEngineProofs --------------------------
(***************************************************************************)
(* IndInv is an invariant of TaskEngine for every set of chunks, outputs   *)
(* and faults, and for every size of the task map.  The history of a route *)
(* and the outcomes of a chunk, in the second half, are built on it, and   *)
(* with them that TaskEngine implements ChunkDelivery.                     *)
(***************************************************************************)
EXTENDS TaskEngine, FiniteSetTheorems, TLAPS

(***************************************************************************)
(* How the flushes of a chunk change when one flush is replaced, added or  *)
(* removed.                                                                *)
(***************************************************************************)
In(F, c) == {h \in F : h.chunk = c}

\* Moving a flush to its next stage changes no count.
LEMMA CountReplaced ==
  ASSUME NEW F, IsFiniteSet(F), NEW f \in F, NEW g, g \notin F \ {f}, NEW c,
         g.chunk = f.chunk, NEW G, G = (F \ {f}) \cup {g}
  PROVE  /\ IsFiniteSet(G)
         /\ Cardinality(In(G, c)) = Cardinality(In(F, c))
<1> USE DEF In
<1> DEFINE A == In(F, c)
           B == In(G, c)
<1>1. IsFiniteSet(F \ {f})
  BY FS_RemoveElement
<1>2. IsFiniteSet(G)
  BY <1>1, FS_AddElement
<1>3. IsFiniteSet(A)
  BY FS_Subset
<1>4. CASE f.chunk = c
  <2>1. /\ IsFiniteSet(A \ {f})
        /\ Cardinality(A \ {f}) = Cardinality(A) - 1
    BY <1>3, <1>4, FS_RemoveElement
  <2>2. B = (A \ {f}) \cup {g} /\ g \notin A \ {f}
    BY <1>4
  <2>3. Cardinality(B) = Cardinality(A \ {f}) + 1
    BY <2>1, <2>2, FS_AddElement
  <2>4. Cardinality(A) \in Nat
    BY <1>3, FS_CardinalityType
  <2> QED BY <2>1, <2>3, <2>4, <1>2
<1>5. CASE f.chunk /= c
  <2>1. B = A
    BY <1>5
  <2> QED BY <2>1, <1>2
<1> QED BY <1>4, <1>5

\* A new flush adds one to the count of its chunk.
LEMMA CountAdded ==
  ASSUME NEW F, IsFiniteSet(F), NEW g, g \notin F, NEW c,
         NEW G, G = F \cup {g}
  PROVE  /\ IsFiniteSet(G)
         /\ Cardinality(In(G, c))
              = Cardinality(In(F, c))
                + (IF g.chunk = c THEN 1 ELSE 0)
         /\ Cardinality(In(F, c)) \in Nat
<1> USE DEF In
<1> DEFINE A == In(F, c)
           B == In(G, c)
<1>1. IsFiniteSet(G)
  BY FS_AddElement
<1>2. IsFiniteSet(A) /\ Cardinality(A) \in Nat
  BY FS_Subset, FS_CardinalityType
<1>3. g.chunk = c => Cardinality(B) = Cardinality(A) + 1
  <2> HAVE g.chunk = c
  <2>1. B = A \cup {g} /\ g \notin A
    OBVIOUS
  <2> QED BY <1>2, <2>1, FS_AddElement
<1>4. g.chunk /= c => B = A
  OBVIOUS
<1>5. Cardinality(B) = Cardinality(A) + (IF g.chunk = c THEN 1 ELSE 0)
  <2> HIDE DEF A, B
  <2> QED BY <1>2, <1>3, <1>4
<1> QED BY <1>1, <1>2, <1>5

\* A flush that ends takes one from the count of its chunk.
LEMMA CountRemoved ==
  ASSUME NEW F, IsFiniteSet(F), NEW f \in F, NEW c,
         NEW G, G = F \ {f}
  PROVE  /\ IsFiniteSet(G)
         /\ Cardinality(In(G, c))
              = Cardinality(In(F, c))
                - (IF f.chunk = c THEN 1 ELSE 0)
         /\ Cardinality(In(F, c)) \in Nat
         /\ Cardinality(In(G, c)) \in Nat
         /\ Cardinality(In(G, c)) = 0 => \A h \in G : h.chunk /= c
<1> USE DEF In
<1> DEFINE A == In(F, c)
           B == In(G, c)
<1>1. IsFiniteSet(G)
  BY FS_RemoveElement
<1>2. IsFiniteSet(A) /\ Cardinality(A) \in Nat
  BY FS_Subset, FS_CardinalityType
<1>3. IsFiniteSet(B) /\ Cardinality(B) \in Nat
  BY <1>1, FS_Subset, FS_CardinalityType
<1>4. Cardinality(B) = 0 => B = {}
  BY <1>3, FS_EmptySet
<1>5. f.chunk = c => Cardinality(B) = Cardinality(A) - 1
  <2> HAVE f.chunk = c
  <2>1. B = A \ {f} /\ f \in A
    OBVIOUS
  <2> QED BY <1>2, <2>1, FS_RemoveElement
<1>6. f.chunk /= c => B = A
  OBVIOUS
<1>7. Cardinality(B) = Cardinality(A) - (IF f.chunk = c THEN 1 ELSE 0)
  <2> HIDE DEF A, B
  <2> QED BY <1>2, <1>3, <1>5, <1>6
<1>8. Cardinality(B) = 0 => \A h \in G : h.chunk /= c
  BY <1>4
<1> QED BY <1>1, <1>2, <1>3, <1>7, <1>8

\* A task without users has no flush.
LEMMA NoUsersNoFlush ==
  ASSUME IndInv, NEW c \in Chunks, users[c] = 0
  PROVE  \A f \in flushes : f.chunk /= c
<1>1. IsFiniteSet(FlushesOf(c))
  BY FS_Subset DEF IndInv, FlushesOf
<1>2. Cardinality(FlushesOf(c)) = 0
  BY DEF IndInv, UsersCount
<1>3. FlushesOf(c) = {}
  BY <1>1, <1>2, FS_EmptySet
<1> QED BY <1>3 DEF FlushesOf

(***************************************************************************)
(* The steps of a flush: FlushStart, FlushEmpty, WorkerCreateFails,        *)
(* FlushReturn and WorkerForward replace one flush by its next stage.      *)
(***************************************************************************)
\* A flush that moves to its next stage keeps the invariant.
LEMMA FlushReplaced ==
  ASSUME IndInv, NEW f \in flushes, NEW g \in Flush,
         g.chunk = f.chunk, g.out = f.out,
         g.stage \in {"worker", "returned"} => g.task_id = tid[f.chunk],
         flushes' = (flushes \ {f}) \cup {g},
         route' \in PerRoute({"NONE", "INACTIVE", "ACTIVE", "DROPPED"}),
         UNCHANGED <<chunkVars, task_map, tid, users, retryVars, tries,
                     loopVars, exitVars, metricVars>>
  PROVE  IndInv'
<1> USE DEF chunkVars, retryVars, loopVars, exitVars, metricVars
<1>1. TypeOK'
  BY DEF IndInv, TypeOK
<1>2. g \notin flushes \ {f}
  BY DEF IndInv, OneFlight
<1>3. \A c, o : InFlight(c, o)' <=> InFlight(c, o)
  BY DEF InFlight
<1>4. IsFiniteSet(flushes')
  BY <1>2, CountReplaced DEF IndInv
<1>5. UsersCount'
  <2> SUFFICES ASSUME NEW c \in Chunks
               PROVE  users'[c] = Cardinality(FlushesOf(c)')
    BY DEF UsersCount
  <2>a. FlushesOf(c)' = In(flushes', c)
    BY DEF FlushesOf, In
  <2>f. IsFiniteSet(flushes)
    BY DEF IndInv
  <2>b. Cardinality(In(flushes', c)) = Cardinality(In(flushes, c))
    BY <1>2, <2>f, CountReplaced
  <2>1. Cardinality(FlushesOf(c)') = Cardinality(FlushesOf(c))
    BY <2>a, <2>b DEF FlushesOf, In
  <2> QED BY <2>1 DEF IndInv, UsersCount
<1>6. TaskMapExact' /\ RequestsBacked'
  BY DEF IndInv, TaskMapExact, RequestsBacked
<1>7. DispatchExact'
  BY <1>3 DEF IndInv, DispatchExact
<1>8. NoStaleTask'
  BY DEF IndInv, NoStaleTask
<1>9. OneFlight'
  BY <1>3 DEF IndInv, OneFlight
<1> QED BY <1>1, <1>4, <1>5, <1>6, <1>7, <1>8, <1>9 DEF IndInv

(***************************************************************************)
(* task_flush: StartRoute and RetryFlush add a flush on a route that has   *)
(* neither a flush nor, from then on, a request.                           *)
(***************************************************************************)
\* task_flush keeps the invariant on a route that is not in flight.
LEMMA FlushAdded ==
  ASSUME IndInv, NEW c \in Chunks, NEW o \in Outputs,
         tid[c] /= NoId, ~InFlight(c, o),
         task_flush(c, o),
         requests' \in PerRoute(Nat), requests'[c][o] = 0,
         \A d \in Chunks, p \in Outputs :
            requests'[d][p] = requests[d][p] \/ (d = c /\ p = o),
         to_start' \in SUBSET to_start, <<c, o>> \notin to_start',
         UNCHANGED <<chunkVars, task_map, tid, route, attempts, phase,
                     to_create, stop_event, exitVars, metricVars>>
  PROVE  IndInv'
<1> USE DEF chunkVars, exitVars, metricVars
<1> DEFINE g == NewFlush(c, o)
<1>0. TypeOK /\ tries[c][o] \in Nat /\ users[c] \in Nat
  BY DEF IndInv, TypeOK, PerRoute
<1>1. g \in Flush /\ g.chunk = c /\ g.out = o /\ g.stage = "queued"
  BY <1>0 DEF NewFlush, Flush, Stages, Returns, NoId
<1>2. flushes' = flushes \cup {g}
  BY DEF task_flush
<1> HIDE DEF g
<1>3. users' \in [Chunks -> Nat] /\ tries' \in PerRoute(Nat)
  BY <1>0 DEF task_flush, TypeOK, PerRoute
<1>4. TypeOK'
  BY <1>0, <1>1, <1>2, <1>3 DEF TypeOK, Routes
<1>5. g \notin flushes
  BY <1>1 DEF InFlight
<1>6. IsFiniteSet(flushes')
  BY <1>2, <1>5, CountAdded DEF IndInv
<1>7. UsersCount'
  <2> SUFFICES ASSUME NEW d \in Chunks
               PROVE  users'[d] = Cardinality(FlushesOf(d)')
    BY DEF UsersCount
  <2>a. FlushesOf(d)' = In(flushes', d)
    BY DEF FlushesOf, In
  <2>f. IsFiniteSet(flushes)
    BY DEF IndInv
  <2>b. Cardinality(In(flushes', d))
          = Cardinality(In(flushes, d)) + (IF g.chunk = d THEN 1 ELSE 0)
    BY <1>2, <1>5, <2>f, CountAdded
  <2>1. Cardinality(FlushesOf(d)')
          = Cardinality(FlushesOf(d)) + (IF g.chunk = d THEN 1 ELSE 0)
    BY <2>a, <2>b DEF FlushesOf, In
  <2>2. users[d] = Cardinality(FlushesOf(d)) /\ users[d] \in Nat
    BY <1>0 DEF IndInv, UsersCount, TypeOK
  <2>3. users'[d] = users[d] + (IF c = d THEN 1 ELSE 0)
    BY <1>0, <2>2 DEF task_flush, TypeOK
  <2> QED BY <1>1, <2>1, <2>2, <2>3
<1>8. \A d, p : InFlight(d, p)' <=> InFlight(d, p) \/ (d = c /\ p = o)
  BY <1>1, <1>2 DEF InFlight
<1>9. TaskMapExact'
  BY DEF IndInv, TaskMapExact
<1>10. RequestsBacked'
  <2>1. \A d \in Chunks, p \in Outputs :
           requests'[d][p] = requests[d][p] \/ requests'[d][p] = 0
    OBVIOUS
  <2> QED BY <2>1 DEF IndInv, RequestsBacked
<1>11. DispatchExact'
  <2>1. \A d \in Chunks, p \in Outputs : <<d, p>> \in to_start' =>
           tid'[d] /= NoId /\ requests'[d][p] = 0 /\ ~InFlight(d, p)'
    BY <1>8 DEF IndInv, DispatchExact
  <2> QED BY <2>1 DEF IndInv, DispatchExact
<1>12. NoStaleTask'
  <2>1. tid[c] \in TaskIds /\ task_map[tid[c]] = c
    BY <1>0 DEF IndInv, TaskMapExact, TypeOK
  <2> QED BY <1>1, <1>2, <2>1 DEF IndInv, NoStaleTask
<1>13. OneFlight'
  <2>1. \A h \in flushes : h.chunk /= c \/ h.out /= o
    BY DEF InFlight
  <2>2. \A h, k \in flushes' : h.chunk = k.chunk /\ h.out = k.out => h = k
    BY <1>1, <1>2, <2>1 DEF IndInv, OneFlight
  <2>3. \A d \in Chunks, p \in Outputs : requests'[d][p] > 0 => ~InFlight(d, p)'
    BY <1>8 DEF IndInv, OneFlight
  <2> QED BY <2>2, <2>3 DEF OneFlight
<1> QED BY <1>4, <1>6, <1>7, <1>9, <1>10, <1>11, <1>12, <1>13 DEF IndInv

(***************************************************************************)
(* The handlers that end a flush, a retry or a task.  Bookkeeping is what  *)
(* IndInv says beyond the types and the count of the users.                *)
(***************************************************************************)
Bookkeeping == TaskMapExact /\ DispatchExact /\ NoStaleTask /\ OneFlight
               /\ RequestsBacked

\* The variables a handler counts in, besides the task and its retries.
CountersTyped ==
    /\ users \in [Chunks -> Nat]
    /\ tries \in PerRoute(Nat)
    /\ processed \in PerRoute(Nat)
    /\ dropped \in PerRoute(Nat)
    /\ dlq \in SUBSET Routes

\* flb_task_destroy on a task without flushes.
LEMMA TaskDestroyed ==
  ASSUME IndInv, NEW c \in Chunks, tid[c] /= NoId, task_destroy(c),
         phase = "idle",
         flushes' \in SUBSET flushes, \A h \in flushes' : h.chunk /= c,
         UNCHANGED <<loopVars, exitVars>>, CountersTyped'
  PROVE  TypeOK' /\ Bookkeeping'
<1> USE DEF loopVars, exitVars
<1>0. TypeOK /\ tid[c] \in TaskIds /\ task_map[tid[c]] = c
  BY DEF IndInv, TypeOK, TaskMapExact
<1>1. requests' \in PerRoute(Nat)
  <2>1. RequestsAfterDestroy(c) \in [Outputs -> Nat]
    BY <1>0 DEF RequestsAfterDestroy, Invalidated, TypeOK, PerRoute
  <2> QED BY <1>0, <2>1 DEF task_destroy, TypeOK, PerRoute
<1>2. attempts' \in PerRoute(Nat)
  BY <1>0 DEF task_destroy, TypeOK, PerRoute, NoRetries
<1>3. route' \in PerRoute({"NONE", "INACTIVE", "ACTIVE", "DROPPED"})
  BY <1>0 DEF task_destroy, TypeOK, PerRoute, NoRoutes
<1>4. TypeOK'
  BY <1>0, <1>1, <1>2, <1>3 DEF task_destroy, TypeOK, CountersTyped
<1>5. \A d \in Chunks : d /= c =>
        /\ tid'[d] = tid[d] /\ chunk'[d] = chunk[d]
        /\ attempts'[d] = attempts[d] /\ requests'[d] = requests[d]
  BY <1>0 DEF task_destroy, TypeOK, PerRoute
<1>6. tid'[c] = NoId /\ chunk'[c] = "gone" /\ attempts'[c] = NoRetries
  BY <1>0 DEF task_destroy, TypeOK, PerRoute
<1>7. \A i \in TaskIds : task_map'[i] = IF i = tid[c] THEN NULL ELSE task_map[i]
  BY <1>0 DEF task_destroy, TypeOK
<1>8. \A o \in Outputs : requests'[c][o] = 0
  <2> SUFFICES ASSUME NEW o \in Outputs PROVE requests'[c][o] = 0
    OBVIOUS
  <2>1. requests[c][o] \in Nat /\ attempts[c][o] \in Nat
    BY <1>0 DEF TypeOK, PerRoute
  <2>2. requests[c][o] <= 1 /\ (requests[c][o] = 1 => attempts[c][o] > 0)
    BY DEF IndInv, RequestsBacked
  <2>3. requests'[c][o] = IF attempts[c][o] > 0 THEN Invalidated(requests[c][o])
                                                ELSE requests[c][o]
    BY <1>0 DEF task_destroy, RequestsAfterDestroy, TypeOK, PerRoute
  <2> QED BY <2>1, <2>2, <2>3 DEF Invalidated
<1>9. TaskMapExact'
  <2>1. \A d \in Chunks : tid'[d] /= NoId => task_map'[tid'[d]] = d
    BY <1>0, <1>5, <1>6, <1>7 DEF IndInv, TaskMapExact, TypeOK
  <2>2. \A i \in TaskIds : task_map'[i] \in Chunks => tid'[task_map'[i]] = i
    BY <1>0, <1>5, <1>7, ConstantsAssumption DEF IndInv, TaskMapExact
  <2>3. \A d \in Chunks : tid'[d] /= NoId <=> chunk'[d] = "busy"
    BY <1>5, <1>6 DEF IndInv, TaskMapExact
  <2>4. \A d \in Chunks, o \in Outputs : attempts'[d][o] > 0 => tid'[d] /= NoId
    BY <1>5, <1>6 DEF IndInv, TaskMapExact, NoRetries
  <2> QED BY <2>1, <2>2, <2>3, <2>4 DEF TaskMapExact
<1>10. DispatchExact'
  BY DEF IndInv, DispatchExact
<1>11. NoStaleTask'
  <2> SUFFICES ASSUME NEW h \in flushes'
               PROVE  /\ tid'[h.chunk] \in TaskIds
                      /\ task_map'[tid'[h.chunk]] = h.chunk
                      /\ h.stage \in {"worker", "returned"}
                            => h.task_id = tid'[h.chunk]
    BY DEF NoStaleTask
  <2>1. h.chunk \in Chunks /\ h.chunk /= c /\ h \in flushes
    BY <1>0 DEF TypeOK, Flush
  <2>2. tid[h.chunk] /= tid[c]
    BY <1>0, <2>1 DEF IndInv, NoStaleTask
  <2> QED BY <1>5, <1>7, <2>1, <2>2 DEF IndInv, NoStaleTask
<1>12. OneFlight'
  BY <1>5, <1>8 DEF IndInv, OneFlight, InFlight
<1>13. RequestsBacked'
  BY <1>5, <1>8 DEF IndInv, RequestsBacked
<1> QED BY <1>4, <1>9, <1>10, <1>11, <1>12, <1>13 DEF Bookkeeping

\* flb_task_retry_destroy alone: the task, its id and its routes stay.
LEMMA RetryGone ==
  ASSUME IndInv, NEW c \in Chunks, NEW o \in Outputs, retry_destroy(c, o),
         phase = "idle", flushes' \in SUBSET flushes,
         UNCHANGED <<chunkVars, task_map, tid, route, loopVars, exitVars>>,
         CountersTyped'
  PROVE  TypeOK' /\ Bookkeeping'
<1> USE DEF chunkVars, loopVars, exitVars
<1>0. TypeOK
  BY DEF IndInv
<1>1. \A d \in Chunks, p \in Outputs :
        requests[d][p] \in Nat /\ attempts[d][p] \in Nat
  BY <1>0 DEF TypeOK, PerRoute
<1>2. /\ attempts' \in PerRoute(Nat)
      /\ \A d \in Chunks, p \in Outputs :
            attempts'[d][p] = IF d = c /\ p = o THEN 0 ELSE attempts[d][p]
  BY <1>0 DEF retry_destroy, RetriesWithout, TypeOK, PerRoute
<1>3. /\ requests' \in PerRoute(Nat)
      /\ \A d \in Chunks, p \in Outputs :
            requests'[d][p] = IF d = c /\ p = o /\ attempts[c][o] > 0
                              THEN Invalidated(requests[c][o])
                              ELSE requests[d][p]
  <2>1. /\ RequestsWithout(c, o) \in [Outputs -> Nat]
        /\ \A p \in Outputs :
              RequestsWithout(c, o)[p] = IF p = o /\ attempts[c][o] > 0
                                         THEN Invalidated(requests[c][o])
                                         ELSE requests[c][p]
    BY <1>0, <1>1 DEF RequestsWithout, Invalidated, TypeOK, PerRoute
  <2>2. requests' = [requests EXCEPT ![c] = RequestsWithout(c, o)]
    BY DEF retry_destroy
  <2> QED BY <1>0, <2>1, <2>2 DEF TypeOK, PerRoute
<1>4. \A d \in Chunks, p \in Outputs :
        /\ requests[d][p] <= 1
        /\ requests[d][p] = 1 => attempts[d][p] > 0 /\ tid[d] /= NoId
  BY DEF IndInv, RequestsBacked
<1>5. requests'[c][o] = 0
  BY <1>1, <1>3, <1>4 DEF Invalidated
<1>6. TypeOK'
  BY <1>0, <1>2, <1>3 DEF TypeOK, CountersTyped
<1>7. TaskMapExact'
  BY <1>2 DEF IndInv, TaskMapExact
<1>8. DispatchExact'
  BY DEF IndInv, DispatchExact
<1>9. NoStaleTask'
  BY DEF IndInv, NoStaleTask
<1>10. \A d \in Chunks, p \in Outputs :
         requests'[d][p] = 0 \/ (requests'[d][p] = requests[d][p]
                                 /\ attempts'[d][p] = attempts[d][p])
  BY <1>2, <1>3, <1>5
<1>11. OneFlight'
  BY <1>10 DEF IndInv, OneFlight, InFlight
<1>12. RequestsBacked'
  BY <1>4, <1>10 DEF RequestsBacked
<1> QED BY <1>6, <1>7, <1>8, <1>9, <1>11, <1>12 DEF Bookkeeping

\* A handled event takes its flush and one user from the task; a task left
\* without users has no other flush.
LEMMA UserReleased ==
  ASSUME IndInv, NEW f \in flushes, NEW c \in Chunks, c = f.chunk,
         flushes' = flushes \ {f}, users' = [users EXCEPT ![c] = @ - 1]
  PROVE  /\ UsersCount' /\ IsFiniteSet(flushes')
         /\ users' \in [Chunks -> Nat]
         /\ users[c] - 1 = 0 => \A h \in flushes' : h.chunk /= c
<1>0. TypeOK /\ IsFiniteSet(flushes)
  BY DEF IndInv
<1>1. \A d \in Chunks :
        /\ Cardinality(In(flushes', d))
              = Cardinality(In(flushes, d)) - (IF f.chunk = d THEN 1 ELSE 0)
        /\ Cardinality(In(flushes, d)) \in Nat
        /\ Cardinality(In(flushes', d)) \in Nat
        /\ Cardinality(In(flushes', d)) = 0 => \A h \in flushes' : h.chunk /= d
  BY <1>0, CountRemoved
<1>2. IsFiniteSet(flushes')
  BY <1>0, CountRemoved
<1>3. \A d \in Chunks : /\ users[d] = Cardinality(In(flushes, d))
                        /\ FlushesOf(d)' = In(flushes', d)
  BY DEF IndInv, UsersCount, FlushesOf, In
<1>4. \A d \in Chunks : users'[d] = Cardinality(In(flushes', d))
  <2> SUFFICES ASSUME NEW d \in Chunks
               PROVE  users'[d] = Cardinality(In(flushes', d))
    OBVIOUS
  <2>1. users'[d] = users[d] - (IF d = c THEN 1 ELSE 0)
    BY <1>0, <1>1, <1>3 DEF TypeOK
  <2> QED BY <1>1, <1>3, <2>1
<1>5. UsersCount'
  BY <1>3, <1>4 DEF UsersCount
<1>6. users' \in [Chunks -> Nat]
  <2>1. users[c] - 1 \in Nat
    BY <1>1, <1>3
  <2> QED BY <1>0, <2>1 DEF TypeOK
<1>7. users'[c] = users[c] - 1
  BY <1>0 DEF TypeOK
<1> QED BY <1>1, <1>2, <1>4, <1>5, <1>6, <1>7

\* FinishRoute: HandleOk, HandleError, HandleRetryRefused and
\* HandleRetryUnscheduled differ in what they count only.
LEMMA RouteFinished ==
  ASSUME IndInv, NEW f \in flushes, NEW c \in Chunks, EventOf(f, c),
         FinishRoute(c, f.out), UNCHANGED <<tries, loopVars, exitVars>>,
         processed' \in PerRoute(Nat), dropped' \in PerRoute(Nat),
         dlq' \in SUBSET Routes
  PROVE  IndInv'
<1>0. TypeOK /\ f \in Flush /\ f.out \in Outputs /\ phase = "idle"
  BY DEF IndInv, TypeOK, EventOf, EngineIdle, Flush
<1>1. c = f.chunk /\ tid[c] \in TaskIds /\ tid[c] /= NoId
  <2>1. tid[f.chunk] \in TaskIds /\ f.task_id = tid[f.chunk]
    BY DEF IndInv, NoStaleTask, EventOf
  <2> QED BY <2>1, ConstantsAssumption
      DEF IndInv, NoStaleTask, EventOf, TaskIds, NoId
<1>2. flushes' = flushes \ {f} /\ users' = [users EXCEPT ![c] = @ - 1]
  BY DEF EventOf, FinishRoute
<1>3. /\ UsersCount' /\ IsFiniteSet(flushes')
      /\ users' \in [Chunks -> Nat]
      /\ users[c] - 1 = 0 => \A h \in flushes' : h.chunk /= c
  BY <1>1, <1>2, UserReleased
<1>4. CountersTyped'
  BY <1>0, <1>3 DEF CountersTyped, TypeOK
<1>5. TypeOK' /\ Bookkeeping'
  <2>1. CASE users[c] - 1 = 0 /\ RetriesWithout(c, f.out) = NoRetries
    <3>1. task_destroy(c)
      BY <2>1 DEF FinishRoute, users_release
    <3> QED BY <1>0, <1>1, <1>2, <1>3, <1>4, <2>1, <3>1, TaskDestroyed
  <2>2. CASE ~(users[c] - 1 = 0 /\ RetriesWithout(c, f.out) = NoRetries)
    <3>1. /\ retry_destroy(c, f.out)
          /\ UNCHANGED <<chunkVars, task_map, tid, route>>
      BY <2>2 DEF FinishRoute, users_release
    <3> QED BY <1>0, <1>2, <1>4, <3>1, RetryGone
  <2> QED BY <2>1, <2>2
<1> QED BY <1>3, <1>5 DEF IndInv, Bookkeeping

\* A retry the scheduler takes: its route has no flush any more.
LEMMA RetryScheduled ==
  ASSUME IndInv, NEW f \in flushes, NEW c \in Chunks, HandleRetry(f, c)
  PROVE  IndInv'
<1> USE DEF chunkVars, loopVars, exitVars, metricVars
<1> DEFINE o == f.out
<1>0. TypeOK /\ f \in Flush /\ o \in Outputs /\ phase = "idle"
  BY DEF IndInv, TypeOK, HandleRetry, EventOf, EngineIdle, Flush
<1>1. c = f.chunk /\ tid[c] \in TaskIds /\ tid[c] /= NoId
  <2>1. tid[f.chunk] \in TaskIds /\ f.task_id = tid[f.chunk]
    BY DEF IndInv, NoStaleTask, EventOf, HandleRetry
  <2> QED BY <2>1, ConstantsAssumption
      DEF IndInv, NoStaleTask, EventOf, HandleRetry, TaskIds, NoId
<1>2. flushes' = flushes \ {f} /\ users' = [users EXCEPT ![c] = @ - 1]
  BY DEF EventOf, HandleRetry
<1>3. UsersCount' /\ IsFiniteSet(flushes') /\ users' \in [Chunks -> Nat]
  BY <1>1, <1>2, UserReleased
<1>4. \A d \in Chunks, p \in Outputs :
        requests[d][p] \in Nat /\ attempts[d][p] \in Nat
  BY <1>0 DEF TypeOK, PerRoute
<1>5. /\ attempts' \in PerRoute(Nat)
      /\ \A d \in Chunks, p \in Outputs :
            attempts'[d][p] = attempts[d][p] + (IF d = c /\ p = o THEN 1 ELSE 0)
  BY <1>0, <1>4 DEF HandleRetry, TypeOK, PerRoute
<1>6. /\ requests' \in PerRoute(Nat)
      /\ \A d \in Chunks, p \in Outputs :
            requests'[d][p] = requests[d][p] + (IF d = c /\ p = o THEN 1 ELSE 0)
  BY <1>0, <1>4 DEF HandleRetry, TypeOK, PerRoute
<1>7. UNCHANGED <<chunkVars, task_map, tid, route, tries, loopVars, exitVars,
                  metricVars>>
  BY DEF HandleRetry
<1>8. requests[c][o] = 0
  <2>1. InFlight(c, o)
    BY <1>1 DEF InFlight
  <2> QED BY <1>0, <1>4, <2>1 DEF IndInv, OneFlight
<1>9. \A d, p : InFlight(d, p)' => InFlight(d, p) /\ ~(d = c /\ p = o)
  BY <1>1, <1>2 DEF InFlight, IndInv, OneFlight
<1>10. TypeOK'
  BY <1>0, <1>2, <1>3, <1>5, <1>6, <1>7 DEF TypeOK
<1>11. TaskMapExact'
  <2>1. \A d \in Chunks, p \in Outputs : attempts'[d][p] > 0 => tid'[d] /= NoId
    BY <1>1, <1>4, <1>5, <1>7 DEF IndInv, TaskMapExact
  <2> QED BY <1>7, <2>1 DEF IndInv, TaskMapExact
<1>12. DispatchExact'
  BY <1>0, <1>7 DEF IndInv, DispatchExact
<1>13. NoStaleTask'
  BY <1>2, <1>7 DEF IndInv, NoStaleTask
<1>14. OneFlight'
  <2>1. \A d \in Chunks, p \in Outputs : requests'[d][p] > 0 => ~InFlight(d, p)'
    BY <1>4, <1>6, <1>9 DEF IndInv, OneFlight
  <2> QED BY <1>2, <2>1 DEF IndInv, OneFlight
<1>15. RequestsBacked'
  <2> SUFFICES ASSUME NEW d \in Chunks, NEW p \in Outputs
               PROVE  /\ requests'[d][p] <= 1
                      /\ requests'[d][p] = 1 => attempts'[d][p] > 0
                                                /\ tid'[d] /= NoId
    BY DEF RequestsBacked
  <2>1. CASE d = c /\ p = o
    BY <1>1, <1>4, <1>5, <1>6, <1>7, <1>8, <2>1
  <2>2. CASE ~(d = c /\ p = o)
    BY <1>4, <1>5, <1>6, <1>7, <2>2 DEF IndInv, RequestsBacked
  <2> QED BY <2>1, <2>2
<1> QED BY <1>3, <1>10, <1>11, <1>12, <1>13, <1>14, <1>15 DEF IndInv

(***************************************************************************)
(* The steps that leave flushes and users alone.                           *)
(***************************************************************************)
\* Without a change of flushes and users the count stays exact.
LEMMA FlushesKept ==
  ASSUME IndInv, UNCHANGED <<users, flushes>>
  PROVE  /\ UsersCount' /\ IsFiniteSet(flushes')
         /\ \A c, o : InFlight(c, o)' <=> InFlight(c, o)
BY DEF IndInv, UsersCount, FlushesOf, InFlight

\* The dispatch loop and the shutdown timer start, advance and end.
LEMMA LoopMoves ==
  ASSUME IndInv,
         UNCHANGED <<chunkVars, taskVars, retryVars, flushVars, to_start,
                     metricVars>>,
         phase' \in {"idle", "create", "start"},
         to_create' \in SUBSET {c \in Chunks : chunk[c] = "idle"},
         phase' /= "create" => to_create' = {},
         phase' = "idle" => to_start = {},
         phase' /= "idle" => engine' \in {"running", "stopping"},
         stop_event' \in BOOLEAN,
         engine' \in {"running", "stopping", "exiting", "stopped"},
         grace_count' \in Nat
  PROVE  IndInv'
<1> USE DEF chunkVars, taskVars, retryVars, flushVars, metricVars
<1>1. /\ UsersCount' /\ IsFiniteSet(flushes')
      /\ \A c, o : InFlight(c, o)' <=> InFlight(c, o)
  BY FlushesKept
<1>2. TypeOK'
  BY DEF IndInv, TypeOK
<1>3. TaskMapExact' /\ NoStaleTask' /\ RequestsBacked'
  BY DEF IndInv, TaskMapExact, NoStaleTask, RequestsBacked
<1>4. DispatchExact'
  BY <1>1 DEF IndInv, DispatchExact
<1>5. OneFlight'
  BY <1>1 DEF IndInv, OneFlight
<1> QED BY <1>1, <1>2, <1>3, <1>4, <1>5 DEF IndInv

\* A new chunk has no task, flush, retry or request.
LEMMA AppendKeeps ==
  ASSUME IndInv, NEW c \in Chunks, NEW r \in SUBSET Outputs, AppendChunk(c, r)
  PROVE  IndInv'
<1> USE DEF AppendChunk, taskVars, retryVars, flushVars, loopVars, exitVars,
            metricVars
<1>1. /\ UsersCount' /\ IsFiniteSet(flushes')
      /\ \A d, o : InFlight(d, o)' <=> InFlight(d, o)
  BY FlushesKept
<1>2. TypeOK'
  BY DEF IndInv, TypeOK
<1>3. \A d \in Chunks : chunk'[d] = IF d = c THEN "idle" ELSE chunk[d]
  BY DEF IndInv, TypeOK
<1>4. TaskMapExact'
  BY <1>3 DEF IndInv, TaskMapExact
<1>5. NoStaleTask' /\ RequestsBacked'
  BY DEF IndInv, NoStaleTask, RequestsBacked
<1>6. DispatchExact'
  BY <1>1, <1>3 DEF IndInv, DispatchExact, EngineIdle
<1>7. OneFlight'
  BY <1>1 DEF IndInv, OneFlight
<1> QED BY <1>1, <1>2, <1>4, <1>5, <1>6, <1>7 DEF IndInv

\* flb_task_set_route_status keeps the type of the routes.
LEMMA RouteMarked ==
  ASSUME TypeOK, NEW c \in Chunks, NEW o \in Outputs,
         NEW status \in {"NONE", "INACTIVE", "ACTIVE", "DROPPED"},
         set_route_status(c, o, status)
  PROVE  route' \in PerRoute({"NONE", "INACTIVE", "ACTIVE", "DROPPED"})
<1>1. CASE route[c][o] = "NONE"
  BY <1>1 DEF set_route_status, TypeOK
<1>2. CASE route[c][o] /= "NONE"
  <2>1. route' = [route EXCEPT ![c][o] = status]
    BY <1>2 DEF set_route_status
  <2> QED BY <2>1 DEF TypeOK, PerRoute
<1> QED BY <1>1, <1>2

\* Eviction destroys a task only when no flush holds it.
LEMMA ReleaseSpaceKeeps ==
  ASSUME IndInv, NEW d \in Chunks, NEW c \in Chunks, NEW o \in Outputs,
         ReleaseSpace(d, c, o)
  PROVE  IndInv'
<1> USE DEF flushVars, loopVars, exitVars
<1>0. /\ TypeOK /\ phase = "idle"
      /\ UNCHANGED <<users, flushVars, loopVars, exitVars, processed, dlq>>
  BY DEF IndInv, ReleaseSpace, EngineIdle
<1>1. /\ UsersCount' /\ IsFiniteSet(flushes')
      /\ \A e, p : InFlight(e, p)' <=> InFlight(e, p)
  BY <1>0, FlushesKept
<1>2. dropped' \in PerRoute(Nat)
  BY <1>0 DEF ReleaseSpace, Count, TypeOK, PerRoute
<1>3. CountersTyped'
  BY <1>0, <1>2 DEF CountersTyped, TypeOK
<1>4. CASE users[c] = 0 /\ mask[c] = {o} /\ tid[c] /= NoId
  <2>1. task_destroy(c)
    BY <1>4 DEF ReleaseSpace
  <2>2. \A f \in flushes : f.chunk /= c
    BY <1>4, NoUsersNoFlush
  <2>3. TypeOK' /\ Bookkeeping'
    BY <1>0, <1>3, <1>4, <2>1, <2>2, TaskDestroyed
  <2> QED BY <1>1, <2>3 DEF IndInv, Bookkeeping
<1>5. CASE users[c] = 0 /\ mask[c] = {o} /\ tid[c] = NoId
  <2>1. /\ chunk' = [chunk EXCEPT ![c] = "gone"]
        /\ mask' = [mask EXCEPT ![c] = {}]
        /\ UNCHANGED <<routed, task_map, tid, route, retryVars>>
    BY <1>5 DEF ReleaseSpace
  <2>2. TypeOK'
    BY <1>0, <1>3, <2>1 DEF TypeOK, CountersTyped, retryVars
  <2>3. \A e \in Chunks : chunk'[e] = IF e = c THEN "gone" ELSE chunk[e]
    BY <1>0, <2>1 DEF TypeOK
  <2>4. TaskMapExact'
    BY <1>5, <2>1, <2>3 DEF IndInv, TaskMapExact, retryVars
  <2>5. DispatchExact' /\ NoStaleTask' /\ RequestsBacked'
    BY <1>0, <2>1
    DEF IndInv, DispatchExact, NoStaleTask, RequestsBacked, retryVars
  <2>6. OneFlight'
    BY <1>0, <1>1, <2>1 DEF IndInv, OneFlight, retryVars
  <2> QED BY <1>1, <2>2, <2>4, <2>5, <2>6 DEF IndInv
<1>6. CASE ~(users[c] = 0 /\ mask[c] = {o})
  <2>1. /\ mask' = [mask EXCEPT ![c] = @ \ {o}]
        /\ UNCHANGED route \/ set_route_status(c, o, "DROPPED")
        /\ UNCHANGED <<chunk, routed, task_map, tid, retryVars>>
    BY <1>6 DEF ReleaseSpace
  <2>2. route' \in PerRoute({"NONE", "INACTIVE", "ACTIVE", "DROPPED"})
    BY <1>0, <2>1, RouteMarked DEF TypeOK
  <2>3. TypeOK'
    BY <1>0, <1>3, <2>1, <2>2 DEF TypeOK, CountersTyped, retryVars
  <2>4. TaskMapExact' /\ DispatchExact' /\ NoStaleTask' /\ RequestsBacked'
    BY <1>0, <2>1
    DEF IndInv, TaskMapExact, DispatchExact, NoStaleTask, RequestsBacked,
        retryVars
  <2>5. OneFlight'
    BY <1>0, <1>1, <2>1 DEF IndInv, OneFlight, retryVars
  <2> QED BY <1>1, <2>3, <2>4, <2>5 DEF IndInv
<1> QED BY <1>4, <1>5, <1>6

\* A task that could not be allocated leaves its id behind, owned by nobody.
LEMMA CreateTaskFailsKeeps ==
  ASSUME IndInv, NEW c \in Chunks, NEW i \in TaskIds, CreateTaskFails(c, i)
  PROVE  IndInv'
<1> USE DEF CreateTaskFails, chunkVars, retryVars, flushVars, exitVars,
            metricVars
<1>1. /\ UsersCount' /\ IsFiniteSet(flushes')
      /\ \A d, o : InFlight(d, o)' <=> InFlight(d, o)
  BY FlushesKept
<1>2. TypeOK'
  BY DEF IndInv, TypeOK
<1>3. /\ task_map[i] = NULL
      /\ \A j \in TaskIds : task_map'[j] = IF j = i THEN FREED ELSE task_map[j]
  BY DEF IndInv, TypeOK, get_task_id, FreeIds
<1>4. \A d \in Chunks : tid[d] /= i
  BY <1>3, ConstantsAssumption DEF IndInv, TaskMapExact, TaskIds, NoId
<1>5. TaskMapExact'
  <2>1. \A d \in Chunks : tid'[d] /= NoId => task_map'[tid'[d]] = d
    BY <1>3, <1>4 DEF IndInv, TaskMapExact, TypeOK
  <2>2. \A j \in TaskIds : task_map'[j] \in Chunks => tid'[task_map'[j]] = j
    BY <1>3, ConstantsAssumption DEF IndInv, TaskMapExact
  <2> QED BY <2>1, <2>2 DEF IndInv, TaskMapExact
<1>6. NoStaleTask'
  <2>1. \A f \in flushes : f.chunk \in Chunks
    BY DEF IndInv, TypeOK, Flush
  <2> QED BY <1>3, <1>4, <2>1 DEF IndInv, NoStaleTask
<1>7. DispatchExact'
  BY <1>1 DEF IndInv, DispatchExact
<1>8. OneFlight' /\ RequestsBacked'
  BY <1>1 DEF IndInv, OneFlight, RequestsBacked
<1> QED BY <1>1, <1>2, <1>5, <1>6, <1>7, <1>8 DEF IndInv

\* A new task takes a free id, and its routes wait for tasks_start.
LEMMA CreateTaskKeeps ==
  ASSUME IndInv, NEW c \in Chunks, NEW i \in TaskIds, CreateTask(c, i)
  PROVE  IndInv'
<1> USE DEF retryVars, flushVars, exitVars, metricVars
<1>0. /\ TypeOK /\ phase = "create" /\ c \in to_create /\ chunk[c] = "idle"
      /\ tid[c] = NoId
      /\ to_create' = to_create \ {c}
      /\ UNCHANGED <<mask, routed, users, retryVars, flushVars, phase,
                     stop_event, exitVars, metricVars>>
  BY DEF IndInv, DispatchExact, TaskMapExact, CreateTask
<1>1. /\ UsersCount' /\ IsFiniteSet(flushes')
      /\ \A d, o : InFlight(d, o)' <=> InFlight(d, o)
  BY <1>0, FlushesKept
<1>2. OneFlight'
  BY <1>0, <1>1 DEF IndInv, OneFlight
<1>r. PICK r \in TaskRoutes(c) :
        IF r = {}
        THEN /\ chunk' = [chunk EXCEPT ![c] = "gone"]
             /\ UNCHANGED <<task_map, tid, route, to_start>>
        ELSE /\ chunk' = [chunk EXCEPT ![c] = "busy"]
             /\ task_map' = [task_map EXCEPT ![i] = c]
             /\ tid' = [tid EXCEPT ![c] = i]
             /\ route' = [route EXCEPT ![c] =
                   [o \in Outputs |-> IF o \in r THEN "INACTIVE" ELSE "NONE"]]
             /\ to_start' = to_start \cup ({c} \X r)
  BY DEF CreateTask
<1>s. r \in SUBSET Outputs
  BY <1>0, <1>r DEF TaskRoutes, TypeOK
<1>3. CASE r = {}
  <2>1. /\ chunk' = [chunk EXCEPT ![c] = "gone"]
        /\ UNCHANGED <<task_map, tid, route, to_start>>
    BY <1>3, <1>r
  <2>2. TypeOK'
    BY <1>0, <2>1 DEF TypeOK
  <2>3. \A d \in Chunks : chunk'[d] = IF d = c THEN "gone" ELSE chunk[d]
    BY <1>0, <2>1 DEF TypeOK
  <2>4. TaskMapExact'
    BY <1>0, <2>1, <2>3 DEF IndInv, TaskMapExact
  <2>5. DispatchExact'
    BY <1>0, <1>1, <2>1, <2>3 DEF IndInv, DispatchExact, TypeOK
  <2>6. NoStaleTask' /\ RequestsBacked'
    BY <1>0, <2>1 DEF IndInv, NoStaleTask, RequestsBacked
  <2> QED BY <1>1, <1>2, <2>2, <2>4, <2>5, <2>6 DEF IndInv
<1>4. CASE r /= {}
  <2>1. /\ chunk' = [chunk EXCEPT ![c] = "busy"]
        /\ task_map' = [task_map EXCEPT ![i] = c]
        /\ tid' = [tid EXCEPT ![c] = i]
        /\ route' = [route EXCEPT ![c] =
              [o \in Outputs |-> IF o \in r THEN "INACTIVE" ELSE "NONE"]]
        /\ to_start' = to_start \cup ({c} \X r)
        /\ task_map[i] = NULL
    BY <1>4, <1>r DEF CreateTask, get_task_id, FreeIds
  <2>2. to_start' \in SUBSET Routes
    BY <1>0, <1>s, <2>1 DEF TypeOK, Routes
  <2>3. route' \in PerRoute({"NONE", "INACTIVE", "ACTIVE", "DROPPED"})
    BY <1>0, <2>1 DEF TypeOK, PerRoute
  <2>4. TypeOK'
    BY <1>0, <2>1, <2>2, <2>3 DEF TypeOK
  <2>5. /\ \A e \in Chunks : chunk'[e] = IF e = c THEN "busy" ELSE chunk[e]
        /\ \A e \in Chunks : tid'[e] = IF e = c THEN i ELSE tid[e]
        /\ \A j \in TaskIds : task_map'[j] = IF j = i THEN c ELSE task_map[j]
    BY <1>0, <2>1 DEF TypeOK
  <2>6. (\A j \in TaskIds : j /= NoId) /\ \A e \in Chunks : tid[e] /= i
    BY <2>1, ConstantsAssumption DEF IndInv, TaskMapExact, TaskIds, NoId
  <2>7. TaskMapExact'
    <3>1. \A e \in Chunks : tid'[e] /= NoId => task_map'[tid'[e]] = e
      BY <1>0, <2>5, <2>6 DEF IndInv, TaskMapExact, TypeOK
    <3>2. \A j \in TaskIds : task_map'[j] \in Chunks => tid'[task_map'[j]] = j
      BY <1>0, <2>5, <2>6 DEF IndInv, TaskMapExact
    <3>3. \A e \in Chunks : tid'[e] /= NoId <=> chunk'[e] = "busy"
      BY <2>5, <2>6 DEF IndInv, TaskMapExact
    <3>4. \A e \in Chunks, o \in Outputs : attempts'[e][o] > 0 => tid'[e] /= NoId
      BY <1>0, <2>5, <2>6 DEF IndInv, TaskMapExact
    <3> QED BY <3>1, <3>2, <3>3, <3>4 DEF TaskMapExact
  <2>8. \A f \in flushes : f.chunk \in Chunks /\ f.chunk /= c
    BY <1>0, ConstantsAssumption DEF IndInv, NoStaleTask, TypeOK, Flush, TaskIds, NoId
  <2>9. NoStaleTask'
    BY <1>0, <2>5, <2>6, <2>8 DEF IndInv, NoStaleTask
  <2>10. RequestsBacked'
    BY <1>0, <2>5, <2>6 DEF IndInv, RequestsBacked
  <2>11. \A o \in Outputs : requests[c][o] = 0 /\ ~InFlight(c, o)
    <3>1. \A o \in Outputs : ~InFlight(c, o)
      BY <2>8 DEF InFlight
    <3>2. \A o \in Outputs : requests[c][o] \in Nat
      BY <1>0 DEF TypeOK, PerRoute
    <3> QED BY <1>0, <3>1, <3>2 DEF IndInv, RequestsBacked
  <2>12. DispatchExact'
    <3>1. \A e \in Chunks, o \in Outputs : <<e, o>> \in to_start' =>
             <<e, o>> \in to_start \/ e = c
      BY <2>1
    <3>2. \A e \in Chunks, o \in Outputs : <<e, o>> \in to_start' =>
             tid'[e] /= NoId /\ requests'[e][o] = 0 /\ ~InFlight(e, o)'
      BY <1>0, <1>1, <2>5, <2>6, <2>11, <3>1 DEF IndInv, DispatchExact
    <3> QED BY <1>0, <2>5, <3>2 DEF IndInv, DispatchExact, TypeOK
  <2> QED BY <1>1, <1>2, <2>4, <2>7, <2>9, <2>10, <2>12 DEF IndInv
<1> QED BY <1>3, <1>4

\* A dispatch that cannot create a flush forgets the route.
LEMMA StartFailsKeeps ==
  ASSUME IndInv, to_start' \in SUBSET to_start,
         UNCHANGED <<chunkVars, taskVars, retryVars, flushVars, exitVars,
                     phase, to_create, stop_event, metricVars>>
  PROVE  IndInv'
<1> USE DEF chunkVars, taskVars, retryVars, flushVars, exitVars, metricVars
<1>1. /\ UsersCount' /\ IsFiniteSet(flushes')
      /\ \A c, o : InFlight(c, o)' <=> InFlight(c, o)
  BY FlushesKept
<1>2. TypeOK'
  BY DEF IndInv, TypeOK
<1>3. TaskMapExact' /\ NoStaleTask' /\ RequestsBacked'
  BY DEF IndInv, TaskMapExact, NoStaleTask, RequestsBacked
<1>4. DispatchExact'
  BY <1>1 DEF IndInv, DispatchExact
<1>5. OneFlight'
  BY <1>1 DEF IndInv, OneFlight
<1> QED BY <1>1, <1>2, <1>3, <1>4, <1>5 DEF IndInv

\* Requests that are replaced or lost: none is added to a route that has
\* none, unless its retry exists and no flush of its task is out.
LEMMA RequestsMove ==
  ASSUME IndInv, requests' \in PerRoute(Nat), phase' = "idle",
         to_create = {}, to_start = {},
         \A c \in Chunks, o \in Outputs :
            \/ requests'[c][o] \in {0, requests[c][o]}
            \/ /\ requests'[c][o] = 1 /\ attempts[c][o] > 0 /\ tid[c] /= NoId
               /\ users[c] = 0,
         stop_event' \in BOOLEAN,
         engine' \in {"running", "stopping", "exiting", "stopped"},
         UNCHANGED <<chunkVars, taskVars, attempts, flushVars, to_create,
                     to_start, grace_count, metricVars>>
  PROVE  IndInv'
<1> USE DEF chunkVars, taskVars, flushVars, metricVars
<1>1. /\ UsersCount' /\ IsFiniteSet(flushes')
      /\ \A c, o : InFlight(c, o)' <=> InFlight(c, o)
  BY FlushesKept
<1>2. TypeOK'
  BY DEF IndInv, TypeOK
<1>3. TaskMapExact' /\ NoStaleTask'
  BY DEF IndInv, TaskMapExact, NoStaleTask
<1>4. DispatchExact'
  BY DEF IndInv, DispatchExact
<1>5. \A c \in Chunks, o \in Outputs :
        users[c] = 0 => ~InFlight(c, o)
  BY NoUsersNoFlush DEF InFlight
<1>6. OneFlight'
  BY <1>1, <1>5 DEF IndInv, OneFlight
<1>7. RequestsBacked'
  BY DEF IndInv, RequestsBacked
<1> QED BY <1>1, <1>2, <1>3, <1>4, <1>6, <1>7 DEF IndInv

\* A retry that fires, with every way it can fail.
LEMMA DispatchRetryKeeps ==
  ASSUME IndInv, NEW c \in Chunks, NEW o \in Outputs, DispatchRetry(c, o)
  PROVE  IndInv'
<1>0. /\ TypeOK /\ RetryFires(c, o) /\ phase = "idle"
      /\ to_create = {} /\ to_start = {} /\ tid[c] /= NoId
  BY DEF IndInv, DispatchExact, DispatchRetry, RetryFlush, RetryReschedule,
         RetryDestroyed, RetryNotQueued, RetryFires, EngineIdle
<1>1. requests[c][o] = 1 /\ ~InFlight(c, o)
  <2>1. requests[c][o] \in Nat
    BY <1>0 DEF TypeOK, PerRoute
  <2>2. requests[c][o] > 0 /\ requests[c][o] <= 1
    BY <1>0 DEF IndInv, RequestsBacked, RetryFires
  <2> QED BY <2>1, <2>2 DEF IndInv, OneFlight
<1>2. LET done == [requests EXCEPT ![c][o] = @ - 1]
      IN  /\ done \in PerRoute(Nat) /\ done[c][o] = 0
          /\ \A d \in Chunks, p \in Outputs :
                done[d][p] = requests[d][p] \/ (d = c /\ p = o)
  BY <1>0, <1>1 DEF TypeOK, PerRoute
<1>3. CountersTyped
  BY <1>0 DEF TypeOK, CountersTyped
<1>4. CASE RetryFlush(c, o)
  <2> USE DEF loopVars
  <2>1. /\ task_flush(c, o)
        /\ requests' \in PerRoute(Nat) /\ requests'[c][o] = 0
        /\ \A d \in Chunks, p \in Outputs :
              requests'[d][p] = requests[d][p] \/ (d = c /\ p = o)
        /\ UNCHANGED <<chunkVars, task_map, tid, route, attempts, phase,
                       to_create, stop_event, exitVars, metricVars>>
        /\ to_start' = to_start
    BY <1>2, <1>4 DEF RetryFlush
  <2> QED BY <1>0, <1>1, <2>1, FlushAdded
<1>5. CASE RetryReschedule(c, o)
  <2>0. UNCHANGED <<users, flushVars, loopVars, exitVars, metricVars>>
    BY <1>5 DEF RetryReschedule
  <2>a. CountersTyped'
    BY <1>3, <2>0 DEF CountersTyped, flushVars, metricVars
  <2>1. CASE /\ requests' = RescheduledRequests(c, o)
             /\ UNCHANGED <<chunkVars, task_map, tid, route, attempts>>
    <3>1. requests' = requests
      BY <1>0, <1>1, <2>1 DEF RescheduledRequests, TypeOK, PerRoute
    <3> QED BY <1>0, <2>0, <2>1, <3>1, RequestsMove
        DEF loopVars, exitVars, taskVars, TypeOK
  <2>2. CASE reschedule_fails(c, o)
    <3>1. UsersCount' /\ IsFiniteSet(flushes')
      BY <2>0, FlushesKept DEF flushVars
    <3>2. TypeOK' /\ Bookkeeping'
      <4>1. CASE users[c] = 0 /\ RetriesWithout(c, o) = NoRetries
        <5>1. task_destroy(c)
          BY <2>2, <4>1 DEF reschedule_fails, users_release
        <5>2. flushes' = flushes /\ \A f \in flushes' : f.chunk /= c
          BY <2>0, <4>1, NoUsersNoFlush DEF flushVars
        <5> QED BY <1>0, <2>0, <2>a, <5>1, <5>2, TaskDestroyed
      <4>2. CASE ~(users[c] = 0 /\ RetriesWithout(c, o) = NoRetries)
        <5>1. retry_destroy(c, o) /\ UNCHANGED <<chunkVars, task_map, tid, route>>
          BY <2>2, <4>2 DEF reschedule_fails, users_release
        <5>2. flushes' = flushes
          BY <2>0 DEF flushVars
        <5> QED BY <1>0, <2>0, <2>a, <5>1, <5>2, RetryGone
      <4> QED BY <4>1, <4>2
    <3> QED BY <3>1, <3>2 DEF IndInv, Bookkeeping
  <2> QED BY <1>5, <2>1, <2>2 DEF RetryReschedule
<1>6. CASE RetryDestroyed(c, o)
  <2>0. /\ retry_destroy(c, o)
        /\ UNCHANGED <<chunkVars, taskVars, flushVars, loopVars, exitVars,
                       metricVars>>
    BY <1>6 DEF RetryDestroyed
  <2>1. CountersTyped'
    BY <1>3, <2>0 DEF CountersTyped, flushVars, metricVars, taskVars
  <2>2. UNCHANGED <<task_map, tid, route, users, flushes>>
    BY <2>0 DEF taskVars, flushVars
  <2>3. TypeOK' /\ Bookkeeping'
    BY <1>0, <2>0, <2>1, <2>2, RetryGone
  <2>4. UsersCount' /\ IsFiniteSet(flushes')
    BY <2>2, FlushesKept
  <2> QED BY <2>3, <2>4 DEF IndInv, Bookkeeping
<1>7. CASE RetryNotQueued(c, o)
  <2>1. /\ requests' = [requests EXCEPT ![c][o] = @ - 1]
        /\ UNCHANGED <<chunkVars, taskVars, attempts, flushVars, loopVars,
                       exitVars, metricVars>>
    BY <1>7 DEF RetryNotQueued
  <2>2. /\ requests' \in PerRoute(Nat)
        /\ \A d \in Chunks, p \in Outputs :
              requests'[d][p] \in {0, requests[d][p]}
    BY <1>2, <2>1
  <2> QED BY <1>0, <2>1, <2>2, RequestsMove DEF loopVars, exitVars, TypeOK
<1> QED BY <1>4, <1>5, <1>6, <1>7 DEF DispatchRetry

\* The STOP handler replaces requests of tasks without users only.
LEMMA StopIngestionKeeps ==
  ASSUME IndInv, StopIngestion
  PROVE  IndInv'
<1>0. /\ TypeOK /\ to_create = {} /\ to_start = {}
      /\ phase' = "idle" /\ stop_event' = FALSE /\ engine' = "stopping"
      /\ UNCHANGED <<chunkVars, taskVars, attempts, flushVars, to_create,
                     to_start, grace_count, metricVars>>
  BY DEF IndInv, DispatchExact, StopIngestion
<1>1. \A c \in Chunks, o \in Outputs :
        requests[c][o] \in Nat /\ attempts[c][o] \in Nat /\ requests[c][o] <= 1
  BY <1>0 DEF TypeOK, PerRoute, IndInv, RequestsBacked
<1>2. CASE UNCHANGED requests
  BY <1>0, <1>2, RequestsMove DEF TypeOK
<1>3. ASSUME NEW failed, requests' = Rescheduled(failed)
      PROVE  IndInv'
  <2>1. \A c \in Chunks, o \in Outputs :
          requests'[c][o] = IF tid[c] /= NoId /\ users[c] = 0 /\ attempts[c][o] > 0
                            THEN Invalidated(requests[c][o])
                                 + (IF <<c, o>> \in failed THEN 0 ELSE 1)
                            ELSE requests[c][o]
    BY <1>3 DEF Rescheduled
  <2>2. \A c \in Chunks, o \in Outputs : Invalidated(requests[c][o]) = 0
    BY <1>1 DEF Invalidated
  <2>3. requests' \in PerRoute(Nat)
    BY <1>1, <1>3, <2>2 DEF Rescheduled, PerRoute
  <2>4. \A c \in Chunks, o \in Outputs :
            \/ requests'[c][o] \in {0, requests[c][o]}
            \/ /\ requests'[c][o] = 1 /\ attempts[c][o] > 0 /\ tid[c] /= NoId
               /\ users[c] = 0
    <3> SUFFICES ASSUME NEW c \in Chunks, NEW o \in Outputs
                 PROVE  \/ requests'[c][o] \in {0, requests[c][o]}
                        \/ /\ requests'[c][o] = 1 /\ attempts[c][o] > 0
                           /\ tid[c] /= NoId /\ users[c] = 0
      OBVIOUS
    <3>1. CASE <<c, o>> \in failed
      BY <2>1, <2>2, <3>1
    <3>2. CASE <<c, o>> \notin failed
      BY <2>1, <2>2, <3>2
    <3> QED BY <3>1, <3>2
  <2> QED BY <1>0, <2>3, <2>4, RequestsMove
<1> QED BY <1>2, <1>3 DEF StopIngestion

\* After the shutdown nothing is left that refers to a task.
LEMMA EngineExitKeeps ==
  ASSUME IndInv, EngineExit
  PROVE  IndInv'
<1> USE DEF EngineExit, loopVars, metricVars
<1>0. TypeOK /\ flushes' = {} /\ phase = "idle"
  BY DEF IndInv, DispatchExact, TypeOK
<1>1. /\ users' = [c \in Chunks |-> 0] /\ tid' = [c \in Chunks |-> NoId]
      /\ attempts' = [c \in Chunks |-> NoRetries]
  OBVIOUS
<1>2. requests' = [c \in Chunks |-> [o \in Outputs |-> 0]]
  <2> SUFFICES ASSUME NEW c \in Chunks
               PROVE  RequestsAfterDestroy(c) = [o \in Outputs |-> 0]
    BY SMT
  <2> SUFFICES ASSUME NEW o \in Outputs
               PROVE  (IF attempts[c][o] > 0 THEN Invalidated(requests[c][o])
                                             ELSE requests[c][o]) = 0
    BY Zenon DEF RequestsAfterDestroy
  <2>1. requests[c][o] \in Nat /\ requests[c][o] <= 1
    BY <1>0 DEF TypeOK, PerRoute, IndInv, RequestsBacked
  <2>2. requests[c][o] = 1 => attempts[c][o] > 0
    BY DEF IndInv, RequestsBacked
  <2> QED BY <2>1, <2>2 DEF Invalidated
<1>3. TypeOK'
  <2>1. /\ users' \in [Chunks -> Nat] /\ tid' \in [Chunks -> TaskIds \cup {NoId}]
        /\ attempts' \in PerRoute(Nat) /\ requests' \in PerRoute(Nat)
    BY <1>1, <1>2 DEF PerRoute, NoRetries
  <2>2. route' \in PerRoute({"NONE", "INACTIVE", "ACTIVE", "DROPPED"})
    BY DEF PerRoute, NoRoutes
  <2>3. chunk' \in [Chunks -> {"none", "idle", "busy", "gone", "kept"}]
    BY <1>0 DEF TypeOK
  <2>4. task_map' \in [TaskIds -> Chunks \cup {NULL, FREED}]
    BY <1>0 DEF TypeOK
  <2> QED BY <1>0, <2>1, <2>2, <2>3, <2>4 DEF TypeOK
<1>4. UsersCount' /\ IsFiniteSet(flushes')
  <2>1. Cardinality({}) = 0 /\ IsFiniteSet({})
    BY FS_EmptySet
  <2>2. \A c \in Chunks : FlushesOf(c)' = {}
    BY <1>0 DEF FlushesOf
  <2> QED BY <1>0, <1>1, <2>1, <2>2 DEF UsersCount
<1>5. TaskMapExact'
  <2>1. \A c \in Chunks : chunk'[c] /= "busy" /\ tid'[c] = NoId
    BY <1>0, <1>1 DEF TypeOK
  <2>2. \A i \in TaskIds : task_map'[i] \notin Chunks
    BY <1>0, ConstantsAssumption DEF TypeOK
  <2>3. \A c \in Chunks, o \in Outputs : ~(attempts'[c][o] > 0)
    BY <1>1 DEF NoRetries
  <2> QED BY <2>1, <2>2, <2>3 DEF TaskMapExact
<1>6. DispatchExact'
  BY <1>0 DEF IndInv, DispatchExact
<1>7. NoStaleTask' /\ OneFlight' /\ RequestsBacked'
  BY <1>0, <1>2 DEF NoStaleTask, OneFlight, RequestsBacked, InFlight
<1> QED BY <1>3, <1>4, <1>5, <1>6, <1>7 DEF IndInv

(***************************************************************************)
(* The theorems.                                                           *)
(***************************************************************************)
\* The engine starts in the invariant.
LEMMA InitIndInv == Init => IndInv
<1> SUFFICES ASSUME Init PROVE IndInv
  OBVIOUS
<1> USE DEF Init
<1>1. TypeOK
  BY DEF TypeOK, PerRoute, NoRetries, NoRoutes, Routes
<1>2. UsersCount /\ IsFiniteSet(flushes)
  <2>1. Cardinality({}) = 0 /\ IsFiniteSet({})
    BY FS_EmptySet
  <2>2. \A c \in Chunks : FlushesOf(c) = {}
    BY DEF FlushesOf
  <2> QED BY <2>1, <2>2 DEF UsersCount
<1>3. TaskMapExact
  BY ConstantsAssumption DEF TaskMapExact, NoRetries
<1>4. DispatchExact /\ NoStaleTask
  BY DEF DispatchExact, NoStaleTask
<1>5. OneFlight /\ RequestsBacked
  BY DEF OneFlight, RequestsBacked, NoRetries
<1> QED BY <1>1, <1>2, <1>3, <1>4, <1>5 DEF IndInv

\* The steps of the engine's dispatch loop.
LEMMA DispatchStepKeeps ==
  ASSUME IndInv, DispatchStep
  PROVE  IndInv'
<1>0. /\ TypeOK /\ phase \in {"create", "start"}
      /\ engine \in {"running", "stopping"}
      /\ to_create \in SUBSET {c \in Chunks : chunk[c] = "idle"}
  BY DEF IndInv, TypeOK, DispatchExact, DispatchStep, NoTaskAvailable,
         SkipChunk, CreateTaskFails, CreateTask, TasksStart, StartRoute,
         DispatchDone, StopIngestion
<1>1. CASE NoTaskAvailable
  BY <1>0, <1>1, LoopMoves DEF NoTaskAvailable, exitVars, TypeOK
<1>2. ASSUME NEW c \in Chunks, SkipChunk(c) PROVE IndInv'
  BY <1>0, <1>2, LoopMoves DEF SkipChunk, exitVars, TypeOK
<1>3. ASSUME NEW c \in Chunks, NEW i \in TaskIds,
             CreateTaskFails(c, i) \/ CreateTask(c, i)
      PROVE  IndInv'
  BY <1>3, CreateTaskFailsKeeps, CreateTaskKeeps
<1>4. CASE TasksStart
  BY <1>0, <1>4, LoopMoves DEF TasksStart, exitVars, TypeOK
<1>5. ASSUME NEW c \in Chunks, NEW o \in Outputs, StartRoute(c, o)
      PROVE  IndInv'
  <2>0. /\ <<c, o>> \in to_start /\ to_start' = to_start \ {<<c, o>>}
        /\ UNCHANGED <<chunkVars, task_map, tid, route, retryVars, phase,
                       to_create, stop_event, exitVars, metricVars>>
    BY <1>5 DEF StartRoute
  <2>1. CASE task_flush(c, o)
    <3>1. tid[c] /= NoId /\ requests[c][o] = 0 /\ ~InFlight(c, o)
      BY <2>0 DEF IndInv, DispatchExact
    <3>2. requests' = requests /\ attempts' = attempts
          /\ requests \in PerRoute(Nat)
      BY <1>0, <2>0 DEF retryVars, TypeOK
    <3> QED BY <2>0, <2>1, <3>1, <3>2, FlushAdded
  <2>2. CASE flush_fails(c)
    BY <2>0, <2>2, StartFailsKeeps DEF flush_fails, taskVars
  <2> QED BY <1>5, <2>1, <2>2 DEF StartRoute
<1>6. CASE DispatchDone
  BY <1>0, <1>6, LoopMoves DEF DispatchDone, exitVars, TypeOK, IndInv, DispatchExact
<1>7. CASE StopIngestion
  BY <1>7, StopIngestionKeeps
<1> QED BY <1>1, <1>2, <1>3, <1>4, <1>5, <1>6, <1>7 DEF DispatchStep

\* The steps of a flush, in the engine's coroutines and in the workers.
LEMMA FlushStepKeeps ==
  ASSUME IndInv, FlushStep
  PROVE  IndInv'
<1>0. TypeOK
  BY DEF IndInv
<1>1. PICK f \in flushes :
        \/ FlushStart(f) \/ FlushEmpty(f) \/ WorkerCreateFails(f)
        \/ \E ret \in Returns : FlushReturn(f, ret)
        \/ WorkerForward(f)
  BY DEF FlushStep
<1>2. /\ f \in Flush /\ f.chunk \in Chunks /\ f.out \in Outputs
      /\ tid[f.chunk] \in TaskIds
      /\ f.stage \in {"worker", "returned"} => f.task_id = tid[f.chunk]
  BY <1>0 DEF TypeOK, Flush, IndInv, NoStaleTask
<1>3. ASSUME NEW ret \in Returns, output_return(f, ret),
             UNCHANGED <<chunkVars, task_map, tid, users, retryVars, tries,
                         loopVars, exitVars, metricVars>>
      PROVE  IndInv'
  <2> DEFINE g == [f EXCEPT !.stage = IF f.out \in Threaded THEN "worker"
                                                            ELSE "returned",
                            !.ret = ret, !.task_id = tid[f.chunk]]
  <2>1. /\ g \in Flush /\ g.chunk = f.chunk /\ g.out = f.out
        /\ g.task_id = tid[f.chunk]
    BY <1>2 DEF Flush, Stages, Returns
  <2>2. flushes' = (flushes \ {f}) \cup {g}
    BY <1>3 DEF output_return
  <2>3. route' \in PerRoute({"NONE", "INACTIVE", "ACTIVE", "DROPPED"})
    BY <1>0, <1>2, <1>3, RouteMarked DEF output_return
  <2> HIDE DEF g
  <2> QED BY <1>3, <2>1, <2>2, <2>3, FlushReplaced
<1>4. ASSUME NEW stage \in {"running", "lost", "returned"},
             stage = "returned" => f.stage = "worker",
             flushes' = (flushes \ {f}) \cup {[f EXCEPT !.stage = stage]},
             route' \in PerRoute({"NONE", "INACTIVE", "ACTIVE", "DROPPED"}),
             UNCHANGED <<chunkVars, task_map, tid, users, retryVars, tries,
                         loopVars, exitVars, metricVars>>
      PROVE  IndInv'
  <2> DEFINE g == [f EXCEPT !.stage = stage]
  <2>1. /\ g \in Flush /\ g.chunk = f.chunk /\ g.out = f.out
        /\ g.task_id = f.task_id /\ g.stage = stage
    BY <1>2 DEF Flush, Stages
  <2>2. g.stage \in {"worker", "returned"} => g.task_id = tid[f.chunk]
    BY <1>2, <1>4, <2>1
  <2>3. flushes' = (flushes \ {f}) \cup {g}
    BY <1>4
  <2> HIDE DEF g
  <2> QED BY <1>4, <2>1, <2>2, <2>3, FlushReplaced
<1>5. CASE FlushStart(f)
  <2>1. CASE output_return(f, "ERROR")
    BY <1>3, <1>5, <2>1 DEF FlushStart, Returns
  <2>2. CASE /\ set_route_status(f.chunk, f.out, "ACTIVE")
             /\ flushes' = (flushes \ {f}) \cup {[f EXCEPT !.stage = "running"]}
    <3>1. route' \in PerRoute({"NONE", "INACTIVE", "ACTIVE", "DROPPED"})
      BY <1>0, <1>2, <2>2, RouteMarked
    <3> QED BY <1>4, <1>5, <2>2, <3>1 DEF FlushStart
  <2> QED BY <1>5, <2>1, <2>2 DEF FlushStart
<1>6. CASE FlushEmpty(f)
  BY <1>3, <1>6 DEF FlushEmpty, Returns
<1>7. CASE WorkerCreateFails(f)
  BY <1>0, <1>4, <1>7 DEF WorkerCreateFails, taskVars, TypeOK
<1>8. CASE \E ret \in Returns : FlushReturn(f, ret)
  BY <1>3, <1>8 DEF FlushReturn
<1>9. CASE WorkerForward(f)
  BY <1>0, <1>4, <1>9 DEF WorkerForward, taskVars, TypeOK
<1> QED BY <1>1, <1>5, <1>6, <1>7, <1>8, <1>9

\* The handler of the return events.
LEMMA EventStepKeeps ==
  ASSUME IndInv, EventStep
  PROVE  IndInv'
<1>1. PICK f \in flushes, c \in Chunks : HandleOutputEvent(f, c)
  BY DEF EventStep
<1>2. TypeOK /\ f.out \in Outputs
  BY DEF IndInv, TypeOK, Flush
<1>3. /\ Count(processed, c, f.out) \in PerRoute(Nat)
      /\ Count(dropped, c, f.out) \in PerRoute(Nat)
      /\ processed \in PerRoute(Nat) /\ dropped \in PerRoute(Nat)
  BY <1>2 DEF Count, TypeOK, PerRoute
<1>4. dlq \in SUBSET Routes /\ dlq \cup {<<c, f.out>>} \in SUBSET Routes
  BY <1>2 DEF TypeOK, Routes
<1>5. CASE HandleOk(f, c)
  BY <1>3, <1>4, <1>5, RouteFinished DEF HandleOk
<1>6. CASE HandleError(f, c)
  BY <1>3, <1>4, <1>6, RouteFinished DEF HandleError, quarantine
<1>7. CASE HandleRetryRefused(f, c)
  BY <1>3, <1>4, <1>7, RouteFinished DEF HandleRetryRefused, quarantine
<1>8. CASE HandleRetry(f, c)
  BY <1>8, RetryScheduled
<1>9. CASE HandleRetryUnscheduled(f, c)
  BY <1>3, <1>4, <1>9, RouteFinished DEF HandleRetryUnscheduled, quarantine
<1> QED BY <1>1, <1>5, <1>6, <1>7, <1>8, <1>9 DEF HandleOutputEvent

\* Stuttering keeps the invariant.
LEMMA StutterKeeps ==
  ASSUME IndInv, UNCHANGED vars
  PROVE  IndInv'
BY DEF IndInv, vars, chunkVars, taskVars, retryVars, flushVars, loopVars,
       exitVars, metricVars, TypeOK, TaskMapExact, DispatchExact, UsersCount,
       FlushesOf, NoStaleTask, OneFlight, InFlight, RequestsBacked

\* Every step of the engine and of the workers keeps the invariant.
LEMMA NextKeepsIndInv == IndInv /\ [Next]_vars => IndInv'
<1> SUFFICES ASSUME IndInv, [Next]_vars PROVE IndInv'
  OBVIOUS
<1>0. TypeOK /\ (phase = "idle" => to_create = {} /\ to_start = {})
  BY DEF IndInv, DispatchExact
<1>1. CASE \E c \in Chunks, r \in SUBSET Outputs : AppendChunk(c, r)
  BY <1>1, AppendKeeps
<1>2. CASE \E d, c \in Chunks, o \in Outputs : ReleaseSpace(d, c, o)
  BY <1>2, ReleaseSpaceKeeps
<1>3. CASE FlushTimer
  BY <1>0, <1>3, LoopMoves DEF FlushTimer, EngineIdle, exitVars, TypeOK
<1>4. CASE DispatchStep
  BY <1>4, DispatchStepKeeps
<1>5. CASE FlushStep
  BY <1>5, FlushStepKeeps
<1>6. CASE EventStep
  BY <1>6, EventStepKeeps
<1>7. CASE RetryStep
  BY <1>7, DispatchRetryKeeps DEF RetryStep
<1>8. CASE StopEvent
  BY <1>0, <1>8, LoopMoves DEF StopEvent, EngineIdle, exitVars, TypeOK
<1>9. CASE ShutdownTick
  <2>1. grace_count' \in Nat
    BY <1>0, <1>9 DEF ShutdownTick, Tick, TypeOK
  <2>2. CASE MustWait
    BY <1>0, <1>9, <2>1, <2>2, LoopMoves DEF ShutdownTick, EngineIdle, TypeOK
  <2>3. CASE ~MustWait
    BY <1>0, <1>9, <2>1, <2>3, LoopMoves DEF ShutdownTick, EngineIdle, TypeOK
  <2> QED BY <2>2, <2>3
<1>10. CASE EngineExit
  BY <1>10, EngineExitKeeps
<1>11. CASE Stopped
  BY <1>11, StutterKeeps DEF Stopped
<1>12. CASE UNCHANGED vars
  BY <1>12, StutterKeeps
<1> QED BY <1>1, <1>2, <1>3, <1>4, <1>5, <1>6, <1>7, <1>8, <1>9, <1>10,
           <1>11, <1>12 DEF Next

\* Whatever call fails (allocation, content, flush, scheduler) and however
\* workers and engine interleave, task ids, users, flushes and scheduler
\* requests agree: the invariant of the reference counting holds for every
\* number of chunks, outputs and task ids.
THEOREM IndInvHolds == Spec => []IndInv
BY InitIndInv, NextKeepsIndInv, PTL DEF Spec

\* Every variable keeps the type of the C structure it models.
THEOREM TypeCorrect == Spec => []TypeOK
<1>1. IndInv => TypeOK
  BY DEF IndInv
<1> QED BY <1>1, IndInvHolds, PTL

\* task->users is the number of flushes that hold the task, so the test of
\* flb_task_users_dec and flb_task_users_release never frees a task early.
THEOREM UsersCounted == Spec => []UsersCount
<1>1. IndInv => UsersCount
  BY DEF IndInv
<1> QED BY <1>1, IndInvHolds, PTL

\* handle_output_event never resolves a task id to freed memory or to the
\* task of another chunk.
THEOREM NoTaskStale == Spec => []NoStaleTask
<1>1. IndInv => NoStaleTask
  BY DEF IndInv
<1> QED BY <1>1, IndInvHolds, PTL

\* One output never has two flushes of a chunk at once, and never a flush
\* together with a scheduled retry.
THEOREM OneFlightAtATime == Spec => []OneFlight
<1>1. IndInv => OneFlight
  BY DEF IndInv
<1> QED BY <1>1, IndInvHolds, PTL

\* Every scheduler request points to a live retry of a live task.
THEOREM RequestsAlwaysBacked == Spec => []RequestsBacked
<1>1. IndInv => RequestsBacked
  BY DEF IndInv
<1> QED BY <1>1, IndInvHolds, PTL

(***************************************************************************)
(* What becomes of a route, for every set of chunks and outputs: it is     *)
(* flushed within its retry limit, its callback runs on an active route,   *)
(* it is settled once, and the chunk is deleted with its last route.       *)
(***************************************************************************)
\* The engine still has something to do for the route: tasks_start will
\* visit it, a flush has it, or a retry exists.
Pending(c, o) ==
    <<c, o>> \in to_start \/ InFlight(c, o) \/ attempts[c][o] > 0

(***************************************************************************)
(* The history of a route, whatever call fails.                            *)
(***************************************************************************)
\* A route is not tried before its task starts; each flush beyond the first
\* was paid for with an attempt of the retry; a delivered route is closed;
\* an open one exists in the task, so that its status can be set.
RouteHistory ==
    \A c \in Chunks, o \in Outputs :
        /\ chunk[c] \in {"none", "idle"} \/ <<c, o>> \in to_start =>
              tries[c][o] = 0 /\ attempts[c][o] = 0 /\ processed[c][o] = 0
        /\ attempts[c][o] > 0 /\ ~InFlight(c, o) =>
              tries[c][o] <= attempts[c][o]
        /\ InFlight(c, o) => tries[c][o] <= attempts[c][o] + 1
        /\ processed[c][o] > 0 => ~Pending(c, o)
        /\ Pending(c, o) => route[c][o] /= "NONE"
        /\ RetryLimit[o] >= 0 => /\ attempts[c][o] <= RetryLimit[o]
                                 /\ tries[c][o] <= RetryLimit[o] + 1

(***************************************************************************)
(* The faults a theorem below excludes, and what is left of eviction.      *)
(***************************************************************************)
\* No failing call ends a route without a trace: contents can be read,
\* routes and flushes be allocated, and a request the scheduler refuses
\* leaves a copy in the dead letter queue, where the copy does not fail.
NoSilentFault ==
    /\ {"content", "flush"} \cap Faults = {}
    /\ "sched" \in Faults => KeepRejected /\ {"up", "dlq"} \cap Faults = {}

OneLimited == \A o, p \in Limited : o = p

\* Where the routes of a chunk stand: in the mask before it has a task, then
\* open or settled, and all settled once it is deleted.
OutcomeOf(c, o) ==
    /\ chunk[c] = "idle" => o \in mask[c] \/ Settled(c, o)
    /\ chunk[c] = "busy" => Pending(c, o) \/ Settled(c, o)
    /\ chunk[c] = "gone" => Settled(c, o)
    /\ chunk[c] \in {"idle", "busy"} => o \in mask[c] \/ o \in Limited
Outcomes == \A c \in Chunks : \A o \in routed[c] : OutcomeOf(c, o)

\* Without eviction the open routes are exactly the ones not settled.
OpenOrSettled(c, o) ==
    /\ chunk[c] = "none" => routed[c] = {}
    /\ chunk[c] \in {"none", "idle"} => ~Settled(c, o)
    /\ chunk[c] = "idle" => mask[c] = routed[c]
    /\ chunk[c] = "busy" =>
          (o \in routed[c] /\ ~Settled(c, o) <=> Pending(c, o))
OpenIsUnsettled == \A c \in Chunks, o \in Outputs : OpenOrSettled(c, o)

\* A task always has an open route, and a retry is with the scheduler or in
\* a flush.
AlwaysMoving ==
    \A c \in Chunks :
        /\ chunk[c] = "busy" => \E o \in Outputs : Pending(c, o)
        /\ \A o \in Outputs : attempts[c][o] > 0 =>
              requests[c][o] > 0 \/ InFlight(c, o)

(***************************************************************************)
(* What one step does to one route: the five ways of RouteStep.            *)
(***************************************************************************)
RouteSame(c, o) ==
    /\ tries'[c][o] = tries[c][o]
    /\ attempts'[c][o] = attempts[c][o]
    /\ processed'[c][o] = processed[c][o]
    /\ InFlight(c, o)' <=> InFlight(c, o)
    /\ <<c, o>> \in to_start' => <<c, o>> \in to_start
    /\ route[c][o] /= "NONE" => route'[c][o] /= "NONE"

RouteCreated(c, o) ==
    /\ chunk[c] = "idle" /\ <<c, o>> \in to_start'
    /\ tries'[c][o] = tries[c][o]
    /\ attempts'[c][o] = attempts[c][o]
    /\ processed'[c][o] = processed[c][o]
    /\ ~InFlight(c, o)'
    /\ route'[c][o] /= "NONE"

RouteFlushed(c, o) ==
    /\ <<c, o>> \in to_start \/ (attempts[c][o] > 0 /\ ~InFlight(c, o))
    /\ <<c, o>> \notin to_start'
    /\ tries'[c][o] = tries[c][o] + 1
    /\ attempts'[c][o] = attempts[c][o]
    /\ processed'[c][o] = processed[c][o]
    /\ route'[c][o] = route[c][o]
    /\ InFlight(c, o)'

RouteRetried(c, o) ==
    /\ InFlight(c, o) /\ ~InFlight(c, o)'
    /\ <<c, o>> \notin to_start'
    /\ tries'[c][o] = tries[c][o]
    /\ attempts'[c][o] = attempts[c][o] + 1
    /\ processed'[c][o] = processed[c][o]
    /\ route'[c][o] = route[c][o]
    /\ RetryLimit[o] >= 0 => attempts[c][o] < RetryLimit[o]

RouteClosed(c, o) ==
    /\ ~InFlight(c, o)'
    /\ <<c, o>> \notin to_start'
    /\ tries'[c][o] = tries[c][o]
    /\ attempts'[c][o] = 0
    /\ processed'[c][o] = processed[c][o]
          \/ (InFlight(c, o) /\ chunk[c] = "busy")

\* A chunk that has no task did not have one before.
RouteStep(c, o) ==
    /\ chunk'[c] \in {"none", "idle"} => chunk[c] \in {"none", "idle"}
    /\ \/ RouteSame(c, o)
       \/ RouteCreated(c, o)
       \/ RouteFlushed(c, o)
       \/ RouteRetried(c, o)
       \/ RouteClosed(c, o)

\* A step that leaves chunks, routes, retries and outcomes alone.
LEMMA QuietRoute ==
  ASSUME NEW c \in Chunks, NEW o \in Outputs,
         UNCHANGED <<chunk, tries, attempts, processed, route, flushes>>,
         to_start' \in SUBSET to_start
  PROVE  RouteStep(c, o)
BY DEF RouteStep, RouteSame, InFlight

\* A chunk without a task has no flush.
LEMMA NoTaskNoFlush ==
  ASSUME IndInv, NEW c \in Chunks, chunk[c] /= "busy"
  PROVE  \A o : ~InFlight(c, o)
<1>1. tid[c] = NoId
  BY DEF IndInv, TaskMapExact
<1>2. NoId \notin TaskIds
  BY ConstantsAssumption DEF TaskIds, NoId
<1> QED BY <1>1, <1>2 DEF IndInv, NoStaleTask, InFlight

\* flb_task_set_route_status adds and removes no route.
LEMMA RouteStays ==
  ASSUME TypeOK, NEW c \in Chunks, NEW o \in Outputs,
         NEW status \in {"INACTIVE", "ACTIVE", "DROPPED"},
         set_route_status(c, o, status)
  PROVE  \A d \in Chunks, p \in Outputs :
            /\ route[d][p] /= "NONE" => route'[d][p] /= "NONE"
            /\ d /= c \/ p /= o => route'[d][p] = route[d][p]
            /\ route[c][o] /= "NONE" => route'[c][o] = status
<1>1. CASE route[c][o] = "NONE"
  BY <1>1 DEF set_route_status
<1>2. CASE route[c][o] /= "NONE"
  <2>1. route' = [route EXCEPT ![c][o] = status]
    BY <1>2 DEF set_route_status
  <2> QED BY <2>1 DEF TypeOK, PerRoute
<1> QED BY <1>1, <1>2

\* flb_task_destroy closes every route of its chunk and touches no other.
LEMMA DestroyedRoutes ==
  ASSUME IndInv, NEW c \in Chunks, task_destroy(c), tid[c] /= NoId,
         phase = "idle", UNCHANGED <<tries, to_start>>,
         \A h \in flushes' : h.chunk /= c,
         \A h \in flushes : h.chunk /= c => h \in flushes',
         flushes' \in SUBSET flushes,
         \A d \in Chunks, p \in Outputs :
            processed'[d][p] = processed[d][p] \/ (d = c /\ InFlight(c, p))
  PROVE  \A d \in Chunks, p \in Outputs : RouteStep(d, p)
<1> SUFFICES ASSUME NEW d \in Chunks, NEW p \in Outputs
             PROVE  RouteStep(d, p)
  OBVIOUS
<1>0. TypeOK /\ to_start = {} /\ chunk[c] = "busy"
  BY DEF IndInv, DispatchExact, TaskMapExact
<1>1. CASE d = c
  <2>1. attempts'[c][p] = 0 /\ chunk'[c] = "gone"
    BY <1>0 DEF task_destroy, TypeOK, PerRoute, NoRetries
  <2>2. ~InFlight(c, p)'
    BY DEF InFlight
  <2> QED BY <1>0, <1>1, <2>1, <2>2 DEF RouteStep, RouteClosed
<1>2. CASE d /= c
  <2>1. /\ attempts'[d] = attempts[d] /\ chunk'[d] = chunk[d]
        /\ route'[d] = route[d]
    BY <1>0, <1>2 DEF task_destroy, TypeOK, PerRoute
  <2>2. InFlight(d, p)' <=> InFlight(d, p)
    BY <1>2 DEF InFlight
  <2> QED BY <1>0, <1>2, <2>1, <2>2 DEF RouteStep, RouteSame
<1> QED BY <1>1, <1>2

\* flb_task_retry_destroy closes one route.
LEMMA RetryGoneRoutes ==
  ASSUME IndInv, NEW c \in Chunks, NEW o \in Outputs, retry_destroy(c, o),
         phase = "idle", UNCHANGED <<chunk, route, tries, to_start>>,
         \A h \in flushes : h \in flushes' \/ (h.chunk = c /\ h.out = o),
         \A h \in flushes' : ~(h.chunk = c /\ h.out = o),
         flushes' \in SUBSET flushes,
         \A d \in Chunks, p \in Outputs :
            \/ processed'[d][p] = processed[d][p]
            \/ d = c /\ p = o /\ InFlight(c, o) /\ chunk[c] = "busy"
  PROVE  \A d \in Chunks, p \in Outputs : RouteStep(d, p)
<1> SUFFICES ASSUME NEW d \in Chunks, NEW p \in Outputs
             PROVE  RouteStep(d, p)
  OBVIOUS
<1>0. TypeOK /\ to_start = {}
  BY DEF IndInv, DispatchExact
<1>1. attempts'[d][p] = IF d = c /\ p = o THEN 0 ELSE attempts[d][p]
  BY <1>0 DEF retry_destroy, RetriesWithout, TypeOK, PerRoute
<1>2. CASE d = c /\ p = o
  <2>1. ~InFlight(c, o)'
    BY DEF InFlight
  <2> QED BY <1>0, <1>1, <1>2, <2>1 DEF RouteStep, RouteClosed
<1>3. CASE ~(d = c /\ p = o)
  <2>1. InFlight(d, p)' <=> InFlight(d, p)
    BY <1>3 DEF InFlight
  <2> QED BY <1>0, <1>1, <1>3, <2>1 DEF RouteStep, RouteSame
<1> QED BY <1>2, <1>3

\* An event is handled on the task of its own chunk, and its flush was the
\* only one of its route.
LEMMA EventFacts ==
  ASSUME IndInv, NEW f \in flushes, NEW c \in Chunks, EventOf(f, c)
  PROVE  /\ c = f.chunk /\ f.out \in Outputs /\ phase = "idle"
         /\ tid[c] /= NoId /\ chunk[c] = "busy" /\ InFlight(c, f.out)
         /\ flushes' = flushes \ {f}
         /\ \A h \in flushes' : ~(h.chunk = c /\ h.out = f.out)
<1>1. tid[f.chunk] \in TaskIds /\ f.task_id = tid[f.chunk]
      /\ task_map[tid[f.chunk]] = f.chunk
  BY DEF IndInv, NoStaleTask, EventOf
<1>2. c = f.chunk /\ flushes' = flushes \ {f} /\ phase = "idle"
  BY <1>1 DEF EventOf, EngineIdle
<1>3. tid[c] /= NoId
  BY <1>1, <1>2, ConstantsAssumption DEF TaskIds, NoId
<1>4. chunk[c] = "busy" /\ f.out \in Outputs
  BY <1>3 DEF IndInv, TaskMapExact, TypeOK, Flush
<1>5. \A h \in flushes' : ~(h.chunk = c /\ h.out = f.out)
  BY <1>2 DEF IndInv, OneFlight
<1> QED BY <1>2, <1>3, <1>4, <1>5 DEF InFlight

\* FinishRoute closes the route of its event, and all of them with the task.
LEMMA FinishedRoutes ==
  ASSUME IndInv, NEW f \in flushes, NEW c \in Chunks, EventOf(f, c),
         FinishRoute(c, f.out), UNCHANGED <<tries, loopVars>>,
         \A d \in Chunks, p \in Outputs :
            processed'[d][p] = processed[d][p] \/ (d = c /\ p = f.out)
  PROVE  \A d \in Chunks, p \in Outputs : RouteStep(d, p)
<1> USE DEF loopVars
<1>1. /\ c = f.chunk /\ f.out \in Outputs /\ phase = "idle"
      /\ tid[c] /= NoId /\ chunk[c] = "busy" /\ InFlight(c, f.out)
      /\ flushes' = flushes \ {f}
      /\ \A h \in flushes' : ~(h.chunk = c /\ h.out = f.out)
  BY EventFacts
<1>2. users[c] - 1 = 0 => \A h \in flushes' : h.chunk /= c
  BY <1>1, UserReleased DEF FinishRoute
<1>3. CASE users[c] - 1 = 0 /\ RetriesWithout(c, f.out) = NoRetries
  <2>1. task_destroy(c)
    BY <1>3 DEF FinishRoute, users_release
  <2> QED BY <1>1, <1>2, <1>3, <2>1, DestroyedRoutes
<1>4. CASE ~(users[c] - 1 = 0 /\ RetriesWithout(c, f.out) = NoRetries)
  <2>1. retry_destroy(c, f.out) /\ UNCHANGED <<chunk, route>>
    BY <1>4 DEF FinishRoute, users_release, chunkVars
  <2> QED BY <1>1, <2>1, RetryGoneRoutes
<1> QED BY <1>3, <1>4

\* task_flush puts one more flush on its route.
LEMMA FlushedRoutes ==
  ASSUME TypeOK, NEW c \in Chunks, NEW o \in Outputs, task_flush(c, o)
  PROVE  \A d \in Chunks, p \in Outputs :
            /\ tries'[d][p] = IF d = c /\ p = o THEN tries[d][p] + 1
                                               ELSE tries[d][p]
            /\ InFlight(d, p)' <=> InFlight(d, p) \/ (d = c /\ p = o)
<1> DEFINE g == NewFlush(c, o)
<1>1. g.chunk = c /\ g.out = o
  BY DEF NewFlush
<1>2. flushes' = flushes \cup {g}
  BY DEF task_flush
<1> HIDE DEF g
<1>3. \A d \in Chunks, p \in Outputs :
        InFlight(d, p)' <=> InFlight(d, p) \/ (d = c /\ p = o)
  BY <1>1, <1>2 DEF InFlight
<1>4. \A d \in Chunks, p \in Outputs :
        tries'[d][p] = IF d = c /\ p = o THEN tries[d][p] + 1 ELSE tries[d][p]
  BY DEF task_flush, TypeOK, PerRoute
<1> QED BY <1>3, <1>4

\* The steps of the dispatch loop.
LEMMA DispatchRoutes ==
  ASSUME IndInv, DispatchStep
  PROVE  \A c \in Chunks, o \in Outputs : RouteStep(c, o)
<1> USE DEF chunkVars, taskVars, retryVars, flushVars, loopVars, metricVars
<1>0. TypeOK
  BY DEF IndInv
<1>1. CASE NoTaskAvailable \/ TasksStart \/ DispatchDone \/ StopIngestion
  BY <1>1, QuietRoute DEF NoTaskAvailable, TasksStart, DispatchDone, StopIngestion
<1>2. CASE \E c \in Chunks : SkipChunk(c)
  BY <1>2, QuietRoute DEF SkipChunk
<1>3. CASE \E c \in Chunks, i \in TaskIds : CreateTaskFails(c, i)
  BY <1>3, QuietRoute DEF CreateTaskFails
<1>4. ASSUME NEW c \in Chunks, NEW i \in TaskIds, CreateTask(c, i),
             NEW d \in Chunks, NEW p \in Outputs
      PROVE  RouteStep(d, p)
  <2>1. chunk[c] = "idle" /\ UNCHANGED <<tries, attempts, processed, flushes>>
    BY <1>4 DEF CreateTask, IndInv, DispatchExact
  <2>2. PICK r \in TaskRoutes(c) :
          IF r = {}
          THEN /\ chunk' = [chunk EXCEPT ![c] = "gone"]
               /\ UNCHANGED <<task_map, tid, route, to_start>>
          ELSE /\ chunk' = [chunk EXCEPT ![c] = "busy"]
               /\ task_map' = [task_map EXCEPT ![i] = c]
               /\ tid' = [tid EXCEPT ![c] = i]
               /\ route' = [route EXCEPT ![c] =
                     [o \in Outputs |-> IF o \in r THEN "INACTIVE" ELSE "NONE"]]
               /\ to_start' = to_start \cup ({c} \X r)
    BY <1>4 DEF CreateTask
  <2>3. InFlight(d, p)' <=> InFlight(d, p)
    BY <2>1 DEF InFlight
  <2>4. ~InFlight(c, p) /\ <<c, p>> \notin to_start /\ attempts[c][p] = 0
    <3>1. tid[c] = NoId
      BY <2>1 DEF IndInv, TaskMapExact
    <3>2. attempts[c][p] \in Nat
      BY <1>0 DEF TypeOK, PerRoute
    <3> QED BY <2>1, <3>1, <3>2, NoTaskNoFlush
        DEF IndInv, DispatchExact, TaskMapExact
  <2>5. CASE r = {}
    <3>1. chunk'[d] = IF d = c THEN "gone" ELSE chunk[d]
      BY <1>0, <2>2, <2>5 DEF TypeOK
    <3> QED BY <2>1, <2>2, <2>3, <2>5, <3>1 DEF RouteStep, RouteSame
  <2>6. CASE r /= {}
    <3>1. chunk'[d] = IF d = c THEN "busy" ELSE chunk[d]
      BY <1>0, <2>2, <2>6 DEF TypeOK
    <3>2. route'[d][p] = IF d = c THEN IF p \in r THEN "INACTIVE" ELSE "NONE"
                                  ELSE route[d][p]
      BY <1>0, <2>2, <2>6 DEF TypeOK, PerRoute
    <3>3. <<d, p>> \in to_start' <=> <<d, p>> \in to_start \/ (d = c /\ p \in r)
      BY <2>2, <2>6
    <3>4. CASE d = c /\ p \in r
      BY <2>1, <2>3, <2>4, <3>1, <3>2, <3>3, <3>4 DEF RouteStep, RouteCreated
    <3>5. CASE d = c /\ p \notin r
      BY <2>1, <2>3, <2>4, <3>1, <3>3, <3>5 DEF RouteStep, RouteClosed
    <3>6. CASE d /= c
      BY <2>1, <2>3, <3>1, <3>2, <3>3, <3>6 DEF RouteStep, RouteSame
    <3> QED BY <3>4, <3>5, <3>6
  <2> QED BY <2>5, <2>6
<1>5. ASSUME NEW c \in Chunks, NEW o \in Outputs, StartRoute(c, o),
             NEW d \in Chunks, NEW p \in Outputs
      PROVE  RouteStep(d, p)
  <2>1. /\ <<c, o>> \in to_start /\ to_start' = to_start \ {<<c, o>>}
        /\ UNCHANGED <<chunk, route, attempts, processed>>
    BY <1>5 DEF StartRoute
  <2>2. CASE task_flush(c, o)
    <3>1. /\ tries'[d][p] = IF d = c /\ p = o THEN tries[d][p] + 1
                                            ELSE tries[d][p]
          /\ InFlight(d, p)' <=> InFlight(d, p) \/ (d = c /\ p = o)
      BY <1>0, <2>2, FlushedRoutes
    <3>3. CASE d = c /\ p = o
      BY <2>1, <3>1, <3>3 DEF RouteStep, RouteFlushed
    <3>4. CASE ~(d = c /\ p = o)
      BY <2>1, <3>1, <3>4 DEF RouteStep, RouteSame
    <3> QED BY <3>3, <3>4
  <2>3. CASE flush_fails(c)
    BY <2>1, <2>3, QuietRoute DEF flush_fails
  <2> QED BY <1>5, <2>2, <2>3 DEF StartRoute
<1> QED BY <1>1, <1>2, <1>3, <1>4, <1>5 DEF DispatchStep

\* The steps of a flush change its stage and the status of its route.
LEMMA FlushRoutes ==
  ASSUME IndInv, FlushStep
  PROVE  \A c \in Chunks, o \in Outputs : RouteStep(c, o)
<1> USE DEF chunkVars, taskVars, retryVars, loopVars, metricVars
<1>0. TypeOK
  BY DEF IndInv
<1>1. PICK f \in flushes :
        \/ FlushStart(f) \/ FlushEmpty(f) \/ WorkerCreateFails(f)
        \/ \E ret \in Returns : FlushReturn(f, ret)
        \/ WorkerForward(f)
  BY DEF FlushStep
<1>2. f \in Flush /\ f.chunk \in Chunks /\ f.out \in Outputs
  BY <1>0 DEF TypeOK, Flush
<1>3. UNCHANGED <<chunk, tries, attempts, processed, to_start>>
  BY <1>1 DEF FlushStart, FlushEmpty, WorkerCreateFails, FlushReturn, WorkerForward
<1>4. PICK g : g.chunk = f.chunk /\ g.out = f.out
               /\ flushes' = (flushes \ {f}) \cup {g}
  BY <1>1, <1>2 DEF FlushStart, FlushEmpty, WorkerCreateFails, FlushReturn,
         WorkerForward, output_return, Flush
<1>5. UNCHANGED route \/ \E status \in {"INACTIVE", "ACTIVE", "DROPPED"} :
                            set_route_status(f.chunk, f.out, status)
  BY <1>1 DEF FlushStart, FlushEmpty, WorkerCreateFails, FlushReturn,
         WorkerForward, output_return
<1>6. \A c, o : InFlight(c, o)' <=> InFlight(c, o)
  BY <1>4 DEF InFlight
<1>7. \A c \in Chunks, o \in Outputs :
        route[c][o] /= "NONE" => route'[c][o] /= "NONE"
  BY <1>0, <1>2, <1>5, RouteStays
<1> QED BY <1>3, <1>6, <1>7 DEF RouteStep, RouteSame

\* The handler of the return events.
LEMMA EventRoutes ==
  ASSUME IndInv, EventStep
  PROVE  \A c \in Chunks, o \in Outputs : RouteStep(c, o)
<1> USE DEF loopVars, metricVars
<1>0. TypeOK
  BY DEF IndInv
<1>1. PICK f \in flushes, c \in Chunks : HandleOutputEvent(f, c)
  BY DEF EventStep
<1>2. EventOf(f, c)
  BY <1>1 DEF HandleOutputEvent, HandleOk, HandleError, HandleRetryRefused,
         HandleRetry, HandleRetryUnscheduled
<1>3. /\ c = f.chunk /\ f.out \in Outputs /\ phase = "idle"
      /\ tid[c] /= NoId /\ chunk[c] = "busy" /\ InFlight(c, f.out)
      /\ flushes' = flushes \ {f}
      /\ \A h \in flushes' : ~(h.chunk = c /\ h.out = f.out)
  BY <1>2, EventFacts
<1>4. CASE HandleOk(f, c)
  <2>1. \A d \in Chunks, p \in Outputs :
          processed'[d][p] = processed[d][p] \/ (d = c /\ p = f.out)
    BY <1>0, <1>3, <1>4 DEF HandleOk, Count, TypeOK, PerRoute
  <2> QED BY <1>2, <1>4, <2>1, FinishedRoutes DEF HandleOk
<1>5. CASE HandleError(f, c)
  BY <1>2, <1>5, FinishedRoutes DEF HandleError
<1>6. CASE HandleRetryRefused(f, c)
  BY <1>2, <1>6, FinishedRoutes DEF HandleRetryRefused
<1>7. CASE HandleRetryUnscheduled(f, c)
  BY <1>2, <1>7, FinishedRoutes DEF HandleRetryUnscheduled
<1>8. ASSUME HandleRetry(f, c), NEW d \in Chunks, NEW p \in Outputs
      PROVE  RouteStep(d, p)
  <2> USE DEF chunkVars
  <2>1. /\ attempts' = [attempts EXCEPT ![c][f.out] = @ + 1]
        /\ UNCHANGED <<chunk, tries, processed, route, to_start>>
        /\ ~RetryExhausted(c, f.out)
    BY <1>8 DEF HandleRetry
  <2>2. to_start = {}
    BY <1>3 DEF IndInv, DispatchExact
  <2>3. CASE d = c /\ p = f.out
    <3>1. attempts'[c][f.out] = attempts[c][f.out] + 1
      BY <1>0, <1>3, <2>1 DEF TypeOK, PerRoute
    <3>2. ~InFlight(c, f.out)'
      BY <1>3 DEF InFlight
    <3>3. attempts[c][f.out] \in Nat /\ RetryLimit[f.out] \in Int
      BY <1>0, <1>3, ConstantsAssumption DEF TypeOK, PerRoute
    <3>4. RetryLimit[f.out] >= 0 => attempts[c][f.out] < RetryLimit[f.out]
      BY <2>1, <3>3 DEF RetryExhausted
    <3> QED BY <1>3, <2>1, <2>2, <2>3, <3>1, <3>2, <3>4
        DEF RouteStep, RouteRetried
  <2>4. CASE ~(d = c /\ p = f.out)
    <3>1. attempts'[d][p] = attempts[d][p]
      BY <1>0, <2>1, <2>4 DEF TypeOK, PerRoute
    <3>2. InFlight(d, p)' <=> InFlight(d, p)
      BY <1>3, <2>4 DEF InFlight
    <3> QED BY <2>1, <3>1, <3>2 DEF RouteStep, RouteSame
  <2> QED BY <2>3, <2>4
<1> QED BY <1>1, <1>4, <1>5, <1>6, <1>7, <1>8 DEF HandleOutputEvent

\* A retry that fires.
LEMMA RetryRoutes ==
  ASSUME IndInv, NEW c \in Chunks, NEW o \in Outputs, DispatchRetry(c, o)
  PROVE  \A d \in Chunks, p \in Outputs : RouteStep(d, p)
<1> USE DEF chunkVars, taskVars, flushVars, loopVars, metricVars
<1>0. /\ TypeOK /\ RetryFires(c, o) /\ phase = "idle" /\ to_start = {}
      /\ tid[c] /= NoId
  BY DEF IndInv, DispatchExact, DispatchRetry, RetryFlush, RetryReschedule,
         RetryDestroyed, RetryNotQueued, RetryFires, EngineIdle
<1>1. attempts[c][o] > 0 /\ ~InFlight(c, o)
  <2>1. requests[c][o] \in Nat
    BY <1>0 DEF TypeOK, PerRoute
  <2>2. requests[c][o] > 0 /\ requests[c][o] <= 1
    BY <1>0 DEF IndInv, RequestsBacked, RetryFires
  <2> QED BY <2>1, <2>2 DEF IndInv, OneFlight, RequestsBacked
<1>2. ASSUME RetryFlush(c, o), NEW d \in Chunks, NEW p \in Outputs
      PROVE  RouteStep(d, p)
  <2>1. task_flush(c, o) /\ UNCHANGED <<chunk, route, attempts, to_start, processed>>
    BY <1>2 DEF RetryFlush
  <2>2. /\ tries'[d][p] = IF d = c /\ p = o THEN tries[d][p] + 1
                                            ELSE tries[d][p]
        /\ InFlight(d, p)' <=> InFlight(d, p) \/ (d = c /\ p = o)
    BY <1>0, <2>1, FlushedRoutes
  <2>3. CASE d = c /\ p = o
    BY <1>0, <1>1, <2>1, <2>2, <2>3 DEF RouteStep, RouteFlushed
  <2>4. CASE ~(d = c /\ p = o)
    BY <2>1, <2>2, <2>4 DEF RouteStep, RouteSame
  <2> QED BY <2>3, <2>4
<1>3. \A h \in flushes : ~(h.chunk = c /\ h.out = o)
  BY <1>1 DEF InFlight
<1>4. CASE RetryReschedule(c, o)
  <2>0. UNCHANGED <<users, flushVars, loopVars, exitVars, metricVars>>
    BY <1>4 DEF RetryReschedule
  <2>1. CASE UNCHANGED <<chunkVars, task_map, tid, route, attempts>>
    BY <2>0, <2>1, QuietRoute
  <2>2. CASE reschedule_fails(c, o)
    <3>1. CASE users[c] = 0 /\ RetriesWithout(c, o) = NoRetries
      <4>1. task_destroy(c)
        BY <2>2, <3>1 DEF reschedule_fails, users_release
      <4>2. \A f \in flushes' : f.chunk /= c
        BY <2>0, <3>1, NoUsersNoFlush
      <4> QED BY <1>0, <2>0, <4>1, <4>2, DestroyedRoutes
    <3>2. CASE ~(users[c] = 0 /\ RetriesWithout(c, o) = NoRetries)
      <4>1. retry_destroy(c, o) /\ UNCHANGED <<chunkVars, task_map, tid, route>>
        BY <2>2, <3>2 DEF reschedule_fails, users_release
      <4> QED BY <1>0, <1>3, <2>0, <4>1, RetryGoneRoutes
    <3> QED BY <3>1, <3>2
  <2> QED BY <1>4, <2>1, <2>2 DEF RetryReschedule
<1>5. CASE RetryDestroyed(c, o)
  BY <1>0, <1>3, <1>5, RetryGoneRoutes DEF RetryDestroyed
<1>6. CASE RetryNotQueued(c, o)
  BY <1>6, QuietRoute DEF RetryNotQueued
<1> QED BY <1>2, <1>4, <1>5, <1>6 DEF DispatchRetry

\* Eviction closes all routes of a task or marks one.
LEMMA ReleaseSpaceRoutes ==
  ASSUME IndInv, NEW e \in Chunks, NEW c \in Chunks, NEW o \in Outputs,
         ReleaseSpace(e, c, o)
  PROVE  \A d \in Chunks, p \in Outputs : RouteStep(d, p)
<1> USE DEF flushVars, loopVars, retryVars
<1>0. /\ TypeOK /\ phase = "idle" /\ chunk[c] \in {"idle", "busy"}
      /\ UNCHANGED <<users, flushVars, loopVars, processed>>
  BY DEF IndInv, ReleaseSpace, EngineIdle
<1>1. CASE users[c] = 0 /\ mask[c] = {o} /\ tid[c] /= NoId
  <2>1. task_destroy(c)
    BY <1>1 DEF ReleaseSpace
  <2>2. \A f \in flushes' : f.chunk /= c
    BY <1>0, <1>1, NoUsersNoFlush
  <2> QED BY <1>0, <1>1, <2>1, <2>2, DestroyedRoutes
<1>2. CASE users[c] = 0 /\ mask[c] = {o} /\ tid[c] = NoId
  <2>1. chunk' = [chunk EXCEPT ![c] = "gone"] /\ UNCHANGED <<route, attempts>>
    BY <1>2 DEF ReleaseSpace
  <2>2. \A d \in Chunks : chunk'[d] = IF d = c THEN "gone" ELSE chunk[d]
    BY <1>0, <2>1 DEF TypeOK
  <2> QED BY <1>0, <2>1, <2>2 DEF RouteStep, RouteSame, InFlight
<1>3. CASE ~(users[c] = 0 /\ mask[c] = {o})
  <2>1. /\ UNCHANGED route \/ set_route_status(c, o, "DROPPED")
        /\ UNCHANGED <<chunk, attempts>>
    BY <1>3 DEF ReleaseSpace
  <2>2. \A d \in Chunks, p \in Outputs :
          route[d][p] /= "NONE" => route'[d][p] /= "NONE"
    BY <1>0, <2>1, RouteStays
  <2> QED BY <1>0, <2>1, <2>2 DEF RouteStep, RouteSame, InFlight
<1> QED BY <1>1, <1>2, <1>3

\* The end of the engine closes every route.
LEMMA ExitRoutes ==
  ASSUME IndInv, EngineExit
  PROVE  \A c \in Chunks, o \in Outputs : RouteStep(c, o)
<1> USE DEF EngineExit, loopVars, metricVars
<1>1. TypeOK /\ to_start = {}
  BY DEF IndInv, DispatchExact, TypeOK
<1>2. \A c \in Chunks, o \in Outputs : attempts'[c][o] = 0 /\ ~InFlight(c, o)'
  BY DEF NoRetries, InFlight
<1>3. \A c \in Chunks : chunk'[c] \in {"none", "idle"} => chunk[c] \in {"none", "idle"}
  BY <1>1 DEF TypeOK
<1> QED BY <1>1, <1>2, <1>3 DEF RouteStep, RouteClosed

\* Every step of the engine and of the workers does one of five things to a
\* route.
LEMMA RouteSteps ==
  ASSUME IndInv, [Next]_vars
  PROVE  \A c \in Chunks, o \in Outputs : RouteStep(c, o)
<1> USE DEF chunkVars, taskVars, retryVars, flushVars, loopVars, metricVars
<1>1. ASSUME NEW c \in Chunks, NEW r \in SUBSET Outputs, AppendChunk(c, r)
      PROVE  \A d \in Chunks, o \in Outputs : RouteStep(d, o)
  <2>1. \A d \in Chunks : chunk'[d] = IF d = c THEN "idle" ELSE chunk[d]
    BY <1>1 DEF AppendChunk, IndInv, TypeOK
  <2> QED BY <1>1, <2>1 DEF AppendChunk, RouteStep, RouteSame, InFlight
<1>2. CASE FlushTimer \/ StopEvent \/ ShutdownTick
  BY <1>2, QuietRoute DEF FlushTimer, StopEvent, ShutdownTick
<1>3. CASE Stopped \/ UNCHANGED vars
  BY <1>3, QuietRoute DEF Stopped, vars
<1>4. CASE RetryStep
  BY <1>4, RetryRoutes DEF RetryStep
<1> QED BY <1>1, <1>2, <1>3, <1>4, ReleaseSpaceRoutes, DispatchRoutes,
           FlushRoutes, EventRoutes, ExitRoutes DEF Next

\* RouteHistory is inductive.
LEMMA HistoryKept ==
  ASSUME IndInv, RouteHistory, [Next]_vars
  PROVE  RouteHistory'
<1> SUFFICES ASSUME NEW c \in Chunks, NEW o \in Outputs
             PROVE  (/\ chunk[c] \in {"none", "idle"} \/ <<c, o>> \in to_start =>
                          tries[c][o] = 0 /\ attempts[c][o] = 0
                          /\ processed[c][o] = 0
                     /\ attempts[c][o] > 0 /\ ~InFlight(c, o) =>
                          tries[c][o] <= attempts[c][o]
                     /\ InFlight(c, o) => tries[c][o] <= attempts[c][o] + 1
                     /\ processed[c][o] > 0 => ~Pending(c, o)
                     /\ Pending(c, o) => route[c][o] /= "NONE"
                     /\ RetryLimit[o] >= 0 => /\ attempts[c][o] <= RetryLimit[o]
                                              /\ tries[c][o] <= RetryLimit[o] + 1)'
  BY DEF RouteHistory
<1>1. RouteStep(c, o) /\ IndInv'
  BY RouteSteps, NextKeepsIndInv
<1>2. /\ tries[c][o] \in Nat /\ attempts[c][o] \in Nat /\ processed[c][o] \in Nat
      /\ tries'[c][o] \in Nat /\ attempts'[c][o] \in Nat
      /\ processed'[c][o] \in Nat /\ RetryLimit[o] \in Int
  BY <1>1, ConstantsAssumption DEF IndInv, TypeOK, PerRoute
<1>3. /\ chunk[c] \in {"none", "idle"} \/ <<c, o>> \in to_start =>
            tries[c][o] = 0 /\ attempts[c][o] = 0 /\ processed[c][o] = 0
      /\ attempts[c][o] > 0 /\ ~InFlight(c, o) => tries[c][o] <= attempts[c][o]
      /\ InFlight(c, o) => tries[c][o] <= attempts[c][o] + 1
      /\ processed[c][o] > 0 => ~Pending(c, o)
      /\ Pending(c, o) => route[c][o] /= "NONE"
      /\ RetryLimit[o] >= 0 => /\ attempts[c][o] <= RetryLimit[o]
                               /\ tries[c][o] <= RetryLimit[o] + 1
  BY DEF RouteHistory
<1>4. /\ InFlight(c, o) => chunk[c] = "busy"
      /\ <<c, o>> \in to_start => ~InFlight(c, o)
  BY NoTaskNoFlush DEF IndInv, DispatchExact
<1>5. /\ InFlight(c, o)' => chunk'[c] = "busy"
      /\ <<c, o>> \in to_start' => ~InFlight(c, o)' /\ chunk'[c] = "busy"
  <2>1. NoId \notin TaskIds
    BY ConstantsAssumption DEF TaskIds, NoId
  <2>2. tid'[c] /= NoId => chunk'[c] = "busy"
    BY <1>1 DEF IndInv, TaskMapExact
  <2>3. InFlight(c, o)' => tid'[c] /= NoId
    BY <1>1, <2>1 DEF IndInv, NoStaleTask, InFlight
  <2> QED BY <1>1, <2>2, <2>3 DEF IndInv, DispatchExact
<1>6. CASE RouteSame(c, o)
  BY <1>1, <1>2, <1>3, <1>6 DEF RouteStep, RouteSame, Pending
<1>7. CASE RouteCreated(c, o)
  BY <1>1, <1>2, <1>3, <1>7 DEF RouteStep, RouteCreated, Pending
<1>8. CASE RouteFlushed(c, o)
  BY <1>1, <1>2, <1>3, <1>4, <1>5, <1>8 DEF RouteStep, RouteFlushed, Pending
<1>9. CASE RouteRetried(c, o)
  BY <1>1, <1>2, <1>3, <1>4, <1>5, <1>9 DEF RouteStep, RouteRetried, Pending
<1>10. CASE RouteClosed(c, o)
  BY <1>1, <1>2, <1>3, <1>4, <1>5, <1>10 DEF RouteStep, RouteClosed, Pending
<1> QED BY <1>1, <1>6, <1>7, <1>8, <1>9, <1>10 DEF RouteStep

\* Eviction and task_destroy leave the routes of running flushes alone.
LEMMA RunningRouteKept ==
  ASSUME IndInv, RunningIsActive, [Next]_vars, ~FlushStep,
         NEW h \in flushes', h.stage = "running"
  PROVE  h \in flushes /\ route'[h.chunk][h.out] = route[h.chunk][h.out]
<1> USE DEF chunkVars, taskVars, retryVars, flushVars, loopVars, metricVars
<1>0. TypeOK
  BY DEF IndInv
<1>a. \A f \in flushes : f.chunk \in Chunks /\ f.out \in Outputs
  BY <1>0 DEF TypeOK, Flush
<1>b. ASSUME NEW c \in Chunks, NEW o \in Outputs, task_flush(c, o),
             UNCHANGED route
      PROVE  h \in flushes /\ route'[h.chunk][h.out] = route[h.chunk][h.out]
  BY <1>b DEF task_flush, NewFlush
<1>c. ASSUME NEW c \in Chunks, task_destroy(c), \A f \in flushes' : f.chunk /= c,
             flushes' \in SUBSET flushes
      PROVE  h \in flushes /\ route'[h.chunk][h.out] = route[h.chunk][h.out]
  BY <1>0, <1>a, <1>c DEF task_destroy, TypeOK, PerRoute
<1>1. CASE \/ \E c \in Chunks, r \in SUBSET Outputs : AppendChunk(c, r)
           \/ FlushTimer \/ StopEvent \/ ShutdownTick \/ Stopped
           \/ UNCHANGED vars \/ EngineExit
  BY <1>1 DEF AppendChunk, FlushTimer, StopEvent, ShutdownTick, Stopped, vars,
              EngineExit
<1>2. ASSUME NEW e \in Chunks, NEW c \in Chunks, NEW o \in Outputs,
             ReleaseSpace(e, c, o)
      PROVE  h \in flushes /\ route'[h.chunk][h.out] = route[h.chunk][h.out]
  <2>0. flushes' = flushes /\ h.chunk \in Chunks /\ h.out \in Outputs
    BY <1>2, <1>a DEF ReleaseSpace
  <2>1. h.chunk = c => users[c] /= 0
    BY <2>0, NoUsersNoFlush
  <2>2. CASE users[c] = 0
    <3>1. \/ UNCHANGED route
          \/ task_destroy(c)
      BY <1>2, <2>2 DEF ReleaseSpace
    <3>2. \A f \in flushes' : f.chunk /= c
      BY <2>0, <2>2, NoUsersNoFlush
    <3> QED BY <1>c, <2>0, <3>1, <3>2
  <2>3. CASE users[c] /= 0
    <3>1. /\ route[c][o] = "INACTIVE"
          /\ set_route_status(c, o, "DROPPED")
      BY <1>2, <2>3 DEF ReleaseSpace, MayDropRoute
    <3>2. ~(h.chunk = c /\ h.out = o)
      BY <2>0, <3>1 DEF RunningIsActive
    <3> QED BY <1>0, <2>0, <3>1, <3>2, RouteStays
  <2> QED BY <2>2, <2>3
<1>3. CASE DispatchStep
  <2>1. CASE \/ NoTaskAvailable \/ TasksStart \/ DispatchDone \/ StopIngestion
             \/ \E c \in Chunks : SkipChunk(c)
             \/ \E c \in Chunks, i \in TaskIds : CreateTaskFails(c, i)
    BY <2>1 DEF NoTaskAvailable, TasksStart, DispatchDone, StopIngestion,
                SkipChunk, CreateTaskFails
  <2>2. ASSUME NEW c \in Chunks, NEW i \in TaskIds, CreateTask(c, i)
        PROVE  h \in flushes /\ route'[h.chunk][h.out] = route[h.chunk][h.out]
    <3>1. chunk[c] = "idle" /\ flushes' = flushes
      BY <2>2 DEF CreateTask, IndInv, DispatchExact
    <3>2. h.chunk /= c
      BY <1>a, <3>1, NoTaskNoFlush DEF InFlight
    <3>3. \/ UNCHANGED route
          \/ \E r : route' = [route EXCEPT ![c] = r]
      BY <2>2 DEF CreateTask
    <3> QED BY <1>0, <1>a, <3>1, <3>2, <3>3 DEF TypeOK, PerRoute
  <2>3. ASSUME NEW c \in Chunks, NEW o \in Outputs, StartRoute(c, o)
        PROVE  h \in flushes /\ route'[h.chunk][h.out] = route[h.chunk][h.out]
    BY <1>b, <2>3 DEF StartRoute, flush_fails
  <2> QED BY <1>3, <2>1, <2>2, <2>3 DEF DispatchStep
<1>4. CASE EventStep
  <2>1. PICK f \in flushes, c \in Chunks : HandleOutputEvent(f, c)
    BY <1>4 DEF EventStep
  <2>2. EventOf(f, c) /\ (FinishRoute(c, f.out) \/ UNCHANGED route)
    BY <2>1 DEF HandleOutputEvent, HandleOk, HandleError, HandleRetryRefused,
           HandleRetry, HandleRetryUnscheduled
  <2>3. c = f.chunk /\ flushes' = flushes \ {f}
    BY <2>2, EventFacts
  <2>4. CASE UNCHANGED route
    BY <2>3, <2>4
  <2>5. CASE FinishRoute(c, f.out)
    <3>1. users[c] - 1 = 0 => \A k \in flushes' : k.chunk /= c
      BY <2>3, <2>5, UserReleased DEF FinishRoute
    <3>2. UNCHANGED route \/ (task_destroy(c) /\ users[c] - 1 = 0)
      BY <2>5 DEF FinishRoute, users_release
    <3> QED BY <1>c, <2>3, <3>1, <3>2
  <2> QED BY <2>2, <2>4, <2>5
<1>5. ASSUME NEW c \in Chunks, NEW o \in Outputs, DispatchRetry(c, o)
      PROVE  h \in flushes /\ route'[h.chunk][h.out] = route[h.chunk][h.out]
  <2>1. CASE RetryFlush(c, o)
    BY <1>b, <2>1 DEF RetryFlush
  <2>2. CASE RetryReschedule(c, o)
    <3>1. flushes' = flushes
      BY <2>2 DEF RetryReschedule
    <3>2. UNCHANGED route \/ (task_destroy(c) /\ users[c] = 0)
      BY <2>2 DEF RetryReschedule, reschedule_fails, users_release
    <3>3. users[c] = 0 => \A k \in flushes' : k.chunk /= c
      BY <3>1, NoUsersNoFlush
    <3> QED BY <1>c, <3>1, <3>2, <3>3
  <2>3. CASE RetryDestroyed(c, o) \/ RetryNotQueued(c, o)
    BY <2>3 DEF RetryDestroyed, RetryNotQueued
  <2> QED BY <1>5, <2>1, <2>2, <2>3 DEF DispatchRetry
<1> QED BY <1>1, <1>2, <1>3, <1>4, <1>5 DEF Next, RetryStep

\* A callback starts only after its route has become active, and no other
\* flush changes the status of the route.
LEMMA RunningKept ==
  ASSUME IndInv, RouteHistory, RunningIsActive, [Next]_vars
  PROVE  RunningIsActive'
<1>1. CASE ~FlushStep
  BY <1>1, RunningRouteKept DEF RunningIsActive
<1>2. CASE FlushStep
  <2>0. TypeOK
    BY DEF IndInv
  <2>1. PICK f \in flushes :
          \/ FlushStart(f) \/ FlushEmpty(f) \/ WorkerCreateFails(f)
          \/ \E ret \in Returns : FlushReturn(f, ret)
          \/ WorkerForward(f)
    BY <1>2 DEF FlushStep
  <2>2. f \in Flush /\ f.chunk \in Chunks /\ f.out \in Outputs
    BY <2>0 DEF TypeOK, Flush
  <2> DEFINE Moved(g) ==
        /\ flushes' = (flushes \ {f}) \cup {g}
        /\ g.chunk = f.chunk /\ g.out = f.out
        /\ \/ UNCHANGED route /\ g.stage /= "running"
           \/ /\ set_route_status(f.chunk, f.out, "INACTIVE")
              /\ g.stage /= "running"
           \/ set_route_status(f.chunk, f.out, "ACTIVE")
  <2>3. PICK g : Moved(g)
    <3>1. CASE FlushStart(f) /\ route[f.chunk][f.out] /= "DROPPED"
      <4> DEFINE g == [f EXCEPT !.stage = "running"]
      <4>1. g.chunk = f.chunk /\ g.out = f.out
        BY <2>2 DEF Flush
      <4>2. Moved(g)
        BY <3>1, <4>1 DEF FlushStart
      <4> QED BY <4>2
    <3>2. ASSUME NEW ret, output_return(f, ret)
          PROVE  \E g : Moved(g)
      <4> DEFINE g == [f EXCEPT !.stage = IF f.out \in Threaded THEN "worker"
                                                                ELSE "returned",
                                !.ret = ret, !.task_id = tid[f.chunk]]
      <4>1. g.chunk = f.chunk /\ g.out = f.out /\ g.stage /= "running"
        BY <2>2 DEF Flush
      <4>2. /\ flushes' = (flushes \ {f}) \cup {g}
            /\ set_route_status(f.chunk, f.out, "INACTIVE")
        BY <3>2 DEF output_return
      <4>3. Moved(g)
        BY <4>1, <4>2
      <4> QED BY <4>3
    <3>3. CASE \/ FlushStart(f) /\ route[f.chunk][f.out] = "DROPPED"
               \/ FlushEmpty(f)
               \/ \E ret \in Returns : FlushReturn(f, ret)
      <4>1. \E ret : output_return(f, ret)
        BY <3>3 DEF FlushStart, FlushEmpty, FlushReturn
      <4> HIDE DEF Moved
      <4> QED BY <3>2, <4>1
    <3>4. ASSUME NEW stage \in {"lost", "returned"}, UNCHANGED route,
                 flushes' = (flushes \ {f}) \cup {[f EXCEPT !.stage = stage]}
          PROVE  \E g : Moved(g)
      <4> DEFINE g == [f EXCEPT !.stage = stage]
      <4>1. g.chunk = f.chunk /\ g.out = f.out /\ g.stage /= "running"
        BY <2>2 DEF Flush
      <4>2. Moved(g)
        BY <3>4, <4>1
      <4> QED BY <4>2
    <3>5. CASE WorkerCreateFails(f) \/ WorkerForward(f)
      <4> HIDE DEF Moved
      <4> QED BY <3>4, <3>5 DEF WorkerCreateFails, WorkerForward, taskVars
    <3> HIDE DEF Moved
    <3> QED BY <2>1, <3>1, <3>3, <3>5
  <2>4. route[f.chunk][f.out] /= "NONE"
    BY <2>2 DEF RouteHistory, Pending, InFlight
  <2>5. ASSUME NEW h \in flushes', h.stage = "running"
        PROVE  route'[h.chunk][h.out] = "ACTIVE"
    <3>1. CASE h = g
      BY <2>0, <2>2, <2>3, <2>4, <2>5, <3>1, RouteStays
    <3>2. CASE h \in flushes \ {f}
      <4>1. /\ h.chunk /= f.chunk \/ h.out /= f.out
            /\ h.chunk \in Chunks /\ h.out \in Outputs
        BY <2>0, <3>2 DEF IndInv, OneFlight, TypeOK, Flush
      <4>2. route'[h.chunk][h.out] = route[h.chunk][h.out]
        BY <2>0, <2>2, <2>3, <4>1, RouteStays
      <4> QED BY <2>5, <3>2, <4>2 DEF RunningIsActive
    <3> QED BY <2>3, <3>1, <3>2
  <2> QED BY <2>5 DEF RunningIsActive
<1> QED BY <1>1, <1>2

\* The routes start closed.
LEMMA InitHistory == Init => RouteHistory /\ RunningIsActive
BY ConstantsAssumption DEF Init, RouteHistory, RunningIsActive, Pending,
   InFlight, NoRetries

\* Whatever call fails, the attempts of a route account for its flushes and a
\* delivered route is closed.
THEOREM HistoryHolds == Spec => [](RouteHistory /\ RunningIsActive)
<1>1. Init => RouteHistory /\ RunningIsActive
  BY InitHistory
<1>2. IndInv /\ (RouteHistory /\ RunningIsActive) /\ [Next]_vars
        => (RouteHistory /\ RunningIsActive)'
  BY HistoryKept, RunningKept
<1> QED BY <1>1, <1>2, IndInvHolds, PTL DEF Spec

\* flb_task_retry_create bounds the flushes of a route: an output with a
\* limit of N retries sees a chunk N + 1 times at most, over retries, restarts
\* of the dispatch, failing calls and the rescheduling at shutdown.
THEOREM TriesBounded == Spec => []TriesWithinLimit
<1>1. RouteHistory => TriesWithinLimit
  BY DEF RouteHistory, TriesWithinLimit
<1> QED BY <1>1, HistoryHolds, PTL

\* While a callback runs, its route is active: neither eviction nor another
\* flush of the task takes it away (flb_input_chunk_drop_task_route).
THEOREM RunningAlwaysActive == Spec => []RunningIsActive
BY HistoryHolds, PTL

\* A delivered route is never flushed and never counted again.
THEOREM DeliveredStaysFinal == Spec => DeliveredIsFinal
<1>1. ASSUME IndInv, RouteHistory, [Next]_vars
      PROVE  [\A c \in Chunks, o \in Outputs : processed[c][o] > 0 =>
                /\ tries'[c][o] = tries[c][o]
                /\ processed'[c][o] = processed[c][o]]_vars
  <2> SUFFICES ASSUME NEW c \in Chunks, NEW o \in Outputs, processed[c][o] > 0
               PROVE  /\ tries'[c][o] = tries[c][o]
                      /\ processed'[c][o] = processed[c][o]
    OBVIOUS
  <2>1. RouteStep(c, o)
    BY <1>1, RouteSteps
  <2>2. ~Pending(c, o)
    BY <1>1 DEF RouteHistory
  <2> QED BY <2>1, <2>2 DEF RouteStep, RouteSame, RouteCreated, RouteFlushed,
             RouteRetried, RouteClosed, Pending
<1> QED BY <1>1, IndInvHolds, HistoryHolds, PTL DEF Spec, DeliveredIsFinal

(***************************************************************************)
(* What one step does to the chunks, when no failing call ends a route     *)
(* without a trace.                                                        *)
(***************************************************************************)
outcomes == <<processed, dropped, dlq>>

NothingSettles ==
    /\ UNCHANGED <<chunk, mask, routed, outcomes>>
    /\ \A c \in Chunks, o \in Outputs : Pending(c, o)' <=> Pending(c, o)

ChunkAccepted(c, r) ==
    /\ chunk[c] = "none"
    /\ chunk' = [chunk EXCEPT ![c] = "idle"]
    /\ mask' = [mask EXCEPT ![c] = r]
    /\ routed' = [routed EXCEPT ![c] = r]
    /\ UNCHANGED outcomes
    /\ \A d \in Chunks, o \in Outputs : Pending(d, o)' <=> Pending(d, o)

TaskMade(c, r) ==
    /\ chunk[c] = "idle" /\ r \in TaskRoutes(c)
    /\ chunk' = [chunk EXCEPT ![c] = IF r = {} THEN "gone" ELSE "busy"]
    /\ UNCHANGED <<mask, routed, outcomes>>
    /\ \A d \in Chunks, o \in Outputs :
          Pending(d, o)' <=> Pending(d, o) \/ (d = c /\ o \in r)

RouteSettled(c, o) ==
    /\ chunk[c] = "busy" /\ Pending(c, o)
    /\ UNCHANGED routed
    /\ \A d \in Chunks, p \in Outputs :
          /\ Settled(d, p)' <=> Settled(d, p) \/ (d = c /\ p = o)
          /\ Pending(d, p)' <=> Pending(d, p) /\ ~(d = c /\ p = o)
    /\ \/ /\ \E p \in Outputs : p /= o /\ Pending(c, p)
          /\ UNCHANGED <<chunk, mask>>
       \/ /\ \A p \in Outputs : p /= o => ~Pending(c, p)
          /\ chunk' = [chunk EXCEPT ![c] = "gone"]
          /\ mask' = [mask EXCEPT ![c] = {}]

RouteEvicted(c, o) ==
    /\ chunk[c] \in {"idle", "busy"} /\ o \in mask[c] /\ o \in Limited
    /\ UNCHANGED routed
    /\ \A d \in Chunks, p \in Outputs : Settled(d, p) => Settled(d, p)'
    /\ \A d \in Chunks, p \in Outputs : d /= c => (Pending(d, p)' <=> Pending(d, p))
    /\ \/ /\ mask[c] = {o} /\ Settled(c, o)'
          /\ chunk' = [chunk EXCEPT ![c] = "gone"]
          /\ mask' = [mask EXCEPT ![c] = {}]
       \/ /\ chunk[c] = "idle" => Settled(c, o)'
          /\ \A p \in Outputs : Pending(c, p)' <=> Pending(c, p)
          /\ mask' = [mask EXCEPT ![c] = @ \ {o}]
          /\ UNCHANGED chunk

EngineGone ==
    /\ chunk' = [c \in Chunks |-> IF chunk[c] \in {"idle", "busy"} THEN "kept"
                                                                   ELSE chunk[c]]
    /\ UNCHANGED <<routed, outcomes>>

ChunkStep ==
    \/ NothingSettles
    \/ \E c \in Chunks, r \in SUBSET Outputs : ChunkAccepted(c, r)
    \/ \E c \in Chunks, r \in SUBSET Outputs : TaskMade(c, r)
    \/ \E c \in Chunks, o \in Outputs : RouteSettled(c, o)
    \/ \E c \in Chunks, o \in Outputs : RouteEvicted(c, o)
    \/ EngineGone

\* Steps of the loop and of a flush open and close nothing.
LEMMA QuietChunks ==
  ASSUME UNCHANGED <<chunk, mask, routed, processed, dropped, dlq, attempts,
                     to_start>>,
         \A c, o : InFlight(c, o)' <=> InFlight(c, o)
  PROVE  ChunkStep
BY DEF ChunkStep, NothingSettles, outcomes, Pending

\* A chunk without a task has no open route.
LEMMA NoTaskNotPending ==
  ASSUME IndInv, NEW c \in Chunks, chunk[c] /= "busy"
  PROVE  \A o \in Outputs : ~Pending(c, o)
<1>1. tid[c] = NoId
  BY DEF IndInv, TaskMapExact
<1>2. \A o \in Outputs : ~(attempts[c][o] > 0) /\ <<c, o>> \notin to_start
  BY <1>1 DEF IndInv, TaskMapExact, DispatchExact
<1> QED BY <1>2, NoTaskNoFlush DEF Pending

\* FinishRoute with its count settles a route, and deletes the chunk with the
\* last one.
LEMMA FinishSettles ==
  ASSUME IndInv, NEW f \in flushes, NEW c \in Chunks, EventOf(f, c),
         FinishRoute(c, f.out), UNCHANGED loopVars,
         \A d \in Chunks, p \in Outputs :
            Settled(d, p)' <=> Settled(d, p) \/ (d = c /\ p = f.out)
  PROVE  ChunkStep
<1> USE DEF loopVars, chunkVars
<1>0. /\ c = f.chunk /\ f.out \in Outputs /\ phase = "idle"
      /\ tid[c] /= NoId /\ chunk[c] = "busy" /\ InFlight(c, f.out)
      /\ flushes' = flushes \ {f}
      /\ \A h \in flushes' : ~(h.chunk = c /\ h.out = f.out)
  BY EventFacts
<1>1. /\ users[c] - 1 = 0 => \A h \in flushes' : h.chunk /= c
      /\ UsersCount' /\ IsFiniteSet(flushes') /\ users'[c] = users[c] - 1
  BY <1>0, UserReleased DEF FinishRoute, IndInv, TypeOK
<1>2. TypeOK /\ to_start = {} /\ to_start' = {}
  BY <1>0 DEF IndInv, DispatchExact
<1>3. \A d, p : InFlight(d, p)' <=> InFlight(d, p) /\ ~(d = c /\ p = f.out)
  BY <1>0 DEF InFlight
<1>4. UNCHANGED routed
  BY DEF FinishRoute, users_release, task_destroy
<1>5. \A p \in Outputs : attempts[c][p] \in Nat
  BY <1>2 DEF TypeOK, PerRoute
<1>6. CASE users[c] - 1 = 0 /\ RetriesWithout(c, f.out) = NoRetries
  <2>1. task_destroy(c)
    BY <1>6 DEF FinishRoute, users_release
  <2>2. /\ chunk' = [chunk EXCEPT ![c] = "gone"]
        /\ mask' = [mask EXCEPT ![c] = {}]
    BY <2>1 DEF task_destroy
  <2>3. \A d \in Chunks, p \in Outputs :
          attempts'[d][p] = IF d = c THEN 0 ELSE attempts[d][p]
    BY <1>2, <2>1 DEF task_destroy, TypeOK, PerRoute, NoRetries
  <2>4. \A p \in Outputs : p /= f.out => attempts[c][p] = 0
    <3>1. \A p \in Outputs : RetriesWithout(c, f.out)[p] = 0
      BY <1>6 DEF NoRetries
    <3> QED BY <1>2, <3>1 DEF RetriesWithout, TypeOK, PerRoute
  <2>5. \A p \in Outputs : p /= f.out => ~InFlight(c, p)
    BY <1>0, <1>1, <1>6 DEF InFlight
  <2>6. \A p \in Outputs : p /= f.out => ~Pending(c, p)
    BY <1>2, <2>4, <2>5 DEF Pending
  <2>7. \A d \in Chunks, p \in Outputs :
          Pending(d, p)' <=> Pending(d, p) /\ ~(d = c /\ p = f.out)
    BY <1>2, <1>3, <2>3, <2>6 DEF Pending
  <2>8. RouteSettled(c, f.out)
    BY <1>0, <1>4, <2>2, <2>6, <2>7 DEF RouteSettled, Pending
  <2> QED BY <1>0, <2>8 DEF ChunkStep
<1>7. CASE ~(users[c] - 1 = 0 /\ RetriesWithout(c, f.out) = NoRetries)
  <2>1. retry_destroy(c, f.out) /\ UNCHANGED <<chunk, mask>>
    BY <1>7 DEF FinishRoute, users_release
  <2>2. \A d \in Chunks, p \in Outputs :
          attempts'[d][p] = IF d = c /\ p = f.out THEN 0 ELSE attempts[d][p]
    BY <1>2, <2>1 DEF retry_destroy, RetriesWithout, TypeOK, PerRoute
  <2>3. \A d \in Chunks, p \in Outputs :
          Pending(d, p)' <=> Pending(d, p) /\ ~(d = c /\ p = f.out)
    BY <1>2, <1>3, <2>2 DEF Pending
  <2>4. \E p \in Outputs : p /= f.out /\ Pending(c, p)
    <3>1. CASE users[c] - 1 /= 0
      <4>1. FlushesOf(c)' /= {}
        <5>1. Cardinality(FlushesOf(c)') /= 0
          BY <1>1, <3>1 DEF UsersCount
        <5> QED BY <5>1, FS_EmptySet
      <4>2. PICK h \in flushes' : h.chunk = c
        BY <4>1 DEF FlushesOf
      <4>3. h \in flushes /\ h.out \in Outputs /\ h.out /= f.out
        BY <1>0, <1>2, <4>2 DEF TypeOK, Flush
      <4> QED BY <4>2, <4>3 DEF Pending, InFlight
    <3>2. CASE RetriesWithout(c, f.out) /= NoRetries
      <4>1. \E p \in Outputs : RetriesWithout(c, f.out)[p] /= 0
        BY <1>2, <3>2 DEF RetriesWithout, NoRetries, TypeOK, PerRoute
      <4>2. PICK p \in Outputs : p /= f.out /\ attempts[c][p] /= 0
        BY <1>2, <4>1 DEF RetriesWithout, TypeOK, PerRoute
      <4> QED BY <1>5, <4>2 DEF Pending
    <3> QED BY <1>7, <3>1, <3>2
  <2>5. RouteSettled(c, f.out)
    BY <1>0, <1>4, <2>1, <2>3, <2>4 DEF RouteSettled, Pending
  <2> QED BY <1>0, <2>5 DEF ChunkStep
<1> QED BY <1>6, <1>7

\* task_flush moves an open route into a flush.
LEMMA FlushSettlesNothing ==
  ASSUME TypeOK, NEW c \in Chunks, NEW o \in Outputs, task_flush(c, o),
         Pending(c, o), UNCHANGED <<chunk, mask, routed, outcomes, attempts>>,
         to_start' \in SUBSET to_start,
         \A d \in Chunks, p \in Outputs :
            <<d, p>> \in to_start => <<d, p>> \in to_start' \/ (d = c /\ p = o)
  PROVE  ChunkStep
<1>1. \A d \in Chunks, p \in Outputs :
        InFlight(d, p)' <=> InFlight(d, p) \/ (d = c /\ p = o)
  BY FlushedRoutes
<1>2. \A d \in Chunks, p \in Outputs : Pending(d, p)' <=> Pending(d, p)
  BY <1>1 DEF Pending
<1> QED BY <1>2 DEF ChunkStep, NothingSettles

\* A chunk gets its task, or is deleted for want of routes.
LEMMA CreateChunks ==
  ASSUME IndInv, NEW c \in Chunks, NEW i \in TaskIds, CreateTask(c, i)
  PROVE  ChunkStep
<1> USE DEF retryVars, flushVars, metricVars, outcomes
<1>0. TypeOK
  BY DEF IndInv
<1>1. /\ chunk[c] = "idle"
      /\ UNCHANGED <<mask, routed, outcomes, attempts, flushes>>
  BY DEF CreateTask, IndInv, DispatchExact
<1>2. PICK r \in TaskRoutes(c) :
        IF r = {}
        THEN /\ chunk' = [chunk EXCEPT ![c] = "gone"]
             /\ UNCHANGED <<task_map, tid, route, to_start>>
        ELSE /\ chunk' = [chunk EXCEPT ![c] = "busy"]
             /\ task_map' = [task_map EXCEPT ![i] = c]
             /\ tid' = [tid EXCEPT ![c] = i]
             /\ route' = [route EXCEPT ![c] =
                   [o \in Outputs |-> IF o \in r THEN "INACTIVE" ELSE "NONE"]]
             /\ to_start' = to_start \cup ({c} \X r)
  BY DEF CreateTask
<1>3. r \in SUBSET Outputs
  BY <1>0, <1>2 DEF TaskRoutes, TypeOK
<1>4. \A d \in Chunks, p \in Outputs :
        <<d, p>> \in to_start' <=> <<d, p>> \in to_start \/ (d = c /\ p \in r)
  BY <1>2
<1>5. \A d \in Chunks, p \in Outputs :
        Pending(d, p)' <=> Pending(d, p) \/ (d = c /\ p \in r)
  BY <1>1, <1>4 DEF Pending, InFlight
<1>6. chunk' = [chunk EXCEPT ![c] = IF r = {} THEN "gone" ELSE "busy"]
  BY <1>2
<1>7. TaskMade(c, r)
  BY <1>1, <1>2, <1>5, <1>6 DEF TaskMade
<1> QED BY <1>3, <1>7 DEF ChunkStep

\* The steps of the dispatch loop, when every flush can be created.
LEMMA DispatchChunks ==
  ASSUME NoSilentFault, IndInv, DispatchStep
  PROVE  ChunkStep
<1> USE DEF chunkVars, taskVars, retryVars, flushVars, loopVars, metricVars
<1>0. TypeOK
  BY DEF IndInv
<1>1. CASE NoTaskAvailable \/ TasksStart \/ DispatchDone \/ StopIngestion
  BY <1>1, QuietChunks
  DEF NoTaskAvailable, TasksStart, DispatchDone, StopIngestion, InFlight
<1>2. CASE \E c \in Chunks : SkipChunk(c)
  BY <1>2 DEF SkipChunk, MayFail, NoSilentFault
<1>3. CASE \E c \in Chunks, i \in TaskIds : CreateTaskFails(c, i)
  BY <1>3, QuietChunks DEF CreateTaskFails, InFlight
<1>4. ASSUME NEW c \in Chunks, NEW o \in Outputs, StartRoute(c, o)
      PROVE  ChunkStep
  <2>1. /\ <<c, o>> \in to_start /\ to_start' = to_start \ {<<c, o>>}
        /\ task_flush(c, o)
        /\ UNCHANGED <<chunk, mask, routed, outcomes, attempts>>
    BY <1>4 DEF StartRoute, flush_fails, MayFail, NoSilentFault, outcomes
  <2> QED BY <1>0, <2>1, FlushSettlesNothing DEF Pending
<1> QED BY <1>1, <1>2, <1>3, <1>4, CreateChunks DEF DispatchStep

\* The steps of a flush.
LEMMA FlushChunks ==
  ASSUME IndInv, FlushStep
  PROVE  ChunkStep
<1> USE DEF chunkVars, taskVars, retryVars, loopVars, metricVars
<1>0. TypeOK
  BY DEF IndInv
<1>1. PICK f \in flushes :
        \/ FlushStart(f) \/ FlushEmpty(f) \/ WorkerCreateFails(f)
        \/ \E ret \in Returns : FlushReturn(f, ret)
        \/ WorkerForward(f)
  BY DEF FlushStep
<1>2. f \in Flush
  BY <1>0 DEF TypeOK
<1>3. UNCHANGED <<chunk, mask, routed, processed, dropped, dlq, attempts,
                  to_start>>
  BY <1>1 DEF FlushStart, FlushEmpty, WorkerCreateFails, FlushReturn, WorkerForward
<1>4. PICK g : g.chunk = f.chunk /\ g.out = f.out
               /\ flushes' = (flushes \ {f}) \cup {g}
  BY <1>1, <1>2 DEF FlushStart, FlushEmpty, WorkerCreateFails, FlushReturn,
         WorkerForward, output_return, Flush
<1>5. \A c, o : InFlight(c, o)' <=> InFlight(c, o)
  BY <1>4 DEF InFlight
<1> QED BY <1>3, <1>5, QuietChunks

\* The handler of the return events.
LEMMA EventChunks ==
  ASSUME NoSilentFault, IndInv, EventStep
  PROVE  ChunkStep
<1> USE DEF loopVars, metricVars
<1>0. TypeOK
  BY DEF IndInv
<1>1. PICK f \in flushes, c \in Chunks : HandleOutputEvent(f, c)
  BY DEF EventStep
<1>2. EventOf(f, c)
  BY <1>1 DEF HandleOutputEvent, HandleOk, HandleError, HandleRetryRefused,
         HandleRetry, HandleRetryUnscheduled
<1>3. /\ c = f.chunk /\ f.out \in Outputs /\ phase = "idle"
      /\ tid[c] /= NoId /\ chunk[c] = "busy" /\ InFlight(c, f.out)
      /\ flushes' = flushes \ {f}
      /\ \A h \in flushes' : ~(h.chunk = c /\ h.out = f.out)
  BY <1>2, EventFacts
<1>4. \A d \in Chunks, p \in Outputs :
        /\ processed[d][p] \in Nat /\ dropped[d][p] \in Nat
        /\ Count(processed, c, f.out)[d][p]
              = IF d = c /\ p = f.out THEN processed[d][p] + 1 ELSE processed[d][p]
        /\ Count(dropped, c, f.out)[d][p]
              = IF d = c /\ p = f.out THEN dropped[d][p] + 1 ELSE dropped[d][p]
  BY <1>0, <1>3 DEF Count, TypeOK, PerRoute
<1>5. ASSUME quarantine(c, f.out)
      PROVE  /\ \A d, p : <<d, p>> \in dlq => <<d, p>> \in dlq'
             /\ \A d, p : <<d, p>> \in dlq' =>
                    <<d, p>> \in dlq \/ (d = c /\ p = f.out)
             /\ KeepRejected /\ "dlq" \notin Faults => <<c, f.out>> \in dlq'
  <2>1. CASE dlq' = dlq \cup {<<c, f.out>>}
    BY <2>1
  <2>2. CASE (KeepRejected => MayFail("dlq")) /\ dlq' = dlq
    BY <2>2 DEF MayFail
  <2> QED BY <1>5, <2>1, <2>2 DEF quarantine
<1>6. CASE HandleOk(f, c)
  <2>1. \A d \in Chunks, p \in Outputs :
          Settled(d, p)' <=> Settled(d, p) \/ (d = c /\ p = f.out)
    BY <1>4, <1>6 DEF HandleOk, Settled
  <2> QED BY <1>2, <1>6, <2>1, FinishSettles DEF HandleOk
<1>7. CASE HandleError(f, c) \/ HandleRetryRefused(f, c)
  <2>1. \A d \in Chunks, p \in Outputs :
          Settled(d, p)' <=> Settled(d, p) \/ (d = c /\ p = f.out)
    <3>1. quarantine(c, f.out) /\ dropped' = Count(dropped, c, f.out)
          /\ processed' = processed
      BY <1>7 DEF HandleError, HandleRetryRefused
    <3>2. dropped'[c][f.out] > 0
      BY <1>3, <1>4, <3>1
    <3>3. \A d \in Chunks, p \in Outputs : ~(d = c /\ p = f.out) =>
             dropped'[d][p] = dropped[d][p]
             /\ (<<d, p>> \in dlq' <=> <<d, p>> \in dlq)
      BY <1>4, <1>5, <3>1
    <3> QED BY <3>1, <3>2, <3>3 DEF Settled
  <2> QED BY <1>2, <1>7, <2>1, FinishSettles DEF HandleError, HandleRetryRefused
<1>8. CASE HandleRetryUnscheduled(f, c)
  <2>1. KeepRejected /\ "dlq" \notin Faults
    BY <1>8 DEF HandleRetryUnscheduled, MayFail, NoSilentFault
  <2>2. \A d \in Chunks, p \in Outputs :
          Settled(d, p)' <=> Settled(d, p) \/ (d = c /\ p = f.out)
    <3>1. quarantine(c, f.out) /\ UNCHANGED <<processed, dropped>>
      BY <1>8 DEF HandleRetryUnscheduled
    <3> QED BY <1>5, <2>1, <3>1 DEF Settled
  <2> QED BY <1>2, <1>8, <2>2, FinishSettles DEF HandleRetryUnscheduled
<1>9. CASE HandleRetry(f, c)
  <2> USE DEF chunkVars, outcomes
  <2>1. UNCHANGED <<chunk, mask, routed, outcomes, to_start>>
    BY <1>9 DEF HandleRetry
  <2>2. \A d \in Chunks, p \in Outputs :
          /\ attempts[d][p] \in Nat
          /\ attempts'[d][p] = IF d = c /\ p = f.out THEN attempts[d][p] + 1
                                                     ELSE attempts[d][p]
    BY <1>0, <1>3, <1>9 DEF HandleRetry, TypeOK, PerRoute
  <2>3. \A d, p : InFlight(d, p)' <=> InFlight(d, p) /\ ~(d = c /\ p = f.out)
    BY <1>3 DEF InFlight
  <2>4. \A d \in Chunks, p \in Outputs : Pending(d, p)' <=> Pending(d, p)
    BY <1>3, <2>1, <2>2, <2>3 DEF Pending
  <2> QED BY <2>1, <2>4 DEF ChunkStep, NothingSettles
<1> QED BY <1>1, <1>6, <1>7, <1>8, <1>9 DEF HandleOutputEvent

\* A retry that fires is flushed or scheduled again.
LEMMA RetryChunks ==
  ASSUME NoSilentFault, IndInv, NEW c \in Chunks, NEW o \in Outputs,
         DispatchRetry(c, o)
  PROVE  ChunkStep
<1> USE DEF chunkVars, flushVars, loopVars, metricVars, outcomes
<1>0. TypeOK /\ RetryFires(c, o)
  BY DEF IndInv, DispatchRetry, RetryFlush, RetryReschedule,
         RetryDestroyed, RetryNotQueued
<1>1. attempts[c][o] > 0
  <2>1. requests[c][o] \in Nat
    BY <1>0 DEF TypeOK, PerRoute
  <2>2. requests[c][o] > 0 /\ requests[c][o] <= 1
    BY <1>0 DEF IndInv, RequestsBacked, RetryFires
  <2> QED BY <2>1, <2>2 DEF IndInv, RequestsBacked
<1>2. CASE RetryFlush(c, o)
  BY <1>0, <1>1, <1>2, FlushSettlesNothing DEF RetryFlush, Pending
<1>3. CASE RetryReschedule(c, o)
  <2>1. UNCHANGED <<chunkVars, attempts, flushVars, loopVars, metricVars>>
    BY <1>3 DEF RetryReschedule, reschedule_fails, MayFail, NoSilentFault
  <2> QED BY <2>1, QuietChunks DEF InFlight
<1>4. ~RetryDestroyed(c, o) /\ ~RetryNotQueued(c, o)
  BY DEF RetryDestroyed, RetryNotQueued, MayFail, NoSilentFault
<1> QED BY <1>2, <1>3, <1>4 DEF DispatchRetry

\* Eviction counts the records of a chunk that no flush holds.
LEMMA ReleaseSpaceChunks ==
  ASSUME IndInv, NEW e \in Chunks, NEW c \in Chunks, NEW o \in Outputs,
         ReleaseSpace(e, c, o)
  PROVE  ChunkStep
<1> USE DEF flushVars, loopVars, retryVars
<1>0. /\ TypeOK /\ phase = "idle" /\ to_start = {}
      /\ chunk[c] \in {"idle", "busy"} /\ o \in mask[c] /\ o \in Limited
      /\ UNCHANGED <<users, flushVars, loopVars, processed, dlq, routed>>
  BY DEF IndInv, DispatchExact, ReleaseSpace, EngineIdle, task_destroy
<1>1. \A d \in Chunks, p \in Outputs :
        /\ dropped[d][p] \in Nat
        /\ dropped'[d][p] = IF users[c] = 0 /\ d = c /\ p = o
                            THEN dropped[d][p] + 1 ELSE dropped[d][p]
  BY <1>0 DEF ReleaseSpace, Count, TypeOK, PerRoute
<1>2. /\ \A d \in Chunks, p \in Outputs : Settled(d, p) => Settled(d, p)'
      /\ users[c] = 0 => Settled(c, o)'
  BY <1>0, <1>1 DEF Settled
<1>3. \A d, p : InFlight(d, p)' <=> InFlight(d, p)
  BY <1>0 DEF InFlight
<1>4. chunk[c] = "idle" => users[c] = 0
  <2> HAVE chunk[c] = "idle"
  <2>1. FlushesOf(c) = {}
    BY NoTaskNoFlush DEF FlushesOf, InFlight
  <2> QED BY <2>1, FS_EmptySet DEF IndInv, UsersCount
<1>5. CASE users[c] = 0 /\ mask[c] = {o}
  <2>1. /\ chunk' = [chunk EXCEPT ![c] = "gone"]
        /\ mask' = [mask EXCEPT ![c] = {}]
        /\ UNCHANGED attempts \/ attempts' = [attempts EXCEPT ![c] = NoRetries]
    BY <1>5 DEF ReleaseSpace, task_destroy
  <2>2. \A d \in Chunks, p \in Outputs :
          d /= c => (Pending(d, p)' <=> Pending(d, p))
    BY <1>0, <1>3, <2>1 DEF Pending, TypeOK, PerRoute
  <2>3. RouteEvicted(c, o)
    BY <1>0, <1>2, <1>5, <2>1, <2>2 DEF RouteEvicted
  <2> QED BY <2>3 DEF ChunkStep
<1>6. CASE ~(users[c] = 0 /\ mask[c] = {o})
  <2>1. mask' = [mask EXCEPT ![c] = @ \ {o}] /\ UNCHANGED <<chunk, attempts>>
    BY <1>6 DEF ReleaseSpace
  <2>2. \A d \in Chunks, p \in Outputs : Pending(d, p)' <=> Pending(d, p)
    BY <1>0, <1>3, <2>1 DEF Pending
  <2>3. RouteEvicted(c, o)
    BY <1>0, <1>2, <1>4, <2>1, <2>2 DEF RouteEvicted
  <2> QED BY <2>3 DEF ChunkStep
<1> QED BY <1>5, <1>6

\* Every step of the engine and of the workers is one of six for the chunks.
LEMMA ChunkSteps ==
  ASSUME NoSilentFault, IndInv, [Next]_vars
  PROVE  ChunkStep
<1> USE DEF chunkVars, taskVars, retryVars, flushVars, loopVars, metricVars,
            outcomes
<1>1. ASSUME NEW c \in Chunks, NEW r \in SUBSET Outputs, AppendChunk(c, r)
      PROVE  ChunkStep
  <2>1. ChunkAccepted(c, r)
    BY <1>1 DEF AppendChunk, ChunkAccepted, Pending, InFlight
  <2> QED BY <2>1 DEF ChunkStep
<1>2. CASE FlushTimer \/ StopEvent \/ ShutdownTick
  BY <1>2, QuietChunks DEF FlushTimer, StopEvent, ShutdownTick, InFlight
<1>3. CASE Stopped \/ UNCHANGED vars
  BY <1>3, QuietChunks DEF Stopped, vars, InFlight
<1>4. CASE EngineExit
  BY <1>4 DEF EngineExit, ChunkStep, EngineGone
<1>5. CASE RetryStep
  BY <1>5, RetryChunks DEF RetryStep
<1> QED BY <1>1, <1>2, <1>3, <1>4, <1>5, ReleaseSpaceChunks, DispatchChunks,
           FlushChunks, EventChunks DEF Next

(***************************************************************************)
(* No chunk is lost without a trace.                                       *)
(***************************************************************************)

\* Outcomes is inductive.
LEMMA OutcomesKept ==
  ASSUME NoSilentFault, "route" \notin Faults, OneLimited, IndInv, Outcomes,
         [Next]_vars
  PROVE  Outcomes'
<1>0. TypeOK /\ TypeOK'
  BY NextKeepsIndInv DEF IndInv
<1>1. SUFFICES ASSUME NEW c \in Chunks, NEW o \in routed'[c]
               PROVE  OutcomeOf(c, o)'
  BY DEF Outcomes
<1>2. o \in Outputs
  BY <1>0 DEF TypeOK
<1>3. o \in routed[c] => OutcomeOf(c, o)
  BY DEF Outcomes
<1>4. CASE NothingSettles
  BY <1>1, <1>2, <1>3, <1>4 DEF NothingSettles, OutcomeOf, Settled, outcomes
<1>5. ASSUME NEW d \in Chunks, NEW r \in SUBSET Outputs, ChunkAccepted(d, r)
      PROVE  OutcomeOf(c, o)'
  <2>1. CASE d = c
    BY <1>0, <1>1, <1>5, <2>1 DEF ChunkAccepted, OutcomeOf, TypeOK
  <2>2. CASE d /= c
    <3>1. /\ chunk'[c] = chunk[c] /\ mask'[c] = mask[c]
          /\ routed'[c] = routed[c]
      BY <1>0, <1>5, <2>2 DEF ChunkAccepted, TypeOK
    <3> QED BY <1>1, <1>2, <1>3, <1>5, <3>1
        DEF ChunkAccepted, OutcomeOf, Settled, outcomes
  <2> QED BY <2>1, <2>2
<1>6. ASSUME NEW d \in Chunks, NEW r \in SUBSET Outputs, TaskMade(d, r)
      PROVE  OutcomeOf(c, o)'
  <2>0. /\ o \in routed[c] /\ mask' = mask
        /\ Settled(c, o)' <=> Settled(c, o)
        /\ Pending(c, o)' <=> Pending(c, o) \/ (c = d /\ o \in r)
        /\ chunk'[c] = IF c = d THEN IF r = {} THEN "gone" ELSE "busy"
                                ELSE chunk[c]
    BY <1>0, <1>1, <1>2, <1>6 DEF TaskMade, Settled, outcomes, TypeOK
  <2>1. CASE d = c
    <3>1. r = IF Direct THEN routed[c] ELSE mask[c]
      BY <1>6, <2>1 DEF TaskMade, TaskRoutes, MayFail
    <3>2. o \in r \/ Settled(c, o)
      BY <1>3, <1>6, <2>0, <2>1, <3>1 DEF OutcomeOf, TaskMade
    <3>3. o \in mask[c] \/ o \in Limited
      BY <1>3, <1>6, <2>0, <2>1 DEF OutcomeOf, TaskMade
    <3> QED BY <2>0, <2>1, <3>2, <3>3 DEF OutcomeOf
  <2>2. CASE d /= c
    BY <1>3, <2>0, <2>2 DEF OutcomeOf
  <2> QED BY <2>1, <2>2
<1>7. ASSUME NEW d \in Chunks, NEW p \in Outputs, RouteSettled(d, p)
      PROVE  OutcomeOf(c, o)'
  <2>0. /\ o \in routed[c] /\ OutcomeOf(c, o) /\ chunk[d] = "busy"
        /\ Settled(c, o)' <=> Settled(c, o) \/ (c = d /\ o = p)
        /\ Pending(c, o)' <=> Pending(c, o) /\ ~(c = d /\ o = p)
    BY <1>1, <1>2, <1>3, <1>7 DEF RouteSettled
  <2>1. CASE UNCHANGED <<chunk, mask>>
    BY <2>0, <2>1 DEF OutcomeOf
  <2>2. CASE /\ \A q \in Outputs : q /= p => ~Pending(d, q)
             /\ chunk' = [chunk EXCEPT ![d] = "gone"]
             /\ mask' = [mask EXCEPT ![d] = {}]
    <3>1. /\ chunk'[c] = IF c = d THEN "gone" ELSE chunk[c]
          /\ c /= d => mask'[c] = mask[c]
      BY <1>0, <2>2 DEF TypeOK
    <3> QED BY <1>2, <2>0, <2>2, <3>1 DEF OutcomeOf
  <2> QED BY <1>7, <2>1, <2>2 DEF RouteSettled
<1>8. ASSUME NEW d \in Chunks, NEW p \in Outputs, RouteEvicted(d, p)
      PROVE  OutcomeOf(c, o)'
  <2>0. /\ o \in routed[c] /\ OutcomeOf(c, o)
        /\ Settled(c, o) => Settled(c, o)'
        /\ c /= d => (Pending(c, o)' <=> Pending(c, o))
        /\ chunk[d] \in {"idle", "busy"} /\ p \in mask[d] /\ p \in Limited
    BY <1>1, <1>2, <1>3, <1>8 DEF RouteEvicted
  <2>1. CASE /\ mask[d] = {p} /\ Settled(d, p)'
             /\ chunk' = [chunk EXCEPT ![d] = "gone"]
             /\ mask' = [mask EXCEPT ![d] = {}]
    <3>1. /\ chunk'[c] = IF c = d THEN "gone" ELSE chunk[c]
          /\ c /= d => mask'[c] = mask[c]
      BY <1>0, <2>1 DEF TypeOK
    <3>2. c = d => o = p
      BY <2>0, <2>1 DEF OutcomeOf, OneLimited
    <3> QED BY <2>0, <2>1, <3>1, <3>2 DEF OutcomeOf
  <2>2. CASE /\ chunk[d] = "idle" => Settled(d, p)'
             /\ \A q \in Outputs : Pending(d, q)' <=> Pending(d, q)
             /\ mask' = [mask EXCEPT ![d] = @ \ {p}]
             /\ UNCHANGED chunk
    <3>1. mask'[c] = IF c = d THEN mask[c] \ {p} ELSE mask[c]
      BY <1>0, <2>2 DEF TypeOK
    <3> QED BY <1>2, <2>0, <2>2, <3>1 DEF OutcomeOf
  <2> QED BY <1>8, <2>1, <2>2 DEF RouteEvicted
<1>9. CASE EngineGone
  <2>1. /\ chunk'[c] = IF chunk[c] \in {"idle", "busy"} THEN "kept" ELSE chunk[c]
        /\ routed' = routed /\ (Settled(c, o)' <=> Settled(c, o))
    BY <1>9 DEF EngineGone, Settled, outcomes
  <2> QED BY <1>1, <1>3, <2>1 DEF OutcomeOf
<1> QED BY <1>4, <1>5, <1>6, <1>7, <1>8, <1>9, ChunkSteps DEF ChunkStep

\* A chunk is deleted only when each of its routes was delivered, counted as
\* dropped or copied to the dead letter queue: for every number of chunks,
\* outputs and task ids and with failing allocations of tasks, failing
\* rescheduling or a failing scheduler with a dead letter queue.  With two
\* limited outputs it does not hold: a route marked by the eviction of one
\* output is not counted when the eviction of the other deletes the task.
THEOREM NothingLostSilently ==
  ASSUME NoSilentFault, "route" \notin Faults, OneLimited
  PROVE  Spec => []NoSilentLoss
<1>1. Init => Outcomes
  BY DEF Init, Outcomes
<1>2. IndInv /\ Outcomes /\ [Next]_vars => Outcomes'
  BY OutcomesKept
<1>3. IndInv /\ Outcomes => NoSilentLoss
  BY DEF Outcomes, OutcomeOf, NoSilentLoss
<1> QED BY <1>1, <1>2, <1>3, IndInvHolds, PTL DEF Spec

(***************************************************************************)
(* The delivery core implements ChunkDelivery.                             *)
(***************************************************************************)
\* What the promise needs: no eviction, and no failing call that ends a route
\* without a trace.
DeliveryAssumption == NoSilentFault /\ "route" \notin Faults /\ Limited = {}

\* Without eviction and lost routes a task has the routes of its chunk.
LEMMA TaskHasAllRoutes ==
  ASSUME DeliveryAssumption, OpenIsUnsettled, Outputs /= {},
         NEW c \in Chunks, NEW r, TaskMade(c, r)
  PROVE  r = routed[c]
<1>1. mask[c] = routed[c]
  BY DEF OpenIsUnsettled, OpenOrSettled, TaskMade
<1> QED BY <1>1 DEF TaskMade, TaskRoutes, MayFail, DeliveryAssumption

\* OpenIsUnsettled is inductive.
LEMMA UnsettledKept ==
  ASSUME DeliveryAssumption, IndInv, OpenIsUnsettled, [Next]_vars
  PROVE  OpenIsUnsettled'
<1>0. TypeOK /\ ChunkStep
  BY ChunkSteps DEF IndInv, DeliveryAssumption
<1>1. SUFFICES ASSUME NEW c \in Chunks, NEW o \in Outputs
               PROVE  OpenOrSettled(c, o)'
  BY DEF OpenIsUnsettled
<1>2. OpenOrSettled(c, o)
  BY DEF OpenIsUnsettled
<1>4. CASE NothingSettles
  BY <1>2, <1>4 DEF NothingSettles, OpenOrSettled, Settled, outcomes
<1>5. ASSUME NEW d \in Chunks, NEW r \in SUBSET Outputs, ChunkAccepted(d, r)
      PROVE  OpenOrSettled(c, o)'
  <2>0. /\ Settled(c, o)' <=> Settled(c, o)
        /\ Pending(c, o)' <=> Pending(c, o)
        /\ chunk[d] = "none"
        /\ chunk'[c] = IF c = d THEN "idle" ELSE chunk[c]
        /\ mask'[c] = IF c = d THEN r ELSE mask[c]
        /\ routed'[c] = IF c = d THEN r ELSE routed[c]
    BY <1>0, <1>5 DEF ChunkAccepted, Settled, outcomes, TypeOK
  <2> QED BY <1>2, <2>0 DEF OpenOrSettled
<1>6. ASSUME NEW d \in Chunks, NEW r \in SUBSET Outputs, TaskMade(d, r)
      PROVE  OpenOrSettled(c, o)'
  <2>0. /\ mask' = mask /\ routed' = routed /\ chunk[d] = "idle"
        /\ Settled(c, o)' <=> Settled(c, o)
        /\ Pending(c, o)' <=> Pending(c, o) \/ (c = d /\ o \in r)
        /\ chunk'[c] = IF c = d THEN IF r = {} THEN "gone" ELSE "busy"
                                ELSE chunk[c]
    BY <1>0, <1>6 DEF TaskMade, Settled, outcomes, TypeOK
  <2>1. CASE d = c
    <3>1. r = routed[c] /\ ~Pending(c, o)
      BY <1>6, <2>0, <2>1, TaskHasAllRoutes, NoTaskNotPending
    <3> QED BY <1>2, <2>0, <2>1, <3>1 DEF OpenOrSettled
  <2>2. CASE d /= c
    BY <1>2, <2>0, <2>2 DEF OpenOrSettled
  <2> QED BY <2>1, <2>2
<1>7. ASSUME NEW d \in Chunks, NEW p \in Outputs, RouteSettled(d, p)
      PROVE  OpenOrSettled(c, o)'
  <2>0. /\ routed' = routed /\ chunk[d] = "busy" /\ Pending(d, p)
        /\ Settled(c, o)' <=> Settled(c, o) \/ (c = d /\ o = p)
        /\ Pending(c, o)' <=> Pending(c, o) /\ ~(c = d /\ o = p)
    BY <1>7 DEF RouteSettled
  <2>1. CASE UNCHANGED <<chunk, mask>>
    BY <1>2, <2>0, <2>1 DEF OpenOrSettled
  <2>2. CASE /\ chunk' = [chunk EXCEPT ![d] = "gone"]
             /\ mask' = [mask EXCEPT ![d] = {}]
    <3>1. /\ chunk'[c] = IF c = d THEN "gone" ELSE chunk[c]
          /\ c /= d => mask'[c] = mask[c]
      BY <1>0, <2>2 DEF TypeOK
    <3> QED BY <1>2, <2>0, <3>1 DEF OpenOrSettled
  <2> QED BY <1>7, <2>1, <2>2 DEF RouteSettled
<1>8. ~ \E d \in Chunks, p \in Outputs : RouteEvicted(d, p)
  BY DEF RouteEvicted, DeliveryAssumption
<1>9. CASE EngineGone
  <2>1. /\ chunk'[c] = IF chunk[c] \in {"idle", "busy"} THEN "kept" ELSE chunk[c]
        /\ routed' = routed /\ (Settled(c, o)' <=> Settled(c, o))
    BY <1>9 DEF EngineGone, Settled, outcomes
  <2> QED BY <1>2, <2>1 DEF OpenOrSettled
<1> QED BY <1>0, <1>4, <1>5, <1>6, <1>7, <1>8, <1>9 DEF ChunkStep

\* The store and the pending routes of ChunkDelivery.
store == [c \in Chunks |-> CASE chunk[c] = "none" -> "absent"
                             [] chunk[c] = "gone" -> "deleted"
                             [] chunk[c] = "kept" -> "kept"
                             [] OTHER -> "stored"]
pending == [c \in Chunks |-> {o \in routed[c] : ~Settled(c, o)}]

\* Every step of the engine is a step of ChunkDelivery or changes nothing
\* there: a chunk is accepted, a route is settled, or the engine stops.
LEMMA StepImplements ==
  ASSUME DeliveryAssumption, IndInv, OpenIsUnsettled, [Next]_vars
  PROVE  [Abstract!Next]_(Abstract!vars)
<1> USE DEF Abstract!Next, Abstract!vars
<1>0. TypeOK /\ ChunkStep
  BY ChunkSteps DEF IndInv, DeliveryAssumption
<1>1. \A c \in Chunks :
        /\ chunk[c] \in {"none", "idle", "busy", "gone", "kept"}
        /\ store[c] = CASE chunk[c] = "none" -> "absent"
                        [] chunk[c] = "gone" -> "deleted"
                        [] chunk[c] = "kept" -> "kept"
                        [] OTHER -> "stored"
        /\ store'[c] = CASE chunk'[c] = "none" -> "absent"
                        [] chunk'[c] = "gone" -> "deleted"
                        [] chunk'[c] = "kept" -> "kept"
                        [] OTHER -> "stored"
        /\ pending[c] = {o \in routed[c] : ~Settled(c, o)}
        /\ pending'[c] = {o \in routed'[c] : ~Settled(c, o)'}
  BY <1>0 DEF store, pending, TypeOK
<1>4. CASE NothingSettles
  <2>1. store' = store /\ pending' = pending
    BY <1>4 DEF NothingSettles, store, pending, Settled, outcomes
  <2> QED BY <2>1 DEF store, pending
<1>t. store \in [Chunks -> {"absent", "stored", "deleted", "kept"}]
      /\ store' \in [Chunks -> {"absent", "stored", "deleted", "kept"}]
      /\ pending = [c \in Chunks |-> pending[c]]
      /\ pending' = [c \in Chunks |-> pending'[c]]
  BY DEF store, pending
<1>5. ASSUME NEW d \in Chunks, NEW r \in SUBSET Outputs, ChunkAccepted(d, r)
      PROVE  Abstract!Next
  <2>1. \A c \in Chunks :
          /\ chunk'[c] = IF c = d THEN "idle" ELSE chunk[c]
          /\ routed'[c] = IF c = d THEN r ELSE routed[c]
          /\ \A o : Settled(c, o)' <=> Settled(c, o)
    BY <1>0, <1>5 DEF ChunkAccepted, TypeOK, Settled, outcomes
  <2>2. chunk[d] = "none" /\ \A o \in Outputs : ~Settled(d, o)
    BY <1>5 DEF ChunkAccepted, OpenIsUnsettled, OpenOrSettled
  <2>3. store[d] = "absent" /\ store' = [store EXCEPT ![d] = "stored"]
    BY <1>1, <1>t, <2>1, <2>2
  <2>4. pending' = [pending EXCEPT ![d] = r]
    <3>1. pending'[d] = r
      <4>1. \A o \in r : ~Settled(d, o)'
        BY <2>1, <2>2
      <4>2. pending'[d] = {o \in r : ~Settled(d, o)'}
        BY <1>1, <2>1
      <4> QED BY <4>1, <4>2
    <3>2. \A c \in Chunks : c /= d => pending'[c] = pending[c]
      BY <1>1, <2>1
    <3> QED BY <1>t, <3>1, <3>2
  <2>5. Abstract!Accept(d, r)
    BY <2>3, <2>4 DEF Abstract!Accept, store, pending
  <2> QED BY <2>5
<1>6. ASSUME NEW d \in Chunks, NEW r \in SUBSET Outputs, TaskMade(d, r)
      PROVE  [Abstract!Next]_(Abstract!vars)
  <2>1. /\ chunk[d] = "idle"
        /\ \A c \in Chunks :
              chunk'[c] = IF c = d THEN IF r = {} THEN "gone" ELSE "busy"
                                   ELSE chunk[c]
        /\ pending' = pending
    BY <1>0, <1>6 DEF TaskMade, TypeOK, pending, Settled, outcomes
  <2>2. CASE r = {}
    <3>1. pending[d] = {}
      <4>1. Outputs /= {} => routed[d] = {}
        BY <1>6, <2>2, TaskHasAllRoutes
      <4>2. routed[d] \subseteq Outputs
        BY <1>0 DEF TypeOK
      <4> QED BY <1>1, <4>1, <4>2
    <3>2. store[d] = "stored" /\ store' = [store EXCEPT ![d] = "deleted"]
      BY <1>1, <1>t, <2>1, <2>2
    <3>3. Abstract!Discard(d)
      BY <2>1, <3>1, <3>2 DEF Abstract!Discard, store, pending
    <3> QED BY <3>3
  <2>3. CASE r /= {}
    <3>1. store' = store
      BY <1>1, <1>t, <2>1, <2>3
    <3> QED BY <2>1, <3>1 DEF store, pending
  <2> QED BY <2>2, <2>3
<1>7. ASSUME NEW d \in Chunks, NEW p \in Outputs, RouteSettled(d, p)
      PROVE  Abstract!Next
  <2>1. /\ chunk[d] = "busy" /\ Pending(d, p) /\ routed' = routed
        /\ \A c \in Chunks, o \in Outputs :
              Settled(c, o)' <=> Settled(c, o) \/ (c = d /\ o = p)
    BY <1>7 DEF RouteSettled
  <2>2. \A o \in Outputs : o \in pending[d] <=> Pending(d, o)
    BY <1>1, <2>1 DEF OpenIsUnsettled, OpenOrSettled
  <2>3. \A c \in Chunks : routed[c] \subseteq Outputs
    BY <1>0 DEF TypeOK
  <2>4. pending' = [pending EXCEPT ![d] = @ \ {p}]
    <3>1. ASSUME NEW c \in Chunks
          PROVE  pending'[c] = IF c = d THEN pending[c] \ {p} ELSE pending[c]
      <4>1. pending'[c] = {o \in routed[c] : ~Settled(c, o)'}
        BY <1>1, <2>1
      <4>2. \A o \in routed[c] :
              Settled(c, o)' <=> Settled(c, o) \/ (c = d /\ o = p)
        BY <2>1, <2>3
      <4>3. pending[c] = {o \in routed[c] : ~Settled(c, o)}
        BY <1>1
      <4> QED BY <4>1, <4>2, <4>3
    <3> QED BY <1>t, <3>1
  <2>5. pending[d] = {p} <=> \A q \in Outputs : q /= p => ~Pending(d, q)
    <3>1. pending[d] \subseteq Outputs
      BY <1>1, <2>3
    <3> QED BY <2>1, <2>2, <3>1
  <2>6. store[d] = "stored"
        /\ store' = [store EXCEPT ![d] = IF pending[d] = {p} THEN "deleted" ELSE @]
    <3>1. \A c \in Chunks :
            chunk'[c] = IF c = d /\ pending[d] = {p} THEN "gone" ELSE chunk[c]
      <4>1. CASE UNCHANGED chunk /\ pending[d] /= {p}
        BY <4>1
      <4>2. CASE chunk' = [chunk EXCEPT ![d] = "gone"] /\ pending[d] = {p}
        BY <1>0, <4>2 DEF TypeOK
      <4> QED BY <1>7, <2>5, <4>1, <4>2 DEF RouteSettled
    <3>2. \A c \in Chunks :
            store'[c] = IF c = d /\ pending[d] = {p} THEN "deleted" ELSE store[c]
      BY <1>1, <3>1
    <3> QED BY <1>1, <1>t, <2>1, <3>2
  <2>7. Abstract!Settle(d, p)
    BY <2>1, <2>2, <2>4, <2>6 DEF Abstract!Settle, store, pending
  <2> QED BY <2>7
<1>8. ~ \E d \in Chunks, p \in Outputs : RouteEvicted(d, p)
  BY DEF RouteEvicted, DeliveryAssumption
<1>9. CASE EngineGone
  <2>1. pending' = pending
    BY <1>9 DEF EngineGone, pending, Settled, outcomes
  <2>2. \A c \in Chunks :
          chunk'[c] = IF chunk[c] \in {"idle", "busy"} THEN "kept" ELSE chunk[c]
    BY <1>9 DEF EngineGone
  <2>3. store' = [c \in Chunks |-> IF store[c] = "stored" THEN "kept" ELSE store[c]]
    BY <1>1, <1>t, <2>2
  <2>4. Abstract!Stop
    BY <2>1, <2>3 DEF Abstract!Stop, store, pending
  <2> QED BY <2>4
<1> HIDE DEF Abstract!Next, Abstract!vars
<1> QED BY <1>0, <1>4, <1>5, <1>6, <1>7, <1>8, <1>9 DEF ChunkStep

\* The engine implements ChunkDelivery for every number of chunks, outputs
\* and task ids, with any retry limits, with and without workers, whichever
\* return event comes first: a chunk is deleted by exactly the event that
\* settles its last route, and what is not settled is kept when the engine
\* stops.  Tasks may fail to be allocated, and either retries may fail to be
\* brought up or, with a dead letter queue, the scheduler may refuse them.
THEOREM DeliveryPromised ==
  ASSUME DeliveryAssumption
  PROVE  Spec => DeliveryPromise
<1>1. Init => OpenIsUnsettled
  BY DEF Init, OpenIsUnsettled, OpenOrSettled, Settled, NoRetries
<1>2. IndInv /\ OpenIsUnsettled /\ [Next]_vars => OpenIsUnsettled'
  BY UnsettledKept
<1>3. Init => Abstract!Init
  BY DEF Init, Abstract!Init
<1>4. IndInv /\ OpenIsUnsettled /\ [Next]_vars => [Abstract!Next]_(Abstract!vars)
  BY StepImplements
<1> QED BY <1>1, <1>2, <1>3, <1>4, IndInvHolds, PTL
    DEF Spec, DeliveryPromise, Abstract!Spec

(***************************************************************************)
(* Nothing is stranded.                                                    *)
(***************************************************************************)
\* No failing call takes a retry from the scheduler.
NoStrandingFault == {"content", "flush", "sched"} \cap Faults = {}

\* What one step does to the request of a retry: the retry is gone, in a
\* flush or with the scheduler, or nothing changed.
RequestStep(c, o) ==
    \/ attempts'[c][o] = 0
    \/ InFlight(c, o)'
    \/ requests'[c][o] > 0
    \/ /\ requests'[c][o] = requests[c][o]
       /\ attempts'[c][o] = attempts[c][o]
       /\ InFlight(c, o)' <=> InFlight(c, o)

\* FinishRoute takes requests together with their retries only.
LEMMA FinishedRequests ==
  ASSUME IndInv, NEW f \in flushes, NEW c \in Chunks, EventOf(f, c),
         FinishRoute(c, f.out)
  PROVE  \A d \in Chunks, p \in Outputs : RequestStep(d, p)
<1>0. TypeOK /\ c = f.chunk /\ f.out \in Outputs /\ flushes' = flushes \ {f}
  BY EventFacts DEF IndInv
<1>1. \A d, p : InFlight(d, p)' <=> InFlight(d, p) /\ ~(d = c /\ p = f.out)
  BY <1>0, EventFacts DEF InFlight
<1>2. CASE task_destroy(c)
  <2>1. \A d \in Chunks, p \in Outputs :
          IF d = c THEN attempts'[d][p] = 0
                   ELSE /\ attempts'[d][p] = attempts[d][p]
                        /\ requests'[d][p] = requests[d][p]
    BY <1>0, <1>2 DEF task_destroy, TypeOK, PerRoute, NoRetries
  <2> QED BY <1>1, <2>1 DEF RequestStep
<1>3. CASE retry_destroy(c, f.out)
  <2>1. \A d \in Chunks, p \in Outputs :
          attempts'[d][p] = IF d = c /\ p = f.out THEN 0 ELSE attempts[d][p]
    BY <1>0, <1>3 DEF retry_destroy, RetriesWithout, TypeOK, PerRoute
  <2>2. \A d \in Chunks, p \in Outputs :
          ~(d = c /\ p = f.out) => requests'[d][p] = requests[d][p]
    <3>1. \A p \in Outputs :
            p /= f.out => RequestsWithout(c, f.out)[p] = requests[c][p]
      BY <1>0 DEF RequestsWithout, TypeOK, PerRoute
    <3>2. requests' = [requests EXCEPT ![c] = RequestsWithout(c, f.out)]
      BY <1>3 DEF retry_destroy
    <3> QED BY <1>0, <3>1, <3>2 DEF TypeOK, PerRoute
  <2> QED BY <1>1, <2>1, <2>2 DEF RequestStep
<1> QED BY <1>2, <1>3 DEF FinishRoute, users_release

\* No step takes a request from a retry that waits.
LEMMA RequestSteps ==
  ASSUME NoStrandingFault, IndInv, [Next]_vars
  PROVE  \A c \in Chunks, o \in Outputs : RequestStep(c, o)
<1> USE DEF chunkVars, taskVars, retryVars, flushVars, loopVars, metricVars
<1>0. TypeOK /\ \A c \in Chunks, o \in Outputs :
                   requests[c][o] \in Nat /\ attempts[c][o] \in Nat
  BY DEF IndInv, TypeOK, PerRoute
<1>q. ASSUME UNCHANGED <<attempts, requests, flushes>>
      PROVE  \A c \in Chunks, o \in Outputs : RequestStep(c, o)
  BY <1>q DEF RequestStep, InFlight
<1>1. CASE \/ \E c \in Chunks, r \in SUBSET Outputs : AppendChunk(c, r)
           \/ FlushTimer \/ StopEvent \/ ShutdownTick \/ Stopped
           \/ UNCHANGED vars
  BY <1>1, <1>q DEF AppendChunk, FlushTimer, StopEvent, ShutdownTick, Stopped, vars
<1>2. ASSUME NEW e \in Chunks, NEW c \in Chunks, NEW o \in Outputs,
             ReleaseSpace(e, c, o)
      PROVE  \A d \in Chunks, p \in Outputs : RequestStep(d, p)
  <2>1. flushes' = flushes /\ (task_destroy(c) \/ UNCHANGED <<attempts, requests>>)
    BY <1>2 DEF ReleaseSpace
  <2>2. CASE task_destroy(c)
    <3>1. \A d \in Chunks, p \in Outputs :
            IF d = c THEN attempts'[d][p] = 0
                     ELSE /\ attempts'[d][p] = attempts[d][p]
                          /\ requests'[d][p] = requests[d][p]
      BY <1>0, <2>2 DEF task_destroy, TypeOK, PerRoute, NoRetries
    <3> QED BY <2>1, <3>1 DEF RequestStep, InFlight
  <2> QED BY <1>q, <2>1, <2>2
<1>3. CASE DispatchStep
  <2>1. CASE \/ NoTaskAvailable \/ TasksStart \/ DispatchDone
             \/ \E c \in Chunks : SkipChunk(c)
             \/ \E c \in Chunks, i \in TaskIds : CreateTaskFails(c, i)
                                                 \/ CreateTask(c, i)
    BY <1>q, <2>1 DEF NoTaskAvailable, TasksStart, DispatchDone, SkipChunk,
                      CreateTaskFails, CreateTask
  <2>2. ASSUME NEW c \in Chunks, NEW o \in Outputs, StartRoute(c, o)
        PROVE  \A d \in Chunks, p \in Outputs : RequestStep(d, p)
    <3>1. UNCHANGED <<attempts, requests>>
          /\ (task_flush(c, o) \/ UNCHANGED flushes)
      BY <2>2 DEF StartRoute, flush_fails
    <3>2. task_flush(c, o) => \A d \in Chunks, p \in Outputs :
             InFlight(d, p)' <=> InFlight(d, p) \/ (d = c /\ p = o)
      BY <1>0, FlushedRoutes
    <3> QED BY <1>q, <3>1, <3>2 DEF RequestStep
  <2>3. CASE StopIngestion
    <3>1. UNCHANGED <<attempts, flushes>>
          /\ (UNCHANGED requests \/ requests' = Rescheduled({}))
      BY <2>3 DEF StopIngestion, MayFail, NoStrandingFault
    <3>2. CASE requests' = Rescheduled({})
      <4>1. \A c \in Chunks, o \in Outputs :
              requests'[c][o] = requests[c][o] \/ requests'[c][o] > 0
        BY <1>0, <3>2 DEF Rescheduled, Invalidated
      <4> QED BY <3>1, <4>1 DEF RequestStep, InFlight
    <3> QED BY <1>q, <3>1, <3>2
  <2> QED BY <1>3, <2>1, <2>2, <2>3 DEF DispatchStep
<1>4. CASE FlushStep
  <2>1. PICK f \in flushes :
          \/ FlushStart(f) \/ FlushEmpty(f) \/ WorkerCreateFails(f)
          \/ \E ret \in Returns : FlushReturn(f, ret)
          \/ WorkerForward(f)
    BY <1>4 DEF FlushStep
  <2>2. f \in Flush
    BY <1>0 DEF TypeOK
  <2>3. UNCHANGED <<attempts, requests>>
    BY <2>1 DEF FlushStart, FlushEmpty, WorkerCreateFails, FlushReturn,
                WorkerForward
  <2>4. PICK g : g.chunk = f.chunk /\ g.out = f.out
                 /\ flushes' = (flushes \ {f}) \cup {g}
    BY <2>1, <2>2 DEF FlushStart, FlushEmpty, WorkerCreateFails, FlushReturn,
           WorkerForward, output_return, Flush
  <2>5. \A c, o : InFlight(c, o)' <=> InFlight(c, o)
    BY <2>4 DEF InFlight
  <2> QED BY <2>3, <2>5 DEF RequestStep
<1>5. CASE EventStep
  <2>1. PICK f \in flushes, c \in Chunks : HandleOutputEvent(f, c)
    BY <1>5 DEF EventStep
  <2>2. EventOf(f, c) /\ (FinishRoute(c, f.out) \/ HandleRetry(f, c))
    BY <2>1 DEF HandleOutputEvent, HandleOk, HandleError, HandleRetryRefused,
           HandleRetry, HandleRetryUnscheduled
  <2>3. CASE HandleRetry(f, c)
    <3>0. f.out \in Outputs /\ c = f.chunk /\ flushes' = flushes \ {f}
      BY <2>2, EventFacts
    <3>1. \A d \in Chunks, p \in Outputs :
            IF d = c /\ p = f.out
            THEN requests'[d][p] > 0
            ELSE /\ requests'[d][p] = requests[d][p]
                 /\ attempts'[d][p] = attempts[d][p]
      BY <1>0, <2>3, <3>0 DEF HandleRetry, TypeOK, PerRoute
    <3>2. \A d, p : ~(d = c /\ p = f.out) => (InFlight(d, p)' <=> InFlight(d, p))
      BY <3>0 DEF InFlight
    <3> QED BY <3>1, <3>2 DEF RequestStep
  <2> QED BY <2>2, <2>3, FinishedRequests
<1>6. ASSUME NEW c \in Chunks, NEW o \in Outputs, DispatchRetry(c, o)
      PROVE  \A d \in Chunks, p \in Outputs : RequestStep(d, p)
  <2>1. CASE RetryFlush(c, o)
    <3>1. \A d \in Chunks, p \in Outputs :
             InFlight(d, p)' <=> InFlight(d, p) \/ (d = c /\ p = o)
      BY <1>0, <2>1, FlushedRoutes DEF RetryFlush
    <3>2. attempts' = attempts /\ \A d \in Chunks, p \in Outputs :
             ~(d = c /\ p = o) => requests'[d][p] = requests[d][p]
      BY <1>0, <2>1 DEF RetryFlush, TypeOK, PerRoute
    <3> QED BY <3>1, <3>2 DEF RequestStep
  <2>2. CASE RetryReschedule(c, o)
    <3>1. UNCHANGED <<attempts, flushes>> /\ requests' = RescheduledRequests(c, o)
      BY <2>2 DEF RetryReschedule, reschedule_fails, MayFail, NoStrandingFault
    <3>2. \A d \in Chunks, p \in Outputs : requests'[d][p] = requests[d][p]
      BY <1>0, <3>1 DEF RescheduledRequests, TypeOK, PerRoute
    <3> QED BY <3>1, <3>2 DEF RequestStep, InFlight
  <2>3. ~RetryDestroyed(c, o) /\ ~RetryNotQueued(c, o)
    BY DEF RetryDestroyed, RetryNotQueued, MayFail, NoStrandingFault
  <2> QED BY <1>6, <2>1, <2>2, <2>3 DEF DispatchRetry
<1>7. CASE EngineExit
  BY <1>7 DEF EngineExit, RequestStep, NoRetries
<1> QED BY <1>1, <1>2, <1>3, <1>4, <1>5, <1>6, <1>7 DEF Next, RetryStep

\* AlwaysMoving is inductive.
LEMMA MovingKept ==
  ASSUME NoStrandingFault, IndInv, AlwaysMoving, [Next]_vars
  PROVE  AlwaysMoving'
<1>0. TypeOK /\ IndInv'
  BY NextKeepsIndInv DEF IndInv
<1>1. NoSilentFault
  BY DEF NoStrandingFault, NoSilentFault
<1>2. ASSUME NEW c \in Chunks, NEW o \in Outputs, attempts'[c][o] > 0
      PROVE  requests'[c][o] > 0 \/ InFlight(c, o)'
  BY <1>2, RequestSteps DEF RequestStep, AlwaysMoving
<1>3. ASSUME NEW c \in Chunks, chunk'[c] = "busy"
      PROVE  \E o \in Outputs : Pending(c, o)'
  <2>1. CASE NothingSettles
    BY <1>3, <2>1 DEF NothingSettles, AlwaysMoving
  <2>2. ASSUME NEW d \in Chunks, NEW r \in SUBSET Outputs, ChunkAccepted(d, r)
        PROVE  \E o \in Outputs : Pending(c, o)'
    <3>1. chunk'[c] = IF c = d THEN "idle" ELSE chunk[c]
      BY <1>0, <2>2 DEF ChunkAccepted, TypeOK
    <3> QED BY <1>3, <2>2, <3>1 DEF ChunkAccepted, AlwaysMoving
  <2>3. ASSUME NEW d \in Chunks, NEW r \in SUBSET Outputs, TaskMade(d, r)
        PROVE  \E o \in Outputs : Pending(c, o)'
    <3>1. chunk'[c] = IF c = d THEN IF r = {} THEN "gone" ELSE "busy"
                               ELSE chunk[c]
      BY <1>0, <2>3 DEF TaskMade, TypeOK
    <3> QED BY <1>3, <2>3, <3>1 DEF TaskMade, AlwaysMoving
  <2>4. ASSUME NEW d \in Chunks, NEW p \in Outputs, RouteSettled(d, p)
        PROVE  \E o \in Outputs : Pending(c, o)'
    <3>1. CASE (\E q \in Outputs : q /= p /\ Pending(d, q)) /\ UNCHANGED chunk
      BY <1>3, <2>4, <3>1 DEF RouteSettled, AlwaysMoving
    <3>2. CASE chunk' = [chunk EXCEPT ![d] = "gone"]
      <4>1. c /= d /\ chunk[c] = "busy"
        BY <1>0, <1>3, <3>2 DEF TypeOK
      <4> QED BY <2>4, <4>1 DEF RouteSettled, AlwaysMoving
    <3> QED BY <2>4, <3>1, <3>2 DEF RouteSettled
  <2>5. ASSUME NEW d \in Chunks, NEW p \in Outputs, RouteEvicted(d, p)
        PROVE  \E o \in Outputs : Pending(c, o)'
    <3>1. CASE chunk' = [chunk EXCEPT ![d] = "gone"]
      <4>1. c /= d /\ chunk[c] = "busy"
        BY <1>0, <1>3, <3>1 DEF TypeOK
      <4> QED BY <2>5, <4>1 DEF RouteEvicted, AlwaysMoving
    <3>2. CASE UNCHANGED chunk /\ \A q \in Outputs : Pending(d, q)' <=> Pending(d, q)
      BY <1>3, <2>5, <3>2 DEF RouteEvicted, AlwaysMoving
    <3> QED BY <2>5, <3>1, <3>2 DEF RouteEvicted
  <2>6. CASE EngineGone
    BY <1>3, <2>6 DEF EngineGone
  <2> QED BY <1>1, <2>1, <2>2, <2>3, <2>4, <2>5, <2>6, ChunkSteps DEF ChunkStep
<1> QED BY <1>2, <1>3 DEF AlwaysMoving

\* Between two handlers every task has a flush or a retry that some event
\* will finish, and every retry is with the scheduler or in a flush, for
\* every number of chunks and outputs, with eviction, failing allocations of
\* tasks and routes and chunks that cannot be brought up.
THEOREM NothingEverStranded ==
  ASSUME NoStrandingFault
  PROVE  Spec => []NothingStranded
<1>1. Init => AlwaysMoving
  BY DEF Init, AlwaysMoving, NoRetries
<1>2. IndInv /\ AlwaysMoving /\ [Next]_vars => AlwaysMoving'
  BY MovingKept
<1>3. IndInv /\ AlwaysMoving => NothingStranded
  <2> SUFFICES ASSUME IndInv, AlwaysMoving, EngineIdle, NEW c \in Chunks,
                      tid[c] /= NoId
               PROVE  /\ \A o \in Outputs : attempts[c][o] > 0 =>
                            requests[c][o] > 0 \/ InFlight(c, o)
                      /\ users[c] > 0 \/ attempts[c] /= NoRetries
    BY DEF NothingStranded
  <2>1. PICK o \in Outputs : Pending(c, o)
    BY DEF IndInv, TaskMapExact, AlwaysMoving
  <2>2. to_start = {}
    BY DEF IndInv, DispatchExact, EngineIdle
  <2>3. CASE InFlight(c, o)
    <3>1. users[c] /= 0 /\ users[c] \in Nat
      BY <2>3, NoUsersNoFlush DEF InFlight, IndInv, TypeOK
    <3> QED BY <3>1 DEF AlwaysMoving
  <2>4. CASE attempts[c][o] > 0
    BY <2>4 DEF AlwaysMoving, NoRetries
  <2> QED BY <2>1, <2>2, <2>3, <2>4 DEF Pending
<1> QED BY <1>1, <1>2, <1>3, IndInvHolds, PTL DEF Spec

=============================================================================
