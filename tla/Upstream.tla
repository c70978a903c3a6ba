------------------------------ MODULE Upstream ------------------------------
(***************************************************************************)
(* The connections of one upstream on one event loop, the engine's or a    *)
(* worker's (flb_upstream.c, flb_connection.c, the asynchronous parts of   *)
(* flb_io.c and flb_network.c).                                            *)
(*                                                                         *)
(* Coroutines take a connection, wait on its event and release it.  A      *)
(* connection is in one of three queues.  Four parties may drop it: the    *)
(* coroutine that has it, the handler of a closed keepalive socket, the    *)
(* timeout sweep every 1.5 seconds, and a coroutine that finds it broken.  *)
(* Memory is freed between two rounds of the loop.                         *)
(*                                                                         *)
(* Everything runs on one thread, so an action is what happens between two *)
(* points where control returns to the loop.  TLS is left out (its         *)
(* handshake waits like a connect, its I/O like plain I/O), and so are     *)
(* synchronous upstreams, which never return to the loop, and the gauges.  *)
(***************************************************************************)
EXTENDS Integers, FiniteSets

CONSTANTS
    Conns,           \* connection objects, reused after they are freed
    Coros,           \* coroutines: flushes that use the upstream
    Settings,        \* the configurations checked, see Setting
    NoConn

\* net.keepalive, net.max_worker_connections (0 is no limit),
\* net.keepalive_max_recycle (0 is no limit), and whether net.io_timeout is set.
Setting == [Keepalive : BOOLEAN, MaxConnections : Nat, MaxRecycle : Nat,
            IoTimeout : BOOLEAN]

ASSUME UpstreamAssumption ==
    /\ IsFiniteSet(Conns)
    /\ NoConn \notin Conns
    /\ Settings \subseteq Setting

VARIABLES
    setting, \* the configuration of the upstream, which never changes
    conn,    \* the connections, see Conn
    coro,    \* the coroutines, see Coro
    running  \* the loop runs

upstream_vars == <<setting, conn, coro, running>>

Keepalive      == setting.Keepalive
MaxConnections == setting.MaxConnections
MaxRecycle     == setting.MaxRecycle
IoTimeout      == setting.IoTimeout

\* sock is "closed" when fd is -1, "down" when the peer closed the socket or
\* the sweep shut it down.  event is the registration in the loop: "thread"
\* resumes the coroutine, "custom" runs cb_upstream_conn_ka_dropped.  queued:
\* the event waits in the loop's priority queue.
Conn == [place : {"none", "busy", "av", "destroy"}, busy_flag : BOOLEAN,
         sock : {"closed", "up", "down"},
         net_error : {"none", "timedout", "error"},
         recycle : BOOLEAN, ka_count : 0..MaxRecycle,
         event : {"none", "thread", "custom"}, queued : BOOLEAN]

\* pc is where the coroutine left control: "dns" and "connecting" inside
\* create_conn, "io" inside a read or a write, "using" anywhere else while it
\* has the connection.  backup is the registration that net_io_restore_event
\* brings back, keep: a partial write leaves its own registration instead.
Coro == [pc : {"idle", "dns", "connecting", "using", "io"},
         conn : Conns \cup {NoConn},
         backup : {"none", "thread", "custom"}, keep : BOOLEAN]

Freed == [place |-> "none", busy_flag |-> FALSE, sock |-> "closed",
          net_error |-> "none", recycle |-> FALSE, ka_count |-> 0,
          event |-> "none", queued |-> FALSE]
IdleCoro == [pc |-> "idle", conn |-> NoConn, backup |-> "none", keep |-> FALSE]

UpstreamInit ==
    /\ setting \in Settings
    /\ conn = [c \in Conns |-> Freed]
    /\ coro = [k \in Coros |-> IdleCoro]
    /\ running = TRUE

(***************************************************************************)
(* Helpers.                                                                *)
(***************************************************************************)
In(place) == {c \in Conns : conn[c].place = place}
Allocated_BusyOnly == In("busy")
Allocated == {c \in Conns : conn[c].place /= "none"}

\* The coroutines that hold a connection, and those that wait for its event
\* (connection->coroutine is set).
Users(c)   == {k \in Coros : coro[k].conn = c}
Waiting(k) == coro[k].pc \in {"connecting", "io"}

\* prepare_destroy_conn: the event is deleted (from the priority queue too),
\* the socket is closed and the connection moves to the destroy queue.
prepare_destroy_conn(r) ==
    [r EXCEPT !.event = "none", !.queued = FALSE, !.sock = "closed",
              !.place = "destroy"]

\* destroy_conn: what may be freed.
Destroyable_BusyToo(c) == ~conn[c].queued
Destroyable(c) == ~conn[c].busy_flag /\ ~conn[c].queued

\* Objects that are not allocated are interchangeable: which of them an
\* allocation returns does not matter.
NextFree == CHOOSE c \in Conns : conn[c].place = "none"

(***************************************************************************)
(* flb_upstream_conn_get.                                                  *)
(***************************************************************************)
\* The available connections the loop over av_queue finds broken: a socket
\* error is pending.  A peer that closed in order leaves none.
Broken == SUBSET {c \in In("av") : conn[c].sock = "down"}

\* An available connection is taken; the event stays as it is.
GetAvailable(k, B, c) ==
    /\ running /\ Keepalive
    /\ coro[k].pc = "idle"
    /\ c \in In("av") \ B
    /\ conn' = [d \in Conns |->
                  IF d \in B THEN prepare_destroy_conn(conn[d])
                  ELSE IF d = c THEN [conn[d] EXCEPT !.place = "busy",
                                        !.busy_flag = TRUE, !.net_error = "none"]
                  ELSE conn[d]]
    /\ coro' = [coro EXCEPT ![k].pc = "using", ![k].conn = c]
    /\ UNCHANGED <<setting, running>>

\* The limit counts all three queues.
LimitReached_BusyOnly ==
    MaxConnections > 0 /\ Cardinality(Allocated_BusyOnly) >= MaxConnections
LimitReached ==
    MaxConnections > 0 /\ Cardinality(Allocated) >= MaxConnections

\* Nothing is available (all that was is broken) and the limit is reached.
GetRefused(k) ==
    LET B == In("av") IN
    /\ running
    /\ coro[k].pc = "idle"
    /\ B \in Broken /\ B /= {}
    /\ LimitReached
    /\ conn' = [c \in Conns |-> IF c \in B THEN prepare_destroy_conn(conn[c])
                                           ELSE conn[c]]
    /\ UNCHANGED <<setting, coro, running>>

\* create_conn up to the wait for the name server.
CreateConn(k) ==
    LET B == IF Keepalive THEN In("av") ELSE {}
        c == NextFree
    IN
    /\ running
    /\ coro[k].pc = "idle"
    /\ B \in Broken
    /\ ~LimitReached
    /\ In("none") /= {}
    /\ conn' = [d \in Conns |->
                  IF d \in B THEN prepare_destroy_conn(conn[d])
                  ELSE IF d = c THEN [Freed EXCEPT !.place = "busy",
                                        !.busy_flag = TRUE, !.recycle = Keepalive]
                  ELSE conn[d]]
    /\ coro' = [coro EXCEPT ![k].pc = "dns", ![k].conn = c]
    /\ UNCHANGED <<setting, running>>

\* create_conn fails: the connection may be destroyed at once.
create_failed_StaysBusy(k) ==
    LET c == coro[k].conn IN
    /\ conn' = [conn EXCEPT ![c] = prepare_destroy_conn(@)]
    /\ coro' = [coro EXCEPT ![k] = IdleCoro]
    /\ UNCHANGED <<setting, running>>
create_failed(k) ==
    LET c == coro[k].conn IN
    /\ conn' = [conn EXCEPT ![c] =
                  [prepare_destroy_conn(@) EXCEPT !.busy_flag = FALSE]]
    /\ coro' = [coro EXCEPT ![k] = IdleCoro]
    /\ UNCHANGED <<setting, running>>

\* The socket connects: conn_get returns it to its caller.
connected(k) ==
    LET c == coro[k].conn IN
    /\ conn' = [conn EXCEPT ![c].sock = "up", ![c].event = "none",
                            ![c].queued = FALSE, ![c].busy_flag = TRUE]
    /\ coro' = [coro EXCEPT ![k].pc = "using"]
    /\ UNCHANGED <<setting, running>>

\* net_connect_async: a new socket is registered and the coroutine waits.
connecting(k) ==
    LET c == coro[k].conn IN
    /\ conn' = [conn EXCEPT ![c].sock = "up", ![c].event = "thread",
                            ![c].queued = FALSE]
    /\ coro' = [coro EXCEPT ![k].pc = "connecting"]
    /\ UNCHANGED <<setting, running>>

\* The name lookup ends: it failed, the connection timed out meanwhile, or
\* the first socket connects, now or later.
DnsDone(k) ==
    /\ running
    /\ coro[k].pc = "dns"
    /\ \/ create_failed(k)
       \/ /\ conn[coro[k].conn].net_error = "none"
          /\ connected(k) \/ connecting(k)

\* The loop handles the event of a socket that connects: after a timeout the
\* connection fails, otherwise the next address may be tried.
TimedOut(c) == conn[c].net_error = "timedout"
ConnectResume(k) ==
    LET c == coro[k].conn IN
    /\ running
    /\ coro[k].pc = "connecting" /\ conn[c].queued
    /\ \/ create_failed(k)
       \/ ~TimedOut(c) /\ connecting(k)
       \/ ~TimedOut(c) /\ conn[c].sock = "up" /\ connected(k)

(***************************************************************************)
(* I/O of the coroutine that has the connection.                           *)
(***************************************************************************)
\* The call would block: the event is registered to resume the coroutine.
IoWait(k, keep) ==
    LET c == coro[k].conn IN
    /\ running
    /\ coro[k].pc = "using" /\ conn[c].sock /= "closed"
    /\ conn' = [conn EXCEPT ![c].event = "thread"]
    /\ coro' = [coro EXCEPT ![k].pc = "io", ![k].backup = conn[c].event,
                            ![k].keep = keep]
    /\ UNCHANGED <<setting, running>>

\* net_io_restore_event
restored(r, event) == [r EXCEPT !.event = event, !.queued = FALSE]

\* The loop resumes the coroutine.  A read may succeed although the peer has
\* closed; the call blocks again only while the socket is up; not every
\* error is kept in net_error (a read of 0 bytes is not).
IoResume(k) ==
    LET c == coro[k].conn
        r == conn[c]
        done == [coro EXCEPT ![k].pc = "using", ![k].backup = "none",
                             ![k].keep = FALSE]
    IN
    /\ running
    /\ coro[k].pc = "io" /\ r.queued /\ r.event = "thread"
    /\ \/ /\ r.sock = "up"
          /\ conn' = [conn EXCEPT ![c].queued = FALSE]
          /\ coro' = [coro EXCEPT ![k].keep = FALSE]
       \/ /\ conn' = [conn EXCEPT ![c] =
                        IF coro[k].keep THEN [@ EXCEPT !.queued = FALSE]
                        ELSE restored(@, coro[k].backup)]
          /\ coro' = done
       \/ \E e \in {r.net_error, "error"} :
             /\ conn' = [conn EXCEPT ![c] =
                           [restored(@, coro[k].backup) EXCEPT !.net_error = e]]
             /\ coro' = done
    /\ UNCHANGED <<setting, running>>

\* A call on a socket that is closed or broken fails at once.
IoFails(k) ==
    LET c == coro[k].conn IN
    /\ running
    /\ coro[k].pc = "using" /\ conn[c].sock /= "up"
    /\ conn' = [conn EXCEPT ![c].net_error = "error"]
    /\ UNCHANGED <<setting, coro, running>>

\* flb_upstream_conn_recycle: the client asks not to keep the connection.
ConnRecycleOff(k) ==
    /\ running
    /\ coro[k].pc = "using" /\ conn[coro[k].conn].recycle
    /\ conn' = [conn EXCEPT ![coro[k].conn].recycle = FALSE]
    /\ UNCHANGED <<setting, coro, running>>

(***************************************************************************)
(* flb_upstream_conn_release.                                              *)
(***************************************************************************)
Reusable(r) == /\ Keepalive /\ r.recycle
               /\ r.sock /= "closed" /\ r.net_error = "none"

\* ka_count is only compared with a limit, so it is not counted without one.
KaCount(r) == IF MaxRecycle > 0 THEN r.ka_count + 1 ELSE 0
UsedUp(r) == MaxRecycle > 0 /\ KaCount(r) > MaxRecycle

release(k, r) ==
    /\ conn' = [conn EXCEPT ![coro[k].conn] = [r EXCEPT !.busy_flag = FALSE]]
    /\ coro' = [coro EXCEPT ![k] = IdleCoro]
    /\ UNCHANGED <<setting, running>>

\* The connection becomes available and its socket is watched.
ReleaseToPool(k) ==
    LET r == conn[coro[k].conn] IN
    /\ running
    /\ coro[k].pc = "using" /\ Reusable(r)
    /\ ~UsedUp(r)
    /\ release(k, [restored(r, "custom") EXCEPT !.place = "av",
                                                !.ka_count = KaCount(r)])

\* It is dropped: not reusable, used too often, or it cannot be watched.
ReleaseDestroy(k) ==
    /\ running
    /\ coro[k].pc = "using"
    /\ release(k, prepare_destroy_conn(conn[coro[k].conn]))

(***************************************************************************)
(* The loop.                                                               *)
(***************************************************************************)
\* The remote end closes a connection.
PeerCloses(c) ==
    /\ running
    /\ conn[c].sock = "up"
    /\ conn' = [conn EXCEPT ![c].sock = "down"]
    /\ UNCHANGED <<setting, coro, running>>

\* An event that is ready enters the priority queue.
EventReady(c) ==
    /\ running
    /\ ~conn[c].queued
    /\ \/ conn[c].event = "thread"
       \/ conn[c].event = "custom" /\ conn[c].sock = "down"
    /\ conn' = [conn EXCEPT ![c].queued = TRUE]
    /\ UNCHANGED <<setting, coro, running>>

\* It is popped at the iteration limit, or no coroutine waits for it.
EventUnhandled(c) ==
    /\ running
    /\ conn[c].queued
    /\ conn' = [conn EXCEPT ![c].queued = FALSE]
    /\ UNCHANGED <<setting, coro, running>>

\* cb_upstream_conn_ka_dropped: a watched connection, idle or taken again
\* and not used yet.
KaDropped(c) ==
    /\ running
    /\ conn[c].queued /\ conn[c].event = "custom"
    /\ conn' = [conn EXCEPT ![c] = prepare_destroy_conn(@)]
    /\ UNCHANGED <<setting, coro, running>>

\* flb_upstream_conn_timeouts: T are the busy connections whose connect or
\* I/O timeout expired, A the available ones idle for too long.  A registered
\* connection is shut down and its event injected; any other is dropped.
MayTimeOut(c) ==
    /\ c \in In("busy")
    /\ \E k \in Users(c) : coro[k].pc \in {"dns", "connecting"} \/ IoTimeout
timed_out_NoShutdown(r) ==
    IF r.event /= "none"
    THEN [r EXCEPT !.net_error = "timedout", !.queued = TRUE]
    ELSE [prepare_destroy_conn(r) EXCEPT !.net_error = "timedout"]
timed_out(r) ==
    IF r.event /= "none"
    THEN [r EXCEPT !.net_error = "timedout", !.queued = TRUE,
                   !.sock = IF @ = "closed" THEN @ ELSE "down"]
    ELSE [prepare_destroy_conn(r) EXCEPT !.net_error = "timedout"]
ConnTimeouts(T, A) ==
    /\ running
    /\ T \cup A /= {}
    /\ \A c \in T : MayTimeOut(c)
    /\ A \subseteq In("av")
    /\ conn' = [c \in Conns |-> IF c \in T THEN timed_out(conn[c])
                                ELSE IF c \in A THEN prepare_destroy_conn(conn[c])
                                ELSE conn[c]]
    /\ UNCHANGED <<setting, coro, running>>

\* flb_upstream_conn_pending_destroy, after each round of the loop.
PendingDestroy ==
    LET D == {c \in In("destroy") : Destroyable(c)} IN
    /\ running
    /\ D /= {}
    /\ conn' = [c \in Conns |-> IF c \in D THEN Freed ELSE conn[c]]
    /\ UNCHANGED <<setting, coro, running>>

\* A worker stops when no flush and no busy connection is left;
\* flb_upstream_destroy drops and frees what the queues hold.
Stop ==
    /\ running
    /\ \A k \in Coros : coro[k].pc = "idle"
    /\ In("busy") = {}
    /\ conn' = [c \in Conns |->
                  IF conn[c].place = "destroy" /\ conn[c].queued THEN conn[c]
                  ELSE Freed]
    /\ running' = FALSE
    /\ UNCHANGED <<setting, coro>>

UpstreamNext ==
    \/ \E k \in Coros :
          \/ \E B \in Broken, c \in Conns : GetAvailable(k, B, c)
          \/ GetRefused(k)
          \/ CreateConn(k)
          \/ DnsDone(k)
          \/ ConnectResume(k)
          \/ \E keep \in BOOLEAN : IoWait(k, keep)
          \/ IoResume(k)
          \/ IoFails(k)
          \/ ConnRecycleOff(k)
          \/ ReleaseToPool(k)
          \/ ReleaseDestroy(k)
    \/ \E c \in Conns :
          PeerCloses(c) \/ EventReady(c) \/ EventUnhandled(c) \/ KaDropped(c)
    \/ \E T \in SUBSET In("busy"), A \in SUBSET In("av") : ConnTimeouts(T, A)
    \/ PendingDestroy
    \/ Stop

UpstreamSpec == UpstreamInit /\ [][UpstreamNext]_upstream_vars

(***************************************************************************)
(* Fairness: the loop handles what is ready, the sweep runs every 1.5      *)
(* seconds, a name lookup has a timer of its own, and a coroutine that has *)
(* a connection gives it back in the end.                                  *)
(***************************************************************************)
TimesOut(c) == \E T \in SUBSET In("busy"), A \in SUBSET In("av") :
                  c \in T /\ ConnTimeouts(T, A)
UpstreamFairSpec ==
    /\ UpstreamSpec
    /\ \A k \in Coros :
          /\ WF_upstream_vars(DnsDone(k))
          /\ SF_upstream_vars(ConnectResume(k) \/ IoResume(k))
          /\ SF_upstream_vars(ReleaseToPool(k) \/ ReleaseDestroy(k))
    /\ \A c \in Conns : WF_upstream_vars(EventReady(c)) /\ WF_upstream_vars(TimesOut(c))
    /\ WF_upstream_vars(PendingDestroy)

(***************************************************************************)
(* Properties.                                                             *)
(***************************************************************************)
\* The records have their types; no connection is recycled more often than
\* net.keepalive_max_recycle allows.
UpstreamTypeOK ==
    /\ setting \in Settings
    /\ conn \in [Conns -> Conn]
    /\ coro \in [Coros -> Coro]
    /\ running \in BOOLEAN

\* A connection that a coroutine still has is never freed or handed to a
\* second coroutine, whoever drops it meanwhile (busy_flag, destroy_conn).
HeldIsValid ==
    \A k \in Coros : coro[k].pc /= "idle" =>
        /\ coro[k].conn \in Conns
        /\ conn[coro[k].conn].place \in {"busy", "destroy"}
        /\ conn[coro[k].conn].busy_flag
        /\ Users(coro[k].conn) = {k}

\* What flb_upstream_conn_get hands out from the pool has an open socket, was
\* not timed out or found broken by its last user, has no user, and the loop
\* watches it.
PoolIsHealthy ==
    \A c \in In("av") : /\ conn[c].sock /= "closed"
                        /\ conn[c].net_error = "none"
                        /\ conn[c].event = "custom"
                        /\ ~conn[c].busy_flag /\ Users(c) = {}

\* The event loop holds no event of a connection that was dropped or freed.
NoDanglingEvent ==
    \A c \in Conns : conn[c].event /= "none" \/ conn[c].queued =>
        conn[c].place \in {"busy", "av"} /\ conn[c].event /= "none"

\* A coroutine that waits for its socket is registered with an open socket,
\* so that the loop or the sweep can resume it: nobody closes it under the
\* coroutine (the keepalive handler included).
WaitersArmed ==
    \A k \in Coros : Waiting(k) =>
        /\ conn[coro[k].conn].event = "thread"
        /\ conn[coro[k].conn].sock /= "closed"

\* Coroutines, handlers of closed sockets and the sweep leave connections in a
\* state the others can rely on: the properties above.
PoolConsistent ==
    UpstreamTypeOK /\ HeldIsValid /\ PoolIsHealthy /\ NoDanglingEvent /\ WaitersArmed

\* net.max_worker_connections bounds the connections that exist, the ones
\* about to be destroyed included.
LimitHolds ==
    MaxConnections > 0 => Cardinality(Allocated) <= MaxConnections

\* A coroutine that waits for a socket is resumed: the sweep shuts down what
\* does not answer.
WaitsEnd == \A k \in Coros : Waiting(k) ~> ~Waiting(k)

\* A connection that was dropped is freed in the end, so that it stops
\* counting against the limit.
DroppedIsFreed ==
    \A c \in Conns : conn[c].place = "destroy" ~> conn[c].place /= "destroy"
=============================================================================
