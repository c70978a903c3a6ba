---------------------------- MODULE ChunkDelivery ----------------------------
(***************************************************************************)
(* What the delivery core promises of a buffered chunk: each route is      *)
(* settled once (delivered, dropped or quarantined), and the chunk is      *)
(* deleted in the very step that settles its last route, neither before    *)
(* nor after.  A chunk that is not settled when the engine stops is kept.  *)
(***************************************************************************)
CONSTANTS Chunks, Outputs

VARIABLES
    store,    \* "absent", "stored", "deleted" or "kept"
    pending   \* the routes of the chunk that are not settled

vars == <<store, pending>>

Init ==
    /\ store = [c \in Chunks |-> "absent"]
    /\ pending = [c \in Chunks |-> {}]

\* The buffer accepts a chunk.
Accept(c, routes) ==
    /\ store[c] = "absent"
    /\ store' = [store EXCEPT ![c] = "stored"]
    /\ pending' = [pending EXCEPT ![c] = routes]

\* A chunk without a route is of no use.
Discard(c) ==
    /\ store[c] = "stored" /\ pending[c] = {}
    /\ store' = [store EXCEPT ![c] = "deleted"]
    /\ UNCHANGED pending

\* A route ends; the last one takes the chunk with it.
Settle(c, o) ==
    /\ store[c] = "stored" /\ o \in pending[c]
    /\ pending' = [pending EXCEPT ![c] = @ \ {o}]
    /\ store' = [store EXCEPT ![c] = IF pending[c] = {o} THEN "deleted" ELSE @]

\* The engine stops.
Stop ==
    /\ store' = [c \in Chunks |-> IF store[c] = "stored" THEN "kept"
                                                         ELSE store[c]]
    /\ UNCHANGED pending

Next ==
    \/ \E c \in Chunks, routes \in SUBSET Outputs : Accept(c, routes)
    \/ \E c \in Chunks : Discard(c)
    \/ \E c \in Chunks, o \in Outputs : Settle(c, o)
    \/ Stop

Spec == Init /\ [][Next]_vars
=============================================================================
