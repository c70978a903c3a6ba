----------------------------- MODULE RingQueue -----------------------------
(***************************************************************************)
(* What the ring between an input thread and the engine promises: a queue  *)
(* with a fixed number of places, one thread that puts and one that takes. *)
(***************************************************************************)
EXTENDS Naturals, Sequences

CONSTANTS Entries, Capacity

VARIABLES items, taken

vars == <<items, taken>>

Init == items = <<>> /\ taken = <<>>

Put(e) ==
    /\ Len(items) < Capacity
    /\ items' = Append(items, e)
    /\ UNCHANGED taken

Take ==
    /\ items /= <<>>
    /\ taken' = Append(taken, Head(items))
    /\ items' = Tail(items)

\* flb_input_chunk_ring_buffer_cleanup
Clear ==
    /\ items' = <<>>
    /\ UNCHANGED taken

Next == (\E e \in Entries : Put(e)) \/ Take \/ Clear

Spec == Init /\ [][Next]_vars
=============================================================================
