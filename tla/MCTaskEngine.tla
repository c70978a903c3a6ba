---------------------------- MODULE MCTaskEngine ----------------------------
(* Small instances of TaskEngine for TLC. *)
EXTENDS TaskEngine, TLC
CONSTANTS c1, c2, o1, o2

\* o1 is never retried, o2 is retried once.
MCLimits == (o1 :> 0) @@ (o2 :> 1)
\* o1 is retried without limit, o2 is never retried.
MCUnlimited == (o1 :> -1) @@ (o2 :> 0)
MCLimit1 == [o \in Outputs |-> 1]
\* Shut down only when everything is flushed.
MCWait == -1
MCSymmetry == Permutations(Chunks)
=============================================================================
