---------------------------- MODULE MCInputRing ----------------------------
(* The instance of InputRing for TLC. *)
EXTENDS InputRing

\* The input never pauses and shutdown waits for chunks; it pauses on two entries;
\* on each entry, with a window of the whole ring; a chunk may refuse an entry;
\* stores are reordered.
Free       == [Window |-> 2, MemLimit |-> 9, Reorders |-> FALSE, Refuses |-> FALSE,
               Waits |-> TRUE, Appends |-> MaxEntries]
Pausing    == [Free EXCEPT !.MemLimit = 2, !.Waits = FALSE]
WideWindow == [Pausing EXCEPT !.MemLimit = 1, !.Window = 4]
Refusing   == [Pausing EXCEPT !.Refuses = TRUE, !.Appends = 3]
Weak       == [Pausing EXCEPT !.Reorders = TRUE, !.Appends = 2]
MCSettings == {Free, Pausing, WideWindow, Refusing, Weak}
=============================================================================
