----------------------------- MODULE MCBacklog -----------------------------
(* The instance of Backlog for TLC. *)
EXTENDS Backlog

\* Three files, one of an output with a disk limit alone and two shared.
Evicting   == [Kind |-> <<"logs", "logs", "logs">>, Tagged |-> <<{1}, {1, 2}, {1, 2}>>,
               Stored |-> <<{}, {}, {}>>, Limited |-> {1}, DeleteBad |-> TRUE,
               FlushOnShutdown |-> FALSE, Faults |-> {}, MaxStarts |-> 1]
\* A restart after a stop or a crash; one file has its routes stored in it.
Restarting == [Evicting EXCEPT !.Kind = <<"logs", "logs", "none">>, !.Limited = {},
                               !.Tagged = <<{1, 2}, {1}, {}>>,
                               !.Stored = <<{}, {2}, {}>>, !.MaxStarts = 2]
\* Files the loader cannot use, in front of one it can.
Unusable   == [Restarting EXCEPT !.Kind = <<"empty", "logs", "nometa">>,
                                 !.Tagged = <<{1, 2}, {1, 2}, {1}>>,
                                 !.Stored = <<{}, {}, {}>>]
Unopened   == [Unusable EXCEPT !.Kind = <<"corrupt", "logs", "noopen">>,
                               !.MaxStarts = 1]
\* The queues are built a second time at the shutdown.
AtShutdown == [Restarting EXCEPT !.FlushOnShutdown = TRUE, !.MaxStarts = 1]
\* Memory is short while files are mapped.
Short      == [Restarting EXCEPT !.Faults = {"alloc"}]
MCSettings == {Evicting, Restarting, Unusable, Unopened, AtShutdown,
               Short}
=============================================================================
