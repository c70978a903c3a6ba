---------------------------- MODULE MCGitConfig ----------------------------
(* Instances of GitConfig for TLC. *)
EXTENDS GitConfig

\* Commit 2 is refused; the agent crashes anywhere.
Crashing == [Pushed |-> {1, 2, 3}, Halting |-> {2}, Aborting |-> {}, PartialLoads |-> FALSE,
             Enabled |-> FALSE, Linear |-> TRUE, Prompt |-> TRUE,
             Operator |-> FALSE, Faults |-> {}, CrashPoints |-> "any"]
\* Every call fails now and then and the code sees it, commit 3 cannot start.
Failing == [Crashing EXCEPT !.Aborting = {3}, !.PartialLoads = TRUE,
                            !.Faults = FaultKinds \ {"read", "flush", "remove"},
                            !.CrashPoints = "quiet"]
\* References are not read, flushed or removed, and the code does not see it.
Unseen == [Crashing EXCEPT !.Pushed = {1, 2}, !.Halting = {},
                           !.Faults = {"read", "flush", "remove", "trigger"},
                           !.CrashPoints = "quiet"]
\* The branch moves back, too.
Moving == [Crashing EXCEPT !.Pushed = {1, 2}, !.PartialLoads = TRUE, !.Linear = FALSE,
                           !.Enabled = TRUE, !.Faults = {"sync", "ref", "trigger", "reload"},
                           !.CrashPoints = "quiet"]
\* An operator sends signals, polls fall into reloads.
Signalled == [Crashing EXCEPT !.Pushed = {1, 2}, !.Enabled = TRUE, !.Prompt = FALSE,
                              !.Operator = TRUE, !.Faults = {"reload", "thread"},
                              !.CrashPoints = "quiet"]
\* The operator may be earlier than the plugin, which enables hot reload.
Early == [Signalled EXCEPT !.Pushed = {1}, !.Enabled = FALSE, !.Faults = {}]
MCSettings == {Crashing, Failing, Unseen, Moving, Signalled, Early}
=============================================================================
