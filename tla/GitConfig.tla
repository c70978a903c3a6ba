----------------------------- MODULE GitConfig -----------------------------
(***************************************************************************)
(* Configuration from a git repository (plugins/in_git_config) and the hot *)
(* reload it asks for (flb_reload.c, the main loop and the SIGHUP handler  *)
(* of fluent-bit.c), with crashes and restarts of the process.             *)
(*                                                                         *)
(* Three threads interleave: the engine thread, in which the collector     *)
(* polls, stages and commits configurations, one step for each change of   *)
(* the disk; the main thread, which reloads; and the short-lived threads   *)
(* that send SIGHUP.  A configuration is the number of its commit.         *)
(***************************************************************************)
EXTENDS Integers, FiniteSets

CONSTANTS
    Commits,      \* 1..n, in the order they were made
    Settings,     \* configurations and environments to consider, see Setting
    MaxHups,      \* bound on the signals that are under way
    MaxCrashes    \* bound on the number of crashes

\* Calls whose failure the code sees, and ("write" among them, when the last
\* part of a file is lost) calls whose failure it does not see: a reference
\* that cannot be read counts as absent, one that is not flushed is left empty,
\* and what cannot be removed stays.
FaultKinds == {"poll", "sync", "write", "ref", "trigger", "thread", "reload",
               "read", "flush", "remove"}

\* Pushed: commits the branch may be at.
\* Halting: commits whose configuration is refused when it is loaded.
\* Aborting: commits that load and fail when the engine starts.
\* PartialLoads: a part of a file is a configuration, too.
\* Enabled: the configurations enable hot reload themselves.
\* Linear: the branch only moves forward.
\* Prompt: a reload takes less time than the poll interval.
\* Operator: an operator sends SIGHUP, too.
\* Faults: calls that may fail.
\* CrashPoints: "quiet" is outside a collection.
Setting == [Pushed : SUBSET Commits, Halting : SUBSET Commits,
            Aborting : SUBSET Commits,
            PartialLoads : BOOLEAN, Enabled : BOOLEAN, Linear : BOOLEAN,
            Prompt : BOOLEAN, Operator : BOOLEAN, Faults : SUBSET FaultKinds,
            CrashPoints : {"none", "quiet", "any"}]

ASSUME GitConfigAssumption ==
    /\ IsFiniteSet(Commits) /\ Commits = 1..Cardinality(Commits)
    /\ Commits /= {}
    /\ Settings \subseteq Setting
    /\ \A s \in Settings : s.Halting \intersect s.Aborting = {}
    /\ MaxHups \in Nat \ {0} /\ MaxCrashes \in Nat

Base    == 0     \* the file of the command line and its configuration
None    == -1
Partial == -2    \* what an interrupted write leaves in a file
Freed   == -3    \* a path whose memory was released

RefNames == {"cur", "new", "old"}
Paths    == Commits \union {Base, Freed}
Contents == Commits \union {Base, Partial}

VARIABLES
    setting,     \* the one of Settings this behaviour has
    remote,      \* the commit of the branch
    refs,        \* {cur,new,old}.ref: the configuration each names
    files,       \* content of <sha>.yaml, None without the file
    main,        \* what the main thread does, see MainStates
    restarting,  \* flb_bin_restarting
    hups,        \* threads that are about to send SIGHUP
    target,      \* the copy of the path a reload works with
    incoming,    \* content loaded into the new context
    running,     \* content the engine runs, None without an engine
    loaded,      \* path the running context was loaded from
    path,        \* config->conf_path_file of the running context
    conf,        \* flags of the running context, see Flags
    pending,     \* ctx->pending_reload_config
    pc,          \* the step of the collector, "idle" between collections
    sha,         \* remote_sha and
    got,         \* config_content of this collection
    good,        \* history: the configuration committed last
    crashes      \* history: number of crashes

disk    == <<refs, files>>
context == <<running, loaded, path, conf, pending>>
reload  == <<main, restarting, target, incoming>>
locals  == <<pc, sha, got>>
history == <<good, crashes>>
vars    == <<setting, remote, disk, reload, hups, context, locals, history>>

Halting      == setting.Halting
Aborting     == setting.Aborting
PartialLoads == setting.PartialLoads
Enabled      == setting.Enabled
Linear       == setting.Linear
Prompt       == setting.Prompt
Operator     == setting.Operator
Faults       == setting.Faults
CrashPoints  == setting.CrashPoints

MainStates == {"down", "run", "load", "stop", "start", "finish", "join",
               "aborted", "spin"}
Restarting == {"IDLE", "IN_PROGRESS", "HALTED", "NOT_ENABLED", "ABORTED"}
Steps      == {"idle", "commit", "purge", "unnew", "unold", "poll", "fetch",
               "truncate", "write", "backup", "drop", "stage", "uncur",
               "trigger", "discard", "revert", "reset_new", "reset_old"}
Flags      == [enabled : BOOLEAN, hot_reloading : BOOLEAN,
               succeeded : BOOLEAN, by_reload : BOOLEAN]

\* A context as flb_create makes it.
Fresh(reloading) == [enabled |-> Enabled, hot_reloading |-> reloading,
                     succeeded |-> FALSE, by_reload |-> FALSE]

\* What a call that fails unnoticed may come to as well.
Unnoticed(kind, outcomes) == IF kind \in Faults THEN outcomes ELSE {}

\* config_deref: what a reference may be read as.
Deref(r) == {refs[r]} \union Unnoticed("read", {None})
Readings == {seen \in [RefNames -> Commits \union {None}] :
               \A r \in RefNames : seen[r] \in Deref(r)}

\* What a restarted agent continues with: nothing when it is seen to run one of
\* the three already (is_git_config), else cur before new before old, as they
\* are read again.
check_existing_config(p, seen, again) ==
    IF \E r \in RefNames : seen[r] = p THEN None
    ELSE IF again["cur"] /= None THEN again["cur"]
    ELSE IF again["new"] /= None THEN again["new"]
    ELSE again["old"]

\* The file a path names.
Content(p) == IF p = Base THEN Base ELSE IF p = Freed THEN None ELSE files[p]
Loads(c)   == /\ c \notin Halting \union {None}
              /\ c = Partial => PartialLoads
Starts(c)  == c \notin Aborting

Init ==
    /\ setting \in Settings
    /\ remote = 1
    /\ refs = [r \in RefNames |-> None]
    /\ files = [c \in Commits |-> None]
    /\ main = "down" /\ restarting = "IDLE" /\ hups = 0
    /\ target = Base /\ incoming = Base
    /\ running = None /\ loaded = Base /\ path = Base
    /\ conf = Fresh(FALSE) /\ pending = None
    /\ pc = "idle" /\ sha = None /\ got = None
    /\ good = None /\ crashes = 0

-----------------------------------------------------------------------------
(* The repository and the process. *)

\* Somebody pushes to the branch, or resets it to an earlier commit.
Push(c) ==
    /\ c \in setting.Pushed \ {remote}
    /\ Linear => c > remote
    /\ remote' = c
    /\ UNCHANGED <<setting, disk, reload, hups, context, locals, history>>

\* The agent is started with the configuration of its command line, and the
\* plugin initialised (cb_git_config_init).
Start ==
    /\ main = "down"
    /\ main' = "run" /\ restarting' = "IDLE"
    /\ running' = Base /\ loaded' = Base /\ path' = Base
    /\ conf' = Fresh(FALSE)
    /\ \E seen, again \in Readings :
         pending' = check_existing_config(Base, seen, again)
    /\ UNCHANGED <<setting, remote, disk, hups, target, incoming, locals,
                   history>>

\* The process ends; the disk is what is left of it.
GoDown ==
    /\ main' = "down" /\ restarting' = "IDLE" /\ hups' = 0
    /\ target' = Base /\ incoming' = Base
    /\ running' = None /\ loaded' = Base /\ path' = Base
    /\ conf' = Fresh(FALSE) /\ pending' = None
    /\ pc' = "idle" /\ sha' = None /\ got' = None
    /\ UNCHANGED <<setting, remote, disk, good>>

\* A crash, a kill, or the watchdog of a reload that takes too long.
Crash ==
    /\ main /= "down"
    /\ CrashPoints /= "none"
    /\ CrashPoints = "quiet" => pc = "idle"
    /\ crashes < MaxCrashes
    /\ crashes' = crashes + 1
    /\ GoDown

\* SIGTERM, seen by the main loop; the engine ends after its collection.
Terminate ==
    /\ main = "run" /\ restarting \in {"IDLE", "NOT_ENABLED"}
    /\ pc = "idle"
    /\ crashes < MaxCrashes
    /\ crashes' = crashes + 1
    /\ GoDown

-----------------------------------------------------------------------------
(* SIGHUP and the main thread. *)

\* flb_signal_handler
HangUp ==
    restarting' = IF restarting = "IDLE" THEN "IN_PROGRESS" ELSE restarting

\* do_reload in its thread.
do_reload ==
    /\ hups > 0 /\ main /= "down"
    /\ hups' = hups - 1
    /\ HangUp
    /\ UNCHANGED <<setting, remote, disk, main, target, incoming, context,
                   locals, history>>

OperatorHup ==
    /\ Operator /\ main \notin {"down", "aborted", "spin"}
    /\ HangUp
    /\ UNCHANGED <<setting, remote, disk, main, target, incoming, hups, context,
                   locals, history>>

\* Mutant: the new context keeps the path of the command line.
ReloadBegin_CommandLine ==
    /\ main = "run" /\ restarting = "IN_PROGRESS"
    /\ conf.enabled
    /\ main' = "load"
    /\ target' = Base
    /\ conf' = [conf EXCEPT !.hot_reloading = TRUE, !.by_reload = TRUE]
    /\ UNCHANGED <<setting, remote, disk, restarting, incoming, hups, running,
                   loaded, path, pending, locals, history>>

\* flb_reload up to the configuration file: the old context is marked.
ReloadBegin ==
    /\ main = "run" /\ restarting = "IN_PROGRESS"
    /\ conf.enabled
    /\ main' = "load"
    /\ target' = path
    /\ conf' = [conf EXCEPT !.hot_reloading = TRUE, !.by_reload = TRUE]
    /\ UNCHANGED <<setting, remote, disk, restarting, incoming, hups, running,
                   loaded, path, pending, locals, history>>

ReloadNotEnabled ==
    /\ main = "run" /\ restarting = "IN_PROGRESS"
    /\ ~conf.enabled
    /\ restarting' = "NOT_ENABLED"
    /\ UNCHANGED <<setting, remote, disk, main, target, incoming, hups, context,
                   locals, history>>

\* The file cannot be read, its configuration is refused, or memory is short.
ReloadHalted ==
    /\ main = "load"
    /\ ~Loads(Content(target)) \/ "reload" \in Faults
    /\ main' = "run" /\ restarting' = "HALTED"
    /\ conf' = [conf EXCEPT !.hot_reloading = FALSE]
    /\ UNCHANGED <<setting, remote, disk, target, incoming, hups, running,
                   loaded, path, pending, locals, history>>

ReloadLoaded ==
    /\ main = "load"
    /\ Loads(Content(target))
    /\ main' = "stop"
    /\ incoming' = Content(target)
    /\ UNCHANGED <<setting, remote, disk, restarting, target, hups, context,
                   locals, history>>

\* Mutant: a reload that was halted is not forgotten.
HaltedIsIdle_Never ==
    /\ FALSE
    /\ UNCHANGED vars

\* The main loop sleeps for a second before it accepts the next signal.
HaltedIsIdle ==
    /\ main = "run" /\ restarting = "HALTED"
    /\ restarting' = "IDLE"
    /\ UNCHANGED <<setting, remote, disk, main, target, incoming, hups, context,
                   locals, history>>

\* flb_stop and flb_destroy; a collection under way comes to its end first.
StopOld ==
    /\ main = "stop" /\ pc = "idle"
    /\ main' = "start"
    /\ running' = None /\ pending' = None
    /\ UNCHANGED <<setting, remote, disk, restarting, target, incoming, hups,
                   loaded, path, conf, locals, history>>

\* flb_start: the engine runs and the plugin is initialised.
StartNew ==
    /\ main = "start"
    /\ Starts(incoming)
    /\ main' = "finish"
    /\ running' = incoming /\ loaded' = target /\ path' = target
    /\ conf' = Fresh(TRUE)
    /\ \E seen, again \in Readings :
         pending' = check_existing_config(target, seen, again)
    /\ UNCHANGED <<setting, remote, disk, restarting, target, incoming, hups,
                   locals, history>>

StartFailed ==
    /\ main = "start"
    /\ ~Starts(incoming)
    /\ main' = "aborted" /\ restarting' = "ABORTED"
    /\ UNCHANGED <<setting, remote, disk, target, incoming, hups, context,
                   locals, history>>

\* The main loop reads the status of a context that was destroyed: it leaves,
\* or spins on what it finds there.
Aborted ==
    /\ main = "aborted"
    /\ \/ GoDown /\ UNCHANGED crashes
       \/ /\ main' = "spin"
          /\ UNCHANGED <<setting, remote, disk, restarting, target, incoming,
                         hups, context, locals, history>>

ReloadFinished ==
    /\ main = "finish"
    /\ main' = "join"
    /\ conf' = [conf EXCEPT !.hot_reloading = FALSE, !.succeeded = TRUE]
    /\ UNCHANGED <<setting, remote, disk, restarting, target, incoming, hups,
                   running, loaded, path, pending, locals, history>>

\* The watchdog was joined; the next signal counts.
ReloadDone ==
    /\ main = "join"
    /\ main' = "run" /\ restarting' = "IDLE"
    /\ UNCHANGED <<setting, remote, disk, target, incoming, hups, context,
                   locals, history>>

-----------------------------------------------------------------------------
(* The collector (cb_git_config_collect) in the engine thread. *)

\* The id of the only collector is 0, so the pause in execute_reload, meant for
\* ids above 0, never happens.
Collecting == /\ running /= None
              /\ Prompt => /\ main = "run" /\ hups = 0
                            /\ restarting \in {"IDLE", "NOT_ENABLED"}

Goto(step) == pc' = step /\ UNCHANGED <<sha, got>>
Return     == pc' = "idle" /\ sha' = None /\ got' = None
engine     == <<remote, reload, crashes>>
process    == <<hups, context>>

\* config_set_ref does not look at the result of fclose: the line may be lost,
\* and an empty reference reads as none.
SetRef(r, c) == /\ \E line \in {c} \union Unnoticed("flush", {None}) :
                     refs' = [refs EXCEPT ![r] = line]
                /\ UNCHANGED files

\* The results of remove, of a reference or of the file one names, are ignored.
DropRef(r) == /\ refs' \in {[refs EXCEPT ![r] = None]} \union Unnoticed("remove", {refs})
              /\ UNCHANGED files
Remove(c)  == /\ files' \in {IF c = None THEN files ELSE [files EXCEPT ![c] = None]}
                             \union Unnoticed("remove", {files})
              /\ UNCHANGED refs

\* Mutant: a reload that was asked for earlier still counts as one that worked.
execute_reload_StaleSuccess(p) ==
    /\ hups < MaxHups
    /\ hups' = hups + 1
    /\ path' = p
    /\ conf' = [conf EXCEPT !.enabled = TRUE]
    /\ UNCHANGED <<setting, running, loaded>>

\* execute_reload: the context forgets what it was loaded from.
execute_reload(p) ==
    /\ hups < MaxHups
    /\ hups' = hups + 1
    /\ path' = p
    /\ conf' = [conf EXCEPT !.enabled = TRUE, !.succeeded = FALSE]
    /\ UNCHANGED <<setting, running, loaded>>

\* It fails before it changes anything, or after it released the path, which
\* the context then still points to.
execute_reload_fails(p) ==
    \/ /\ "trigger" \in Faults
       /\ UNCHANGED <<hups, running, loaded, path, conf>>
    \/ /\ "thread" \in Faults
       /\ path' = Freed
       /\ conf' = [conf EXCEPT !.enabled = TRUE, !.succeeded = FALSE]
       /\ UNCHANGED <<setting, hups, running, loaded>>

\* commit_if_reloaded with config_ref_exists and is_new_config.
CommitDue == /\ ~conf.hot_reloading /\ conf.succeeded
             /\ refs["new"] /= None
             /\ files[refs["new"]] /= None
             /\ refs["new"] = path

\* "new" is read four times before it is committed; once is enough to give up.
Decide == \E new \in Deref("new") :
             Goto(IF CommitDue /\ new /= None THEN "commit" ELSE "poll")

CollectPending ==
    /\ Collecting /\ pc = "idle" /\ pending /= None
    /\ execute_reload(pending)
    /\ pending' = None
    /\ UNCHANGED <<setting, engine, disk, locals, good>>

CollectPendingFails ==
    /\ Collecting /\ pc = "idle" /\ pending /= None
    /\ execute_reload_fails(pending)
    /\ pending' = None
    /\ IF UNCHANGED conf THEN Decide ELSE Goto("poll")
    /\ UNCHANGED <<setting, engine, disk, good>>

Collect ==
    /\ Collecting /\ pc = "idle" /\ pending = None
    /\ Decide
    /\ UNCHANGED <<setting, engine, disk, process, good>>

\* config_commit, step by step.
Commit ==
    /\ pc = "commit"
    /\ SetRef("cur", refs["new"]) /\ good' = refs["new"]
    /\ Goto("purge")
    /\ UNCHANGED <<setting, engine, process>>

Purge ==
    /\ pc = "purge"
    /\ \E old \in Deref("old") : Remove(old)
    /\ Goto("unnew")
    /\ UNCHANGED <<setting, engine, process, good>>

Unnew ==
    /\ pc = "unnew"
    /\ DropRef("new")
    /\ Goto("unold")
    /\ UNCHANGED <<setting, engine, process, good>>

Unold ==
    /\ pc = "unold"
    /\ DropRef("old")
    /\ Goto("poll")
    /\ UNCHANGED <<setting, engine, process, good>>

\* flb_git_remote_sha and the comparison with get_current_sha.
Poll ==
    /\ pc = "poll"
    /\ \E cur \in Deref("cur") :
         IF cur = remote
         THEN Return
         ELSE pc' = "fetch" /\ sha' = remote /\ UNCHANGED got
    /\ UNCHANGED <<setting, engine, disk, process, good>>

\* flb_git_sync and flb_git_get_file: the branch may have moved meanwhile.
Fetch ==
    /\ pc = "fetch"
    /\ pc' = "truncate" /\ got' = remote /\ UNCHANGED sha
    /\ UNCHANGED <<setting, engine, disk, process, good>>

\* create_config_with_include writes into the file itself.
Truncate ==
    /\ pc = "truncate"
    /\ files' = [files EXCEPT ![sha] = Partial] /\ UNCHANGED refs
    /\ Goto("write")
    /\ UNCHANGED <<setting, engine, process, good>>

\* The last part of the file is written by fclose, whose result is ignored.
Write ==
    /\ pc = "write"
    /\ \E text \in {got} \union Unnoticed("write", {Partial}) :
         files' = [files EXCEPT ![sha] = text]
    /\ UNCHANGED refs
    /\ Goto("backup")
    /\ UNCHANGED <<setting, engine, process, good>>

\* Mutant: the current configuration is not backed up.
Backup_Never ==
    /\ pc = "backup"
    /\ UNCHANGED disk
    /\ Goto("drop")
    /\ UNCHANGED <<setting, engine, process, good>>

\* config_add, step by step.
Backup ==
    /\ pc = "backup"
    /\ \E cur \in Deref("cur") :
         IF cur = None THEN UNCHANGED disk ELSE SetRef("old", cur)
    /\ Goto("drop")
    /\ UNCHANGED <<setting, engine, process, good>>

Drop ==
    /\ pc = "drop"
    /\ \E new \in Deref("new") :
         IF new = sha THEN UNCHANGED disk ELSE Remove(new)
    /\ Goto("stage")
    /\ UNCHANGED <<setting, engine, process, good>>

Stage ==
    /\ pc = "stage"
    /\ SetRef("new", sha)
    /\ Goto("uncur")
    /\ UNCHANGED <<setting, engine, process, good>>

Uncur ==
    /\ pc = "uncur"
    /\ DropRef("cur")
    /\ Goto("trigger")
    /\ UNCHANGED <<setting, engine, process, good>>

Trigger ==
    /\ pc = "trigger"
    /\ execute_reload(sha)
    /\ Return
    /\ UNCHANGED <<setting, engine, disk, pending, good>>

TriggerFails ==
    /\ pc = "trigger"
    /\ execute_reload_fails(sha)
    /\ Goto("discard")
    /\ UNCHANGED <<setting, engine, disk, pending, good>>

\* A path that was released is released again, by the next execute_reload or
\* with its context: the process may end there, or go on as if nothing was.
DoubleFree ==
    /\ path = Freed
    /\ \/ pc = "trigger"
       \/ pc = "idle" /\ main = "stop"
    /\ GoDown /\ UNCHANGED crashes

\* config_rollback, step by step.
Discard ==
    /\ pc = "discard"
    /\ \E new \in Deref("new") : Remove(new)
    /\ \E old \in Deref("old") : IF old = None THEN Return ELSE Goto("revert")
    /\ UNCHANGED <<setting, engine, process, good>>

Revert ==
    /\ pc = "revert"
    /\ SetRef("cur", refs["old"])
    /\ Goto("reset_new")
    /\ UNCHANGED <<setting, engine, process, good>>

ResetNew ==
    /\ pc = "reset_new"
    /\ DropRef("new")
    /\ Goto("reset_old")
    /\ UNCHANGED <<setting, engine, process, good>>

ResetOld ==
    /\ pc = "reset_old"
    /\ DropRef("old")
    /\ Return
    /\ UNCHANGED <<setting, engine, process, good>>

\* A failed commit is only logged; any other failure ends the collection.
CommitFails ==
    /\ pc = "commit" /\ Faults \intersect {"ref", "read"} /= {}
    /\ Goto("poll")
    /\ UNCHANGED <<setting, engine, disk, process, good>>

CollectFails ==
    /\ \/ pc = "poll" /\ "poll" \in Faults
       \/ pc = "fetch" /\ "sync" \in Faults
       \/ pc \in {"truncate", "write", "backup"} /\ "write" \in Faults
       \/ pc \in {"stage", "revert"} /\ "ref" \in Faults
       \/ pc = "backup" /\ refs["cur"] /= None /\ "ref" \in Faults
    /\ Return
    /\ UNCHANGED <<setting, engine, disk, process, good>>

-----------------------------------------------------------------------------

MainStep == \/ ReloadBegin \/ ReloadNotEnabled \/ ReloadHalted \/ ReloadLoaded
            \/ HaltedIsIdle \/ StopOld \/ StartNew \/ StartFailed \/ Aborted
            \/ ReloadFinished \/ ReloadDone

Callback == \/ Commit \/ Purge \/ Unnew \/ Unold \/ Poll \/ Fetch \/ Truncate
            \/ Write \/ Backup \/ Drop \/ Stage \/ Uncur \/ Trigger
            \/ TriggerFails \/ Discard \/ Revert \/ ResetNew \/ ResetOld

Next == \/ \E c \in Commits : Push(c)
        \/ Start \/ Crash \/ Terminate \/ do_reload \/ OperatorHup
        \/ MainStep
        \/ CollectPending \/ CollectPendingFails \/ Collect \/ Callback
        \/ CommitFails \/ CollectFails \/ DoubleFree

Spec == Init /\ [][Next]_vars

\* A supervisor starts the agent again; threads run; the engine sees the STOP
\* event between two collections; the timer of the collector fires again and
\* again, and a collection comes to its end.
Fairness == /\ WF_vars(Start) /\ WF_vars(do_reload)
            /\ WF_vars(MainStep) /\ SF_vars(StopOld)
            /\ SF_vars(Collect \/ CollectPending) /\ WF_vars(Callback)
FairSpec == Spec /\ Fairness

-----------------------------------------------------------------------------

TypeOK ==
    /\ remote \in Commits
    /\ refs \in [RefNames -> Commits \union {None}]
    /\ files \in [Commits -> Commits \union {None, Partial}]
    /\ main \in MainStates /\ restarting \in Restarting
    /\ hups \in 0..MaxHups
    /\ target \in Paths /\ incoming \in Contents
    /\ running \in Contents \union {None} /\ loaded \in Paths /\ path \in Paths
    /\ conf \in Flags /\ pending \in Commits \union {None}
    /\ pc \in Steps
    /\ sha \in Commits \union {None} /\ got \in Commits \union {None}
    /\ good \in Commits \union {None} /\ crashes \in 0..MaxCrashes

\* After a crash in the middle of a commit the agent gets to reload what it had
\* committed and to commit it again: no call of the reload or of the commit
\* fails, no signal and no poll comes in between.
Recovers == /\ Faults \intersect {"ref", "trigger", "thread", "reload"} = {}
            /\ Prompt /\ ~Operator

\* References are read, flushed and removed as they are asked to be.
Dependable == Faults \intersect {"read", "flush", "remove"} = {}

\* The configuration committed last stays on the disk, and a reference to it,
\* until the next one is committed: through every crash between two changes of
\* the disk, refused commits and calls whose failure is seen.  The branch must
\* not go back: a commit staged again is deleted as its own predecessor.  The
\* references must be dependable: config_add removes a cur.ref that it could
\* not read and so did not back up, config_commit deletes the other two after
\* a cur.ref whose line was lost, and a new.ref that stays has the next
\* config_add delete the current file.  And a crash in the middle of a commit
\* must be recovered from before the next commit is staged, for the same reason.
LastGoodKept ==
    /\ good /= None
    /\ Linear /\ Dependable
    /\ CrashPoints = "any" => Recovers
    => /\ files[good] /= None
       /\ \E r \in RefNames : refs[r] = good

\* The agent, its threads and the disk are in states the code knows, with the
\* last good configuration among them.
DiskConsistent == TypeOK /\ LastGoodKept

\* Only the configuration the engine was loaded from becomes the current one,
\* when reloads are over before the next poll.
CommittedRuns == [][Prompt /\ Commit => loaded = refs["new"]]_vars

\* Every signal that was accepted leads to a state that accepts the next, when
\* hot reload is enabled and every configuration that loads starts.
SignalsServed ==
    Enabled /\ Aborting = {} /\ restarting = "IN_PROGRESS" ~> restarting = "IDLE"

\* When the branch stays at a usable commit, the agent runs it in the end,
\* whatever was pushed before and wherever it crashed, when calls do not fail
\* and no operator sends SIGHUP (one that comes before the plugin has enabled
\* hot reload leaves NOT_ENABLED behind, and every later signal is refused).
Converges ==
    \A c \in Commits :
        /\ c \notin Halting /\ Aborting = {} /\ ~PartialLoads
        /\ Prompt /\ ~Operator /\ Faults = {}
        => (<>[](remote = c) => <>[](running = c))
=============================================================================
