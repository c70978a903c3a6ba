-------------------------- MODULE GitConfigProofs --------------------------
(***************************************************************************)
(* Proofs about the configuration from a git repository, for any number of *)
(* commits, crashes and signals: the disk stays consistent, and only a     *)
(* configuration the engine was loaded from is committed.                  *)
(*                                                                         *)
(* LastGoodKept is far from inductive: that the file of the last good      *)
(* configuration is not deleted depends on which of the three references   *)
(* name it at each step of a collection (RefsInv), and, when the agent may *)
(* crash in the middle of a commit, on the whole way from the restart to   *)
(* the reload of that configuration and its second commit (RecoverInv).    *)
(***************************************************************************)
EXTENDS GitConfig, FiniteSetTheorems, TLAPS

cur == refs["cur"]
new == refs["new"]
old == refs["old"]

\* LastGoodKept speaks about these settings.
KeepsGood == Linear /\ Dependable /\ (CrashPoints = "any" => Recovers)

\* What the plugin continues with when it reads what is there.
existing(p) == check_existing_config(p, refs, refs)

\* A collection runs in a context, and none begins before the plugin of a new
\* context is initialised.
NoStrayCollection ==
    main \in {"down", "start", "aborted", "spin"} => running = None /\ pc = "idle"

\* A collection that found a new commit knows its name.
Fetched == {"fetch", "truncate", "write", "backup", "drop", "stage", "uncur",
            "trigger", "discard", "revert"}
HasSha  == pc \in Fetched => sha \in Commits

\* The references name commits the branch has had; "new" names a later one than
\* what was committed last.  It names the same one from the step that commits
\* it to the one that removes the reference, and after a crash in between.
Committing == pc \in {"purge", "unnew"}
RefsInv ==
    /\ cur <= remote /\ new <= remote /\ sha <= remote /\ good <= remote
    /\ good = None => cur = None /\ old = None
    /\ good /= None => /\ files[good] /= None
                       /\ cur \in {good, None} /\ old <= good
                       /\ cur = None => old = good /\ new > good
                       /\ new \in {None, good} \/ new > good
                       /\ new = good => cur = good /\ old < good
                       /\ new = good => Committing \/ CrashPoints = "any"

\* What each step of a collection relies on.
Backed  == {"drop", "stage", "uncur", "trigger", "discard", "revert"}
Staged  == {"uncur", "trigger", "discard", "revert"}
StepsInv ==
    /\ pc = "commit" => new /= None /\ files[new] /= None
    /\ Committing => good /= None /\ new = good
    /\ pc = "unold" => cur = good /\ good /= None /\ new = None
    /\ pc \in Fetched => sha > good
    /\ pc \in Backed /\ good /= None => old = good
    /\ pc \in Staged => new = sha
    /\ pc \in {"revert", "reset_new", "reset_old"} => good /= None
    /\ pc \in {"reset_new", "reset_old"} => cur = good
    /\ pc \in Fetched \cup {"poll"} /\ good /= None => new /= good

\* With prompt reloads, no operator and no failing reload the threads take turns.
TurnsInv ==
    /\ pc /= "idle" => /\ main = "run" /\ restarting = "IDLE" /\ hups = 0
                       /\ pending = None
    /\ pc \notin {"discard", "revert", "reset_new", "reset_old"}
    /\ hups <= 1
    /\ hups > 0 => main = "run" /\ restarting = "IDLE" /\ conf.enabled
    /\ restarting /= "NOT_ENABLED"
    /\ main = "run" /\ restarting = "IN_PROGRESS" => conf.enabled
    /\ main \in {"load", "stop", "start", "finish", "join"} => restarting = "IN_PROGRESS"
    /\ main \in {"run", "join"} => ~conf.hot_reloading
    /\ main \in {"load", "stop", "start"} => target = path
    /\ path /= Freed

\* A configuration that loads and starts.
Usable(c) == Loads(c) /\ Starts(c)

\* The path of the context is the one of the command line, of the current or of
\* the staged configuration; what was loaded from the staged file is in it
\* still, and is usable, and so is what was committed.
LoadedInv ==
    /\ pending /= None => pending \in {cur, new}
    /\ pc \in {"idle", "poll", "fetch", "truncate", "write", "backup"} => path \in {Base, cur, new}
    /\ pc = "commit" => conf.succeeded /\ path = new
    /\ pc \in {"purge", "unnew", "unold"} => path = cur
    /\ pc \in {"poll"} \cup Fetched /\ conf.succeeded => path \in {Base, cur} \/ pc = "trigger"
    /\ pc \in Fetched /\ conf.succeeded => path /= sha
    /\ main = "finish" \/ conf.succeeded => path /= new \/ Usable(files[new])
    /\ main \in {"stop", "start"} => incoming = Content(target) /\ Loads(incoming)
    /\ good /= None => Usable(files[good])

\* After a crash in the middle of a commit: the agent is on its way to commit
\* the same configuration again.
Recovering ==
    /\ pc \in {"idle", "commit"}
    /\ \/ main = "down"
       \/ main = "run" /\ restarting = "IDLE" /\ hups = 0 /\ pending = good
       \/ /\ main = "run" /\ path = good /\ restarting /= "HALTED"
          /\ pending = None
          /\ conf.succeeded \/ hups > 0 \/ restarting = "IN_PROGRESS"
       \/ main \in {"load", "stop", "start"} /\ target = good
       \/ main = "finish" /\ path = good /\ pending = None
       \/ main = "join" /\ path = good /\ conf.succeeded /\ pending = None

CommitsAgain == good /= None /\ new = good /\ ~Committing => Recovering

RecoverInv == CrashPoints = "any" => TurnsInv /\ LoadedInv /\ CommitsAgain

DiskInv ==
    /\ setting \in Settings /\ TypeOK /\ HasSha
    /\ NoStrayCollection
    /\ KeepsGood => RefsInv /\ StepsInv /\ RecoverInv

\* With prompt reloads: a context that reports success still has the path it
\* was loaded from.
LoadedFrom ==
    Prompt => /\ main \in {"start", "finish", "join", "aborted", "spin", "down"} => pc = "idle"
              /\ main = "finish" \/ conf.succeeded => path = loaded
              /\ pc = "commit" => new = loaded

-----------------------------------------------------------------------------
(* Types *)

\* Commits are positive numbers, and the settings are of their type.
LEMMA CommitNumbers ==
    /\ \A c \in Commits : c \in Int /\ c > 0
    /\ 1 \in Commits
    /\ MaxHups \in Nat /\ MaxCrashes \in Nat
<1>1. Cardinality(Commits) \in Nat /\ Cardinality(Commits) > 0
  BY FS_CardinalityType, FS_EmptySet, GitConfigAssumption
<1> QED
  BY <1>1, GitConfigAssumption

\* What a setting says does not change, and has its type.
LEMMA SettingType ==
    ASSUME setting \in Settings
    PROVE  /\ Halting \subseteq Commits /\ Aborting \subseteq Commits
           /\ Enabled \in BOOLEAN /\ Prompt \in BOOLEAN
  BY GitConfigAssumption DEF Setting, Halting, Aborting, Enabled, Prompt

\* The plugin continues with a commit, or with nothing, however it reads them.
LEMMA ExistingType ==
    ASSUME NEW p, NEW seen \in Readings, NEW again \in Readings
    PROVE  check_existing_config(p, seen, again) \in Commits \union {None}
  BY DEF Readings, check_existing_config, RefNames

\* What a reference may be read as is a commit, or nothing.
LEMMA DerefType ==
    ASSUME TypeOK, NEW r \in RefNames, NEW c \in Deref(r)
    PROVE  c \in Commits \union {None}
  BY DEF TypeOK, Deref, Unnoticed

\* The disk after a reference was set or removed or a file removed.
LEMMA DiskType ==
    ASSUME TypeOK,
           \/ disk' \in {disk}
           \/ \E r \in RefNames, c \in Commits \union {None} : SetRef(r, c)
           \/ \E r \in RefNames : DropRef(r)
           \/ \E c \in Commits \union {None} : Remove(c)
    PROVE  /\ refs' \in [RefNames -> Commits \union {None}]
           /\ files' \in [Commits -> Commits \union {None, Partial}]
<1>1. /\ refs \in [RefNames -> Commits \union {None}]
      /\ files \in [Commits -> Commits \union {None, Partial}]
  BY DEF TypeOK
<1>2. CASE disk' \in {disk}
  BY <1>1, <1>2 DEF disk
<1>3. ASSUME NEW r \in RefNames, NEW c \in Commits \union {None}, SetRef(r, c)
      PROVE  refs' \in [RefNames -> Commits \union {None}] /\ files' = files
  <2>1. PICK line \in {c} \union Unnoticed("flush", {None}) :
            refs' = [refs EXCEPT ![r] = line]
    BY <1>3 DEF SetRef
  <2>2. line \in Commits \union {None}
    BY DEF Unnoticed
  <2> QED BY <1>1, <1>3, <2>1, <2>2 DEF SetRef
<1>4. ASSUME NEW r \in RefNames, DropRef(r)
      PROVE  refs' \in [RefNames -> Commits \union {None}] /\ files' = files
  BY <1>1, <1>4 DEF DropRef, Unnoticed
<1>5. ASSUME NEW c \in Commits \union {None}, Remove(c)
      PROVE  files' \in [Commits -> Commits \union {None, Partial}] /\ refs' = refs
  BY <1>1, <1>5 DEF Remove, Unnoticed
<1> QED
  BY <1>1, <1>2, <1>3, <1>4, <1>5

\* The flags of a new context.
LEMMA FreshType ==
    ASSUME setting \in Settings
    PROVE  Fresh(TRUE) \in Flags /\ Fresh(FALSE) \in Flags
  BY SettingType DEF Fresh, Flags

\* The end of the process keeps the types.
LEMMA GoDownType ==
    ASSUME TypeOK, setting \in Settings, GoDown, crashes' \in 0..MaxCrashes
    PROVE  TypeOK'
<1>1. conf' \in Flags
  BY FreshType DEF GoDown
<1>2. hups' \in 0..MaxHups
  BY CommitNumbers DEF GoDown
<1> QED
  BY <1>1, <1>2 DEF GoDown, TypeOK, disk, MainStates, Restarting, Paths, Contents, Steps

\* So do the actions of the environment and of the process.
LEMMA ProcessType ==
    ASSUME TypeOK, setting \in Settings,
           \/ \E c \in Commits : Push(c)
           \/ Start \/ Crash \/ Terminate \/ do_reload \/ OperatorHup
    PROVE  TypeOK'
<1> USE DEF disk, reload, context, locals, history
<1>1. ASSUME NEW c \in Commits, Push(c) PROVE TypeOK'
  BY <1>1 DEF Push, TypeOK
<1>2. CASE Start
  <2>1. pending' \in Commits \union {None} /\ conf' \in Flags
    BY <1>2, ExistingType, FreshType DEF Start
  <2> QED
    BY <1>2, <2>1 DEF Start, TypeOK, MainStates, Restarting, Paths, Contents
<1>3. CASE Crash \/ Terminate
  <2>1. GoDown /\ crashes' \in 0..MaxCrashes
    BY <1>3, CommitNumbers DEF Crash, Terminate, TypeOK
  <2> QED
    BY <2>1, GoDownType
<1>4. CASE do_reload \/ OperatorHup
  BY <1>4, CommitNumbers DEF do_reload, OperatorHup, HangUp, TypeOK, Restarting
<1> QED
  BY <1>1, <1>2, <1>3, <1>4

\* So do the steps of a reload.
LEMMA MainType ==
    ASSUME TypeOK, setting \in Settings, MainStep
    PROVE  TypeOK'
<1> USE DEF disk, reload, context, locals, history
<1>1. CASE ReloadBegin
  BY <1>1 DEF ReloadBegin, TypeOK, MainStates, Flags
<1>2. CASE ReloadNotEnabled \/ HaltedIsIdle \/ ReloadDone
  BY <1>2 DEF ReloadNotEnabled, HaltedIsIdle, ReloadDone, TypeOK, MainStates, Restarting
<1>3. CASE ReloadHalted
  BY <1>3 DEF ReloadHalted, TypeOK, MainStates, Restarting, Flags
<1>4. CASE ReloadLoaded
  <2>1. Content(target) \in Contents \union {None}
    BY DEF TypeOK, Content, Contents, Paths
  <2>2. Content(target) /= None
    BY <1>4 DEF ReloadLoaded, Loads
  <2> QED
    BY <1>4, <2>1, <2>2 DEF ReloadLoaded, TypeOK, MainStates
<1>5. CASE StopOld
  BY <1>5 DEF StopOld, TypeOK, MainStates
<1>6. CASE StartNew
  <2>1. pending' \in Commits \union {None} /\ conf' \in Flags
    BY <1>6, ExistingType, FreshType DEF StartNew
  <2> QED
    BY <1>6, <2>1 DEF StartNew, TypeOK, MainStates
<1>7. CASE StartFailed
  BY <1>7 DEF StartFailed, TypeOK, MainStates, Restarting
<1>8. CASE Aborted
  <2>1. CASE GoDown /\ UNCHANGED crashes
    BY <2>1, GoDownType DEF TypeOK
  <2>2. CASE ~GoDown
    BY <1>8, <2>2 DEF Aborted, TypeOK, MainStates
  <2> QED BY <1>8, <2>1, <2>2 DEF Aborted
<1>9. CASE ReloadFinished
  BY <1>9 DEF ReloadFinished, TypeOK, MainStates, Flags
<1> QED
  BY <1>1, <1>2, <1>3, <1>4, <1>5, <1>6, <1>7, <1>8, <1>9 DEF MainStep

\* So does asking for a reload, whether it works or not.
LEMMA ExecuteType ==
    ASSUME TypeOK, NEW p \in Commits,
           execute_reload(p) \/ execute_reload_fails(p)
    PROVE  /\ hups' \in 0..MaxHups /\ running' \in Contents \union {None}
           /\ loaded' \in Paths /\ path' \in Paths /\ conf' \in Flags
<1>1. CASE execute_reload(p)
  <2>1. hups' \in 0..MaxHups
    BY <1>1, CommitNumbers DEF execute_reload, TypeOK
  <2>2. conf' \in Flags
    BY <1>1 DEF execute_reload, TypeOK, Flags
  <2> QED
    BY <1>1, <2>1, <2>2 DEF execute_reload, TypeOK, Paths
<1>2. CASE execute_reload_fails(p)
  <2>1. conf' \in Flags
    BY <1>2 DEF execute_reload_fails, TypeOK, Flags
  <2> QED
    BY <1>2, <2>1 DEF execute_reload_fails, TypeOK, Paths
<1> QED BY <1>1, <1>2

\* So do the steps of a collection.
LEMMA CollectType ==
    ASSUME TypeOK, setting \in Settings,
           HasSha,
           \/ CollectPending \/ CollectPendingFails \/ Collect \/ Callback
           \/ CommitFails \/ CollectFails \/ DoubleFree
    PROVE  TypeOK'
<1> USE DEF disk, reload, context, locals, history, engine, process
<1>1. CASE CollectPending \/ CollectPendingFails
  <2>1. pending \in Commits
    BY <1>1 DEF TypeOK, CollectPending, CollectPendingFails
  <2>2. /\ hups' \in 0..MaxHups /\ running' \in Contents \union {None}
        /\ loaded' \in Paths /\ path' \in Paths /\ conf' \in Flags
    BY <1>1, <2>1, ExecuteType DEF CollectPending, CollectPendingFails
  <2> QED
    BY <1>1, <2>2 DEF CollectPending, CollectPendingFails, Decide, Goto, TypeOK, Steps
<1>2. CASE Trigger \/ TriggerFails
  <2>1. sha \in Commits
    BY <1>2 DEF Trigger, TriggerFails, HasSha, Fetched
  <2>2. /\ hups' \in 0..MaxHups /\ running' \in Contents \union {None}
        /\ loaded' \in Paths /\ path' \in Paths /\ conf' \in Flags
    BY <1>2, <2>1, ExecuteType DEF Trigger, TriggerFails
  <2> QED
    BY <1>2, <2>2 DEF Trigger, TriggerFails, Goto, Return, TypeOK, Steps
<1>3. CASE Collect \/ Poll \/ Fetch \/ CommitFails \/ CollectFails
  BY <1>3 DEF Collect, Decide, Poll, Fetch, CommitFails, CollectFails, Goto, Return,
              TypeOK, Steps
<1>4. CASE Truncate \/ Write
  <2>1. \E text \in Commits \union {None, Partial} : files' = [files EXCEPT ![sha] = text]
    BY <1>4 DEF Truncate, Write, Unnoticed, TypeOK
  <2> QED
    BY <1>4, <2>1 DEF Truncate, Write, Goto, TypeOK, Steps
<1>6. \A r \in RefNames : refs[r] \in Commits \union {None}
  BY DEF TypeOK
<1>7. CASE Commit \/ Unnew \/ Unold \/ Stage \/ Uncur \/ Revert \/ ResetNew \/ ResetOld
  <2>1. \/ \E r \in RefNames, c \in Commits \union {None} : SetRef(r, c)
        \/ \E r \in RefNames : DropRef(r)
    BY <1>6, <1>7 DEF Commit, Unnew, Unold, Stage, Uncur, Revert, ResetNew, ResetOld,
                      RefNames, TypeOK
  <2> QED
    BY <1>6, <1>7, <2>1, DiskType
       DEF Commit, Unnew, Unold, Stage, Uncur, Revert, ResetNew, ResetOld, Goto, Return,
           TypeOK, Steps, RefNames
<1>8. CASE Purge \/ Backup \/ Drop \/ Discard
  <2>1. \/ disk' \in {disk}
        \/ \E r \in RefNames, c \in Commits \union {None} : SetRef(r, c)
        \/ \E c \in Commits \union {None} : Remove(c)
    BY <1>8, DerefType DEF Purge, Backup, Drop, Discard, RefNames
  <2> QED
    BY <1>8, <2>1, DiskType DEF Purge, Backup, Drop, Discard, Goto, Return, TypeOK, Steps
<1>9. CASE DoubleFree
  <2>1. GoDown /\ crashes' \in 0..MaxCrashes
    BY <1>9 DEF DoubleFree, TypeOK
  <2> QED
    BY <2>1, GoDownType
<1> QED
  BY <1>1, <1>2, <1>3, <1>4, <1>7, <1>8, <1>9 DEF Callback

\* Every step keeps the types and the setting.
LEMMA TypeStep ==
    ASSUME TypeOK, setting \in Settings, HasSha, NoStrayCollection, [Next]_vars
    PROVE  TypeOK' /\ setting' = setting /\ HasSha' /\ NoStrayCollection'
<1> USE DEF disk, reload, context, locals, history, engine, process
<1>1. CASE UNCHANGED vars
  BY <1>1 DEF vars, TypeOK, HasSha, NoStrayCollection
<1>2. CASE \/ \E c \in Commits : Push(c)
           \/ Start \/ Crash \/ Terminate \/ do_reload \/ OperatorHup
  <2>1. setting' = setting
    BY <1>2 DEF Push, Start, Crash, Terminate, do_reload, OperatorHup, GoDown
  <2>2. HasSha' /\ NoStrayCollection'
    BY <1>2 DEF Push, Start, Crash, Terminate, do_reload, OperatorHup, GoDown, HasSha,
                NoStrayCollection, Fetched
  <2> QED
    BY <1>2, <2>1, <2>2, ProcessType
<1>3. CASE MainStep
  <2>1. setting' = setting
    BY <1>3 DEF MainStep, ReloadBegin, ReloadNotEnabled, ReloadHalted, ReloadLoaded,
                HaltedIsIdle, StopOld, StartNew, StartFailed, Aborted, GoDown,
                ReloadFinished, ReloadDone
  <2>2. HasSha' /\ NoStrayCollection'
    BY <1>3 DEF MainStep, ReloadBegin, ReloadNotEnabled, ReloadHalted, ReloadLoaded,
                HaltedIsIdle, StopOld, StartNew, StartFailed, Aborted, GoDown,
                ReloadFinished, ReloadDone, HasSha, NoStrayCollection, Fetched
  <2> QED
    BY <1>3, <2>1, <2>2, MainType
<1>4. CASE \/ CollectPending \/ CollectPendingFails \/ Collect \/ CommitFails \/ CollectFails
           \/ DoubleFree
  <2>1. setting' = setting
    BY <1>4 DEF CollectPending, CollectPendingFails, Collect, CommitFails, CollectFails,
                DoubleFree, GoDown
  <2>2. HasSha'
    BY <1>4 DEF CollectPending, CollectPendingFails, Collect, CommitFails, CollectFails,
                DoubleFree, GoDown, Decide, Goto, Return, HasSha, Fetched
  <2>3. NoStrayCollection'
    BY <1>4 DEF CollectPending, CollectPendingFails, Collect, CommitFails, CollectFails,
                DoubleFree, GoDown, Collecting, execute_reload, execute_reload_fails,
                NoStrayCollection
  <2> QED
    BY <1>4, <2>1, <2>2, <2>3, CollectType
<1>5. CASE Callback
  <2>0. pc /= "idle" /\ main' = main /\ running' = running /\ setting' = setting
    BY <1>5 DEF Callback, Commit, Purge, Unnew, Unold, Poll, Fetch, Truncate, Write,
                Backup, Drop, Stage, Uncur, Trigger, TriggerFails, Discard, Revert,
                ResetNew, ResetOld, execute_reload, execute_reload_fails
  <2>1. NoStrayCollection'
    BY <2>0 DEF NoStrayCollection
  <2>2. HasSha'
    BY <1>5 DEF Callback, Commit, Purge, Unnew, Unold, Poll, Fetch, Truncate, Write,
                Backup, Drop, Stage, Uncur, Trigger, TriggerFails, Discard, Revert,
                ResetNew, ResetOld, Goto, Return, HasSha, Fetched, TypeOK
  <2> QED
    BY <1>5, <2>0, <2>1, <2>2, CollectType
<1> QED
  BY <1>1, <1>2, <1>3, <1>4, <1>5 DEF Next

-----------------------------------------------------------------------------
(* Only what the engine was loaded from is committed. *)

\* Every step keeps LoadedFrom: a reload is over before the next collection
\* begins, and one that was asked for takes back the success of the last.
LEMMA LoadedFromStep ==
    ASSUME TypeOK, setting \in Settings, NoStrayCollection, LoadedFrom, [Next]_vars,
           setting' = setting
    PROVE  LoadedFrom'
<1> SUFFICES ASSUME Prompt
             PROVE  /\ main' \in {"start", "finish", "join", "aborted", "spin", "down"}
                          => pc' = "idle"
                    /\ main' = "finish" \/ conf'.succeeded => path' = loaded'
                    /\ pc' = "commit" => new' = loaded'
  BY DEF LoadedFrom, Prompt
<1> USE DEF disk, reload, context, locals, history, engine, process, new, LoadedFrom
<1>1. CASE UNCHANGED vars
  BY <1>1 DEF vars
<1>2. CASE (\E c \in Commits : Push(c)) \/ do_reload \/ OperatorHup
  BY <1>2 DEF Push, do_reload, OperatorHup
<1>3. CASE Start
  BY <1>3 DEF Start, Fresh, NoStrayCollection
<1>4. ASSUME GoDown
      PROVE  pc' = "idle" /\ main' = "down" /\ ~conf'.succeeded
  BY <1>4 DEF GoDown, Fresh
<1>5. CASE Crash \/ Terminate \/ DoubleFree
  BY <1>4, <1>5 DEF Crash, Terminate, DoubleFree
<1>6. CASE ReloadBegin \/ ReloadHalted \/ ReloadFinished
  <2>1. conf \in Flags
    BY DEF TypeOK
  <2> QED
    BY <1>6, <2>1 DEF ReloadBegin, ReloadHalted, ReloadFinished, Flags
<1>7. CASE \/ ReloadNotEnabled \/ ReloadLoaded \/ HaltedIsIdle \/ StopOld \/ StartFailed
           \/ ReloadDone
  BY <1>7 DEF ReloadNotEnabled, ReloadLoaded, HaltedIsIdle, StopOld, StartFailed, ReloadDone
<1>8. CASE StartNew
  BY <1>8 DEF StartNew, Fresh
<1>9. CASE Aborted
  BY <1>4, <1>9 DEF Aborted
<1>10. ASSUME NEW p, execute_reload(p)
       PROVE  ~conf'.succeeded /\ loaded' = loaded
  BY <1>10 DEF execute_reload, TypeOK, Flags
<1>11. ASSUME NEW p, execute_reload_fails(p)
       PROVE  loaded' = loaded /\ (conf'.succeeded => conf' = conf /\ path' = path)
  BY <1>11 DEF execute_reload_fails, TypeOK, Flags
<1>12. CASE CollectPending \/ CollectPendingFails
  <2>1. main' = main /\ main = "run" /\ pc' \in {"idle", "poll", "commit"}
    BY <1>12 DEF CollectPending, CollectPendingFails, Collecting, Decide, Goto
  <2>2. pc' = "commit" => CommitDue /\ conf' = conf /\ new' = new
    BY <1>12 DEF CollectPending, CollectPendingFails, Decide, Goto
  <2>3. CommitDue => conf.succeeded /\ new = path
    BY DEF CommitDue
  <2> QED
    BY <1>10, <1>11, <1>12, <2>1, <2>2, <2>3 DEF CollectPending, CollectPendingFails
<1>13. CASE Collect
  BY <1>13 DEF Collect, Collecting, CommitDue, Decide, Goto
<1>14. CASE CommitFails \/ CollectFails
  BY <1>14 DEF CommitFails, CollectFails, Goto, Return
<1>15. CASE Trigger \/ TriggerFails
  <2>1. main' = main /\ pc' /= "commit" /\ pc = "trigger"
    BY <1>15 DEF Trigger, TriggerFails, Goto, Return
  <2> QED
    BY <1>10, <1>11, <1>15, <2>1 DEF Trigger, TriggerFails
<1>16. CASE Callback /\ ~Trigger /\ ~TriggerFails
  <2>1. /\ main' = main /\ conf' = conf /\ path' = path /\ loaded' = loaded
        /\ pc /= "idle" /\ pc' /= "commit"
    BY <1>16 DEF Callback, Commit, Purge, Unnew, Unold, Poll, Fetch, Truncate, Write,
                 Backup, Drop, Stage, Uncur, Discard, Revert, ResetNew, ResetOld, Goto, Return
  <2> QED
    BY <2>1
<1> QED
  BY <1>1, <1>2, <1>3, <1>5, <1>6, <1>7, <1>8, <1>9, <1>12, <1>13, <1>14, <1>15, <1>16
     DEF Next, MainStep, Callback

\* The types hold initially.
LEMMA InitType == Init => TypeOK /\ setting \in Settings /\ HasSha /\ NoStrayCollection
<1> SUFFICES ASSUME Init PROVE TypeOK /\ setting \in Settings /\ HasSha /\ NoStrayCollection
  OBVIOUS
<1>1. conf \in Flags
  BY FreshType DEF Init
<1>2. remote \in Commits /\ hups \in 0..MaxHups /\ crashes \in 0..MaxCrashes
  BY CommitNumbers DEF Init
<1>3. HasSha /\ NoStrayCollection
  BY DEF Init, HasSha, NoStrayCollection, Fetched
<1> QED
  BY <1>1, <1>2, <1>3
     DEF Init, TypeOK, MainStates, Restarting, Steps, Paths, Contents

\* The types hold in every reachable state.
THEOREM TypesHold ==
    Spec => [](TypeOK /\ setting \in Settings /\ HasSha /\ NoStrayCollection)
<1>1. TypeOK /\ setting \in Settings /\ HasSha /\ NoStrayCollection /\ [Next]_vars
        => (TypeOK /\ setting \in Settings /\ HasSha /\ NoStrayCollection)'
  BY TypeStep
<1> QED
  BY <1>1, InitType, PTL DEF Spec

\* With reloads that are over before the next poll, commit_if_reloaded makes
\* current only the configuration the engine was loaded from: whatever signals
\* an operator sends, whatever fails, and wherever the agent crashed before.
THEOREM OnlyLoadedIsCommitted == Spec => CommittedRuns
<1>1. Init => LoadedFrom
  BY DEF Init, LoadedFrom, Fresh
<1>2. /\ TypeOK /\ setting \in Settings /\ HasSha /\ NoStrayCollection
      /\ LoadedFrom /\ [Next]_vars
      => LoadedFrom'
  BY TypeStep, LoadedFromStep
<1>3. LoadedFrom => (Prompt /\ Commit => loaded = refs["new"])
  BY DEF LoadedFrom, Commit, new
<1>4. LoadedFrom /\ [Next]_vars => [Prompt /\ Commit => loaded = refs["new"]]_vars
  BY <1>3
<1> QED
  BY <1>1, <1>2, <1>4, TypesHold, PTL DEF Spec, CommittedRuns

-----------------------------------------------------------------------------
(* The references and the file of the last good configuration. *)

\* The commits in the references and variables are numbers; None is below all.
LEMMA Numbers ==
    ASSUME TypeOK
    PROVE  /\ None = -1
           /\ \A c \in Commits : c \in Int /\ c > 0
           /\ cur \in Commits \union {-1} /\ new \in Commits \union {-1}
           /\ old \in Commits \union {-1} /\ sha \in Commits \union {-1}
           /\ good \in Commits \union {-1} /\ remote \in Commits
  BY CommitNumbers DEF TypeOK, None, cur, new, old, RefNames

\* What references that can be depended on do to a step: it reads what is there,
\* and what it sets or removes is set or removed.
LEMMA DependableSteps ==
    ASSUME TypeOK, Dependable
    PROVE  /\ Readings = {refs}
           /\ \A r \in RefNames : Deref(r) = {refs[r]}
           /\ \A r \in RefNames, c \in Commits \union {None} :
                 SetRef(r, c) => refs' = [refs EXCEPT ![r] = c] /\ files' = files
           /\ \A r \in RefNames :
                 DropRef(r) => refs' = [refs EXCEPT ![r] = None] /\ files' = files
           /\ \A c \in Commits \union {None} :
                 Remove(c) => /\ refs' = refs
                              /\ \A d \in Commits : d /= c => files'[d] = files[d]
<1>1. \A S : Unnoticed("read", S) = {} /\ Unnoticed("flush", S) = {} /\ Unnoticed("remove", S) = {}
  BY DEF Dependable, Unnoticed
<1>2. /\ refs \in [RefNames -> Commits \union {None}]
      /\ files \in [Commits -> Commits \union {None, Partial}]
  BY DEF TypeOK
<1>3. \A r \in RefNames : Deref(r) = {refs[r]}
  BY <1>1 DEF Deref
<1>4. Readings = {refs}
  <2>1. ASSUME NEW seen \in Readings PROVE seen = refs
    <3>1. /\ seen \in [RefNames -> Commits \union {None}]
          /\ \A r \in RefNames : seen[r] = refs[r]
      BY <1>3 DEF Readings
    <3> QED BY <1>2, <3>1
  <2>2. refs \in Readings
    BY <1>2, <1>3 DEF Readings
  <2> QED BY <2>1, <2>2
<1>5. ASSUME NEW r \in RefNames, NEW c \in Commits \union {None}, SetRef(r, c)
      PROVE  refs' = [refs EXCEPT ![r] = c] /\ files' = files
  BY <1>1, <1>5 DEF SetRef
<1>6. ASSUME NEW r \in RefNames, DropRef(r)
      PROVE  refs' = [refs EXCEPT ![r] = None] /\ files' = files
  BY <1>1, <1>6 DEF DropRef
<1>7. ASSUME NEW c \in Commits \union {None}, Remove(c)
      PROVE  refs' = refs /\ \A d \in Commits : d /= c => files'[d] = files[d]
  BY <1>1, <1>2, <1>7 DEF Remove
<1> QED
  BY <1>3, <1>4, <1>5, <1>6, <1>7

\* The steps that read a reference, with what they then read.
LEMMA ReadingSteps ==
    ASSUME TypeOK, Dependable
    PROVE  /\ Start => pending' = existing(Base)
           /\ StartNew => pending' = existing(target)
           /\ Decide => Goto(IF CommitDue THEN "commit" ELSE "poll")
           /\ Purge => Remove(old)
           /\ Poll => IF cur = remote THEN Return ELSE pc' = "fetch" /\ sha' = remote
           /\ Backup => IF cur = None THEN UNCHANGED disk ELSE SetRef("old", cur)
           /\ Drop => IF new = sha THEN UNCHANGED disk ELSE Remove(new)
           /\ Discard => Remove(new) /\ IF old = None THEN Return ELSE Goto("revert")
<1>1. /\ Readings = {refs} /\ Deref("cur") = {cur} /\ Deref("new") = {new}
      /\ Deref("old") = {old}
  BY DependableSteps DEF RefNames, cur, new, old
<1>2. Decide => Goto(IF CommitDue THEN "commit" ELSE "poll")
  BY <1>1 DEF Decide, CommitDue, new
<1>3. (Start => pending' = existing(Base)) /\ (StartNew => pending' = existing(target))
  BY <1>1 DEF Start, StartNew, existing
<1>4. /\ Purge => Remove(old)
      /\ Poll => IF cur = remote THEN Return ELSE pc' = "fetch" /\ sha' = remote
  BY <1>1 DEF Purge, Poll
<1>5. /\ Backup => IF cur = None THEN UNCHANGED disk ELSE SetRef("old", cur)
      /\ Drop => IF new = sha THEN UNCHANGED disk ELSE Remove(new)
  BY <1>1 DEF Backup, Drop
<1>6. Discard => Remove(new) /\ IF old = None THEN Return ELSE Goto("revert")
  BY <1>1 DEF Discard
<1> QED BY <1>2, <1>3, <1>4, <1>5, <1>6

\* What a reference set or removed does to the three of them.
LEMMA SetRefEffect ==
    ASSUME TypeOK, Dependable
    PROVE  /\ \A c \in Commits \union {-1} :
              /\ SetRef("cur", c) => cur' = c /\ new' = new /\ old' = old /\ files' = files
              /\ SetRef("new", c) => cur' = cur /\ new' = c /\ old' = old /\ files' = files
              /\ SetRef("old", c) => cur' = cur /\ new' = new /\ old' = c /\ files' = files
              /\ Remove(c) => /\ cur' = cur /\ new' = new /\ old' = old
                              /\ \A d \in Commits : d /= c => files'[d] = files[d]
           /\ DropRef("cur") => cur' = -1 /\ new' = new /\ old' = old /\ files' = files
           /\ DropRef("new") => cur' = cur /\ new' = -1 /\ old' = old /\ files' = files
           /\ DropRef("old") => cur' = cur /\ new' = new /\ old' = -1 /\ files' = files
<1>1. refs \in [RefNames -> Commits \union {None}] /\ RefNames = {"cur", "new", "old"}
  BY DEF TypeOK, RefNames
<1> QED
  BY <1>1, DependableSteps DEF cur, new, old, None

\* A step that leaves the disk, the branch and the collection alone.
LEMMA RefsUnchanged ==
    ASSUME RefsInv, StepsInv, UNCHANGED <<setting, remote, refs, files, good, pc, sha>>
    PROVE  RefsInv' /\ StepsInv'
  BY DEF RefsInv, StepsInv, Committing, cur, new, old, CrashPoints

\* The end of the process: in the middle of a commit only when it may crash there.
LEMMA RefsGoDown ==
    ASSUME TypeOK, RefsInv, GoDown, ~Committing \/ CrashPoints = "any"
    PROVE  RefsInv' /\ StepsInv'
<1>1. /\ cur' = cur /\ new' = new /\ old' = old /\ good' = good /\ remote' = remote
      /\ files' = files /\ pc' = "idle" /\ sha' = -1 /\ CrashPoints' = CrashPoints
  BY DEF GoDown, disk, cur, new, old, None, CrashPoints
<1> QED
  BY <1>1, Numbers DEF RefsInv, StepsInv, Committing, Fetched, Backed, Staged

\* The branch moves forward.
LEMMA RefsPush ==
    ASSUME TypeOK, RefsInv, StepsInv, Linear, NEW c \in Commits, Push(c)
    PROVE  RefsInv' /\ StepsInv'
<1>1. /\ cur' = cur /\ new' = new /\ old' = old /\ good' = good /\ remote' > remote
      /\ files' = files /\ pc' = pc /\ sha' = sha /\ CrashPoints' = CrashPoints
      /\ remote' \in Commits
  BY DEF Push, disk, locals, history, cur, new, old, CrashPoints
<1> QED
  BY <1>1, Numbers DEF RefsInv, StepsInv, Committing

\* The steps of config_commit.
LEMMA RefsCommit ==
    ASSUME TypeOK, Dependable, RefsInv, StepsInv, Commit \/ Purge \/ Unnew \/ Unold
    PROVE  RefsInv' /\ StepsInv'
<1> USE Numbers DEF RefsInv, StepsInv, Committing, Fetched, Backed, Staged
<1>1. CrashPoints' = CrashPoints /\ remote' = remote /\ sha' = sha
  BY DEF Commit, Purge, Unnew, Unold, CrashPoints, engine, Goto
<1>2. CASE Commit
  <2>1. /\ cur' = new /\ new' = new /\ old' = old /\ files' = files /\ good' = new
        /\ pc = "commit" /\ pc' = "purge"
    BY <1>2, SetRefEffect DEF Commit, Goto, new
  <2> QED
    BY <1>1, <2>1
<1>3. CASE Purge
  <2>1. /\ cur' = cur /\ new' = new /\ old' = old /\ good' = good
        /\ \A d \in Commits : d /= old => files'[d] = files[d]
        /\ pc = "purge" /\ pc' = "unnew"
    BY <1>3, SetRefEffect, ReadingSteps DEF Purge, Goto
  <2>2. files'[good] = files[good]
    BY <2>1
  <2> QED
    BY <1>1, <2>1, <2>2
<1>4. CASE Unnew
  <2>1. /\ cur' = cur /\ new' = -1 /\ old' = old /\ files' = files /\ good' = good
        /\ pc = "unnew" /\ pc' = "unold"
    BY <1>4, SetRefEffect DEF Unnew, Goto
  <2> QED
    BY <1>1, <2>1
<1>5. CASE Unold
  <2>1. /\ cur' = cur /\ new' = new /\ old' = -1 /\ files' = files /\ good' = good
        /\ pc = "unold" /\ pc' = "poll"
    BY <1>5, SetRefEffect DEF Unold, Goto
  <2> QED
    BY <1>1, <2>1
<1> QED BY <1>2, <1>3, <1>4, <1>5

\* The steps that fetch a commit and write its file.
LEMMA RefsFetch ==
    ASSUME TypeOK, Dependable, HasSha, RefsInv, StepsInv, Poll \/ Fetch \/ Truncate \/ Write
    PROVE  RefsInv' /\ StepsInv'
<1> USE Numbers DEF RefsInv, StepsInv, Committing, Fetched, Backed, Staged
<1>1. CrashPoints' = CrashPoints /\ remote' = remote /\ good' = good
  BY DEF Poll, Fetch, Truncate, Write, CrashPoints, engine
<1>2. CASE Poll
  <2>1. /\ cur' = cur /\ new' = new /\ old' = old /\ files' = files /\ pc = "poll"
        /\ \/ pc' = "idle" /\ sha' = -1
           \/ pc' = "fetch" /\ sha' = remote /\ cur /= remote
    BY <1>2, ReadingSteps DEF Poll, Return, disk, cur, new, old
  <2> QED
    BY <1>1, <2>1
<1>3. CASE Fetch
  <2>1. /\ cur' = cur /\ new' = new /\ old' = old /\ files' = files /\ sha' = sha
        /\ pc = "fetch" /\ pc' = "truncate"
    BY <1>3 DEF Fetch, disk, cur, new, old
  <2> QED
    BY <1>1, <2>1
<1>4. CASE Truncate \/ Write
  <2>1. /\ cur' = cur /\ new' = new /\ old' = old /\ sha' = sha
        /\ \A d \in Commits : d /= sha => files'[d] = files[d]
        /\ pc \in {"truncate", "write"} /\ pc' \in {"write", "backup"}
    BY <1>4 DEF Truncate, Write, Goto, TypeOK, cur, new, old
  <2>2. good /= -1 => files'[good] = files[good]
    BY <2>1
  <2> QED
    BY <1>1, <2>1, <2>2
<1> QED BY <1>2, <1>3, <1>4

\* The steps of config_add.
LEMMA RefsAdd ==
    ASSUME TypeOK, Dependable, HasSha, RefsInv, StepsInv,
           Backup \/ Drop \/ Stage \/ Uncur \/ Trigger \/ TriggerFails
    PROVE  RefsInv' /\ StepsInv'
<1> USE Numbers DEF RefsInv, StepsInv, Committing, Fetched, Backed, Staged
<1>1. CrashPoints' = CrashPoints /\ remote' = remote /\ good' = good
  BY DEF Backup, Drop, Stage, Uncur, Trigger, TriggerFails, CrashPoints, engine
<1>2. CASE Backup
  <2>1. /\ cur' = cur /\ new' = new /\ old' = (IF cur = -1 THEN old ELSE cur)
        /\ files' = files /\ sha' = sha
        /\ pc = "backup" /\ pc' = "drop"
    BY <1>2, SetRefEffect, ReadingSteps DEF Backup, Goto, disk, cur, new, old
  <2> QED
    BY <1>1, <2>1
<1>3. CASE Drop
  <2>1. /\ cur' = cur /\ new' = new /\ old' = old /\ sha' = sha
        /\ \A d \in Commits : d /= new => files'[d] = files[d]
        /\ pc = "drop" /\ pc' = "stage"
    BY <1>3, SetRefEffect, ReadingSteps DEF Drop, Goto, disk, cur, new, old
  <2>2. good /= -1 => files'[good] = files[good]
    BY <2>1
  <2> QED
    BY <1>1, <2>1, <2>2
<1>4. CASE Stage
  <2>1. /\ cur' = cur /\ new' = sha /\ old' = old /\ files' = files /\ sha' = sha
        /\ pc = "stage" /\ pc' = "uncur"
    BY <1>4, SetRefEffect DEF Stage, Goto
  <2> QED
    BY <1>1, <2>1
<1>5. CASE Uncur
  <2>1. /\ cur' = -1 /\ new' = new /\ old' = old /\ files' = files /\ sha' = sha
        /\ pc = "uncur" /\ pc' = "trigger"
    BY <1>5, SetRefEffect DEF Uncur, Goto
  <2> QED
    BY <1>1, <2>1
<1>6. CASE Trigger \/ TriggerFails
  <2>1. /\ cur' = cur /\ new' = new /\ old' = old /\ files' = files
        /\ pc = "trigger"
        /\ \/ pc' = "idle" /\ sha' = -1
           \/ pc' = "discard" /\ sha' = sha
    BY <1>6 DEF Trigger, TriggerFails, Goto, Return, disk, cur, new, old
  <2> QED
    BY <1>1, <2>1
<1> QED BY <1>2, <1>3, <1>4, <1>5, <1>6

\* The steps of config_rollback.
LEMMA RefsRollback ==
    ASSUME TypeOK, Dependable, HasSha, RefsInv, StepsInv, Discard \/ Revert \/ ResetNew \/ ResetOld
    PROVE  RefsInv' /\ StepsInv'
<1> USE Numbers DEF RefsInv, StepsInv, Committing, Fetched, Backed, Staged
<1>1. CrashPoints' = CrashPoints /\ remote' = remote /\ good' = good
  BY DEF Discard, Revert, ResetNew, ResetOld, CrashPoints, engine
<1>2. CASE Discard
  <2>1. /\ cur' = cur /\ new' = new /\ old' = old
        /\ \A d \in Commits : d /= new => files'[d] = files[d]
        /\ pc = "discard"
        /\ \/ old = -1 /\ pc' = "idle" /\ sha' = -1
           \/ old /= -1 /\ pc' = "revert" /\ sha' = sha
    BY <1>2, SetRefEffect, ReadingSteps DEF Discard, Goto, Return
  <2>2. good /= -1 => files'[good] = files[good]
    BY <2>1
  <2> QED
    BY <1>1, <2>1, <2>2
<1>3. CASE Revert
  <2>1. /\ cur' = old /\ new' = new /\ old' = old /\ files' = files /\ sha' = sha
        /\ pc = "revert" /\ pc' = "reset_new"
    BY <1>3, SetRefEffect DEF Revert, Goto, old
  <2> QED
    BY <1>1, <2>1
<1>4. CASE ResetNew
  <2>1. /\ cur' = cur /\ new' = -1 /\ old' = old /\ files' = files /\ sha' = sha
        /\ pc = "reset_new" /\ pc' = "reset_old"
    BY <1>4, SetRefEffect DEF ResetNew, Goto
  <2> QED
    BY <1>1, <2>1
<1>5. CASE ResetOld
  <2>1. /\ cur' = cur /\ new' = new /\ old' = -1 /\ files' = files /\ sha' = -1
        /\ pc = "reset_old" /\ pc' = "idle"
    BY <1>5, SetRefEffect DEF ResetOld, Return
  <2> QED
    BY <1>1, <2>1
<1> QED BY <1>2, <1>3, <1>4, <1>5

\* The start of a collection: the one that is to commit does so before it polls.
LEMMA RefsCollect ==
    ASSUME TypeOK, KeepsGood, RefsInv, StepsInv, RecoverInv, Collect
    PROVE  RefsInv' /\ StepsInv'
<1>1. /\ cur' = cur /\ new' = new /\ old' = old /\ good' = good /\ remote' = remote
      /\ files' = files /\ pc = "idle" /\ sha' = sha /\ CrashPoints' = CrashPoints
      /\ pc' = IF CommitDue THEN "commit" ELSE "poll"
  BY ReadingSteps DEF KeepsGood, Collect, Goto, engine, disk, cur, new, old, CrashPoints
<1>2. CommitDue => new /= None /\ files[new] /= None
  BY DEF CommitDue, new
<1>3. ASSUME good /= None, new = good PROVE CommitDue
  <2>1. CrashPoints = "any" /\ ~Committing
    BY <1>1, <1>3 DEF RefsInv, Committing
  <2>2. Recovering /\ TurnsInv
    BY <1>3, <2>1 DEF RecoverInv, CommitsAgain
  <2>3. main = "run" /\ hups = 0 /\ restarting \in {"IDLE", "NOT_ENABLED"} /\ pending = None
    BY <2>1 DEF Collect, Collecting, KeepsGood, Recovers
  <2>4. path = good /\ conf.succeeded /\ ~conf.hot_reloading
    BY <1>3, <2>2, <2>3 DEF Recovering, TurnsInv
  <2>5. files[good] /= None
    BY <1>3 DEF RefsInv
  <2> QED
    BY <1>3, <2>4, <2>5 DEF CommitDue, new
<1> QED
  BY <1>1, <1>2, <1>3, Numbers DEF RefsInv, StepsInv, Committing, Fetched, Backed, Staged

\* A collection that gives up a step, or a reload that could not be asked for.
LEMMA RefsFails ==
    ASSUME TypeOK, KeepsGood, RefsInv, StepsInv,
           CollectPendingFails \/ CommitFails \/ CollectFails
    PROVE  RefsInv' /\ StepsInv'
<1>1. /\ cur' = cur /\ new' = new /\ old' = old /\ good' = good /\ remote' = remote
      /\ files' = files /\ CrashPoints' = CrashPoints /\ ~Committing
      /\ \/ pc' = "idle" /\ sha' = -1
         \/ pc' = "poll" /\ sha' = sha
         \/ pc' = "commit" /\ sha' = sha /\ new /= None /\ files[new] /= None
  BY DEF CommitDue, Decide, CollectPendingFails, CommitFails, CollectFails, Goto, Return, engine, disk,
         cur, new, old, CrashPoints, Committing, None
<1>2. pc' /= "idle" => CrashPoints /= "any"
  BY DEF CollectPendingFails, CommitFails, CollectFails, execute_reload_fails, Return,
         KeepsGood, Recovers, Dependable
<1> QED
  BY <1>1, <1>2, Numbers DEF RefsInv, StepsInv, Committing, Fetched, Backed, Staged

\* Every step keeps the references.
LEMMA RefsStep ==
    ASSUME setting \in Settings, TypeOK, HasSha, NoStrayCollection, KeepsGood, RefsInv, StepsInv, RecoverInv,
           [Next]_vars
    PROVE  RefsInv' /\ StepsInv'
<1> USE DEF disk, reload, context, locals, history, engine, process
<1>1. CASE UNCHANGED vars
  BY <1>1, RefsUnchanged DEF vars
<1>2. ASSUME NEW c \in Commits, Push(c) PROVE RefsInv' /\ StepsInv'
  BY <1>2, RefsPush DEF KeepsGood
<1>3. CASE Crash \/ Terminate \/ DoubleFree
  <2>1. GoDown /\ (~Committing \/ CrashPoints = "any")
    <3>1. CrashPoints \in {"none", "quiet", "any"}
      BY GitConfigAssumption DEF CrashPoints, Setting
    <3> QED BY <1>3, <3>1 DEF Crash, Terminate, DoubleFree, Committing
  <2> QED
    BY <2>1, RefsGoDown
<1>4. CASE Start \/ do_reload \/ OperatorHup \/ CollectPending
  BY <1>4, RefsUnchanged DEF Start, do_reload, OperatorHup, CollectPending
<1>5. CASE MainStep
  <2>1. CASE Aborted /\ GoDown
    BY <2>1, RefsGoDown DEF Aborted, NoStrayCollection, Committing
  <2>2. CASE ~(Aborted /\ GoDown)
    BY <1>5, <2>2, RefsUnchanged
       DEF MainStep, ReloadBegin, ReloadNotEnabled, ReloadHalted, ReloadLoaded,
           HaltedIsIdle, StopOld, StartNew, StartFailed, Aborted, ReloadFinished, ReloadDone
  <2> QED BY <2>1, <2>2
<1> QED
  BY <1>1, <1>2, <1>3, <1>4, <1>5, RefsCommit, RefsFetch, RefsAdd, RefsRollback,
     RefsCollect, RefsFails DEF KeepsGood, Next, Callback

-----------------------------------------------------------------------------
(* Crashes in the middle of a commit. *)

\* What Recovers excludes.
LEMMA NoFailingReload ==
    ASSUME Recovers, Dependable
    PROVE  /\ "ref" \notin Faults /\ "trigger" \notin Faults
           /\ "thread" \notin Faults /\ "reload" \notin Faults
           /\ Prompt /\ ~Operator
           /\ ~OperatorHup /\ ~TriggerFails /\ ~CollectPendingFails /\ ~CommitFails
  BY DEF Recovers, OperatorHup, TriggerFails, CollectPendingFails, CommitFails,
         execute_reload_fails, Dependable

\* The threads keep taking turns while the process starts, ends and is signalled.
LEMMA TurnsProcess ==
    ASSUME TypeOK, Recovers, Dependable, TurnsInv, NoStrayCollection,
           \/ \E c \in Commits : Push(c)
           \/ Start \/ Crash \/ Terminate \/ do_reload
    PROVE  TurnsInv'
<1> USE DEF disk, reload, context, locals, history, TurnsInv
<1>1. CASE \E c \in Commits : Push(c)
  BY <1>1 DEF Push
<1>2. CASE Start
  <2>1. hups = 0 /\ pc = "idle" /\ hups' = hups /\ pc' = pc
    BY <1>2 DEF Start, NoStrayCollection, TypeOK
  <2>2. ~conf'.hot_reloading /\ main' = "run" /\ restarting' = "IDLE" /\ path' /= Freed
    BY <1>2 DEF Start, Fresh, Base, Freed
  <2> QED BY <2>1, <2>2
<1>3. CASE Crash \/ Terminate
  BY <1>3 DEF Crash, Terminate, GoDown, Fresh, Base, Freed
<1>4. CASE do_reload
  <2>1. /\ main = "run" /\ restarting = "IDLE" /\ conf.enabled /\ pc = "idle"
        /\ hups \in Nat /\ hups > 0
    BY <1>4 DEF do_reload, TypeOK
  <2>2. /\ main' = main /\ conf' = conf /\ pc' = pc /\ restarting' = "IN_PROGRESS"
        /\ hups' = hups - 1 /\ path' = path
    BY <1>4, <2>1 DEF do_reload, HangUp
  <2> QED BY <2>1, <2>2
<1> QED BY <1>1, <1>2, <1>3, <1>4

\* So they do during a reload.
LEMMA TurnsMain ==
    ASSUME TypeOK, Recovers, Dependable, TurnsInv, NoStrayCollection, MainStep
    PROVE  TurnsInv'
<1> USE DEF disk, reload, context, locals, history, TurnsInv
<1>0. conf \in Flags /\ hups \in Nat
  BY DEF TypeOK
<1>1. CASE ReloadBegin
  <2>1. /\ main = "run" /\ restarting = "IN_PROGRESS" /\ main' = "load"
        /\ target' = path /\ path' = path /\ pc' = pc
        /\ restarting' = restarting /\ hups' = hups
    BY <1>1 DEF ReloadBegin
  <2> QED BY <1>0, <2>1
<1>2. CASE ReloadNotEnabled
  BY <1>2 DEF ReloadNotEnabled
<1>3. CASE ReloadHalted
  <2>1. /\ main = "load" /\ main' = "run" /\ restarting' = "HALTED"
        /\ pc' = pc /\ hups' = hups /\ path' = path
    BY <1>3 DEF ReloadHalted
  <2>2. ~conf'.hot_reloading
    BY <1>0, <1>3 DEF ReloadHalted, Flags
  <2> QED BY <1>0, <2>1, <2>2
<1>4. CASE ReloadLoaded \/ StopOld \/ HaltedIsIdle \/ ReloadDone
  BY <1>0, <1>4 DEF ReloadLoaded, StopOld, HaltedIsIdle, ReloadDone
<1>5. CASE StartNew
  BY <1>0, <1>5 DEF StartNew, Fresh
<1>6. CASE StartFailed
  BY <1>0, <1>6 DEF StartFailed
<1>7. CASE Aborted
  <2>1. hups = 0 /\ pc = "idle"
    BY <1>0, <1>7 DEF Aborted
  <2>2. CASE GoDown
    BY <2>2 DEF GoDown, Base, Freed
  <2>3. CASE ~GoDown
    BY <1>0, <1>7, <2>1, <2>3 DEF Aborted
  <2> QED BY <2>2, <2>3
<1>8. CASE ReloadFinished
  <2>1. /\ main = "finish" /\ main' = "join" /\ restarting' = restarting
        /\ pc' = pc /\ hups' = hups /\ path' = path
    BY <1>8 DEF ReloadFinished
  <2>2. ~conf'.hot_reloading
    BY <1>0, <1>8 DEF ReloadFinished, Flags
  <2> QED BY <1>0, <2>1, <2>2
<1> QED
  BY <1>1, <1>2, <1>3, <1>4, <1>5, <1>6, <1>7, <1>8 DEF MainStep

\* So they do during a collection: it asks for a reload as its last step.
LEMMA TurnsCollect ==
    ASSUME TypeOK, HasSha, Recovers, Dependable, TurnsInv,
           CollectPending \/ Collect \/ Callback \/ CollectFails
    PROVE  TurnsInv'
<1> USE DEF disk, reload, context, locals, history, engine, process
<1>0. conf \in Flags /\ hups \in Nat
  BY DEF TypeOK
<1>1. ASSUME NEW p \in Commits, execute_reload(p)
      PROVE  /\ hups' = hups + 1 /\ conf'.enabled /\ conf'.hot_reloading = conf.hot_reloading
             /\ path' /= Freed
  BY <1>0, <1>1, CommitNumbers DEF execute_reload, Flags, Freed
<1>2. CASE CollectPending
  <2>1. /\ pc = "idle" /\ pc' = pc /\ main' = main /\ restarting' = restarting
        /\ main = "run" /\ hups = 0 /\ restarting = "IDLE"
        /\ execute_reload(pending) /\ pending \in Commits
    BY <1>2, NoFailingReload DEF CollectPending, Collecting, TurnsInv, TypeOK
  <2> QED
    BY <1>1, <2>1 DEF TurnsInv
<1>3. CASE Collect
  <2>1. /\ main = "run" /\ hups = 0 /\ restarting = "IDLE" /\ pending = None
        /\ pc' \in {"commit", "poll"}
    BY <1>3, NoFailingReload, ReadingSteps DEF Collect, Collecting, TurnsInv, Goto
  <2>2. UNCHANGED <<main, restarting, target, path, conf, hups, pending>>
    BY <1>3 DEF Collect
  <2> QED
    BY <2>1, <2>2 DEF TurnsInv
<1>4. CASE Trigger
  <2>1. /\ pc = "trigger" /\ pc' = "idle" /\ main' = main /\ restarting' = restarting
        /\ main = "run" /\ hups = 0 /\ restarting = "IDLE"
        /\ execute_reload(sha) /\ sha \in Commits
    BY <1>4 DEF Trigger, Return, TurnsInv, HasSha, Fetched
  <2> QED
    BY <1>1, <2>1 DEF TurnsInv
<1>5. CASE (Callback /\ ~Trigger) \/ CollectFails
  <2>1. /\ pc \notin {"idle", "discard", "revert", "reset_new", "reset_old"}
        /\ pc' \notin {"discard", "revert", "reset_new", "reset_old"}
    BY <1>5, NoFailingReload
       DEF Callback, Commit, Purge, Unnew, Unold, Poll, Fetch, Truncate, Write, Backup,
           Drop, Stage, Uncur, Discard, Revert, ResetNew, ResetOld, CollectFails,
           Goto, Return, TurnsInv
  <2>2. UNCHANGED <<main, restarting, target, path, conf, hups, pending>>
    BY <1>5, NoFailingReload
       DEF Callback, Commit, Purge, Unnew, Unold, Poll, Fetch, Truncate, Write, Backup,
           Drop, Stage, Uncur, Discard, Revert, ResetNew, ResetOld, CollectFails
  <2> QED
    BY <2>1, <2>2 DEF TurnsInv
<1> QED BY <1>2, <1>3, <1>4, <1>5

\* What a context continues with: the current configuration, or the staged one;
\* nothing when it runs the current one.
LEMMA Continues ==
    ASSUME TypeOK, RefsInv, NEW p
    PROVE  /\ existing(p) \in {None, cur, new}
           /\ p = cur => existing(p) = None
           /\ p = Base /\ cur /= None => existing(p) = cur
<1>1. existing(p) = IF \E r \in RefNames : refs[r] = p THEN None
                                 ELSE IF cur /= None THEN cur
                                 ELSE IF new /= None THEN new ELSE old
  BY DEF existing, check_existing_config, cur, new, old
<1>2. cur = None /\ new = None => old = None
  BY Numbers DEF RefsInv
<1>3. \A r \in RefNames : refs[r] /= Base
  BY CommitNumbers DEF TypeOK, Base, None
<1>4. "cur" \in RefNames
  BY DEF RefNames
<1> QED
  BY <1>1, <1>2, <1>3, <1>4 DEF cur

\* The configuration of a file does not change while the file does not.
LEMMA UsableSame ==
    ASSUME setting' = setting
    PROVE  \A c, d \in Commits : files'[d] = files[c] => (Usable(files[d])' <=> Usable(files[c]))
  BY DEF Usable, Loads, Starts, Halting, Aborting, PartialLoads

\* The configuration of the context and of the disk while the process starts,
\* ends and is signalled.
LEMMA LoadedProcess ==
    ASSUME TypeOK, RefsInv, Recovers, Dependable, TurnsInv, NoStrayCollection, LoadedInv,
           \/ \E c \in Commits : Push(c)
           \/ Start \/ Crash \/ Terminate \/ do_reload
    PROVE  LoadedInv'
<1> USE DEF disk, reload, context, locals, history
<1>0. /\ cur' = cur /\ new' = new /\ good' = good /\ files' = files
      /\ setting' = setting
  BY DEF Push, Start, Crash, Terminate, do_reload, GoDown, cur, new
<1>1. good /= None => Usable(files[good])'
  BY <1>0 DEF LoadedInv, Usable, Loads, Starts, Halting, Aborting, PartialLoads
<1>2. CASE (\E c \in Commits : Push(c)) \/ do_reload
  <2>1. /\ pending' = pending /\ pc' = pc /\ path' = path /\ conf' = conf /\ sha' = sha
        /\ main' = main /\ incoming' = incoming /\ target' = target
    BY <1>2 DEF Push, do_reload
  <2> QED
    BY <1>0, <2>1 DEF LoadedInv, Usable, Loads, Starts, Halting, Aborting, PartialLoads, Content
<1>3. CASE Start
  <2>1. /\ pending' \in {None, cur, new} /\ pc' = "idle" /\ path' = Base
        /\ ~conf'.succeeded /\ main' = "run"
    BY <1>3, Continues, ReadingSteps DEF Start, NoStrayCollection, Fresh
  <2> QED
    BY <1>0, <1>1, <2>1 DEF LoadedInv, Fetched
<1>4. CASE Crash \/ Terminate
  <2>1. /\ pending' = None /\ pc' = "idle" /\ path' = Base
        /\ ~conf'.succeeded /\ main' = "down"
    BY <1>4 DEF Crash, Terminate, GoDown, Fresh
  <2> QED
    BY <1>0, <1>1, <2>1 DEF LoadedInv, Fetched
<1> QED BY <1>2, <1>3, <1>4

\* During a reload: the new context has loaded what it started with.
LEMMA LoadedMain ==
    ASSUME TypeOK, RefsInv, Recovers, Dependable, TurnsInv, NoStrayCollection, LoadedInv, MainStep
    PROVE  LoadedInv'
<1> USE DEF disk, reload, context, locals, history
<1>0. /\ cur' = cur /\ new' = new /\ good' = good /\ files' = files
      /\ setting' = setting
  BY DEF MainStep, ReloadBegin, ReloadNotEnabled, ReloadHalted, ReloadLoaded,
         HaltedIsIdle, StopOld, StartNew, StartFailed, Aborted, ReloadFinished, ReloadDone,
         GoDown, cur, new
<1>1. good /= None => Usable(files[good])'
  BY <1>0 DEF LoadedInv, Usable, Loads, Starts, Halting, Aborting, PartialLoads
<1>2. conf \in Flags /\ target \in Paths /\ new \in Commits \union {-1} /\ None = -1
  BY Numbers DEF TypeOK
<1>3. CASE ReloadBegin \/ ReloadHalted
  <2>1. /\ pending' = pending /\ pc' = pc /\ path' = path /\ sha' = sha
        /\ conf'.succeeded = conf.succeeded /\ main' \in {"load", "run"}
    BY <1>2, <1>3 DEF ReloadBegin, ReloadHalted, Flags
  <2> QED
    BY <1>0, <2>1 DEF LoadedInv, Usable, Loads, Starts, Halting, Aborting, PartialLoads
<1>4. CASE ReloadNotEnabled \/ HaltedIsIdle \/ ReloadDone \/ StartFailed
  <2>1. /\ pending' = pending /\ pc' = pc /\ path' = path /\ sha' = sha
        /\ conf' = conf /\ main' \in {"run", "aborted"}
    BY <1>4 DEF ReloadNotEnabled, HaltedIsIdle, ReloadDone, StartFailed
  <2> QED
    BY <1>0, <2>1 DEF LoadedInv, Usable, Loads, Starts, Halting, Aborting, PartialLoads
<1>5. CASE ReloadLoaded
  <2>1. /\ pending' = pending /\ pc' = pc /\ path' = path /\ sha' = sha
        /\ conf' = conf /\ main' = "stop"
        /\ incoming' = Content(target) /\ Loads(Content(target)) /\ target' = target
    BY <1>5 DEF ReloadLoaded
  <2> QED
    BY <1>0, <2>1
       DEF LoadedInv, Usable, Loads, Starts, Halting, Aborting, PartialLoads, Content
<1>6. CASE StopOld
  <2>1. /\ pending' = None /\ pc' = pc /\ path' = path /\ sha' = sha
        /\ conf' = conf /\ main = "stop" /\ main' = "start"
        /\ incoming' = incoming /\ target' = target
    BY <1>6 DEF StopOld
  <2> QED
    BY <1>0, <2>1
       DEF LoadedInv, Usable, Loads, Starts, Halting, Aborting, PartialLoads, Content
<1>7. CASE StartNew
  <2>1. /\ pending' \in {None, cur, new} /\ pc = "idle" /\ pc' = "idle" /\ path' = target
        /\ ~conf'.succeeded /\ main = "start" /\ main' = "finish" /\ Starts(incoming)
    BY <1>7, Continues, ReadingSteps DEF StartNew, NoStrayCollection, Fresh
  <2>2. target = path /\ path \in {Base, cur, new}
    BY <2>1 DEF TurnsInv, LoadedInv
  <2>3. target = new => Usable(files[new])
    <3>1. new \in Commits => new \notin {Base, Freed}
      BY CommitNumbers DEF Base, Freed
    <3>2. target = new => new \in Commits
      BY <1>2, CommitNumbers DEF Paths, Base, Freed
    <3> QED
      BY <2>1, <3>1, <3>2 DEF LoadedInv, Content, Usable
  <2>4. target = new => Usable(files[new])'
    BY <1>0, <2>3 DEF Usable, Loads, Starts, Halting, Aborting, PartialLoads
  <2> QED
    BY <1>0, <1>1, <2>1, <2>2, <2>4 DEF LoadedInv, Fetched
<1>8. CASE Aborted
  <2>1. CASE GoDown
    <3>1. /\ pending' = None /\ pc' = "idle" /\ path' = Base
          /\ ~conf'.succeeded /\ main' = "down"
      BY <2>1 DEF GoDown, Fresh
    <3> QED
      BY <1>0, <1>1, <3>1 DEF LoadedInv, Fetched
  <2>2. CASE ~GoDown
    <3>1. /\ pending' = pending /\ pc' = pc /\ path' = path /\ sha' = sha
          /\ conf' = conf /\ main' = "spin"
      BY <1>8, <2>2 DEF Aborted
    <3> QED
      BY <1>0, <3>1 DEF LoadedInv, Usable, Loads, Starts, Halting, Aborting, PartialLoads
  <2> QED BY <2>1, <2>2
<1>9. CASE ReloadFinished
  <2>1. /\ pending' = pending /\ pc = "idle" /\ pc' = pc /\ path' = path /\ sha' = sha
        /\ main = "finish" /\ main' = "join"
    BY <1>9 DEF ReloadFinished, TurnsInv
  <2> QED
    BY <1>0, <2>1 DEF LoadedInv, Usable, Loads, Starts, Halting, Aborting, PartialLoads, Fetched
<1> QED
  BY <1>3, <1>4, <1>5, <1>6, <1>7, <1>8, <1>9 DEF MainStep

\* During a collection that leaves the disk alone.
LEMMA LoadedPolls ==
    ASSUME TypeOK, HasSha, RefsInv, StepsInv, Recovers, Dependable, TurnsInv, LoadedInv,
           CollectPending \/ Collect \/ Poll \/ Fetch \/ Trigger \/ CollectFails
    PROVE  LoadedInv'
<1> USE DEF disk, reload, context, locals, history, engine, process
<1>0. /\ cur' = cur /\ new' = new /\ good' = good /\ files' = files
      /\ setting' = setting
  BY DEF CollectPending, Collect, Poll, Fetch, Trigger, CollectFails, cur, new
<1>1. good /= None => Usable(files[good])'
  BY <1>0 DEF LoadedInv, Usable, Loads, Starts, Halting, Aborting, PartialLoads
<1>2. conf \in Flags /\ path \in Paths
  BY DEF TypeOK
<1>3. ASSUME NEW p, execute_reload(p) PROVE ~conf'.succeeded /\ path' = p
  BY <1>2, <1>3 DEF execute_reload, Flags
<1>4. CASE CollectPending
  <2>1. /\ pending /= None /\ pending' = None /\ pc' = "idle" /\ main = "run" /\ main' = main
        /\ execute_reload(pending)
    BY <1>4, NoFailingReload DEF CollectPending, Collecting
  <2> QED
    BY <1>0, <1>1, <1>3, <2>1 DEF LoadedInv, Fetched
<1>5. CASE Trigger
  <2>1. /\ pending' = pending /\ pc = "trigger" /\ pc' = "idle" /\ main = "run" /\ main' = main
        /\ execute_reload(sha) /\ sha = new
    BY <1>5 DEF Trigger, Return, TurnsInv, StepsInv, Staged
  <2> QED
    BY <1>0, <1>1, <1>3, <2>1 DEF LoadedInv, Fetched
<1>6. CASE Collect
  <2>1. /\ pending' = pending /\ pc = "idle" /\ main = "run" /\ main' = main /\ conf' = conf
        /\ path' = path /\ pc' = IF CommitDue THEN "commit" ELSE "poll"
        /\ ~conf.hot_reloading
    BY <1>6, NoFailingReload, ReadingSteps DEF Collect, Collecting, Goto, TurnsInv
  <2>2. CommitDue => conf.succeeded /\ path = new
    BY DEF CommitDue, new
  <2>3. conf.succeeded /\ path = new => CommitDue
    <3>1. path /= None
      BY <1>2, CommitNumbers DEF Paths, None, Base, Freed
    <3>2. conf.succeeded /\ path = new => files[new] /= None
      BY DEF LoadedInv, Usable, Loads
    <3> QED
      BY <2>1, <3>1, <3>2 DEF CommitDue, new
  <2> QED
    BY <1>0, <1>1, <2>1, <2>2, <2>3
       DEF LoadedInv, Fetched, Usable, Loads, Starts, Halting, Aborting, PartialLoads
<1>7. CASE Poll \/ Fetch
  <2>1. /\ pending' = pending /\ main = "run" /\ main' = main /\ conf' = conf /\ path' = path
        /\ pc \in {"poll", "fetch"} /\ pc' \in {"idle", "fetch", "truncate"}
    BY <1>7 DEF Poll, Fetch, Return, TurnsInv
  <2>2. pc' \in Fetched /\ conf.succeeded => path /= sha'
    <3>1. CASE Poll
      <4>1. pc' \in Fetched => sha' = remote /\ cur /= remote
        BY <3>1, ReadingSteps DEF Poll, Return, Fetched
      <4>2. conf.succeeded => path \in {Base, cur}
        BY <3>1 DEF Poll, LoadedInv
      <4>3. remote /= Base
        BY Numbers DEF Base
      <4> QED BY <4>1, <4>2, <4>3
    <3>2. CASE Fetch
      BY <3>2 DEF Fetch, LoadedInv, Fetched
    <3> QED BY <1>7, <3>1, <3>2
  <2> QED
    BY <1>0, <1>1, <2>1, <2>2
       DEF LoadedInv, Fetched, Usable, Loads, Starts, Halting, Aborting, PartialLoads
<1>8. CASE CollectFails
  <2>1. /\ pending' = pending /\ main = "run" /\ main' = main /\ conf' = conf /\ path' = path
        /\ pc \in {"poll", "fetch", "truncate", "write", "backup"} /\ pc' = "idle"
    BY <1>8, NoFailingReload DEF CollectFails, Return, TurnsInv
  <2> QED
    BY <1>0, <1>1, <2>1
       DEF LoadedInv, Fetched, Usable, Loads, Starts, Halting, Aborting, PartialLoads
<1> QED BY <1>4, <1>5, <1>6, <1>7, <1>8

\* During a commit: what is committed is what was loaded.
LEMMA LoadedCommit ==
    ASSUME TypeOK, HasSha, RefsInv, StepsInv, Recovers, Dependable, TurnsInv, LoadedInv,
           Commit \/ Purge \/ Unnew \/ Unold
    PROVE  LoadedInv'
<1> USE DEF disk, reload, context, locals, history, engine, process
<1>0. /\ pending' = pending /\ main = "run" /\ main' = main /\ conf' = conf /\ path' = path
      /\ pending = None /\ setting' = setting
  BY DEF Commit, Purge, Unnew, Unold, TurnsInv
<1>1. path /= None
  BY CommitNumbers DEF TypeOK, Paths, None, Base, Freed
<1>2. CASE Commit
  <2>1. /\ cur' = new /\ new' = new /\ files' = files /\ good' = new
        /\ pc = "commit" /\ pc' = "purge"
    BY <1>2, SetRefEffect, Numbers DEF Commit, Goto, new
  <2>2. conf.succeeded /\ path = new /\ Usable(files[new])
    BY <2>1 DEF LoadedInv
  <2>3. Usable(files[new])'
    BY <1>0, <2>1, <2>2 DEF Usable, Loads, Starts, Halting, Aborting, PartialLoads
  <2> QED
    BY <1>0, <2>1, <2>2, <2>3 DEF LoadedInv, Fetched
<1>3. CASE Purge
  <2>1. /\ cur' = cur /\ new' = new /\ good' = good
        /\ \A d \in Commits : d /= old => files'[d] = files[d]
        /\ pc = "purge" /\ pc' = "unnew"
    BY <1>3, SetRefEffect, ReadingSteps, Numbers DEF Purge, Goto
  <2>2. good /= None /\ new = good /\ old < good /\ good \in Commits
    BY <2>1, Numbers DEF StepsInv, RefsInv, Committing
  <2>3. files'[good] = files[good] /\ Usable(files[good])
    BY <2>1, <2>2, Numbers DEF LoadedInv
  <2>4. Usable(files[good])' /\ Usable(files[new])'
    BY <1>0, <2>1, <2>2, <2>3 DEF Usable, Loads, Starts, Halting, Aborting, PartialLoads
  <2> QED
    BY <1>0, <2>1, <2>4 DEF LoadedInv, Fetched
<1>4. CASE Unnew \/ Unold
  <2>1. /\ cur' = cur /\ files' = files /\ good' = good /\ new' = None
        /\ pc \in {"unnew", "unold"} /\ pc' \in {"unold", "poll"}
    BY <1>4, SetRefEffect DEF Unnew, Unold, Goto, None, StepsInv
  <2>2. good /= None => Usable(files[good])'
    BY <1>0, <2>1 DEF LoadedInv, Usable, Loads, Starts, Halting, Aborting, PartialLoads
  <2> QED
    BY <1>0, <1>1, <2>1, <2>2 DEF LoadedInv, Fetched
<1> QED BY <1>2, <1>3, <1>4

\* While a commit is written and staged: the file of the context is not touched.
LEMMA LoadedAdd ==
    ASSUME TypeOK, HasSha, RefsInv, StepsInv, Recovers, Dependable, TurnsInv, LoadedInv,
           Truncate \/ Write \/ Backup \/ Drop \/ Stage \/ Uncur
    PROVE  LoadedInv'
<1> USE DEF disk, reload, context, locals, history, engine, process
<1>0. /\ pending' = pending /\ main = "run" /\ main' = main /\ conf' = conf /\ path' = path
      /\ pending = None /\ setting' = setting /\ good' = good /\ sha' = sha
      /\ pc \in Fetched /\ pc' \in Fetched /\ sha \in Commits
  BY DEF Truncate, Write, Backup, Drop, Stage, Uncur, Goto, TurnsInv, Fetched, HasSha
<1>1. conf.succeeded => path \in {Base, cur} /\ path /= sha
  BY DEF Truncate, Write, Backup, Drop, Stage, Uncur, LoadedInv, Fetched
<1>2. /\ good /= None => new /= good /\ sha > good /\ good \in Commits
      /\ cur /= None => cur = good /\ good /= None
      /\ path /= None /\ None = -1
  BY <1>0, Numbers, CommitNumbers
     DEF StepsInv, RefsInv, TypeOK, Paths, Base, Freed
<1>3. ASSUME files'[good] = files[good] PROVE good /= None => Usable(files[good])'
  BY <1>0, <1>3 DEF LoadedInv, Usable, Loads, Starts, Halting, Aborting, PartialLoads
<1>4. CASE Truncate \/ Write
  <2>1. /\ cur' = cur /\ new' = new
        /\ \A d \in Commits : d /= sha => files'[d] = files[d]
        /\ pc \in {"truncate", "write"} /\ pc' \in {"write", "backup"}
    BY <1>4 DEF Truncate, Write, Goto, TypeOK, cur, new
  <2>2. good /= None => files'[good] = files[good]
    BY <1>2, <2>1, Numbers
  <2>3. conf.succeeded /\ path = new => Usable(files[new])'
    <3>1. conf.succeeded /\ path = new => new \in Commits /\ new /= sha /\ Usable(files[new])
      BY <1>1, <1>2, Numbers DEF LoadedInv
    <3> QED
      BY <1>0, <2>1, <3>1 DEF Usable, Loads, Starts, Halting, Aborting, PartialLoads
  <2> QED
    BY <1>0, <1>1, <1>3, <2>1, <2>2, <2>3 DEF LoadedInv, Fetched
<1>5. CASE Backup
  <2>1. /\ cur' = cur /\ new' = new /\ files' = files
        /\ pc = "backup" /\ pc' = "drop"
    BY <1>5, SetRefEffect, ReadingSteps, Numbers DEF Backup, Goto, cur, new
  <2> QED
    BY <1>0, <1>1, <2>1
       DEF LoadedInv, Fetched, Usable, Loads, Starts, Halting, Aborting, PartialLoads
<1>6. CASE Drop
  <2>1. /\ cur' = cur /\ new' = new
        /\ \A d \in Commits : d /= new => files'[d] = files[d]
        /\ pc = "drop" /\ pc' = "stage"
    BY <1>6, SetRefEffect, ReadingSteps, Numbers DEF Drop, Goto, cur, new
  <2>2. good /= None => files'[good] = files[good]
    BY <1>2, <2>1
  <2>3. conf.succeeded => path /= new
    BY <1>1, <1>2, Numbers DEF Base
  <2> QED
    BY <1>0, <1>1, <1>3, <2>1, <2>2, <2>3 DEF LoadedInv, Fetched
<1>7. CASE Stage
  <2>1. /\ cur' = cur /\ new' = sha /\ files' = files
        /\ pc = "stage" /\ pc' = "uncur"
    BY <1>0, <1>7, SetRefEffect DEF Stage, Goto
  <2> QED
    BY <1>0, <1>1, <1>3, <2>1 DEF LoadedInv, Fetched
<1>8. CASE Uncur
  <2>1. /\ new' = new /\ files' = files /\ pc = "uncur" /\ pc' = "trigger"
    BY <1>8, SetRefEffect DEF Uncur, Goto, None
  <2> QED
    BY <1>0, <1>1, <1>3, <2>1
       DEF LoadedInv, Fetched, Usable, Loads, Starts, Halting, Aborting, PartialLoads
<1> QED BY <1>4, <1>5, <1>6, <1>7, <1>8

\* After a crash in the middle of a commit the agent stays on its way: while the
\* process starts, ends and is signalled;
LEMMA RecoverProcess ==
    ASSUME TypeOK, RefsInv, Recovers, Dependable, TurnsInv, NoStrayCollection, CommitsAgain,
           \/ \E c \in Commits : Push(c)
           \/ Start \/ Crash \/ Terminate \/ do_reload
    PROVE  CommitsAgain'
<1> USE DEF disk, reload, context, locals, history
<1>0. new' = new /\ good' = good
  BY DEF Push, Start, Crash, Terminate, do_reload, GoDown, new
<1>1. CASE \E c \in Commits : Push(c)
  BY <1>0, <1>1 DEF Push, CommitsAgain, Recovering, Committing
<1>2. CASE Crash \/ Terminate
  BY <1>2 DEF Crash, Terminate, GoDown, CommitsAgain, Recovering
<1>3. CASE Start
  <2>1. /\ main' = "run" /\ restarting' = "IDLE" /\ hups' = 0 /\ pc' = "idle"
        /\ pending' = existing(Base)
    BY <1>3, ReadingSteps DEF Start, NoStrayCollection, TurnsInv, TypeOK
  <2>2. good /= None /\ new = good => existing(Base) = good
    BY Continues DEF RefsInv
  <2> QED
    BY <1>0, <2>1, <2>2 DEF CommitsAgain, Recovering
<1>4. CASE do_reload
  <2>1. /\ main = "run" /\ restarting = "IDLE" /\ pc = "idle" /\ hups > 0
    BY <1>4 DEF do_reload, TurnsInv
  <2>2. /\ main' = main /\ conf' = conf /\ pc' = pc /\ restarting' = "IN_PROGRESS"
        /\ path' = path /\ pending' = pending
    BY <1>4, <2>1 DEF do_reload, HangUp
  <2> QED
    BY <1>0, <2>1, <2>2 DEF CommitsAgain, Recovering, Committing
<1> QED BY <1>1, <1>2, <1>3, <1>4

\* during the reload, which neither halts nor aborts;
LEMMA RecoverMain ==
    ASSUME TypeOK, RefsInv, Recovers, Dependable, TurnsInv, NoStrayCollection, LoadedInv, CommitsAgain,
           MainStep
    PROVE  CommitsAgain'
<1> USE DEF disk, reload, context, locals, history
<1>0. new' = new /\ good' = good
  BY DEF MainStep, ReloadBegin, ReloadNotEnabled, ReloadHalted, ReloadLoaded,
         HaltedIsIdle, StopOld, StartNew, StartFailed, Aborted, ReloadFinished, ReloadDone,
         GoDown, new
<1> SUFFICES ASSUME good /= None, new = good, ~Committing' PROVE Recovering'
  BY <1>0 DEF CommitsAgain
<1>1. CASE Aborted /\ GoDown
  BY <1>1 DEF GoDown, Recovering
<1>2. CASE ~(Aborted /\ GoDown)
  <2>1. pc' = pc
    BY <1>2 DEF MainStep, ReloadBegin, ReloadNotEnabled, ReloadHalted, ReloadLoaded,
                HaltedIsIdle, StopOld, StartNew, StartFailed, Aborted, ReloadFinished, ReloadDone
  <2>2. Recovering /\ conf \in Flags
    BY <2>1 DEF CommitsAgain, Committing, TypeOK
  <2>3. Usable(files[good]) /\ Content(good) = files[good] /\ cur = good
    BY Numbers DEF LoadedInv, Content, Base, Freed, RefsInv
  <2>4. CASE ReloadBegin
    BY <1>0, <2>1, <2>2, <2>4 DEF ReloadBegin, Recovering
  <2>5. CASE ReloadNotEnabled
    BY <2>5 DEF ReloadNotEnabled, TurnsInv
  <2>6. CASE ReloadHalted
    BY <2>2, <2>3, <2>6, NoFailingReload DEF ReloadHalted, Recovering, Usable
  <2>7. CASE ReloadLoaded \/ StopOld
    BY <1>0, <2>1, <2>2, <2>7 DEF ReloadLoaded, StopOld, Recovering
  <2>8. CASE HaltedIsIdle
    BY <2>2, <2>8 DEF HaltedIsIdle, Recovering
  <2>9. CASE StartNew
    <3>1. main = "start" /\ target = good
      BY <2>2, <2>9 DEF StartNew, Recovering
    <3>2. existing(target) = None
      BY <2>3, <3>1, Continues
    <3> QED
      BY <1>0, <2>1, <2>2, <2>9, <3>1, <3>2, ReadingSteps DEF StartNew, Recovering
  <2>10. CASE StartFailed
    <3>1. main = "start" /\ target = good /\ ~Starts(incoming)
      BY <2>2, <2>10 DEF StartFailed, Recovering
    <3> QED
      BY <2>3, <3>1 DEF LoadedInv, Usable
  <2>11. CASE Aborted
    BY <2>2, <2>11 DEF Aborted, Recovering
  <2>12. CASE ReloadFinished
    BY <1>0, <2>1, <2>2, <2>12 DEF ReloadFinished, Recovering, Flags
  <2>13. CASE ReloadDone
    BY <1>0, <2>1, <2>2, <2>13 DEF ReloadDone, Recovering
  <2> QED
    BY <2>4, <2>5, <2>6, <2>7, <2>8, <2>9, <2>10, <2>11, <2>12, <2>13 DEF MainStep
<1> QED BY <1>1, <1>2

\* and during the collections, of which the first asks for that reload and the
\* next commits.
LEMMA RecoverCollect ==
    ASSUME TypeOK, RefsInv, StepsInv, StepsInv', Recovers, Dependable, TurnsInv, CommitsAgain,
           CollectPending \/ Collect \/ Callback \/ CollectFails
    PROVE  CommitsAgain'
<1> USE DEF disk, reload, context, locals, history, engine, process
<1> SUFFICES ASSUME (good /= None)', (new = good)', ~Committing' PROVE Recovering'
  BY DEF CommitsAgain
<1>1. CASE CollectPending
  <2>1. /\ main = "run" /\ hups = 0 /\ restarting = "IDLE" /\ pending /= None /\ pc = "idle"
        /\ main' = main /\ hups' = hups + 1 /\ restarting' = restarting /\ pending' = None
        /\ path' = pending /\ pc' = pc /\ new' = new /\ good' = good
    BY <1>1, NoFailingReload DEF CollectPending, Collecting, TurnsInv, execute_reload, new
  <2>2. pending = good
    BY <2>1 DEF CommitsAgain, Recovering, Committing
  <2>3. /\ main' = "run" /\ path' = good' /\ restarting' /= "HALTED" /\ pending' = None
        /\ pc' = "idle"
    BY <2>1, <2>2
  <2>4. hups' > 0
    BY <2>1
  <2> QED
    BY <2>3, <2>4 DEF Recovering
<1>2. CASE Collect
  <2>1. /\ pc = "idle" /\ pc' \in {"commit", "poll"} /\ new' = new /\ good' = good
        /\ pending = None
    BY <1>2, ReadingSteps DEF Collect, Goto, new
  <2>2. pc' = "commit"
    BY <2>1 DEF StepsInv
  <2>3. Recovering
    BY <2>1 DEF CommitsAgain, Committing
  <2> QED
    BY <1>2, <2>1, <2>2, <2>3 DEF Collect, Recovering
<1>3. CASE Callback \/ CollectFails
  <2>1. pc' \notin Fetched \cup {"poll", "unold", "purge", "unnew"}
    BY Numbers DEF StepsInv, Committing
  <2>2. CASE Poll \/ Trigger \/ CollectFails
    <3>1. /\ new' = new /\ good' = good
          /\ pc \in Fetched \cup {"poll"}
      BY <2>2, NoFailingReload DEF Poll, Trigger, CollectFails, Fetched, new
    <3> QED
      BY <3>1 DEF StepsInv
  <2>3. CASE Callback /\ ~Poll /\ ~Trigger
    BY <2>1, <2>3, NoFailingReload
       DEF Callback, Commit, Purge, Unnew, Unold, Fetch, Truncate, Write, Backup,
           Drop, Stage, Uncur, Discard, Revert, ResetNew, ResetOld, Goto, Fetched, TurnsInv
  <2> QED BY <1>3, <2>2, <2>3
<1> QED BY <1>1, <1>2, <1>3

\* Every step keeps what a crash in the middle of a commit relies on.
LEMMA RecoverStep ==
    ASSUME TypeOK, HasSha, NoStrayCollection, KeepsGood, RefsInv, StepsInv, StepsInv',
           RecoverInv, [Next]_vars, setting' = setting
    PROVE  RecoverInv'
<1> SUFFICES ASSUME CrashPoints = "any" PROVE TurnsInv' /\ LoadedInv' /\ CommitsAgain'
  BY DEF RecoverInv, CrashPoints
<1>0. /\ Recovers /\ Dependable /\ TurnsInv /\ LoadedInv /\ CommitsAgain
      /\ ~DoubleFree
  BY DEF KeepsGood, RecoverInv, TurnsInv, DoubleFree
<1>1. CASE UNCHANGED vars
  BY <1>0, <1>1
     DEF vars, disk, reload, context, locals, history, TurnsInv, LoadedInv, CommitsAgain,
         Recovering, Committing, cur, new, Usable, Loads, Starts, Halting, Aborting,
         PartialLoads, Content
<1>2. CASE \/ \E c \in Commits : Push(c)
           \/ Start \/ Crash \/ Terminate \/ do_reload
  BY <1>0, <1>2, TurnsProcess, LoadedProcess, RecoverProcess
<1>3. CASE MainStep
  BY <1>0, <1>3, TurnsMain, LoadedMain, RecoverMain
<1>4. CASE CollectPending \/ Collect \/ Callback \/ CollectFails
  <2>1. TurnsInv' /\ CommitsAgain'
    BY <1>0, <1>4, TurnsCollect, RecoverCollect
  <2>2. ~TriggerFails /\ ~Discard /\ ~Revert /\ ~ResetNew /\ ~ResetOld
    BY <1>0, NoFailingReload DEF TurnsInv, Discard, Revert, ResetNew, ResetOld
  <2>3. LoadedInv'
    BY <1>0, <1>4, <2>2, LoadedPolls, LoadedCommit, LoadedAdd DEF Callback
  <2> QED BY <2>1, <2>3
<1> QED
  BY <1>0, <1>1, <1>2, <1>3, <1>4, NoFailingReload DEF Next

\* DiskInv holds initially.
LEMMA DiskInvInit == Init => DiskInv
<1> SUFFICES ASSUME Init PROVE DiskInv
  OBVIOUS
<1>1. cur = None /\ new = None /\ old = None
  BY DEF Init, cur, new, old, RefNames
<1>2. remote = 1 /\ good = None /\ sha = None /\ pc = "idle" /\ None < 1
  BY DEF Init, None
<1>3. RefsInv /\ StepsInv
  BY <1>1, <1>2 DEF RefsInv, StepsInv, Committing, Fetched, Backed, Staged, None
<1>4. TurnsInv /\ LoadedInv /\ CommitsAgain
  BY <1>1, <1>2 DEF Init, TurnsInv, LoadedInv, CommitsAgain, Fresh, Fetched, Base, Freed
<1> QED
  BY <1>3, <1>4, InitType DEF DiskInv, RecoverInv

\* Every step keeps DiskInv.
LEMMA DiskInvStep ==
    ASSUME DiskInv, [Next]_vars
    PROVE  DiskInv'
<1>1. TypeOK' /\ setting' = setting /\ HasSha' /\ NoStrayCollection'
  BY TypeStep DEF DiskInv
<1>2. KeepsGood' = KeepsGood
  BY <1>1 DEF KeepsGood, Linear, CrashPoints, Recovers, Dependable, Faults, Prompt, Operator
<1>3. ASSUME KeepsGood PROVE RefsInv' /\ StepsInv' /\ RecoverInv'
  BY <1>1, <1>3, RefsStep, RecoverStep DEF DiskInv
<1> QED
  BY <1>1, <1>2, <1>3 DEF DiskInv

\* The inductive invariant of the disk.
THEOREM DiskInvHolds == Spec => []DiskInv
  BY DiskInvInit, DiskInvStep, PTL DEF Spec

\* config_commit, config_add and config_rollback never lose the configuration
\* that was committed last: for any number of commits, signals and crashes,
\* between any two changes of the disk, its file and a reference to it stay
\* until the next one is committed.
THEOREM DiskAlwaysConsistent == Spec => []DiskConsistent
<1>1. DiskInv => DiskConsistent
  <2> SUFFICES ASSUME DiskInv, good /= None, KeepsGood
               PROVE  files[good] /= None /\ \E r \in RefNames : refs[r] = good
    BY DEF DiskInv, DiskConsistent, LastGoodKept, KeepsGood
  <2>1. cur = good \/ old = good
    BY DEF DiskInv, RefsInv
  <2> QED
    BY <2>1 DEF DiskInv, RefsInv, cur, old, RefNames
<1> QED
  BY <1>1, DiskInvHolds, PTL

=============================================================================
