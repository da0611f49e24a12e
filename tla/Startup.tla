------------------------------ MODULE Startup -------------------------------
(***************************************************************************)
(* The life of a node's process: start, configuration, worker roles and    *)
(* the two seconds they must survive (src/src/bin/powermap.rs), and the    *)
(* replacement of the program by a newer release, its confirmation and its *)
(* rollback (src/src/update.rs).  The configuration files are ConfigFiles'.*)
(*                                                                         *)
(* A step of the process is one change of a file, of the program image or  *)
(* of the stage, so that a crash can come between any two of them.  A      *)
(* process that ended may be started again by a user or a supervisor.      *)
(*                                                                         *)
(* Abstracted: the workers (a worker may fail at any time; a broken        *)
(* version's always do before the gate ends), time, the download, whose    *)
(* outcome is an archive that fits its checksum or one that does not.      *)
(***************************************************************************)
EXTENDS ConfigFiles

CONSTANTS
  StartPaths,  \* what --config may name
  FirstFiles,  \* contents of the configuration directory at the beginning
  FirstVersion,
  Broken,      \* versions whose workers fail
  Offers,      \* releases: [version, stable, complete, intact]
  Pids,        \* process ids; a supervisor may hand out the same again
  MayFail,     \* whether file operations and exec may fail
  MayCrash,    \* whether the process may be killed
  NoBinary, NoBackup, NoUpdate

ASSUME StartupAssumption ==
  /\ StartPaths \subseteq Names /\ FirstFiles \subseteq [Names -> Content]
  /\ FirstVersion \in Versions /\ Broken \subseteq Versions
  /\ \A o \in Offers : o.version \in Versions
  /\ {MayFail, MayCrash} \subseteq BOOLEAN
  /\ NoBinary \notin Versions /\ NoUpdate \notin Versions /\ NoBackup \notin Pids

VARIABLES
  given,    \* --config of this installation
  stage,    \* of the process
  image,    \* the version it runs
  pid,      \* its process id, kept by exec
  env,      \* POWERMAP_UPDATE_BACKUP: the id in the name of the backup
  pending,  \* the update that is staged and waits for the restart
  bin,      \* the version in the program's file
  backups,  \* the version in each backup file
  good,     \* the last version that survived its gate (history)
  truth,    \* the configuration last saved (history)
  lost      \* the last save from the web page did not leave the file as the
            \* memory was: it failed, or its listing was outdated (history)

processVars == <<stage, image, pid, env, pending>>
binaryVars == <<bin, backups>>
history == <<good, truth, lost>>
vars == <<configVars, given, processVars, binaryVars, history>>

Stages == {"down", "load", "migrate", "remove", "loaded", "gate", "running",
           "draining", "swap", "exec", "undo", "failed", "restore", "reexec"}

-----------------------------------------------------------------------------
\* The user's settings in the first files.
Found(f) ==
  [r \in RoleNames |->
     IF f["unified"].kind = "unified" THEN f["unified"].roles[r]
     ELSE LET n == IF r = "expose" THEN "server" ELSE "client" IN
          IF f[n].kind = "legacy" THEN f[n].data ELSE NoRole]

Init ==
  /\ given \in StartPaths /\ files \in FirstFiles
  /\ config = NoRoles /\ path = given /\ todo = {} /\ listed = {}
  /\ stage = "down" /\ image = FirstVersion /\ pid \in Pids
  /\ env = NoBackup /\ pending = NoUpdate
  /\ bin = FirstVersion /\ backups = [p \in Pids |-> NoBinary]
  /\ good = FirstVersion /\ truth = Found(files) /\ lost = FALSE

Goto(next) == stage' = next /\ UNCHANGED <<image, pid, env, pending>>

\* Started anew: the environment has no trace of an update.
Start ==
  /\ stage = "down" /\ bin # NoBinary
  /\ stage' = "load" /\ image' = bin /\ pid' \in Pids
  /\ env' = NoBackup /\ pending' = NoUpdate
  /\ UNCHANGED <<configVars, given, binaryVars, history>>

\* The process ends and what it had in memory is gone.
Ends ==
  /\ stage' = "down" /\ env' = NoBackup /\ pending' = NoUpdate
  /\ Forget
  /\ UNCHANGED <<given, image, pid, binaryVars, history>>

Crash == MayCrash /\ stage # "down" /\ Ends

-----------------------------------------------------------------------------
(* run: load, check, save, workers, gate *)

Loads ==
  /\ stage = "load"
  /\ \/ (LoadDefault(given) \/ LoadUnified(given, image)) /\ Goto("loaded")
     \/ LoadLegacy(given) /\ Goto("migrate")
     \/ Refuses(given, image) /\ Goto("failed") /\ UNCHANGED configVars
  /\ UNCHANGED <<given, binaryVars, history>>

\* Slip: the former files are removed before the new one is written.
MigrateRemovesFirst ==
  /\ stage = "migrate"
  /\ \/ /\ todo = {} /\ Save(image) /\ Goto("loaded")
     \/ /\ \E n \in todo : RemoveLegacy(n)
        /\ UNCHANGED processVars
  /\ UNCHANGED <<given, binaryVars, history>>

\* save may fail before its rename, or after it (the directory's sync).
SaveFails == MayFail /\ Goto("failed") /\ (Save(image) \/ UNCHANGED configVars)

MigrateSaves ==
  /\ stage = "migrate"
  /\ (Save(image) /\ Goto("remove")) \/ SaveFails
  /\ UNCHANGED <<given, binaryVars, history>>

MigrateRemoves ==
  /\ stage = "remove"
  /\ \/ (\E n \in todo : RemoveLegacy(n)) /\ UNCHANGED processVars
     \/ todo = {} /\ Goto("loaded") /\ UNCHANGED configVars
     \/ todo # {} /\ MayFail /\ Goto("failed") /\ UNCHANGED configVars
  /\ UNCHANGED <<given, binaryVars, history>>

\* Slip: the backup is removed as soon as the workers are spawned.
SpawnConfirms ==
  /\ stage = "loaded"
  /\ Save(image) /\ stage' = "gate" /\ truth' = config /\ lost' = FALSE
  /\ backups' = IF env = NoBackup THEN backups ELSE [backups EXCEPT ![env] = NoBinary]
  /\ UNCHANGED <<given, image, pid, env, pending, bin, good>>

\* The configuration is saved in this version's form before its workers start.
SaveAndSpawn ==
  /\ stage = "loaded"
  /\ \/ Save(image) /\ Goto("gate") /\ truth' = config /\ lost' = FALSE
     \/ SaveFails /\ UNCHANGED <<truth, lost>>
  /\ UNCHANGED <<given, binaryVars, good>>

\* A worker ended with an error, before the gate did or while the others drain.
WorkerFails ==
  /\ stage \in {"gate", "draining"}
  /\ Goto("failed")
  /\ UNCHANGED <<configVars, given, binaryVars, history>>

\* The two seconds are over.  Draining that began in them may still go on.
GateOver ==
  /\ image \notin Broken
  /\ stage = "gate" \/ (stage = "draining" /\ env # NoBackup)

\* Slip: the environment still names the backup after it is removed.
ConfirmKeepsName ==
  /\ GateOver
  /\ backups' = IF env = NoBackup THEN backups ELSE [backups EXCEPT ![env] = NoBinary]
  /\ stage' = "running"
  /\ good' = image
  /\ UNCHANGED <<configVars, given, image, pid, env, pending, bin, truth, lost>>

\* confirm_startup: the backup named in the environment is removed.
Confirm ==
  /\ GateOver
  /\ backups' = IF env = NoBackup THEN backups ELSE [backups EXCEPT ![env] = NoBinary]
  /\ stage' = (IF stage = "gate" THEN "running" ELSE stage) /\ env' = NoBackup
  /\ good' = image
  /\ UNCHANGED <<configVars, given, image, pid, pending, bin, truth, lost>>

ConfirmFails ==
  /\ GateOver
  /\ MayFail /\ env # NoBackup
  /\ Goto("failed")
  /\ UNCHANGED <<configVars, given, binaryVars, history>>

\* The workers run.
Serving == stage \in {"gate", "running", "draining"}

\* A request from the web page (set_credential, or any other that changes what
\* the access role is set to) changes what the process uses, then saves it.
WebSets ==
  /\ Serving /\ config["access"] # NoRole
  /\ \E a \in Settings : SetAccess(a)
  /\ UNCHANGED <<given, processVars, binaryVars, history>>

\* Slip: the file takes the section listed, and is taken to have lost the rest.
WebSavesAlone ==
  /\ Serving
  /\ \E l \in listed :
       /\ files' = [files EXCEPT ![path] = Unified([NoRoles EXCEPT !["access"] = l], image)]
       /\ listed' = listed \ {l}
       /\ truth' = [truth EXCEPT !["access"] = l]
       /\ lost' = (truth' # config)
  /\ UNCHANGED <<config, path, todo, given, processVars, binaryVars, good>>

\* save_config's end, of whichever request comes first; requests still saving
\* when the process stops serving are dropped.
WebSaves ==
  /\ Serving
  /\ \E l \in listed :
       \/ SaveAccess(l, image) /\ truth' = [truth EXCEPT !["access"] = l]
       \/ (MayFail \/ ~Reads(path, image)) /\ SaveLost(l) /\ UNCHANGED truth
  /\ lost' = (truth' # config)
  /\ UNCHANGED <<given, processVars, binaryVars, good>>

-----------------------------------------------------------------------------
(* UpdateCoordinator *)

\* prepare_latest_update: what a release must be to be installed.
Stable(o) == o.stable

Newer(o) == o.version > image

\* An archive and its checksum for this platform.
Complete(o) == o.complete

\* The archive fits its checksum and unpacks to one regular program.
Intact(o) == o.intact

Acceptable(o) == Stable(o) /\ Newer(o) /\ Complete(o) /\ Intact(o)

\* queue_latest, asked for by the web page: one update at a time.
QueueLatest ==
  /\ Serving /\ config["access"] # NoRole /\ pending = NoUpdate
  /\ \E o \in Offers : Acceptable(o) /\ pending' = o.version
  /\ UNCHANGED <<configVars, given, stage, image, pid, env, binaryVars, history>>

\* request_restart, a signal, or a worker that ended: everything is cancelled.
Drains ==
  /\ stage \in {"gate", "running"}
  /\ Goto("draining")
  /\ UNCHANGED <<configVars, given, binaryVars, history>>

\* In the gate or after it, the backup of an update not yet confirmed stays.
Exits == stage = "draining" /\ pending = NoUpdate /\ Ends

\* replace_binary, first rename: the running version becomes the backup, under
\* a name made of the process id, which must be free.
BackUp ==
  /\ stage = "draining" /\ pending # NoUpdate
  /\ \/ /\ backups[pid] = NoBinary
        /\ backups' = [backups EXCEPT ![pid] = bin] /\ bin' = NoBinary
        /\ Goto("swap")
     \/ /\ backups[pid] # NoBinary \/ MayFail
        /\ Goto("failed")
        /\ UNCHANGED binaryVars
  /\ UNCHANGED <<configVars, given, history>>

\* Second rename: the staged version takes its place.
Swap ==
  /\ stage = "swap"
  /\ \/ bin' = pending /\ Goto("exec")
     \/ MayFail /\ Goto("undo") /\ UNCHANGED bin
  /\ UNCHANGED <<configVars, given, backups, history>>

\* The backup is renamed back.
PutBack(next) ==
  /\ bin' = backups[pid] /\ backups' = [backups EXCEPT ![pid] = NoBinary]
  /\ Goto(next)

Undo ==
  /\ stage = "undo"
  /\ PutBack("failed") \/ (MayFail /\ Goto("failed") /\ UNCHANGED binaryVars)
  /\ UNCHANGED <<configVars, given, history>>

\* exec: the same process runs the new version, told of the backup.  When it
\* fails the new version is removed, which may fail too, and the old one put back.
Exec ==
  /\ stage = "exec"
  /\ \/ /\ stage' = "load" /\ image' = bin /\ env' = pid /\ pending' = NoUpdate
        /\ Forget
        /\ UNCHANGED <<pid, bin>>
     \/ /\ MayFail /\ Goto("undo") /\ bin' = NoBinary
        /\ UNCHANGED configVars
     \/ MayFail /\ Goto("failed") /\ UNCHANGED <<configVars, bin>>
  /\ UNCHANGED <<given, backups, history>>

-----------------------------------------------------------------------------
(* main: an error of run; rollback_failed_start *)

CanRollBack == env # NoBackup /\ backups[env] # NoBinary

GivesUp == stage = "failed" /\ ~CanRollBack /\ Ends

\* restore_binary: the failed version is removed, then the backup renamed.
RollsBack ==
  /\ stage = "failed" /\ CanRollBack
  /\ \/ /\ bin' = NoBinary
        /\ Goto("restore")
        /\ UNCHANGED <<configVars, given, backups, history>>
     \/ MayFail /\ Ends

\* Slip: the backup is copied, and the program run with the same environment.
RestoreCopies ==
  /\ stage = "restore"
  /\ bin' = backups[env] /\ image' = backups[env]
  /\ stage' = "load"
  /\ Forget
  /\ UNCHANGED <<given, pid, env, pending, backups, history>>

Restore ==
  /\ stage = "restore"
  /\ \/ /\ bin' = backups[env] /\ backups' = [backups EXCEPT ![env] = NoBinary]
        /\ Goto("reexec")
        /\ UNCHANGED <<configVars, given, history>>
     \/ MayFail /\ Ends

\* The old version runs again, in the same process, without the variable.
Reexec ==
  /\ stage = "reexec"
  /\ stage' = "load" /\ image' = bin /\ env' = NoBackup
  /\ Forget
  /\ UNCHANGED <<given, pid, pending, binaryVars, history>>

ReexecFails == stage = "reexec" /\ MayFail /\ Ends

-----------------------------------------------------------------------------
\* What the process does by itself once it is started.
StartSteps ==
  \/ Loads \/ MigrateSaves \/ MigrateRemoves \/ SaveAndSpawn
  \/ WorkerFails \/ Confirm \/ ConfirmFails
  \/ GivesUp \/ RollsBack \/ Restore \/ Reexec \/ ReexecFails

RestartSteps == Exits \/ BackUp \/ Swap \/ Undo \/ Exec

Next ==
  \/ Start \/ Crash
  \/ StartSteps \/ RestartSteps
  \/ WebSets \/ WebSaves \/ QueueLatest \/ Drains

\* The process goes on with what it has begun; nothing is assumed of users,
\* supervisors and releases.
Spec == Init /\ [][Next]_vars

FairSpec == Spec /\ WF_vars(StartSteps) /\ WF_vars(RestartSteps)

-----------------------------------------------------------------------------
(* Properties *)

\* The type of every variable; the environment names a backup only in a process
\* that an update has started and that has not confirmed it.
TypeOK ==
  /\ given \in StartPaths /\ path \in Names /\ todo \subseteq Names
  /\ files \in [Names -> Content] /\ config \in Roles /\ truth \in Roles
  /\ listed \subseteq Settings /\ lost \in BOOLEAN
  /\ stage \in Stages /\ image \in Versions /\ pid \in Pids
  /\ env \in Pids \cup {NoBackup} /\ pending \in Versions \cup {NoUpdate}
  /\ bin \in Versions \cup {NoBinary} /\ backups \in [Pids -> Versions \cup {NoBinary}]
  /\ good \in Versions
  /\ env # NoBackup => stage \notin {"down", "running", "swap", "exec", "undo"}

\* The last version known to work is in the program's file or in a backup,
\* whatever fails or is killed in the middle of an update or a rollback
\* (update.rs: the running binary is retained for rollback).
GoodKept == good \in {bin} \cup {backups[p] : p \in Pids}

Holds(n, r) ==
  \/ files[n].kind = "unified" /\ files[n].roles[r] = truth[r]
  \/ files[n].kind = "legacy" /\ RoleOf(n) = r /\ files[n].data = truth[r]

\* What was last saved is on disk at every moment of a migration, an update or a
\* rollback (config.rs: any failure keeps the original files), and the workers
\* use it: a start takes it over whole, and with no request under way only a
\* save that failed or was outdated can have left the file behind the memory.
SettingsKept ==
  /\ \A r \in RoleNames : truth[r] # NoRole => \E n \in Names : Holds(n, r)
  /\ Serving /\ listed = {} /\ ~lost => config = truth

\* Every start ends in a running, an ended or a stopping process: a rollback is
\* not itself rolled back, whatever fails.
StartEnds == stage = "load" ~> stage \in {"running", "draining", "down"}

-----------------------------------------------------------------------------
(* Properties that do not hold *)

\* There is always a program to start (update.rs: the new binary is put in
\* place atomically).
AlwaysStartable == stage = "down" => bin # NoBinary

\* The version an update replaced can read the configuration it comes back to.
OldReadsConfig ==
  stage = "load" /\ image = good /\ files[given].kind = "unified" => Readable(files[given], image)

\* What the workers used is what the new version will find (README: configuration
\* and mappings are restored automatically).
InUseRestored == stage = "exec" => config = truth

\* Once a version runs, the backup of its update is removed.
BackupsRemoved == stage = "running" => \A p \in Pids : backups[p] = NoBinary

\* The variable is removed from the environment, which all threads share, while
\* no worker runs (update.rs: this runs before worker tasks are started).
ConfirmedAlone == [][env # NoBackup /\ env' = NoBackup /\ stage' # "down" => ~Serving]_vars
=============================================================================
