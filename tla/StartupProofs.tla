--------------------------- MODULE StartupProofs ----------------------------
(***************************************************************************)
(* Type correctness of Startup, and that the last version known to work is *)
(* never lost, for any versions, releases and files.                       *)
(***************************************************************************)
EXTENDS Startup, TLAPS

\* The files and what the process has read of them.
FilesType ==
  /\ files \in [Names -> Content] /\ config \in Roles
  /\ path \in Names /\ todo \subseteq Names /\ listed \subseteq Settings

\* The process, the program and its backups.
ProcessType ==
  /\ given \in StartPaths /\ truth \in Roles /\ lost \in BOOLEAN
  /\ stage \in Stages /\ image \in Versions /\ pid \in Pids
  /\ env \in Pids \cup {NoBackup} /\ pending \in Versions \cup {NoUpdate}
  /\ bin \in Versions \cup {NoBinary} /\ backups \in [Pids -> Versions \cup {NoBinary}]
  /\ good \in Versions

\* What is in the program's file while a process runs: its own version, unless
\* the file is between two renames.
BinInv ==
  /\ stage \in {"load", "migrate", "remove", "loaded", "gate", "running", "draining"} =>
       bin = image
  /\ stage \in {"swap", "undo", "restore"} => bin = NoBinary
  /\ stage \in {"swap", "exec"} => pending \in Versions
  /\ stage = "exec" => bin = pending
  /\ stage = "reexec" => bin \in Versions

\* Whoever may remove the program's file has the last good version in a backup.
BackupInv ==
  stage \in {"swap", "exec", "undo"} \/ (env # NoBackup /\ stage # "reexec") =>
    \E p \in Pids : backups[p] = good

\* The backup of the update in progress, or just made, is there, under this
\* process's id.
NameInv ==
  /\ env # NoBackup =>
       /\ env = pid
       /\ stage \notin {"down", "running", "swap", "exec", "undo"}
       /\ stage # "reexec" => backups[env] # NoBinary
  /\ stage \in {"swap", "exec", "undo"} => backups[pid] # NoBinary
  /\ stage \in {"restore", "reexec"} => env # NoBackup

ProcessInv == ProcessType /\ BinInv /\ BackupInv /\ NameInv /\ GoodKept

IInv == FilesType /\ ProcessInv

-----------------------------------------------------------------------------
(* The files *)

\* A unified file holds sections, a former one settings.
LEMMA ContentTyped ==
  ASSUME NEW c \in Content
  PROVE  /\ c.kind = "unified" => c.roles \in Roles /\ c.by \in Versions
         /\ c.kind \in {"legacy", "empty"} => SectionOf(c) \in Settings \cup {Default}
  BY DEF Content, SectionOf, Absent, Empty, Bad

LEMMA MadeTyped ==
  /\ \A r \in Roles, v \in Versions : Unified(r, v) \in Content
  /\ Absent \in Content
  /\ NoRoles \in Roles /\ DefaultNode \in Roles
  BY DEF Unified, Content, Absent, NoRoles, DefaultNode, Roles, RoleNames, Default

\* Former files merge into a configuration.
LEMMA MergedTyped ==
  ASSUME files \in [Names -> Content], NEW S \in SUBSET Names,
         \A n \in S : files[n].kind \in {"legacy", "empty"}
  PROVE  Merged(S) \in Roles
<1> SUFFICES ASSUME NEW r \in RoleNames, \E n \in S : RoleOf(n) = r
             PROVE  SectionOf(files[CHOOSE n \in S : RoleOf(n) = r]) \in Settings \cup {Default}
  BY DEF Merged, Roles
<1> DEFINE m == CHOOSE n \in S : RoleOf(n) = r
<1>1. m \in S
  OBVIOUS
<1>2. files[m] \in Content /\ files[m].kind \in {"legacy", "empty"}
  BY <1>1
<1> QED
  BY <1>2, ContentTyped

\* Every step on the files keeps their type.
LEMMA FilesKept ==
  ASSUME FilesType, given \in Names, image \in Versions,
         \/ LoadDefault(given) \/ LoadUnified(given, image) \/ LoadLegacy(given)
         \/ Save(image)
         \/ \E n \in todo : RemoveLegacy(n)
         \/ \E a \in Settings : SetAccess(a)
         \/ \E l \in listed : SaveAccess(l, image) \/ SaveLost(l)
         \/ Forget
         \/ UNCHANGED configVars
  PROVE  FilesType'
<1> USE DEF FilesType
<1>1. CASE LoadDefault(given)
  BY <1>1, MadeTyped DEF LoadDefault
<1>2. CASE LoadUnified(given, image)
  BY <1>2, ContentTyped DEF LoadUnified, Reads, Readable
<1>3. CASE LoadLegacy(given)
  <2>1. Takes(given) \in SUBSET Names /\ Target(given) \in Names
    BY DEF Takes, Target, Siblings, Names
  <2>2. Merged(Takes(given)) \in Roles
    BY <1>3, <2>1, MergedTyped DEF LoadLegacy, Migrates
  <2> QED
    BY <1>3, <2>1, <2>2 DEF LoadLegacy
<1>4. CASE Save(image)
  BY <1>4, MadeTyped DEF Save
<1>5. CASE \E n \in todo : RemoveLegacy(n)
  BY <1>5, MadeTyped DEF RemoveLegacy
<1>6. CASE \E a \in Settings : SetAccess(a)
  <2>1. PICK a \in Settings : SetAccess(a)
    BY <1>6
  <2>2. [config EXCEPT !["access"] = a] \in Roles
    BY DEF Roles, RoleNames
  <2> QED
    BY <2>1, <2>2 DEF SetAccess
<1>9. ASSUME NEW l \in listed, SaveAccess(l, image) PROVE FilesType'
  <2>1. files[path].roles \in Roles
    BY <1>9, ContentTyped DEF SaveAccess, Reads, Readable
  <2>2. [files[path].roles EXCEPT !["access"] = l] \in Roles
    BY <2>1 DEF Roles, RoleNames
  <2> QED
    BY <1>9, <2>2, MadeTyped DEF SaveAccess
<1>10. ASSUME NEW l \in listed, SaveLost(l) PROVE FilesType'
  BY <1>10 DEF SaveLost
<1>7. CASE Forget
  BY <1>7, MadeTyped DEF Forget
<1>8. CASE UNCHANGED configVars
  BY <1>8 DEF configVars
<1> QED
  BY <1>1, <1>2, <1>3, <1>4, <1>5, <1>6, <1>7, <1>8, <1>9, <1>10

-----------------------------------------------------------------------------
(* The process and the program *)

LEMMA StagesDistinct ==
  ASSUME ProcessInv
  PROVE  good # NoBinary /\ NoBackup \notin Pids /\ NoUpdate \notin Versions
  BY StartupAssumption DEF ProcessInv, ProcessType

LEMMA InitHolds == Init => IInv
<1> SUFFICES ASSUME Init PROVE IInv
  OBVIOUS
<1> USE StartupAssumption DEF Init
<1>1. files \in [Names -> Content]
  OBVIOUS
<1>2. Found(files) \in Roles
  <2> SUFFICES ASSUME NEW r \in RoleNames
               PROVE  Found(files)[r] \in Settings \cup {Default, NoRole}
    BY DEF Found, Roles
  <2>1. CASE files["unified"].kind = "unified"
    <3>1. files["unified"].roles \in Roles
      BY <1>1, <2>1, ContentTyped DEF Names
    <3> QED
      BY <2>1, <3>1 DEF Found, Roles
  <2>2. CASE files["unified"].kind # "unified"
    <3> DEFINE n == IF r = "expose" THEN "server" ELSE "client"
    <3>1. files[n] \in Content
      BY <1>1 DEF Names
    <3>2. files[n].kind = "legacy" => files[n].data \in Settings
      <4>1. files[n].kind = "legacy" => SectionOf(files[n]) \in Settings \cup {Default}
        BY <3>1, ContentTyped
      <4> QED
        BY <3>1 DEF Content, Absent, Empty, Bad
    <3> QED
      BY <2>2, <3>2 DEF Found
  <2> QED
    BY <2>1, <2>2
<1>3. FilesType
  BY <1>1, MadeTyped DEF FilesType
<1>4. ProcessInv
  BY <1>2 DEF ProcessInv, ProcessType, BinInv, BackupInv, NameInv, GoodKept, Stages
<1> QED
  BY <1>3, <1>4 DEF IInv

\* The process ends, in whatever stage it is.
LEMMA EndsKeeps ==
  ASSUME ProcessInv, Ends
  PROVE  ProcessInv'
  BY DEF ProcessInv, ProcessType, BinInv, BackupInv, NameInv, GoodKept, Stages, Ends,
         binaryVars, history

\* The stage changes, the program does not.
LEMMA GotoKeeps ==
  ASSUME ProcessInv, NEW next \in {"migrate", "remove", "loaded", "gate", "draining", "failed"},
         Goto(next), UNCHANGED <<given, bin, backups, good>>, truth' \in Roles, lost' \in BOOLEAN,
         stage # "reexec",
         next # "failed" =>
           stage \in {"load", "migrate", "remove", "loaded", "gate", "running", "draining"}
  PROVE  ProcessInv'
  BY DEF ProcessInv, ProcessType, BinInv, BackupInv, NameInv, GoodKept, Goto, Stages

LEMMA StillKeeps ==
  ASSUME ProcessInv, UNCHANGED <<given, processVars, binaryVars, good>>, truth' \in Roles,
         lost' \in BOOLEAN
  PROVE  ProcessInv'
  BY DEF ProcessInv, ProcessType, BinInv, BackupInv, NameInv, GoodKept, processVars, binaryVars

\* The first rename needs a free name and leaves the running version there.
LEMMA BackUpKeeps ==
  ASSUME ProcessInv, BackUp
  PROVE  ProcessInv'
<1> USE DEF ProcessInv
<1>1. CASE /\ backups[pid] = NoBinary
           /\ backups' = [backups EXCEPT ![pid] = bin] /\ bin' = NoBinary
           /\ Goto("swap")
  <2>1. env = NoBackup /\ bin = image
    BY <1>1 DEF BackUp, NameInv, BinInv
  <2>2. \E p \in Pids : backups'[p] = good
    <3>1. CASE good = bin
      BY <1>1, <3>1 DEF ProcessType
    <3>2. CASE \E p \in Pids : backups[p] = good
      BY <1>1, <3>2, StagesDistinct DEF ProcessType
    <3> QED
      BY <3>1, <3>2 DEF GoodKept
  <2>3. ProcessType'
    BY <1>1 DEF BackUp, ProcessType, Goto, Stages, history
  <2>4. good' = good /\ stage' = "swap" /\ env' = NoBackup /\ pid' = pid
    BY <1>1, <2>1 DEF BackUp, Goto, history
  <2>5. BinInv' /\ NameInv'
    BY <1>1, <2>1, <2>4, StartupAssumption DEF BackUp, ProcessType, BinInv, NameInv, Goto
  <2> QED
    BY <2>2, <2>3, <2>4, <2>5 DEF BackupInv, GoodKept
<1>2. CASE Goto("failed") /\ UNCHANGED binaryVars
  BY <1>2, GotoKeeps DEF BackUp, binaryVars, history, ProcessType
<1> QED
  BY <1>1, <1>2 DEF BackUp

\* exec hands the program over, with the last good version in a backup.
LEMMA ExecKeeps ==
  ASSUME ProcessInv, Exec
  PROVE  ProcessInv'
<1> USE DEF ProcessInv, Exec, history
<1>1. env = NoBackup /\ bin = pending /\ pending \in Versions /\ backups[pid] # NoBinary
  BY DEF NameInv, BinInv
<1>2. PICK p \in Pids : backups[p] = good
  BY DEF BackupInv
<1>3. backups' = backups /\ good' = good /\ pid' = pid /\ given' = given
      /\ truth' = truth /\ lost' = lost
  BY DEF Goto
<1>4. CASE stage' = "load" /\ image' = bin /\ env' = pid /\ pending' = NoUpdate /\ bin' = bin
  BY <1>1, <1>2, <1>3, <1>4
     DEF ProcessType, BinInv, BackupInv, NameInv, GoodKept, Stages
<1>5. CASE Goto("undo") /\ bin' = NoBinary
  BY <1>1, <1>2, <1>3, <1>5
     DEF ProcessType, BinInv, BackupInv, NameInv, GoodKept, Stages, Goto
<1>6. CASE Goto("failed") /\ bin' = bin
  BY <1>3, <1>6, GotoKeeps DEF ProcessType
<1> QED
  BY <1>4, <1>5, <1>6

\* A backup renamed back is the program again.
LEMMA PutBackKeeps ==
  ASSUME ProcessInv, stage = "undo", PutBack("failed"), UNCHANGED <<given, history>>
  PROVE  ProcessInv'
<1> USE DEF ProcessInv, PutBack, Goto, history
<1>1. env = NoBackup /\ env' = NoBackup /\ stage' = "failed" /\ good' = good
  BY DEF NameInv
<1>2. PICK p \in Pids : backups[p] = good
  BY DEF BackupInv
<1>3. GoodKept'
  <2>1. CASE p = pid
    BY <1>1, <1>2, <2>1 DEF GoodKept
  <2>2. CASE p # pid
    BY <1>1, <1>2, <2>2 DEF GoodKept, ProcessType
  <2> QED
    BY <2>1, <2>2
<1>4. ProcessType'
  BY <1>1 DEF ProcessType, Stages
<1> QED
  BY <1>1, <1>3, <1>4 DEF BinInv, BackupInv, NameInv

LEMMA RestoreKeeps ==
  ASSUME ProcessInv, Restore
  PROVE  ProcessInv'
<1> USE DEF ProcessInv, history
<1>1. CASE Ends
  BY <1>1, EndsKeeps
<1>2. CASE ~Ends
  <2> USE <1>2 DEF Restore, Goto
  <2>1. env # NoBackup /\ env = pid /\ backups[env] # NoBinary /\ env \in Pids
    BY DEF NameInv, ProcessType
  <2>2. PICK p \in Pids : backups[p] = good
    BY <2>1 DEF BackupInv
  <2>3. /\ bin' = backups[env] /\ backups' = [backups EXCEPT ![env] = NoBinary]
        /\ stage' = "reexec" /\ UNCHANGED <<given, image, pid, env, pending, good, truth, lost>>
    OBVIOUS
  <2>4. GoodKept'
    <3>1. CASE p = env
      BY <2>2, <2>3, <3>1 DEF GoodKept
    <3>2. CASE p # env
      BY <2>2, <2>3, <3>2 DEF GoodKept, ProcessType
    <3> QED
      BY <3>1, <3>2
  <2>5. ProcessType'
    BY <2>1, <2>3 DEF ProcessType, Stages
  <2>6. bin' \in Versions
    BY <2>1, <2>3 DEF ProcessType
  <2> QED
    BY <2>1, <2>3, <2>4, <2>5, <2>6 DEF BinInv, BackupInv, NameInv
<1> QED
  BY <1>1, <1>2

\* The version that survived its gate is the one in the program's file.
LEMMA ConfirmKeeps ==
  ASSUME ProcessInv, Confirm
  PROVE  ProcessInv'
<1> USE DEF ProcessInv, Confirm, GateOver
<1>1. bin = image /\ good' = bin' /\ env' = NoBackup /\ bin' = bin
  BY DEF BinInv
<1>2. stage' \in {"running", "draining"}
  OBVIOUS
<1>3. backups' \in [Pids -> Versions \cup {NoBinary}]
  BY DEF ProcessType
<1>4. ProcessType'
  BY <1>2, <1>3 DEF ProcessType, Stages
<1> QED
  BY <1>1, <1>2, <1>4 DEF BinInv, BackupInv, NameInv, GoodKept

-----------------------------------------------------------------------------
\* Every step keeps what is known of the process and the program.
LEMMA ProcessStep ==
  ASSUME IInv, FilesType', Next
  PROVE  ProcessInv'
<1>0. ProcessInv /\ FilesType /\ given \in StartPaths /\ truth \in Roles /\ image \in Versions
      /\ lost \in BOOLEAN
  BY DEF IInv, ProcessInv, ProcessType
<1>1. CASE Start
  BY <1>0, <1>1 DEF Start, ProcessInv, ProcessType, BinInv, BackupInv, NameInv, GoodKept,
                    Stages, binaryVars, history
<1>2. CASE Crash
  BY <1>0, <1>2, EndsKeeps DEF Crash
<1>3. CASE Loads
  BY <1>0, <1>3, GotoKeeps DEF Loads, binaryVars, history
<1>4. CASE MigrateSaves
  BY <1>0, <1>4, GotoKeeps DEF MigrateSaves, SaveFails, binaryVars, history
<1>5. CASE MigrateRemoves
  <2>1. CASE UNCHANGED processVars
    BY <1>0, <1>5, <2>1, StillKeeps DEF MigrateRemoves, history
  <2>2. CASE Goto("loaded") \/ Goto("failed")
    BY <1>0, <1>5, <2>2, GotoKeeps DEF MigrateRemoves, binaryVars, history
  <2> QED
    BY <1>5, <2>1, <2>2 DEF MigrateRemoves
<1>6. CASE SaveAndSpawn
  <2>1. truth' \in Roles /\ lost' \in BOOLEAN
    BY <1>0, <1>6 DEF SaveAndSpawn, FilesType
  <2> QED
    BY <1>0, <1>6, <2>1, GotoKeeps DEF SaveAndSpawn, SaveFails, binaryVars
<1>7. CASE WorkerFails
  BY <1>0, <1>7, GotoKeeps DEF WorkerFails, binaryVars, history
<1>8. CASE Confirm
  BY <1>0, <1>8, ConfirmKeeps
<1>9. CASE ConfirmFails
  BY <1>0, <1>9, GotoKeeps DEF ConfirmFails, GateOver, binaryVars, history
<1>10. CASE GivesUp
  BY <1>0, <1>10, EndsKeeps DEF GivesUp
<1>11. CASE RollsBack
  <2>1. CASE Ends
    BY <1>0, <2>1, EndsKeeps
  <2>2. CASE bin' = NoBinary /\ Goto("restore") /\ UNCHANGED <<given, backups, history>>
    BY <1>0, <1>11, <2>2
       DEF RollsBack, CanRollBack, ProcessInv, ProcessType, BinInv, BackupInv, NameInv,
           GoodKept, Goto, Stages, history
  <2> QED
    BY <1>11, <2>1, <2>2 DEF RollsBack
<1>12. CASE Restore
  BY <1>0, <1>12, RestoreKeeps
<1>13. CASE Reexec
  BY <1>0, <1>13 DEF Reexec, ProcessInv, ProcessType, BinInv, BackupInv, NameInv, GoodKept,
                     Stages, binaryVars, history
<1>14. CASE ReexecFails
  BY <1>0, <1>14, EndsKeeps DEF ReexecFails
<1>15. CASE Exits
  BY <1>0, <1>15, EndsKeeps DEF Exits
<1>16. CASE BackUp
  BY <1>0, <1>16, BackUpKeeps
<1>17. CASE Swap
  BY <1>0, <1>17, StartupAssumption
     DEF Swap, ProcessInv, ProcessType, BinInv, BackupInv, NameInv, GoodKept, Goto, Stages, history
<1>18. CASE Undo
  <2>1. CASE PutBack("failed")
    BY <1>0, <1>18, <2>1, PutBackKeeps DEF Undo
  <2>2. CASE Goto("failed") /\ UNCHANGED binaryVars
    BY <1>0, <1>18, <2>2, GotoKeeps DEF Undo, binaryVars, history
  <2> QED
    BY <1>18, <2>1, <2>2 DEF Undo
<1>19. CASE Exec
  BY <1>0, <1>19, ExecKeeps
<1>20. CASE WebSaves
  <2>1. \A l \in listed : [truth EXCEPT !["access"] = l] \in Roles
    BY <1>0 DEF Roles, RoleNames, FilesType
  <2>2. truth' \in Roles /\ lost' \in BOOLEAN
    BY <1>0, <1>20, <2>1 DEF WebSaves
  <2> QED
    BY <1>0, <1>20, <2>2, StillKeeps DEF WebSaves
<1>21. CASE QueueLatest
  BY <1>0, <1>21, StartupAssumption DEF QueueLatest, Serving, ProcessInv, ProcessType, BinInv, BackupInv, NameInv,
                     GoodKept, Acceptable, binaryVars, history
<1>22. CASE Drains
  BY <1>0, <1>22, GotoKeeps DEF Drains, binaryVars, history
<1>23. CASE WebSets
  BY <1>0, <1>23, StillKeeps DEF WebSets, history
<1> QED
  BY <1>1, <1>2, <1>3, <1>4, <1>5, <1>6, <1>7, <1>8, <1>9, <1>10, <1>11, <1>12, <1>13, <1>14,
     <1>15, <1>16, <1>17, <1>18, <1>19, <1>20, <1>21, <1>22, <1>23 DEF Next, StartSteps, RestartSteps

\* Every step is one of those on the files, or leaves them.
LEMMA FilesStep ==
  ASSUME IInv, Next
  PROVE  FilesType'
<1>1. FilesType /\ given \in Names /\ image \in Versions
  BY StartupAssumption DEF IInv, ProcessInv, ProcessType
<1>2. \/ LoadDefault(given) \/ LoadUnified(given, image) \/ LoadLegacy(given)
      \/ Save(image)
      \/ \E n \in todo : RemoveLegacy(n)
      \/ \E a \in Settings : SetAccess(a)
      \/ \E l \in listed : SaveAccess(l, image) \/ SaveLost(l)
      \/ Forget
      \/ UNCHANGED configVars
  BY DEF Next, StartSteps, RestartSteps, Start, Crash, Ends, Loads, MigrateSaves, SaveFails,
         MigrateRemoves, SaveAndSpawn, WorkerFails, Confirm, ConfirmFails, GivesUp, RollsBack,
         Restore, Reexec, ReexecFails, Exits, BackUp, Swap, Undo, Exec, WebSets, WebSaves,
         QueueLatest, Drains
<1> QED
  BY <1>1, <1>2, FilesKept

LEMMA StepHolds ==
  ASSUME IInv, [Next]_vars
  PROVE  IInv'
<1>1. CASE Next
  BY <1>1, FilesStep, ProcessStep DEF IInv
<1>2. CASE UNCHANGED vars
  <2>1. FilesType'
    BY <1>2 DEF IInv, FilesType, vars, configVars
  <2>2. ProcessInv'
    BY <1>2, StillKeeps DEF IInv, ProcessInv, ProcessType, vars, history
  <2> QED
    BY <2>1, <2>2 DEF IInv
<1> QED
  BY <1>1, <1>2

LEMMA InvariantHolds == Spec => []IInv
  BY InitHolds, StepHolds, PTL DEF Spec

\* Every variable keeps its type, and the environment names a backup only in a
\* process that an update started and that has not confirmed it.
THEOREM StartTypeCorrect == Spec => []TypeOK
<1>1. IInv => TypeOK
  BY DEF IInv, FilesType, ProcessInv, ProcessType, NameInv, TypeOK
<1> QED
  BY <1>1, InvariantHolds, PTL

\* The last version that survived its gate is in the program's file or in a
\* backup at every moment, whatever rename or exec fails and wherever the
\* process is killed, for any releases, process ids and failing versions.
THEOREM GoodIsKept == Spec => []GoodKept
<1>1. IInv => GoodKept
  BY DEF IInv, ProcessInv
<1> QED
  BY <1>1, InvariantHolds, PTL

-----------------------------------------------------------------------------
(* The settings, of a node whose --config names the unified file *)

OnDisk == \A r \in RoleNames : truth[r] # NoRole => \E n \in Names : Holds(n, r)

\* The unified file is the configuration, or what was last saved.
SavedAs(r) == files["unified"].kind = "unified" /\ files["unified"].roles = r

Saved == SavedAs(config)

\* What a migration has read is what was set, and it removes former files only.
MigrationInv ==
  /\ path = "unified" /\ "unified" \notin todo
  /\ \A r \in RoleNames : truth[r] # NoRole => config[r] = truth[r]
  /\ stage = "remove" => Saved

\* What a loaded configuration lacks, a former file holds.
LoadedInv ==
  /\ path = "unified"
  /\ \A r \in RoleNames :
       truth[r] # NoRole => config[r] = truth[r] \/ \E n \in Names \ {"unified"} : Holds(n, r)

\* Workers use what was last saved, if no save of a request came in between.
ServingInv ==
  /\ path = "unified" /\ SavedAs(truth)
  /\ listed = {} /\ ~lost => config = truth

SettingsInv ==
  /\ OnDisk
  /\ stage \in {"migrate", "remove"} => MigrationInv
  /\ stage = "loaded" => LoadedInv
  /\ Serving => ServingInv

\* A step that leaves the files, in a process that uses no configuration after it.
LEMMA FilesLeft ==
  ASSUME SettingsInv, UNCHANGED <<files, truth>>,
         stage' \notin {"migrate", "remove", "loaded", "gate", "running", "draining"}
  PROVE  SettingsInv'
  BY DEF SettingsInv, OnDisk, Holds, Serving

\* A step of serving workers that leaves the configuration.
LEMMA ServingKept ==
  ASSUME SettingsInv, Serving, UNCHANGED <<files, config, path, listed, truth, lost>>,
         stage' \in {"gate", "running", "draining"}
  PROVE  SettingsInv'
  BY DEF SettingsInv, OnDisk, Holds, Serving, ServingInv, SavedAs

\* Saving a configuration that loses nothing.
LEMMA SaveKeepsSettings ==
  ASSUME FilesType, Save(image), path = "unified", truth' = truth,
         \A r \in RoleNames :
           truth[r] # NoRole => config[r] = truth[r] \/ \E n \in Names \ {"unified"} : Holds(n, r)
  PROVE  OnDisk' /\ Saved'
<1>1. /\ files'["unified"] = Unified(config, image) /\ config' = config
      /\ \A n \in Names \ {"unified"} : files'[n] = files[n]
  BY DEF Save, FilesType, Names
<1>2. Saved'
  BY <1>1 DEF Saved, SavedAs, Unified
<1>3. ASSUME NEW r \in RoleNames, truth[r] # NoRole
      PROVE  \E n \in Names : Holds(n, r)'
  <2>1. CASE config[r] = truth[r]
    BY <1>1, <2>1 DEF Holds, Unified, Names
  <2>2. CASE \E n \in Names \ {"unified"} : Holds(n, r)
    BY <1>1, <2>2 DEF Holds
  <2> QED
    BY <1>3, <2>1, <2>2
<1> QED
  BY <1>2, <1>3 DEF OnDisk

\* A migration reads every setting that is on disk.
LEMMA MigrationReads ==
  ASSUME FilesType, OnDisk, LoadLegacy("unified"), truth' = truth
  PROVE  /\ path' = "unified" /\ "unified" \notin todo'
         /\ \A r \in RoleNames : truth[r] # NoRole => config'[r] = truth[r]
<1> DEFINE S == Siblings
<1>1. /\ files["unified"] = Absent
      /\ \A n \in S : files[n].kind \in {"legacy", "empty"}
      /\ config' = Merged(S) /\ path' = "unified" /\ todo' = S
  BY DEF LoadLegacy, Migrates, Takes, Target
<1>2. ASSUME NEW r \in RoleNames, truth[r] # NoRole
      PROVE  Merged(S)[r] = truth[r]
  <2>1. PICK n \in Names : Holds(n, r)
    BY <1>2 DEF OnDisk
  <2>2. n \in S /\ RoleOf(n) = r /\ files[n].kind = "legacy" /\ files[n].data = truth[r]
    BY <1>1, <2>1 DEF Holds, Siblings, Absent, Names
  <2>3. \A m \in S : RoleOf(m) = r => m = n
    BY <2>2 DEF Siblings, RoleOf
  <2>4. (CHOOSE m \in S : RoleOf(m) = r) = n
    BY <2>2, <2>3
  <2> QED
    BY <2>2, <2>4 DEF Merged, SectionOf
<1> QED
  BY <1>1, <1>2 DEF Siblings

LEMMA SettingsStep ==
  ASSUME IInv, SettingsInv, StartPaths = {"unified"}, Next
  PROVE  SettingsInv'
<1>0. FilesType /\ given = "unified" /\ image \in Versions
  BY DEF IInv, ProcessInv, ProcessType
<1>1. CASE Start \/ Crash \/ WorkerFails \/ ConfirmFails \/ GivesUp \/ RollsBack \/ Restore
           \/ Reexec \/ ReexecFails \/ Exits \/ BackUp \/ Swap \/ Undo \/ Exec
  BY <1>1, FilesLeft
     DEF Start, Crash, Ends, WorkerFails, ConfirmFails, GivesUp, RollsBack, Restore, Reexec,
         ReexecFails, Exits, BackUp, Swap, Undo, PutBack, Exec, Goto, Forget, configVars, history
<1>2. CASE Confirm \/ QueueLatest \/ Drains
  BY <1>2, ServingKept DEF Confirm, GateOver, QueueLatest, Drains, Goto, Serving, configVars, history
<1>3. CASE Loads
  <2>1. CASE LoadDefault("unified") /\ Goto("loaded")
    <3>1. files["unified"].kind \in {"absent", "empty"} /\ path' = "unified" /\ files' = files
      BY <2>1 DEF LoadDefault, Fresh, Absent, Empty
    <3>2. LoadedInv'
      BY <1>3, <3>1 DEF SettingsInv, OnDisk, LoadedInv, Holds, Loads, history
    <3> QED
      BY <1>3, <2>1, <3>1, <3>2 DEF SettingsInv, OnDisk, Holds, Loads, Goto, Serving, history
  <2>2. CASE LoadUnified("unified", image) /\ Goto("loaded")
    <3>1. config' = files["unified"].roles /\ path' = "unified" /\ files' = files
          /\ files["unified"].kind = "unified"
      BY <2>2 DEF LoadUnified, Reads, Readable
    <3>2. LoadedInv'
      BY <1>3, <3>1 DEF SettingsInv, OnDisk, LoadedInv, Holds, Loads, history
    <3> QED
      BY <1>3, <2>2, <3>1, <3>2 DEF SettingsInv, OnDisk, Holds, Loads, Goto, Serving, history
  <2>3. CASE LoadLegacy("unified") /\ Goto("migrate")
    <3>1. truth' = truth /\ files' = files /\ stage' = "migrate"
      BY <1>3, <2>3 DEF Loads, LoadLegacy, Goto, history
    <3>2. MigrationInv'
      BY <1>0, <2>3, <3>1, MigrationReads DEF SettingsInv, MigrationInv
    <3> QED
      BY <3>1, <3>2 DEF SettingsInv, OnDisk, Holds, Serving
  <2>4. CASE Goto("failed") /\ UNCHANGED configVars
    BY <1>3, <2>4, FilesLeft DEF Loads, Goto, configVars, history
  <2> QED
    BY <1>0, <1>3, <2>1, <2>2, <2>3, <2>4 DEF Loads
<1>4. CASE MigrateSaves
  <2>1. MigrationInv /\ truth' = truth
    BY <1>4 DEF MigrateSaves, SettingsInv, history
  <2>2. CASE Save(image)
    <3>1. OnDisk' /\ Saved' /\ UNCHANGED <<config, path, todo>>
      BY <1>0, <2>1, <2>2, SaveKeepsSettings DEF MigrationInv, Save
    <3>2. stage' \in {"remove", "failed"}
      BY <1>4 DEF MigrateSaves, SaveFails, Goto
    <3> QED
      BY <2>1, <3>1, <3>2 DEF SettingsInv, MigrationInv, Serving
  <2>3. CASE Goto("failed") /\ UNCHANGED configVars
    BY <2>1, <2>3, FilesLeft DEF Goto, configVars
  <2> QED
    BY <1>4, <2>2, <2>3 DEF MigrateSaves, SaveFails
<1>5. CASE MigrateRemoves
  <2>1. stage = "remove" /\ MigrationInv /\ Saved /\ truth' = truth
    BY <1>5 DEF MigrateRemoves, SettingsInv, MigrationInv, history
  <2>2. CASE UNCHANGED processVars /\ \E n \in todo : RemoveLegacy(n)
    <3>1. PICK n \in todo : RemoveLegacy(n)
      BY <2>2
    <3>2. /\ files'["unified"] = files["unified"] /\ config' = config /\ path' = path
          /\ todo' = todo \ {n} /\ stage' = "remove"
      BY <1>0, <2>1, <2>2, <3>1 DEF RemoveLegacy, FilesType, MigrationInv, processVars, Names
    <3>3. MigrationInv' /\ Saved'
      BY <2>1, <3>2 DEF MigrationInv, Saved, SavedAs
    <3>4. OnDisk'
      BY <2>1, <3>3 DEF OnDisk, Holds, Saved, SavedAs, MigrationInv, Names
    <3> QED
      BY <3>2, <3>3, <3>4 DEF SettingsInv, Serving
  <2>3. CASE Goto("loaded") /\ UNCHANGED configVars
    BY <2>1, <2>3
       DEF SettingsInv, OnDisk, Holds, MigrationInv, LoadedInv, Goto, Serving, configVars
  <2>4. CASE Goto("failed") /\ UNCHANGED configVars
    BY <2>1, <2>4, FilesLeft DEF Goto, configVars
  <2> QED
    BY <1>5, <2>2, <2>3, <2>4 DEF MigrateRemoves
<1>6. CASE SaveAndSpawn
  <2>1. LoadedInv
    BY <1>6 DEF SaveAndSpawn, SettingsInv
  <2>2. CASE Save(image) /\ Goto("gate") /\ truth' = config
    <3>1. files'["unified"] = Unified(config, image) /\ config' = config /\ path' = path
      BY <1>0, <2>1, <2>2 DEF Save, FilesType, LoadedInv, Names
    <3>2. OnDisk' /\ SavedAs(truth)'
      BY <2>2, <3>1 DEF OnDisk, Holds, SavedAs, Unified, Names
    <3> QED
      BY <2>1, <2>2, <3>1, <3>2 DEF SettingsInv, LoadedInv, Serving, ServingInv, Goto
  <2>3. CASE Save(image) /\ Goto("failed") /\ truth' = truth
    <3>1. OnDisk'
      BY <1>0, <2>1, <2>3, SaveKeepsSettings DEF LoadedInv
    <3> QED
      BY <2>3, <3>1 DEF SettingsInv, Serving, Goto
  <2>4. CASE Goto("failed") /\ UNCHANGED configVars /\ truth' = truth
    BY <2>4, FilesLeft DEF Goto, configVars
  <2> QED
    BY <1>6, <2>2, <2>3, <2>4 DEF SaveAndSpawn, SaveFails
<1>7. CASE WebSets
  <2>1. PICK a \in Settings : SetAccess(a)
    BY <1>7 DEF WebSets
  <2>2. /\ listed' # {}
        /\ UNCHANGED <<files, path, truth, lost, stage>>
    BY <1>7, <2>1 DEF WebSets, SetAccess, processVars, history
  <2>3. path = "unified" /\ SavedAs(truth) /\ OnDisk /\ Serving
    BY <1>7 DEF WebSets, SettingsInv, ServingInv
  <2>4. OnDisk'
    BY <2>2, <2>3 DEF OnDisk, Holds
  <2>5. ServingInv'
    BY <2>2, <2>3 DEF ServingInv, SavedAs
  <2> QED
    BY <2>2, <2>3, <2>4, <2>5 DEF SettingsInv, Serving
<1>8. CASE WebSaves
  <2>1. path = "unified" /\ SavedAs(truth) /\ stage' = stage /\ Serving
    BY <1>8 DEF WebSaves, SettingsInv, ServingInv, processVars
  <2>2. PICK l \in listed : \/ SaveAccess(l, image) /\ truth' = [truth EXCEPT !["access"] = l]
                           \/ /\ MayFail \/ ~Reads(path, image)
                              /\ SaveLost(l)
                              /\ UNCHANGED truth
    BY <1>8 DEF WebSaves
  <2>6. lost' = (truth' # config)
    BY <1>8 DEF WebSaves
  <2>3. config' = config /\ path' = path /\ SavedAs(truth)'
    <3>1. CASE SaveLost(l) /\ UNCHANGED truth
      BY <2>1, <3>1 DEF SaveLost, SavedAs
    <3>2. CASE SaveAccess(l, image) /\ truth' = [truth EXCEPT !["access"] = l]
      <4>1. files'["unified"] = Unified([files["unified"].roles EXCEPT !["access"] = l], image)
        BY <1>0, <2>1, <3>2 DEF SaveAccess, FilesType, Names
      <4> QED
        <5>1. files["unified"].roles = truth
          BY <2>1 DEF SavedAs
        <5>2. files'["unified"] = Unified(truth', image)
          BY <3>2, <4>1, <5>1
        <5>3. SavedAs(truth)'
          BY <5>2 DEF SavedAs, Unified
        <5> QED
          BY <3>2, <5>3 DEF SaveAccess
    <3> QED
      BY <2>2, <3>1, <3>2
  <2>4. OnDisk'
    BY <2>3 DEF OnDisk, Holds, SavedAs, Names
  <2>5. ServingInv'
    BY <2>1, <2>3, <2>6 DEF ServingInv
  <2> QED
    BY <2>1, <2>4, <2>5 DEF SettingsInv, Serving
<1> QED
  BY <1>1, <1>2, <1>3, <1>4, <1>5, <1>6, <1>7, <1>8 DEF Next, StartSteps, RestartSteps

LEMMA SettingsInit == Init => SettingsInv
<1> SUFFICES ASSUME Init PROVE OnDisk
  BY DEF Init, SettingsInv, Serving
<1> SUFFICES ASSUME NEW r \in RoleNames, Found(files)[r] # NoRole
             PROVE  \E n \in Names : Holds(n, r)
  BY DEF OnDisk, Init
<1>1. truth = Found(files)
  BY DEF Init
<1>2. CASE files["unified"].kind = "unified"
  BY <1>1, <1>2 DEF Found, Holds, Names
<1>3. CASE files["unified"].kind # "unified"
  <2> DEFINE n == IF r = "expose" THEN "server" ELSE "client"
  <2>1. files[n].kind = "legacy" /\ truth[r] = files[n].data
    BY <1>1, <1>3 DEF Found
  <2>2. n \in Names /\ RoleOf(n) = r
    BY DEF Names, RoleOf, RoleNames
  <2> QED
    BY <2>1, <2>2 DEF Holds
<1> QED
  BY <1>2, <1>3

\* A node that is started with its own file has what was last saved on disk at
\* every moment of a migration, an update or a rollback, whatever fails or is
\* killed; a start takes it over whole, and the workers use it unless a request
\* is still saving or its save failed or was outdated by another's.
THEOREM SettingsAreKept ==
  ASSUME StartPaths = {"unified"}
  PROVE  Spec => []SettingsKept
<1>1. IInv /\ SettingsInv /\ [Next]_vars => SettingsInv'
  <2>1. CASE UNCHANGED vars
    BY <2>1 DEF SettingsInv, OnDisk, Holds, MigrationInv, LoadedInv, Saved, SavedAs,
                ServingInv, Serving, vars,
                configVars, processVars, history
  <2> QED
    BY <2>1, SettingsStep
<1>2. SettingsInv => SettingsKept
  BY DEF SettingsInv, ServingInv, SettingsKept, OnDisk
<1> QED
  BY <1>1, <1>2, SettingsInit, InvariantHolds, PTL DEF Spec
=============================================================================
