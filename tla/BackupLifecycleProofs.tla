------------------------ MODULE BackupLifecycleProofs ------------------------
(***************************************************************************)
(* Proofs about BackupLifecycle, for every set of faults: its invariants   *)
(* hold whenever a step fails, the clean-up breaks off or a signal comes.  *)
(***************************************************************************)
EXTENDS BackupLifecycle, TLAPS

-----------------------------------------------------------------------------
(* The inductive invariant                                                 *)

Torn == {"final", "lastWait", "cleanup", "exit"}
Past == {"files", "history", "unlock", "done", "over"}
Starting == {"oids", "pipes", "mutex", "check", "start"}

\* TypeOK in three parts.
ControlTypes ==
  /\ mainPc \in {"lockFile", "pool", "fpInfo", "directories", "report",
                 "tables", "insert", "metadata", "data", "oids", "pipes",
                 "mutex", "check", "start", "copy", "finish", "recover",
                 "firstWait", "writeConfig", "upload", "final", "lastWait",
                 "cleanup", "exit", "parked"}
  /\ cleanupPc \in [Cleaners -> {"idle", "cancel", "sessions", "helpers",
                                 "files", "history", "unlock", "done", "over"}]
FlagTypes ==
  /\ wasTerminated \in BOOLEAN
  /\ cleanupCount \in {0, 1}
  /\ helperMutex \in {"free", "main"}
  /\ singleDataFile \in BOOLEAN
  /\ setUp \in SUBSET Globals
  /\ backupFailed \in BOOLEAN
  /\ errorCode \in {0, 1, 2}
  /\ exitCode \in {NotExited, 0, 1, 2}
ResultTypes ==
  /\ history \in {"none", "In Progress", "Success", "Failure"}
  /\ config \in {"none", "Success", "Failure"}
  /\ lockFile \in BOOLEAN
  /\ helper \in BOOLEAN
  /\ helperMissed \in BOOLEAN
  /\ files \in SUBSET {"oid", "pipe"}
  /\ dataDone \in BOOLEAN
  /\ lockWait \in BOOLEAN
  /\ poolClosed \in BOOLEAN
  /\ cleanupBroken \in BOOLEAN

\* TypeOK is its three parts.
LEMMA TypeParts == TypeOK <=> ControlTypes /\ FlagTypes /\ ResultTypes
BY DEF TypeOK, ControlTypes, FlagTypes, ResultTypes

\* The same in the next state.
LEMMA TypePartsNext == TypeOK' <=> ControlTypes' /\ FlagTypes' /\ ResultTypes'
BY DEF TypeOK, ControlTypes, FlagTypes, ResultTypes

\* A goroutine is in DoCleanup only where it may be, and a process leaves
\* DoTeardown only behind a DoCleanup that is through.
CleanerInv ==
  /\ cleanupPc["main"] # "idle" => mainPc \in {"cleanup", "exit"}
  /\ cleanupPc["handler"] # "idle" => wasTerminated
  /\ cleanupCount = 0 => \E c \in Cleaners : cleanupPc[c] = "over"
  /\ mainPc \in {"firstWait", "lastWait"} => wasTerminated
  /\ mainPc = "exit" =>
       /\ cleanupPc["main"] = "over" \/ cleanupPc["handler"] = "over"
       /\ cleanupPc["main"] = "over" \/ wasTerminated

\* What is not recorded as failed has copied all tables, and nothing is called
\* a success before.
StatusInv ==
  /\ mainPc \in {"finish", "recover"} => dataDone \/ backupFailed \/ wasTerminated
  /\ mainPc \in Torn \cup {"writeConfig", "upload"} => dataDone \/ backupFailed
  /\ mainPc \notin Torn \cup {"upload"} => config # "Success"
  /\ mainPc \notin {"cleanup", "exit"} => history # "Success"

\* Helpers need --single-data-file and a timestamp, and are started under the
\* mutex; once a DoCleanup has been past them there are none but such as it
\* overlooked, and none to come.
HelperInv ==
  /\ helperMutex = "main" <=> mainPc \in {"check", "start"}
  /\ mainPc \in Starting => singleDataFile
  /\ mainPc \in Starting \cup {"directories", "report", "tables", "insert",
                               "metadata", "data", "copy"} => "fpInfo" \in setUp
  /\ helper \/ files # {} => UsesHelpers
  /\ \A c \in Cleaners :
       cleanupPc[c] \in Past /\ ~cleanupBroken =>
         (helper => helperMissed) /\ mainPc # "start"
  /\ ~Running => \E c \in Cleaners : cleanupPc[c] \in {"done", "over"}

\* Nothing has gone wrong and nothing has interrupted the process so far.
Clean == errorCode = 0 /\ ~wasTerminated

\* The globals that exist when main is past the steps that set them up.
SetUpInv ==
  /\ mainPc \notin {"lockFile", "pool"} => "pool" \in setUp
  /\ mainPc \notin {"lockFile", "pool", "fpInfo"} => "fpInfo" \in setUp
  /\ mainPc \notin {"lockFile", "pool", "fpInfo", "directories"} =>
       "directories" \in setUp
  /\ mainPc \notin {"lockFile", "pool", "fpInfo", "directories", "report"} =>
       "report" \in setUp

\* How far an undisturbed backup is at each point.
CleanInv ==
  Clean =>
    /\ ~backupFailed
    /\ SetUpInv
    /\ mainPc \notin {"lockFile", "pool", "fpInfo", "directories", "report",
                      "tables", "insert"} => history # "none"
    /\ mainPc \in Torn \cup {"upload"} => config = "Success"
    /\ ~cleanupBroken
    /\ cleanupPc["main"] \in Past \ {"files"} => files = {}
    /\ cleanupPc["main"] \in {"unlock", "done", "over"} => history = "Success"
    /\ cleanupPc["main"] \in {"done", "over"} => ~lockFile

\* The exit code is that of the error code, unless the process was interrupted.
ExitInv ==
  ~Running => wasTerminated \/ (exitCode = errorCode /\ cleanupPc["main"] = "over")

IInv == /\ TypeOK /\ CleanerInv /\ StatusInv /\ HelperInv /\ CleanInv /\ ExitInv
        /\ SuccessIsReal

-----------------------------------------------------------------------------
(* The steps                                                               *)

\* What is not main's or a DoCleanup's step.
Environment ==
  \/ HelperEnds \/ LockTablesBlocks \/ LockTablesGranted
  \/ Signal \/ HandlerExits \/ Over

\* A step is main's, a DoCleanup's, the environment's, or a stutter.
LEMMA Steps ==
  ASSUME [Next]_vars
  PROVE  \/ Body \/ Teardown \/ Environment
         \/ \E c \in Cleaners : Cleanup(c)
         \/ UNCHANGED vars
BY DEF Next, Environment

\* Where main stands before and after each step of DoSetup.
LEMMA SetUpSteps ==
  ASSUME NEW g \in Globals, SetUp(g)
  PROVE  \/ g = "pool" /\ mainPc = "pool" /\ mainPc' = "fpInfo"
         \/ g = "fpInfo" /\ mainPc = "fpInfo" /\ mainPc' = "directories"
         \/ g = "directories" /\ mainPc = "directories" /\ mainPc' = "report"
         \/ g = "report" /\ mainPc = "report" /\ mainPc' = "tables"
BY DEF SetUp, Go, AfterSetup, Globals

\* After a failure there is no clean backup to speak of.
LEMMA FailureNotClean ==
  ASSUME StepFails \/ LockTablesFails \/ \E c \in Cleaners : CleanupPanics(c)
  PROVE  CleanInv'
<1> SUFFICES ASSUME Clean'
             PROVE  FALSE
  BY DEF CleanInv
<1> QED
  BY DEF Clean, StepFails, LockTablesFails, CleanupPanics, flagVars, failVars

\* Main and the DoCleanups stand only at known places.
LEMMA ControlTypesStep ==
  ASSUME ControlTypes, [Next]_vars
  PROVE  ControlTypes'
<1> USE DEF ControlTypes, Cleaners, Go, GoCleanup, Running, resultVars,
   segmentVars, cleanVars, flagVars, failVars
<1>1. CASE Body
  <2>1. CASE CreateLockFile
    BY <2>1 DEF CreateLockFile
  <2>2. ASSUME NEW g \in Globals, SetUp(g)
        PROVE  ControlTypes'
    BY <2>2, SetUpSteps DEF SetUp, Globals
  <2>3. CASE LockTables
    BY <2>3 DEF LockTables
  <2>4. CASE LockTablesFails
    BY <2>4 DEF LockTablesFails
  <2>5. CASE StoreBackupHistory
    BY <2>5 DEF StoreBackupHistory
  <2>6. CASE BackupMetadata
    BY <2>6 DEF BackupMetadata
  <2>7. CASE BackupData
    BY <2>7 DEF BackupData
  <2>8. CASE WriteOidListToSegments
    BY <2>8 DEF WriteOidListToSegments
  <2>9. CASE CreateInitialSegmentPipes
    BY <2>9 DEF CreateInitialSegmentPipes
  <2>10. CASE LockHelperMutex
    BY <2>10 DEF LockHelperMutex
  <2>11. CASE ParkInsteadOfStart
    BY <2>11 DEF ParkInsteadOfStart
  <2>12. CASE MayStart
    BY <2>12 DEF MayStart
  <2>13. CASE StartGpbackupHelpers
    BY <2>13 DEF StartGpbackupHelpers
  <2>14. CASE CopyData
    BY <2>14 DEF CopyData
  <2>15. CASE CopyDataParks
    BY <2>15 DEF CopyDataParks
  <2>16. CASE FinishBackup
    BY <2>16 DEF FinishBackup
  <2>17. CASE StepFails
    BY <2>17 DEF StepFails, BodySteps
  <2> QED
    BY <1>1, <2>1, <2>2, <2>3, <2>4, <2>5, <2>6, <2>7, <2>8, <2>9, <2>10,
       <2>11, <2>12, <2>13, <2>14, <2>15, <2>16, <2>17 DEF Body
<1>2. CASE Teardown
  BY <1>2 DEF Teardown, TeardownChecks, FirstWait, WriteConfigFile,
     UploadReports, FinalChecks, LastWait, CleanupReturns, Exit, LogError
<1>3. CASE Environment
  BY <1>3 DEF Environment, HelperEnds, LockTablesBlocks, LockTablesGranted,
     Signal, HandlerExits, Over, vars
<1>4. ASSUME NEW c \in Cleaners, Cleanup(c)
      PROVE  ControlTypes'
  BY <1>4 DEF Cleanup, CleanupSteps, CleanupFaults, CancelBlockedQueries,
     TerminateHangingCopySessions, CleanUpSegmentHelperProcesses,
     HelperOverlooked, CleanUpHelperFiles, HelperFilesFail, UpdateHistory,
     UpdateFails, UpdateWithoutReport, Unlock, CleanupPanics, CleanupDone,
     CleanupDoneTwice, LogError
<1>5. CASE UNCHANGED vars
  BY <1>5 DEF vars
<1> QED
  BY <1>1, <1>2, <1>3, <1>4, <1>5, Steps

\* The flags and codes keep their types.
LEMMA FlagTypesStep ==
  ASSUME ControlTypes, FlagTypes, [Next]_vars
  PROVE  FlagTypes'
<1> USE DEF ControlTypes, FlagTypes, Globals, Cleaners, Go, GoCleanup, Running,
   resultVars, segmentVars, cleanVars, flagVars, failVars
<1>1. CASE Body
  <2>1. CASE CreateLockFile
    BY <2>1 DEF CreateLockFile
  <2>2. ASSUME NEW g \in Globals, SetUp(g)
        PROVE  FlagTypes'
    BY <2>2, SetUpSteps DEF SetUp, Globals
  <2>3. CASE LockTables
    BY <2>3 DEF LockTables
  <2>4. CASE LockTablesFails
    BY <2>4 DEF LockTablesFails
  <2>5. CASE StoreBackupHistory
    BY <2>5 DEF StoreBackupHistory
  <2>6. CASE BackupMetadata
    BY <2>6 DEF BackupMetadata
  <2>7. CASE BackupData
    BY <2>7 DEF BackupData
  <2>8. CASE WriteOidListToSegments
    BY <2>8 DEF WriteOidListToSegments
  <2>9. CASE CreateInitialSegmentPipes
    BY <2>9 DEF CreateInitialSegmentPipes
  <2>10. CASE LockHelperMutex
    BY <2>10 DEF LockHelperMutex
  <2>11. CASE ParkInsteadOfStart
    BY <2>11 DEF ParkInsteadOfStart
  <2>12. CASE MayStart
    BY <2>12 DEF MayStart
  <2>13. CASE StartGpbackupHelpers
    BY <2>13 DEF StartGpbackupHelpers
  <2>14. CASE CopyData
    BY <2>14 DEF CopyData
  <2>15. CASE CopyDataParks
    BY <2>15 DEF CopyDataParks
  <2>16. CASE FinishBackup
    BY <2>16 DEF FinishBackup
  <2>17. CASE StepFails
    BY <2>17 DEF StepFails, BodySteps
  <2> QED
    BY <1>1, <2>1, <2>2, <2>3, <2>4, <2>5, <2>6, <2>7, <2>8, <2>9, <2>10,
       <2>11, <2>12, <2>13, <2>14, <2>15, <2>16, <2>17 DEF Body
<1>2. CASE Teardown
  BY <1>2 DEF Teardown, TeardownChecks, FirstWait, WriteConfigFile,
     UploadReports, FinalChecks, LastWait, CleanupReturns, Exit, LogError
<1>3. CASE Environment
  BY <1>3, ZenonT(60) DEF Environment, HelperEnds, LockTablesBlocks, LockTablesGranted,
     Signal, HandlerExits, Over, vars
<1>4. ASSUME NEW c \in Cleaners, Cleanup(c)
      PROVE  FlagTypes'
  BY <1>4, ZenonT(60) DEF Cleanup, CleanupSteps, CleanupFaults, CancelBlockedQueries,
     TerminateHangingCopySessions, CleanUpSegmentHelperProcesses,
     HelperOverlooked, CleanUpHelperFiles, HelperFilesFail, UpdateHistory,
     UpdateFails, UpdateWithoutReport, Unlock, CleanupPanics, CleanupDone,
     CleanupDoneTwice, LogError
<1>5. CASE UNCHANGED vars
  BY <1>5 DEF vars
<1> QED
  BY <1>1, <1>2, <1>3, <1>4, <1>5, Steps

\* What a backup leaves behind keeps its type.
LEMMA ResultTypesStep ==
  ASSUME ControlTypes, FlagTypes, ResultTypes, [Next]_vars
  PROVE  ResultTypes'
<1> USE DEF ControlTypes, FlagTypes, ResultTypes, Cleaners, Go, GoCleanup,
   Running, resultVars, segmentVars, cleanVars, flagVars, failVars
<1>1. CASE Body
  <2>1. CASE CreateLockFile
    BY <2>1 DEF CreateLockFile
  <2>2. ASSUME NEW g \in Globals, SetUp(g)
        PROVE  ResultTypes'
    BY <2>2, SetUpSteps DEF SetUp, Globals
  <2>3. CASE LockTables
    BY <2>3 DEF LockTables
  <2>4. CASE LockTablesFails
    BY <2>4 DEF LockTablesFails
  <2>5. CASE StoreBackupHistory
    BY <2>5 DEF StoreBackupHistory
  <2>6. CASE BackupMetadata
    BY <2>6 DEF BackupMetadata
  <2>7. CASE BackupData
    BY <2>7 DEF BackupData
  <2>8. CASE WriteOidListToSegments
    BY <2>8 DEF WriteOidListToSegments
  <2>9. CASE CreateInitialSegmentPipes
    BY <2>9 DEF CreateInitialSegmentPipes
  <2>10. CASE LockHelperMutex
    BY <2>10 DEF LockHelperMutex
  <2>11. CASE ParkInsteadOfStart
    BY <2>11 DEF ParkInsteadOfStart
  <2>12. CASE MayStart
    BY <2>12 DEF MayStart
  <2>13. CASE StartGpbackupHelpers
    BY <2>13 DEF StartGpbackupHelpers
  <2>14. CASE CopyData
    BY <2>14 DEF CopyData
  <2>15. CASE CopyDataParks
    BY <2>15 DEF CopyDataParks
  <2>16. CASE FinishBackup
    BY <2>16 DEF FinishBackup
  <2>17. CASE StepFails
    BY <2>17, ZenonT(60) DEF StepFails, BodySteps
  <2> QED
    BY <1>1, <2>1, <2>2, <2>3, <2>4, <2>5, <2>6, <2>7, <2>8, <2>9, <2>10,
       <2>11, <2>12, <2>13, <2>14, <2>15, <2>16, <2>17 DEF Body
<1>2. CASE Teardown
  <2>1. CASE TeardownChecks
    BY <2>1 DEF TeardownChecks
  <2>2. CASE FirstWait
    BY <2>2 DEF FirstWait
  <2>3. CASE WriteConfigFile
    BY <2>3 DEF WriteConfigFile
  <2>4. CASE UploadReports
    BY <2>4 DEF UploadReports, LogError
  <2>5. CASE FinalChecks
    BY <2>5 DEF FinalChecks
  <2>6. CASE LastWait
    BY <2>6 DEF LastWait
  <2>7. CASE CleanupReturns
    BY <2>7 DEF CleanupReturns
  <2>8. CASE Exit
    BY <2>8 DEF Exit
  <2> QED
    BY <1>2, <2>1, <2>2, <2>3, <2>4, <2>5, <2>6, <2>7, <2>8 DEF Teardown
<1>3. CASE Environment
  <2>1. CASE HelperEnds
    BY <2>1 DEF HelperEnds
  <2>2. CASE LockTablesBlocks
    BY <2>2 DEF LockTablesBlocks
  <2>3. CASE LockTablesGranted
    BY <2>3 DEF LockTablesGranted
  <2>4. CASE Signal
    BY <2>4 DEF Signal
  <2>5. CASE HandlerExits
    BY <2>5 DEF HandlerExits
  <2>6. CASE Over
    BY <2>6 DEF Over, vars
  <2> QED
    BY <1>3, <2>1, <2>2, <2>3, <2>4, <2>5, <2>6 DEF Environment
<1>4. ASSUME NEW c \in Cleaners, Cleanup(c)
      PROVE  ResultTypes'
  <2>1. CASE CancelBlockedQueries(c)
    BY <1>4, <2>1 DEF CancelBlockedQueries
  <2>2. CASE TerminateHangingCopySessions(c)
    BY <1>4, <2>2 DEF TerminateHangingCopySessions
  <2>3. CASE CleanUpSegmentHelperProcesses(c)
    BY <1>4, <2>3 DEF CleanUpSegmentHelperProcesses
  <2>4. CASE CleanUpHelperFiles(c)
    BY <1>4, <2>4 DEF CleanUpHelperFiles
  <2>5. CASE UpdateHistory(c)
    BY <1>4, <2>5 DEF UpdateHistory
  <2>6. CASE UpdateFails(c)
    BY <1>4, <2>6 DEF UpdateFails, LogError
  <2>7. CASE UpdateWithoutReport(c)
    BY <1>4, <2>7 DEF UpdateWithoutReport
  <2>8. CASE Unlock(c)
    BY <1>4, <2>8 DEF Unlock
  <2>9. CASE CleanupPanics(c)
    BY <1>4, <2>9 DEF CleanupPanics
  <2>10. CASE CleanupDone(c)
    BY <1>4, <2>10 DEF CleanupDone
  <2>11. CASE CleanupDoneTwice(c)
    BY <1>4, <2>11 DEF CleanupDoneTwice
  <2>12. CASE HelperOverlooked(c)
    BY <1>4, <2>12 DEF HelperOverlooked
  <2>13. CASE HelperFilesFail(c)
    BY <1>4, <2>13 DEF HelperFilesFail, LogError
  <2> QED
    BY <1>4, <2>1, <2>2, <2>3, <2>4, <2>5, <2>6, <2>7, <2>8, <2>9, <2>10,
       <2>11, <2>12, <2>13 DEF Cleanup, CleanupSteps, CleanupFaults
<1>5. CASE UNCHANGED vars
  BY <1>5 DEF vars
<1> QED
  BY <1>1, <1>2, <1>3, <1>4, <1>5, Steps

\* The three parts together: every step keeps the type invariant.
LEMMA TypeOKStep == TypeOK /\ [Next]_vars => TypeOK'
BY TypeParts, TypePartsNext, ControlTypesStep, FlagTypesStep, ResultTypesStep

\* No step lets a goroutine enter or leave DoCleanup where it may not.
LEMMA CleanerInvStep ==
  ASSUME TypeOK, CleanerInv, [Next]_vars
  PROVE  CleanerInv'
<1> USE DEF TypeOK, CleanerInv, Cleaners, Go, GoCleanup, Running, resultVars,
   segmentVars, cleanVars, flagVars, failVars
<1>1. CASE Body
  <2>1. CASE CreateLockFile
    BY <2>1 DEF CreateLockFile
  <2>2. ASSUME NEW g \in Globals, SetUp(g)
        PROVE  CleanerInv'
    BY <2>2, SetUpSteps DEF SetUp, Globals
  <2>3. CASE LockTables
    BY <2>3 DEF LockTables
  <2>4. CASE LockTablesFails
    BY <2>4 DEF LockTablesFails
  <2>5. CASE StoreBackupHistory
    BY <2>5 DEF StoreBackupHistory
  <2>6. CASE BackupMetadata
    BY <2>6 DEF BackupMetadata
  <2>7. CASE BackupData
    BY <2>7 DEF BackupData
  <2>8. CASE WriteOidListToSegments
    BY <2>8 DEF WriteOidListToSegments
  <2>9. CASE CreateInitialSegmentPipes
    BY <2>9 DEF CreateInitialSegmentPipes
  <2>10. CASE LockHelperMutex
    BY <2>10 DEF LockHelperMutex
  <2>11. CASE ParkInsteadOfStart
    BY <2>11 DEF ParkInsteadOfStart
  <2>12. CASE MayStart
    BY <2>12 DEF MayStart
  <2>13. CASE StartGpbackupHelpers
    BY <2>13 DEF StartGpbackupHelpers
  <2>14. CASE CopyData
    BY <2>14 DEF CopyData
  <2>15. CASE CopyDataParks
    BY <2>15 DEF CopyDataParks
  <2>16. CASE FinishBackup
    BY <2>16 DEF FinishBackup
  <2>17. CASE StepFails
    BY <2>17 DEF StepFails, BodySteps
  <2> QED
    BY <1>1, <2>1, <2>2, <2>3, <2>4, <2>5, <2>6, <2>7, <2>8, <2>9, <2>10,
       <2>11, <2>12, <2>13, <2>14, <2>15, <2>16, <2>17 DEF Body
<1>2. CASE Teardown
  BY <1>2 DEF Teardown, TeardownChecks, FirstWait, WriteConfigFile,
     UploadReports, FinalChecks, LastWait, CleanupReturns, Exit, LogError
<1>3. CASE Environment
  BY <1>3 DEF Environment, HelperEnds, LockTablesBlocks, LockTablesGranted,
     Signal, HandlerExits, Over, vars
<1>4. ASSUME NEW c \in Cleaners, Cleanup(c)
      PROVE  CleanerInv'
  BY <1>4 DEF Cleanup, CleanupSteps, CleanupFaults, CancelBlockedQueries,
     TerminateHangingCopySessions, CleanUpSegmentHelperProcesses,
     HelperOverlooked, CleanUpHelperFiles, HelperFilesFail, UpdateHistory,
     UpdateFails, UpdateWithoutReport, Unlock, CleanupPanics, CleanupDone,
     CleanupDoneTwice, LogError
<1>5. CASE UNCHANGED vars
  BY <1>5 DEF vars
<1> QED
  BY <1>1, <1>2, <1>3, <1>4, <1>5, Steps

\* No step records a success before the tables are copied.
LEMMA StatusInvStep ==
  ASSUME TypeOK, CleanerInv, StatusInv, [Next]_vars
  PROVE  StatusInv'
<1> USE DEF TypeOK, CleanerInv, StatusInv, Torn, Failed, Cleaners, Go,
   GoCleanup, Running, resultVars, segmentVars, cleanVars, flagVars, failVars
<1>1. CASE Body
  <2>1. CASE CreateLockFile
    BY <2>1 DEF CreateLockFile
  <2>2. ASSUME NEW g \in Globals, SetUp(g)
        PROVE  StatusInv'
    BY <2>2, SetUpSteps DEF SetUp, Globals
  <2>3. CASE LockTables
    BY <2>3 DEF LockTables
  <2>4. CASE LockTablesFails
    BY <2>4 DEF LockTablesFails
  <2>5. CASE StoreBackupHistory
    BY <2>5 DEF StoreBackupHistory
  <2>6. CASE BackupMetadata
    BY <2>6 DEF BackupMetadata
  <2>7. CASE BackupData
    BY <2>7 DEF BackupData
  <2>8. CASE WriteOidListToSegments
    BY <2>8 DEF WriteOidListToSegments
  <2>9. CASE CreateInitialSegmentPipes
    BY <2>9 DEF CreateInitialSegmentPipes
  <2>10. CASE LockHelperMutex
    BY <2>10 DEF LockHelperMutex
  <2>11. CASE ParkInsteadOfStart
    BY <2>11 DEF ParkInsteadOfStart
  <2>12. CASE MayStart
    BY <2>12 DEF MayStart
  <2>13. CASE StartGpbackupHelpers
    BY <2>13 DEF StartGpbackupHelpers
  <2>14. CASE CopyData
    BY <2>14 DEF CopyData
  <2>15. CASE CopyDataParks
    BY <2>15 DEF CopyDataParks
  <2>16. CASE FinishBackup
    BY <2>16 DEF FinishBackup
  <2>17. CASE StepFails
    BY <2>17 DEF StepFails, BodySteps
  <2> QED
    BY <1>1, <2>1, <2>2, <2>3, <2>4, <2>5, <2>6, <2>7, <2>8, <2>9, <2>10,
       <2>11, <2>12, <2>13, <2>14, <2>15, <2>16, <2>17 DEF Body
<1>2. CASE Teardown
  BY <1>2 DEF Teardown, TeardownChecks, FirstWait, WriteConfigFile,
     UploadReports, FinalChecks, LastWait, CleanupReturns, Exit, LogError
<1>3. CASE Environment
  BY <1>3 DEF Environment, HelperEnds, LockTablesBlocks, LockTablesGranted,
     Signal, HandlerExits, Over, vars
<1>4. ASSUME NEW c \in Cleaners, Cleanup(c)
      PROVE  StatusInv'
  BY <1>4, ZenonT(60) DEF Cleanup, CleanupSteps, CleanupFaults, CancelBlockedQueries,
     TerminateHangingCopySessions, CleanUpSegmentHelperProcesses,
     HelperOverlooked, CleanUpHelperFiles, HelperFilesFail, UpdateHistory,
     UpdateFails, UpdateWithoutReport, Unlock, CleanupPanics, CleanupDone,
     CleanupDoneTwice, LogError
<1>5. CASE UNCHANGED vars
  BY <1>5 DEF vars
<1> QED
  BY <1>1, <1>2, <1>3, <1>4, <1>5, Steps

\* No step starts a helper behind the clean-up's back.
LEMMA HelperInvStep ==
  ASSUME TypeOK, CleanerInv, HelperInv, [Next]_vars
  PROVE  HelperInv'
<1> USE DEF TypeOK, CleanerInv, HelperInv, Starting, Past, UsesHelpers,
   NotExited, Cleaners, Go, GoCleanup, Running, resultVars, segmentVars,
   cleanVars, flagVars, failVars
<1>1. CASE Body
  <2>1. CASE CreateLockFile
    BY <2>1 DEF CreateLockFile
  <2>2. ASSUME NEW g \in Globals, SetUp(g)
        PROVE  HelperInv'
    BY <2>2, SetUpSteps DEF SetUp, Globals
  <2>3. CASE LockTables
    BY <2>3 DEF LockTables
  <2>4. CASE LockTablesFails
    BY <2>4 DEF LockTablesFails
  <2>5. CASE StoreBackupHistory
    BY <2>5 DEF StoreBackupHistory
  <2>6. CASE BackupMetadata
    BY <2>6 DEF BackupMetadata
  <2>7. CASE BackupData
    BY <2>7 DEF BackupData
  <2>8. CASE WriteOidListToSegments
    BY <2>8 DEF WriteOidListToSegments
  <2>9. CASE CreateInitialSegmentPipes
    BY <2>9 DEF CreateInitialSegmentPipes
  <2>10. CASE LockHelperMutex
    BY <2>10 DEF LockHelperMutex
  <2>11. CASE ParkInsteadOfStart
    BY <2>11 DEF ParkInsteadOfStart
  <2>12. CASE MayStart
    BY <2>12 DEF MayStart
  <2>13. CASE StartGpbackupHelpers
    BY <2>13 DEF StartGpbackupHelpers
  <2>14. CASE CopyData
    BY <2>14 DEF CopyData
  <2>15. CASE CopyDataParks
    BY <2>15 DEF CopyDataParks
  <2>16. CASE FinishBackup
    BY <2>16 DEF FinishBackup
  <2>17. CASE StepFails
    BY <2>17 DEF StepFails, BodySteps
  <2> QED
    BY <1>1, <2>1, <2>2, <2>3, <2>4, <2>5, <2>6, <2>7, <2>8, <2>9, <2>10,
       <2>11, <2>12, <2>13, <2>14, <2>15, <2>16, <2>17 DEF Body
<1>2. CASE Teardown
  <2>1. CASE TeardownChecks
    BY <2>1 DEF TeardownChecks
  <2>2. CASE FirstWait
    BY <2>2 DEF FirstWait
  <2>3. CASE WriteConfigFile
    BY <2>3 DEF WriteConfigFile
  <2>4. CASE UploadReports
    BY <2>4 DEF UploadReports, LogError
  <2>5. CASE FinalChecks
    BY <2>5 DEF FinalChecks
  <2>6. CASE LastWait
    BY <2>6 DEF LastWait
  <2>7. CASE CleanupReturns
    BY <2>7 DEF CleanupReturns
  <2>8. CASE Exit
    BY <2>8 DEF Exit
  <2> QED
    BY <1>2, <2>1, <2>2, <2>3, <2>4, <2>5, <2>6, <2>7, <2>8 DEF Teardown
<1>3. CASE Environment
  <2>1. CASE HelperEnds
    BY <2>1 DEF HelperEnds
  <2>2. CASE LockTablesBlocks
    BY <2>2 DEF LockTablesBlocks
  <2>3. CASE LockTablesGranted
    BY <2>3 DEF LockTablesGranted
  <2>4. CASE Signal
    BY <2>4 DEF Signal
  <2>5. CASE HandlerExits
    BY <2>5 DEF HandlerExits
  <2>6. CASE Over
    BY <2>6 DEF Over, vars
  <2> QED
    BY <1>3, <2>1, <2>2, <2>3, <2>4, <2>5, <2>6 DEF Environment
<1>4. ASSUME NEW c \in Cleaners, Cleanup(c)
      PROVE  HelperInv'
  <2>1. CASE CancelBlockedQueries(c)
    BY <1>4, <2>1 DEF CancelBlockedQueries
  <2>2. CASE TerminateHangingCopySessions(c)
    BY <1>4, <2>2 DEF TerminateHangingCopySessions
  <2>3. CASE CleanUpSegmentHelperProcesses(c)
    BY <1>4, <2>3 DEF CleanUpSegmentHelperProcesses
  <2>4. CASE CleanUpHelperFiles(c)
    BY <1>4, <2>4 DEF CleanUpHelperFiles
  <2>5. CASE UpdateHistory(c)
    BY <1>4, <2>5 DEF UpdateHistory
  <2>6. CASE UpdateFails(c)
    BY <1>4, <2>6 DEF UpdateFails, LogError
  <2>7. CASE UpdateWithoutReport(c)
    BY <1>4, <2>7 DEF UpdateWithoutReport
  <2>8. CASE Unlock(c)
    BY <1>4, <2>8 DEF Unlock
  <2>9. CASE CleanupPanics(c)
    BY <1>4, <2>9 DEF CleanupPanics
  <2>10. CASE CleanupDone(c)
    BY <1>4, <2>10 DEF CleanupDone
  <2>11. CASE CleanupDoneTwice(c)
    BY <1>4, <2>11 DEF CleanupDoneTwice
  <2>12. CASE HelperOverlooked(c)
    BY <1>4, <2>12 DEF HelperOverlooked
  <2>13. CASE HelperFilesFail(c)
    BY <1>4, <2>13 DEF HelperFilesFail, LogError
  <2> QED
    BY <1>4, <2>1, <2>2, <2>3, <2>4, <2>5, <2>6, <2>7, <2>8, <2>9, <2>10,
       <2>11, <2>12, <2>13 DEF Cleanup, CleanupSteps, CleanupFaults
<1>5. CASE UNCHANGED vars
  BY <1>5 DEF vars
<1> QED
  BY <1>1, <1>2, <1>3, <1>4, <1>5, Steps

\* Each step of an undisturbed backup brings it as far as it should.
LEMMA CleanInvStep ==
  ASSUME TypeOK, CleanerInv, StatusInv, HelperInv, CleanInv, [Next]_vars
  PROVE  CleanInv'
<1> USE DEF TypeOK, CleanerInv, StatusInv, HelperInv, CleanInv, Clean,
   SetUpInv, Torn, Past, UsesHelpers, Starting, Failed, Cleaners, Go,
   GoCleanup, Running, resultVars, segmentVars, cleanVars, flagVars, failVars
<1>1. CASE Body
  <2>1. CASE CreateLockFile
    BY <2>1 DEF CreateLockFile
  <2>2. ASSUME NEW g \in Globals, SetUp(g)
        PROVE  CleanInv'
    BY <2>2, SetUpSteps DEF SetUp, Globals
  <2>3. CASE LockTables
    BY <2>3 DEF LockTables
  <2>4. CASE LockTablesFails
    BY <2>4, FailureNotClean
  <2>5. CASE StoreBackupHistory
    BY <2>5 DEF StoreBackupHistory
  <2>6. CASE BackupMetadata
    BY <2>6 DEF BackupMetadata
  <2>7. CASE BackupData
    BY <2>7 DEF BackupData
  <2>8. CASE WriteOidListToSegments
    BY <2>8 DEF WriteOidListToSegments
  <2>9. CASE CreateInitialSegmentPipes
    BY <2>9 DEF CreateInitialSegmentPipes
  <2>10. CASE LockHelperMutex
    BY <2>10 DEF LockHelperMutex
  <2>11. CASE ParkInsteadOfStart
    BY <2>11 DEF ParkInsteadOfStart
  <2>12. CASE MayStart
    BY <2>12 DEF MayStart
  <2>13. CASE StartGpbackupHelpers
    BY <2>13 DEF StartGpbackupHelpers
  <2>14. CASE CopyData
    BY <2>14 DEF CopyData
  <2>15. CASE CopyDataParks
    BY <2>15 DEF CopyDataParks
  <2>16. CASE FinishBackup
    BY <2>16 DEF FinishBackup
  <2>17. CASE StepFails
    BY <2>17, FailureNotClean
  <2> QED
    BY <1>1, <2>1, <2>2, <2>3, <2>4, <2>5, <2>6, <2>7, <2>8, <2>9, <2>10,
       <2>11, <2>12, <2>13, <2>14, <2>15, <2>16, <2>17 DEF Body
<1>2. CASE Teardown
  BY <1>2, ZenonT(60) DEF Teardown, TeardownChecks, FirstWait, WriteConfigFile,
     UploadReports, FinalChecks, LastWait, CleanupReturns, Exit, LogError
<1>3. CASE Environment
  BY <1>3 DEF Environment, HelperEnds, LockTablesBlocks, LockTablesGranted,
     Signal, HandlerExits, Over, vars
<1>4. ASSUME NEW c \in Cleaners, Cleanup(c)
      PROVE  CleanInv'
  <2>1. CASE CancelBlockedQueries(c)
    BY <1>4, <2>1 DEF CancelBlockedQueries
  <2>2. CASE TerminateHangingCopySessions(c)
    BY <1>4, <2>2 DEF TerminateHangingCopySessions
  <2>3. CASE CleanUpSegmentHelperProcesses(c)
    BY <1>4, <2>3 DEF CleanUpSegmentHelperProcesses
  <2>4. CASE CleanUpHelperFiles(c)
    BY <1>4, <2>4 DEF CleanUpHelperFiles
  <2>5. CASE UpdateHistory(c)
    BY <1>4, <2>5 DEF UpdateHistory
  <2>6. CASE UpdateFails(c)
    BY <1>4, <2>6 DEF UpdateFails, LogError
  <2>7. CASE UpdateWithoutReport(c)
    BY <1>4, <2>7 DEF UpdateWithoutReport
  <2>8. CASE Unlock(c)
    BY <1>4, <2>8 DEF Unlock
  <2>9. CASE CleanupPanics(c)
    BY <1>4, <2>9, FailureNotClean
  <2>10. CASE CleanupDone(c)
    BY <1>4, <2>10 DEF CleanupDone
  <2>11. CASE CleanupDoneTwice(c)
    BY <1>4, <2>11 DEF CleanupDoneTwice
  <2>12. CASE HelperOverlooked(c)
    BY <1>4, <2>12 DEF HelperOverlooked
  <2>13. CASE HelperFilesFail(c)
    BY <1>4, <2>13 DEF HelperFilesFail, LogError
  <2> QED
    BY <1>4, <2>1, <2>2, <2>3, <2>4, <2>5, <2>6, <2>7, <2>8, <2>9, <2>10,
       <2>11, <2>12, <2>13 DEF Cleanup, CleanupSteps, CleanupFaults
<1>5. CASE UNCHANGED vars
  BY <1>5 DEF vars
<1> QED
  BY <1>1, <1>2, <1>3, <1>4, <1>5, Steps

\* The process ends with its error code, or after a signal.
LEMMA ExitInvStep ==
  ASSUME TypeOK, CleanerInv, CleanInv, ExitInv, [Next]_vars
  PROVE  ExitInv'
<1> USE DEF TypeOK, CleanerInv, CleanInv, ExitInv, Clean, NotExited, Cleaners,
   Go, GoCleanup, Running, resultVars, segmentVars, cleanVars, flagVars,
   failVars
<1>1. CASE Body
  <2>1. CASE CreateLockFile
    BY <2>1 DEF CreateLockFile
  <2>2. ASSUME NEW g \in Globals, SetUp(g)
        PROVE  ExitInv'
    BY <2>2, SetUpSteps DEF SetUp, Globals
  <2>3. CASE LockTables
    BY <2>3 DEF LockTables
  <2>4. CASE LockTablesFails
    BY <2>4 DEF LockTablesFails
  <2>5. CASE StoreBackupHistory
    BY <2>5 DEF StoreBackupHistory
  <2>6. CASE BackupMetadata
    BY <2>6 DEF BackupMetadata
  <2>7. CASE BackupData
    BY <2>7 DEF BackupData
  <2>8. CASE WriteOidListToSegments
    BY <2>8 DEF WriteOidListToSegments
  <2>9. CASE CreateInitialSegmentPipes
    BY <2>9 DEF CreateInitialSegmentPipes
  <2>10. CASE LockHelperMutex
    BY <2>10 DEF LockHelperMutex
  <2>11. CASE ParkInsteadOfStart
    BY <2>11 DEF ParkInsteadOfStart
  <2>12. CASE MayStart
    BY <2>12 DEF MayStart
  <2>13. CASE StartGpbackupHelpers
    BY <2>13 DEF StartGpbackupHelpers
  <2>14. CASE CopyData
    BY <2>14 DEF CopyData
  <2>15. CASE CopyDataParks
    BY <2>15 DEF CopyDataParks
  <2>16. CASE FinishBackup
    BY <2>16 DEF FinishBackup
  <2>17. CASE StepFails
    BY <2>17 DEF StepFails, BodySteps
  <2> QED
    BY <1>1, <2>1, <2>2, <2>3, <2>4, <2>5, <2>6, <2>7, <2>8, <2>9, <2>10,
       <2>11, <2>12, <2>13, <2>14, <2>15, <2>16, <2>17 DEF Body
<1>2. CASE Teardown
  BY <1>2 DEF Teardown, TeardownChecks, FirstWait, WriteConfigFile,
     UploadReports, FinalChecks, LastWait, CleanupReturns, Exit, LogError
<1>3. CASE Environment
  BY <1>3 DEF Environment, HelperEnds, LockTablesBlocks, LockTablesGranted,
     Signal, HandlerExits, Over, vars
<1>4. ASSUME NEW c \in Cleaners, Cleanup(c)
      PROVE  ExitInv'
  BY <1>4 DEF Cleanup, CleanupSteps, CleanupFaults, CancelBlockedQueries,
     TerminateHangingCopySessions, CleanUpSegmentHelperProcesses,
     HelperOverlooked, CleanUpHelperFiles, HelperFilesFail, UpdateHistory,
     UpdateFails, UpdateWithoutReport, Unlock, CleanupPanics, CleanupDone,
     CleanupDoneTwice, LogError
<1>5. CASE UNCHANGED vars
  BY <1>5 DEF vars
<1> QED
  BY <1>1, <1>2, <1>3, <1>4, <1>5, Steps

\* The row and the config file are written only with what holds.
LEMMA SuccessIsRealStep ==
  ASSUME TypeOK, CleanerInv, StatusInv, SuccessIsReal, [Next]_vars
  PROVE  SuccessIsReal'
<1> USE DEF TypeOK, CleanerInv, StatusInv, SuccessIsReal, Torn, Failed,
   Cleaners, Go, GoCleanup, Running, resultVars, segmentVars, cleanVars,
   flagVars, failVars
<1>1. CASE Body
  <2>1. CASE CreateLockFile
    BY <2>1 DEF CreateLockFile
  <2>2. ASSUME NEW g \in Globals, SetUp(g)
        PROVE  SuccessIsReal'
    BY <2>2, SetUpSteps DEF SetUp, Globals
  <2>3. CASE LockTables
    BY <2>3 DEF LockTables
  <2>4. CASE LockTablesFails
    BY <2>4 DEF LockTablesFails
  <2>5. CASE StoreBackupHistory
    BY <2>5 DEF StoreBackupHistory
  <2>6. CASE BackupMetadata
    BY <2>6 DEF BackupMetadata
  <2>7. CASE BackupData
    BY <2>7 DEF BackupData
  <2>8. CASE WriteOidListToSegments
    BY <2>8 DEF WriteOidListToSegments
  <2>9. CASE CreateInitialSegmentPipes
    BY <2>9 DEF CreateInitialSegmentPipes
  <2>10. CASE LockHelperMutex
    BY <2>10 DEF LockHelperMutex
  <2>11. CASE ParkInsteadOfStart
    BY <2>11 DEF ParkInsteadOfStart
  <2>12. CASE MayStart
    BY <2>12 DEF MayStart
  <2>13. CASE StartGpbackupHelpers
    BY <2>13 DEF StartGpbackupHelpers
  <2>14. CASE CopyData
    BY <2>14 DEF CopyData
  <2>15. CASE CopyDataParks
    BY <2>15 DEF CopyDataParks
  <2>16. CASE FinishBackup
    BY <2>16 DEF FinishBackup
  <2>17. CASE StepFails
    BY <2>17 DEF StepFails, BodySteps
  <2> QED
    BY <1>1, <2>1, <2>2, <2>3, <2>4, <2>5, <2>6, <2>7, <2>8, <2>9, <2>10,
       <2>11, <2>12, <2>13, <2>14, <2>15, <2>16, <2>17 DEF Body
<1>2. CASE Teardown
  BY <1>2 DEF Teardown, TeardownChecks, FirstWait, WriteConfigFile,
     UploadReports, FinalChecks, LastWait, CleanupReturns, Exit, LogError
<1>3. CASE Environment
  BY <1>3 DEF Environment, HelperEnds, LockTablesBlocks, LockTablesGranted,
     Signal, HandlerExits, Over, vars
<1>4. ASSUME NEW c \in Cleaners, Cleanup(c)
      PROVE  SuccessIsReal'
  BY <1>4 DEF Cleanup, CleanupSteps, CleanupFaults, CancelBlockedQueries,
     TerminateHangingCopySessions, CleanUpSegmentHelperProcesses,
     HelperOverlooked, CleanUpHelperFiles, HelperFilesFail, UpdateHistory,
     UpdateFails, UpdateWithoutReport, Unlock, CleanupPanics, CleanupDone,
     CleanupDoneTwice, LogError
<1>5. CASE UNCHANGED vars
  BY <1>5 DEF vars
<1> QED
  BY <1>1, <1>2, <1>3, <1>4, <1>5, Steps

-----------------------------------------------------------------------------
(* The theorems                                                            *)

\* The inductive invariant holds initially.
LEMMA InitIInv == Init => IInv
<1> SUFFICES ASSUME Init
             PROVE  IInv
  OBVIOUS
<1> USE DEF Init, NotExited, Cleaners, Globals
<1>1. ControlTypes /\ FlagTypes /\ ResultTypes
  BY DEF ControlTypes, FlagTypes, ResultTypes
<1>2. CleanerInv
  BY DEF CleanerInv
<1>3. StatusInv /\ SuccessIsReal
  BY DEF StatusInv, SuccessIsReal, Torn
<1>4. HelperInv
  BY DEF HelperInv, Starting, Past, UsesHelpers, Running
<1>5. CleanInv
  BY DEF CleanInv, SetUpInv, Torn, Past
<1>6. ExitInv
  BY DEF ExitInv, Running
<1> QED
  BY <1>1, <1>2, <1>3, <1>4, <1>5, <1>6, TypeParts DEF IInv

\* Every step keeps the inductive invariant.
LEMMA IInvStep == IInv /\ [Next]_vars => IInv'
BY TypeOKStep, CleanerInvStep, StatusInvStep, HelperInvStep, CleanInvStep,
   ExitInvStep, SuccessIsRealStep DEF IInv

\* Every reachable state satisfies the inductive invariant: the ranges of the
\* variables, where a DoCleanup may stand, how statuses follow from backupFailed
\* and wasTerminated, when helpers may exist, and how far a backup nothing has
\* disturbed has come.
THEOREM Inductive == Spec => []IInv
BY InitIInv, IInvStep, PTL DEF Spec

\* A backup whose row or config file says "Success" has copied all its tables,
\* with any faults and a signal at any moment.
THEOREM SuccessReal == Spec => []SuccessIsReal
<1>1. IInv => SuccessIsReal
  BY DEF IInv
<1> QED
  BY <1>1, Inductive, PTL

\* A helper outlives gpbackup only if a DoCleanup was cut short by a panic or
\* took that helper for gone when ssh or ps failed; in particular none does that
\* main was starting while the handler was cleaning up.
THEOREM NoOrphans == Spec => []NoOrphanHelpers
<1>1. IInv => NoOrphanHelpers
  BY DEF IInv, HelperInv, Past, NoOrphanHelpers
<1> QED
  BY <1>1, Inductive, PTL

\* Status 0 without a signal means a success recorded in both places and nothing
\* left behind but a helper that a failed ssh or ps hid, although DoCleanup only
\* logs its other failures.
THEOREM ExitClean == Spec => []CleanExit
<1>1. IInv => CleanExit
  <2> SUFFICES ASSUME IInv, exitCode = 0, ~wasTerminated
               PROVE  history = "Success" /\ config = "Success" /\ ~lockFile
                      /\ (helper => helperMissed) /\ files = {}
    BY DEF CleanExit
  <2>1. cleanupPc["main"] = "over" /\ Clean
    BY DEF IInv, ExitInv, Clean, Running, NotExited
  <2>2. mainPc \in {"cleanup", "exit"}
    BY <2>1 DEF IInv, CleanerInv
  <2>3. CleanInv
    BY DEF IInv
  <2>4. helper => helperMissed
    BY <2>1, <2>3 DEF IInv, HelperInv, CleanInv, Past, Cleaners
  <2> QED
    BY <2>1, <2>2, <2>3, <2>4 DEF CleanInv, Torn, Past
<1> QED
  BY <1>1, Inductive, PTL

=============================================================================
