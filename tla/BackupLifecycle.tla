--------------------------- MODULE BackupLifecycle ---------------------------
(***************************************************************************)
(* One gpbackup process from DoInit to os.Exit: the main goroutine runs    *)
(* DoSetup, DoBackup and the deferred DoTeardown (gpbackup.go,             *)
(* backup/backup.go); the signal handler (utils/util.go) sets              *)
(* wasTerminated, runs DoCleanup(true) and calls os.Exit(2).  Either of    *)
(* them may be in DoCleanup, and both may end the process.                 *)
(*                                                                         *)
(* What they leave behind is the state a later gpbackup or gprestore sees: *)
(* the row of the history database, the config file, the lock file, and on *)
(* the segments the helper processes and their files.  All segments are    *)
(* one: the commands sent to them are synchronous and fail as one.         *)
(***************************************************************************)
EXTENDS Integers

CONSTANT Faults  \* the failures the environment may inject

FaultKinds == {"step", "signal", "cleanup"}
ASSUME FaultsAssumption == Faults \subseteq FaultKinds

NotExited == -1
Cleaners == {"main", "handler"}   \* the goroutines that may run DoCleanup

VARIABLES
  mainPc,          \* where the main goroutine stands
  cleanupPc,       \* where each DoCleanup stands
  wasTerminated,   \* set by the signal handler
  cleanupCount,    \* CleanupGroup's counter
  helperMutex,     \* held by main while it starts the helpers
  singleDataFile,  \* --single-data-file: helpers run on the segments
  setUp,           \* which of the globals DoSetup fills in exist
  backupFailed,    \* DoTeardown's local variable
  errorCode,       \* gplog's error code
  exitCode,        \* status the process ended with, NotExited until then
  history,         \* status in the row of the history database
  config,          \* status in the config file
  lockFile,        \* the lock file exists
  helper,          \* gpbackup_helper runs on the segments
  helperMissed,    \* a DoCleanup's look took a running helper for gone
  files,           \* oid lists and pipes on the segments
  dataDone,        \* the data phase returned with every table copied
  lockWait,        \* main's LOCK TABLE waits for another session
  poolClosed,      \* connectionPool.Close() was called
  cleanupBroken    \* a DoCleanup panicked before it was through

resultVars  == <<history, config, lockFile, dataDone>>
segmentVars == <<helper, helperMissed, files>>
cleanVars   == <<cleanupPc, cleanupCount, poolClosed, cleanupBroken>>
flagVars    == <<wasTerminated, singleDataFile, setUp, lockWait>>
failVars    == <<backupFailed, errorCode>>
vars == <<mainPc, helperMutex, exitCode, resultVars, segmentVars, cleanVars,
          flagVars, failVars>>

Globals == {"pool", "fpInfo", "directories", "report"}

TypeOK ==
  /\ mainPc \in {"lockFile", "pool", "fpInfo", "directories", "report",
                 "tables", "insert", "metadata", "data", "oids", "pipes",
                 "mutex", "check", "start", "copy", "finish", "recover",
                 "firstWait", "writeConfig", "upload", "final", "lastWait",
                 "cleanup", "exit", "parked"}
  /\ cleanupPc \in [Cleaners -> {"idle", "cancel", "sessions", "helpers",
                                 "files", "history", "unlock", "done", "over"}]
  /\ wasTerminated \in BOOLEAN
  /\ cleanupCount \in {0, 1}
  /\ helperMutex \in {"free", "main"}
  /\ singleDataFile \in BOOLEAN
  /\ setUp \in SUBSET Globals
  /\ backupFailed \in BOOLEAN
  /\ errorCode \in {0, 1, 2}
  /\ exitCode \in {NotExited, 0, 1, 2}
  /\ history \in {"none", "In Progress", "Success", "Failure"}
  /\ config \in {"none", "Success", "Failure"}
  /\ lockFile \in BOOLEAN
  /\ helper \in BOOLEAN
  /\ helperMissed \in BOOLEAN
  /\ files \in SUBSET {"oid", "pipe"}
  /\ dataDone \in BOOLEAN
  /\ lockWait \in BOOLEAN
  /\ poolClosed \in BOOLEAN
  /\ cleanupBroken \in BOOLEAN

Init ==
  /\ mainPc = "lockFile"
  /\ cleanupPc = [c \in Cleaners |-> "idle"]
  /\ wasTerminated = FALSE
  /\ cleanupCount = 1
  /\ helperMutex = "free"
  /\ singleDataFile \in BOOLEAN
  /\ setUp = {}
  /\ backupFailed = FALSE
  /\ errorCode = 0
  /\ exitCode = NotExited
  /\ history = "none"
  /\ config = "none"
  /\ lockFile = FALSE
  /\ helper = FALSE
  /\ helperMissed = FALSE
  /\ files = {}
  /\ dataDone = FALSE
  /\ lockWait = FALSE
  /\ poolClosed = FALSE
  /\ cleanupBroken = FALSE

Running == exitCode = NotExited
Go(from, to) ==
  /\ Running
  /\ mainPc = from
  /\ mainPc' = to

-----------------------------------------------------------------------------
(* DoSetup and DoBackup                                                    *)

CreateLockFile ==
  /\ Go("lockFile", "pool")
  /\ lockFile' = TRUE
  /\ UNCHANGED <<history, config, dataDone, helperMutex, exitCode, segmentVars,
                 cleanVars, flagVars, failVars>>

\* The steps of DoSetup that fill in connectionPool, globalFPInfo (with its
\* timestamp), the backup directories and backupReport, in this order.
AfterSetup == [pool |-> "fpInfo", fpInfo |-> "directories",
               directories |-> "report", report |-> "tables"]
SetUp(g) ==
  /\ Go(g, AfterSetup[g])
  /\ setUp' = setUp \cup {g}
  /\ UNCHANGED <<wasTerminated, singleDataFile, lockWait, helperMutex,
                 exitCode, resultVars, segmentVars, cleanVars, failVars>>

\* LOCK TABLE blocks while another session holds ACCESS EXCLUSIVE.
LockTablesBlocks ==
  /\ Running /\ mainPc = "tables" /\ ~lockWait
  /\ lockWait' = TRUE
  /\ UNCHANGED <<mainPc, wasTerminated, singleDataFile, setUp, helperMutex,
                 exitCode, resultVars, segmentVars, cleanVars, failVars>>

LockTables ==
  /\ ~lockWait
  /\ ~poolClosed
  /\ Go("tables", "insert")
  /\ UNCHANGED <<helperMutex, exitCode, resultVars, segmentVars, cleanVars,
                 flagVars, failVars>>

LockTablesGranted ==
  /\ lockWait
  /\ ~poolClosed
  /\ Go("tables", "insert")
  /\ lockWait' = FALSE
  /\ UNCHANGED <<wasTerminated, singleDataFile, setUp, helperMutex, exitCode,
                 resultVars, segmentVars, cleanVars, failVars>>

\* The row is committed in one SQLite transaction.
StoreBackupHistory ==
  /\ Go("insert", "metadata")
  /\ history' = "In Progress"
  /\ UNCHANGED <<config, lockFile, dataDone, helperMutex, exitCode,
                 segmentVars, cleanVars, flagVars, failVars>>

BackupMetadata ==
  /\ ~poolClosed
  /\ Go("metadata", "data")
  /\ UNCHANGED <<helperMutex, exitCode, resultVars, segmentVars, cleanVars,
                 flagVars, failVars>>

\* backupData looks at wasTerminated once, on entry.
BackupData ==
  /\ Go("data", IF wasTerminated THEN "finish"
                ELSE IF singleDataFile THEN "oids" ELSE "copy")
  /\ UNCHANGED <<helperMutex, exitCode, resultVars, segmentVars, cleanVars,
                 flagVars, failVars>>

WriteOidListToSegments ==
  /\ Go("oids", "pipes")
  /\ files' = files \cup {"oid"}
  /\ UNCHANGED <<helper, helperMissed, helperMutex, exitCode, resultVars,
                 cleanVars, flagVars, failVars>>

CreateInitialSegmentPipes ==
  /\ Go("pipes", "mutex")
  /\ files' = files \cup {"pipe"}
  /\ UNCHANGED <<helper, helperMissed, helperMutex, exitCode, resultVars,
                 cleanVars, flagVars, failVars>>

\* StartGpbackupHelpers: the check and the start are one critical section.
LockHelperMutex ==
  /\ helperMutex = "free"
  /\ Go("mutex", "check")
  /\ helperMutex' = "main"
  /\ UNCHANGED <<exitCode, resultVars, segmentVars, cleanVars, flagVars,
                 failVars>>

\* Mutant: a terminated backup pauses without giving the mutex back.
ParkHoldingMutex ==
  /\ wasTerminated
  /\ Go("check", "parked")
  /\ UNCHANGED <<helperMutex, exitCode, resultVars, segmentVars, cleanVars,
                 flagVars, failVars>>

ParkInsteadOfStart ==
  /\ wasTerminated
  /\ Go("check", "parked")
  /\ helperMutex' = "free"
  /\ UNCHANGED <<exitCode, resultVars, segmentVars, cleanVars, flagVars,
                 failVars>>

\* Mutant: wasTerminated is not looked at under the mutex.
StartWithoutCheck ==
  /\ Go("check", "start")
  /\ UNCHANGED <<helperMutex, exitCode, resultVars, segmentVars, cleanVars,
                 flagVars, failVars>>

MayStart ==
  /\ ~wasTerminated
  /\ Go("check", "start")
  /\ UNCHANGED <<helperMutex, exitCode, resultVars, segmentVars, cleanVars,
                 flagVars, failVars>>

StartGpbackupHelpers ==
  /\ Go("start", "copy")
  /\ helper' = TRUE
  /\ helperMutex' = "free"
  /\ UNCHANGED <<helperMissed, files, exitCode, resultVars, cleanVars,
                 flagVars, failVars>>

\* The data phase as BackupData.tla describes it: it returns with every table
\* copied, or, terminated, with some skipped; a terminated one need not return.
CopyData ==
  /\ Go("copy", "finish")
  /\ dataDone' \in (IF wasTerminated THEN BOOLEAN ELSE {TRUE})
  /\ UNCHANGED <<history, config, lockFile, helperMutex, exitCode,
                 segmentVars, cleanVars, flagVars, failVars>>

CopyDataParks ==
  /\ wasTerminated
  /\ Go("copy", "parked")
  /\ UNCHANGED <<helperMutex, exitCode, resultVars, segmentVars, cleanVars,
                 flagVars, failVars>>

\* A helper ends by itself, having removed its pipes.
HelperEnds ==
  /\ Running /\ helper
  /\ helper' = FALSE
  /\ files' = files \ {"pipe"}
  /\ UNCHANGED <<mainPc, helperMissed, helperMutex, exitCode, resultVars,
                 cleanVars, flagVars, failVars>>

\* The TOC is written, the transactions end and DoBackup returns.
FinishBackup ==
  /\ Go("finish", "recover")
  /\ UNCHANGED <<helperMutex, exitCode, resultVars, segmentVars, cleanVars,
                 flagVars, failVars>>

BodySteps == {"lockFile", "pool", "fpInfo", "directories", "report", "insert",
              "metadata", "data", "oids", "pipes", "start", "copy", "finish"}

\* Mutant: recover() does not tell DoTeardown that the backup failed.
PanicForgotten ==
  /\ "step" \in Faults \/ poolClosed
  /\ \E pc \in BodySteps : Go(pc, "recover")
  /\ errorCode' = 2
  /\ helperMutex' = "free"
  /\ helper' \in (IF mainPc = "start" THEN BOOLEAN ELSE {helper})
  /\ UNCHANGED <<backupFailed, helperMissed, files, exitCode, resultVars,
                 cleanVars, flagVars>>

\* Any step may end in gplog.Fatal, which sets the error code and panics into
\* DoTeardown's recover; a closed connection pool makes the queries fail.  A
\* failed start may have started some helpers, and gives the mutex back.
StepFails ==
  /\ "step" \in Faults \/ poolClosed
  /\ \E pc \in BodySteps : Go(pc, "recover")
  /\ errorCode' = 2
  /\ backupFailed' = TRUE
  /\ helperMutex' = "free"
  /\ helper' \in (IF mainPc = "start" THEN BOOLEAN ELSE {helper})
  /\ UNCHANGED <<helperMissed, files, exitCode, resultVars, cleanVars,
                 flagVars>>

\* LOCK TABLE returns an error, such as the handler's cancellation of a
\* statement that waits: a terminated backup pauses until the handler exits.
LockTablesFails ==
  /\ \/ "step" \in Faults
     \/ poolClosed
     \/ lockWait /\ cleanupPc["handler"] = "cancel"
  /\ Go("tables", IF wasTerminated THEN "parked" ELSE "recover")
  /\ lockWait' = FALSE
  /\ IF wasTerminated THEN UNCHANGED failVars
     ELSE errorCode' = 2 /\ backupFailed' = TRUE
  /\ UNCHANGED <<wasTerminated, singleDataFile, setUp, helperMutex, exitCode,
                 resultVars, segmentVars, cleanVars>>

-----------------------------------------------------------------------------
(* DoTeardown                                                              *)

\* With a signal, wait for the handler's DoCleanup; otherwise write the config
\* and report files if the backup directory exists.
TeardownChecks ==
  /\ Go("recover",
        IF wasTerminated THEN "firstWait"
        ELSE IF {"fpInfo", "directories"} \subseteq setUp THEN "writeConfig"
        ELSE "final")
  /\ UNCHANGED <<helperMutex, exitCode, resultVars, segmentVars, cleanVars,
                 flagVars, failVars>>

FirstWait ==
  /\ cleanupCount = 0
  /\ Go("firstWait", "final")
  /\ backupFailed' = TRUE
  /\ UNCHANGED <<errorCode, helperMutex, exitCode, resultVars, segmentVars,
                 cleanVars, flagVars>>

WriteConfigFile ==
  /\ Go("writeConfig", "upload")
  /\ config' = IF "report" \notin setUp THEN config
               ELSE IF backupFailed THEN "Failure" ELSE "Success"
  /\ UNCHANGED <<history, lockFile, dataDone, helperMutex, exitCode,
                 segmentVars, cleanVars, flagVars, failVars>>

\* gplog.Error: the error code becomes 1 unless it tells of worse already.
LogError == errorCode' = IF errorCode = 0 THEN 1 ELSE errorCode

\* The report, the e-mail and the plugin's copies; a plugin error is logged.
UploadReports ==
  /\ Go("upload", "final")
  /\ \/ UNCHANGED errorCode
     \/ "step" \in Faults /\ LogError
  /\ UNCHANGED <<backupFailed, helperMutex, exitCode, resultVars, segmentVars,
                 cleanVars, flagVars>>

\* The function DoTeardown deferred.
FinalChecks ==
  /\ Go("final", IF wasTerminated THEN "lastWait" ELSE "cleanup")
  /\ cleanupPc' = IF wasTerminated THEN cleanupPc
                  ELSE [cleanupPc EXCEPT !["main"] = "cancel"]
  /\ UNCHANGED <<helperMutex, exitCode, resultVars, segmentVars, cleanupCount,
                 poolClosed, cleanupBroken, flagVars, failVars>>

LastWait ==
  /\ cleanupCount = 0
  /\ Go("lastWait", "exit")
  /\ UNCHANGED <<helperMutex, exitCode, resultVars, segmentVars, cleanVars,
                 flagVars, failVars>>

CleanupReturns ==
  /\ cleanupPc["main"] = "over"
  /\ Go("cleanup", "exit")
  /\ UNCHANGED <<helperMutex, exitCode, resultVars, segmentVars, cleanVars,
                 flagVars, failVars>>

Exit ==
  /\ Running /\ mainPc = "exit"
  /\ exitCode' = errorCode
  /\ UNCHANGED <<mainPc, helperMutex, resultVars, segmentVars, cleanVars,
                 flagVars, failVars>>

Body ==
  \/ CreateLockFile \/ \E g \in Globals : SetUp(g)
  \/ LockTables \/ LockTablesFails
  \/ StoreBackupHistory \/ BackupMetadata \/ BackupData
  \/ WriteOidListToSegments \/ CreateInitialSegmentPipes
  \/ LockHelperMutex \/ ParkInsteadOfStart \/ MayStart \/ StartGpbackupHelpers
  \/ CopyData \/ CopyDataParks \/ FinishBackup \/ StepFails

Teardown ==
  \/ TeardownChecks \/ FirstWait \/ WriteConfigFile \/ UploadReports
  \/ FinalChecks \/ LastWait \/ CleanupReturns \/ Exit

-----------------------------------------------------------------------------
(* DoCleanup(backupFailed), run by main or by the handler                  *)

GoCleanup(c, from, to) ==
  /\ Running
  /\ cleanupPc[c] = from
  /\ cleanupPc' = [cleanupPc EXCEPT ![c] = to]
Failed(c) == c = "handler" \/ backupFailed

UsesHelpers == "fpInfo" \in setUp /\ singleDataFile

\* Cancel the statements of this backup that wait for locks.
CancelBlockedQueries(c) ==
  /\ GoCleanup(c, "cancel", IF UsesHelpers THEN "sessions" ELSE "history")
  /\ "pool" \in setUp => ~lockWait
  /\ UNCHANGED <<mainPc, cleanupCount, poolClosed, cleanupBroken, helperMutex,
                 exitCode, resultVars, segmentVars, flagVars, failVars>>

TerminateHangingCopySessions(c) ==
  /\ GoCleanup(c, "sessions", "helpers")
  /\ UNCHANGED <<mainPc, cleanupCount, poolClosed, cleanupBroken, helperMutex,
                 exitCode, resultVars, segmentVars, flagVars, failVars>>

\* Sends SIGUSR1 once a second until no helper is found; the helpers end by
\* HelperEnds.  The time-out's timer is made anew by each pass of the loop, so
\* a loop that its ticker drives never sees it fire.
CleanUpSegmentHelperProcesses(c) ==
  /\ helperMutex = "free"
  /\ ~helper
  /\ GoCleanup(c, "helpers", "files")
  /\ UNCHANGED <<mainPc, cleanupCount, poolClosed, cleanupBroken, helperMutex,
                 exitCode, resultVars, segmentVars, flagVars, failVars>>

\* CheckHelperPids looks only at what the commands print: a host that ssh or ps
\* could not look at has no helpers, and the loop ends without a word.
HelperOverlooked(c) ==
  /\ "cleanup" \in Faults
  /\ helperMutex = "free"
  /\ helper
  /\ GoCleanup(c, "helpers", "files")
  /\ helperMissed' = TRUE
  /\ UNCHANGED <<mainPc, helper, files, cleanupCount, poolClosed,
                 cleanupBroken, helperMutex, exitCode, resultVars, flagVars,
                 failVars>>

\* Mutant: the oid lists stay, only the pipes are removed.
RemovePipesOnly(c) ==
  /\ helperMutex = "free"
  /\ GoCleanup(c, "files", "history")
  /\ files' = files \ {"pipe"}
  /\ UNCHANGED <<mainPc, helper, helperMissed, cleanupCount, poolClosed,
                 cleanupBroken, helperMutex, exitCode, resultVars, flagVars,
                 failVars>>

CleanUpHelperFiles(c) ==
  /\ helperMutex = "free"
  /\ GoCleanup(c, "files", "history")
  /\ files' = {}
  /\ UNCHANGED <<mainPc, helper, helperMissed, cleanupCount, poolClosed,
                 cleanupBroken, helperMutex, exitCode, resultVars, flagVars,
                 failVars>>

\* Files that cannot be counted are none to remove, and the loop ends; those
\* that cannot be removed are tried again.  Both failures log an error.
HelperFilesFail(c) ==
  /\ "cleanup" \in Faults
  /\ helperMutex = "free"
  /\ GoCleanup(c, "files", "history")
  /\ files' \in SUBSET files
  /\ LogError
  /\ UNCHANGED <<mainPc, backupFailed, helper, helperMissed, cleanupCount,
                 poolClosed, cleanupBroken, helperMutex, exitCode, resultVars,
                 flagVars>>

\* UPDATE backups SET status = ... changes nothing when there is no row yet.
UpdateHistory(c) ==
  /\ "report" \in setUp
  /\ GoCleanup(c, "history", "unlock")
  /\ history' = IF history = "none" THEN "none"
                ELSE IF Failed(c) THEN "Failure" ELSE "Success"
  /\ UNCHANGED <<mainPc, config, lockFile, dataDone, cleanupCount, poolClosed,
                 cleanupBroken, helperMutex, exitCode, segmentVars, flagVars,
                 failVars>>

\* The database cannot be opened or the UPDATE fails: an error is logged.
UpdateFails(c) ==
  /\ "cleanup" \in Faults
  /\ GoCleanup(c, "history", "unlock")
  /\ LogError
  /\ UNCHANGED <<mainPc, backupFailed, cleanupCount, poolClosed, cleanupBroken,
                 helperMutex, exitCode, resultVars, segmentVars, flagVars>>

\* The UPDATE's end time comes from backupReport, a nil pointer before
\* initializeBackupReport.
UpdateWithoutReport(c) ==
  /\ "report" \notin setUp
  /\ GoCleanup(c, "history", "done")
  /\ cleanupBroken' = TRUE
  /\ UNCHANGED <<mainPc, cleanupCount, poolClosed, helperMutex, exitCode,
                 resultVars, segmentVars, flagVars, failVars>>

Unlock(c) ==
  /\ GoCleanup(c, "unlock", "done")
  /\ lockFile' = FALSE
  /\ UNCHANGED <<mainPc, history, config, dataDone, cleanupCount, poolClosed,
                 cleanupBroken, helperMutex, exitCode, segmentVars, flagVars,
                 failVars>>

\* No connection for cancelBlockedQueries or TerminateHangingCopySessions:
\* gplog.Fatal sets the error code, DoCleanup recovers and skips the rest.
CleanupPanics(c) ==
  /\ "cleanup" \in Faults
  /\ \/ GoCleanup(c, "cancel", "done") /\ "pool" \in setUp
     \/ GoCleanup(c, "sessions", "done")
  /\ cleanupBroken' = TRUE
  /\ errorCode' = 2
  /\ UNCHANGED <<mainPc, backupFailed, cleanupCount, poolClosed, helperMutex,
                 exitCode, resultVars, segmentVars, flagVars>>

CleanupDone(c) ==
  /\ cleanupCount = 1
  /\ GoCleanup(c, "done", "over")
  /\ cleanupCount' = 0
  /\ poolClosed' = (poolClosed \/ "pool" \in setUp)
  /\ UNCHANGED <<mainPc, cleanupBroken, helperMutex, exitCode, resultVars,
                 segmentVars, flagVars, failVars>>

\* The second Done finds the counter at zero: "negative WaitGroup counter", an
\* unrecovered panic that ends the process with status 2.
CleanupDoneTwice(c) ==
  /\ cleanupCount = 0
  /\ GoCleanup(c, "done", "over")
  /\ exitCode' = 2
  /\ UNCHANGED <<mainPc, cleanupCount, poolClosed, cleanupBroken, helperMutex,
                 resultVars, segmentVars, flagVars, failVars>>

CleanupSteps(c) ==
  \/ CancelBlockedQueries(c) \/ TerminateHangingCopySessions(c)
  \/ CleanUpSegmentHelperProcesses(c) \/ CleanUpHelperFiles(c)
  \/ UpdateHistory(c) \/ UpdateWithoutReport(c) \/ Unlock(c)
  \/ CleanupDone(c) \/ CleanupDoneTwice(c)

CleanupFaults(c) ==
  \/ HelperOverlooked(c) \/ HelperFilesFail(c)
  \/ UpdateFails(c) \/ CleanupPanics(c)

Cleanup(c) == CleanupSteps(c) \/ CleanupFaults(c)

-----------------------------------------------------------------------------
(* The signal handler                                                      *)

Signal ==
  /\ "signal" \in Faults
  /\ Running /\ ~wasTerminated
  /\ wasTerminated' = TRUE
  /\ cleanupPc' = [cleanupPc EXCEPT !["handler"] = "cancel"]
  /\ UNCHANGED <<mainPc, cleanupCount, poolClosed, cleanupBroken,
                 singleDataFile, setUp, lockWait, helperMutex, exitCode,
                 resultVars, segmentVars, failVars>>

HandlerExits ==
  /\ Running /\ cleanupPc["handler"] = "over"
  /\ exitCode' = 2
  /\ UNCHANGED <<mainPc, helperMutex, resultVars, segmentVars, cleanVars,
                 flagVars, failVars>>

Over ==
  /\ ~Running
  /\ UNCHANGED vars

Next ==
  \/ Body \/ Teardown \/ HelperEnds
  \/ LockTablesBlocks \/ LockTablesGranted
  \/ \E c \in Cleaners : Cleanup(c)
  \/ Signal \/ HandlerExits \/ Over

Spec == Init /\ [][Next]_vars

\* The scheduler runs both goroutines whenever they can.  Neither that a step of
\* the clean-up ever fails nor that the lock another session holds is ever
\* released is assumed.
Scheduled ==
  /\ WF_vars(Body \/ Teardown)
  /\ \A c \in Cleaners : WF_vars(CleanupSteps(c))
  /\ WF_vars(HandlerExits)

\* A helper that is sent SIGUSR1 ends.
HelpersObey == WF_vars(HelperEnds /\ \E c \in Cleaners : cleanupPc[c] = "helpers")

FairSpec == Spec /\ Scheduled /\ HelpersObey

-----------------------------------------------------------------------------
(* Properties                                                              *)

\* A backup that the history database or the config file calls a success has
\* copied every table, whenever a signal or an error came: DoTeardown and
\* DoCleanup derive both statuses from backupFailed and wasTerminated.
SuccessIsReal == history = "Success" \/ config = "Success" => dataDone

\* The backup that nothing interrupted and that exits with 0 is recorded as a
\* success in both places, has given up its lock file, and has left no files on
\* the segments, although failures of the clean-up itself are only logged.  A
\* helper it leaves is one that CheckHelperPids' look missed because ssh or ps
\* failed, which is not even logged.
CleanExit ==
  exitCode = 0 /\ ~wasTerminated =>
    history = "Success" /\ config = "Success" /\ ~lockFile
    /\ (helper => helperMissed) /\ files = {}

\* When gpbackup ends, also when the signal arrives while main starts the
\* helpers, a helper process is left only by a DoCleanup that a panic cut short
\* or whose look took that running helper for gone: no helper is started behind
\* the back of a DoCleanup, what helperMutex and the check under it are for.
NoOrphanHelpers == ~Running /\ ~cleanupBroken => (helper => helperMissed)

\* Once the signal handler has been called the process ends, whatever main
\* does at that moment: waits for a lock, starts helpers, tears down.
SignalEnds == wasTerminated ~> ~Running
=============================================================================
