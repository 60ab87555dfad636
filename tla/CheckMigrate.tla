---------------------------- MODULE CheckMigrate ----------------------------
(***************************************************************************)
(* One ggcheckmigrate process (ggcheckmigrate.go, checkmigrate/): flags,   *)
(* connections, the checks of each source database inside one transaction  *)
(* with a savepoint per check, the summary with its exit code, and the     *)
(* signal handler.                                                         *)
(*                                                                         *)
(* A catalogue is a set of problematic objects with their schemas and the  *)
(* libraries its functions load; what makes an object problematic is in    *)
(* SQL files.  Any statement may fail, with or without its connection.     *)
(***************************************************************************)
EXTENDS Integers, Sequences, FiniteSets, SequencesExt

CONSTANTS Worlds,       \* command lines with the two clusters they meet
          MaxFailures   \* bound: statements and connections that fail

None == "none"

ASSUME WorldsAssumption ==
  \A w \in Worlds :
    /\ w.knownFlags \in BOOLEAN /\ w.targetHostEmpty \in BOOLEAN
    /\ {w.sourcePort, w.targetPort} \subseteq Int
    /\ w.databases \in Seq(ToSet(w.databases)) /\ IsInjective(w.databases)
    /\ DOMAIN w.objects = ToSet(w.databases) /\ DOMAIN w.libraries = ToSet(w.databases)
    /\ \A db \in ToSet(w.databases) :
         /\ IsFiniteSet(w.objects[db])
         /\ w.libraries[db] \in Seq(ToSet(w.libraries[db]))
    /\ w.database \in ToSet(w.databases) \cup {None}
ASSUME MaxFailuresAssumption == MaxFailures \in Nat

VARIABLES
  world,
  pc,             \* where the main goroutine stands
  bootstrap,      \* database of bootstrapSourceConnection
  targetUp,       \* the target's session: "none", "up" or "lost"
  left,           \* databases that are still to be checked
  conn,           \* the session of the database being checked
  capabilities,   \* availableCapabilities
  check,          \* index of the check in its plan
  checkError,     \* of the running check: "no", "failed" or "target"
  found,          \* its finding count
  loading,        \* libraries it has still to look at
  isLibraryMissing,  \* the cache of LOAD results
  dbError,        \* executionError of the database
  summary,        \* check counts of the database
  totals,         \* counts of all databases
  executionError, \* hasExecutionError
  failures,       \* the failures charged to MaxFailures
  wasTerminated, handler,
  closed, group,  \* connections that DoCleanup closed, and whether it ran
  errorCode, exitCode

checkVars == <<capabilities, check, checkError, found, loading, isLibraryMissing>>
dbVars    == <<left, conn, dbError, summary, totals, executionError>>
endVars   == <<wasTerminated, handler, closed, group, exitCode>>
vars == <<world, pc, bootstrap, targetUp, checkVars, dbVars, failures, endVars, errorCode>>

NoCounts  == [completed |-> 0, failed |-> 0, unavailable |-> 0, findings |-> 0]
NoSession == [db |-> None, up |-> FALSE, tx |-> "none", trackCounts |-> TRUE]
Libraries == UNION {UNION {ToSet(w.libraries[d]) : d \in DOMAIN w.libraries} : w \in Worlds}

Init ==
  /\ world \in Worlds
  /\ pc = "flags" /\ bootstrap = None /\ targetUp = "none"
  /\ left = <<>> /\ conn = NoSession
  /\ capabilities = {} /\ check = 0 /\ checkError = "no" /\ found = 0
  /\ loading = <<>> /\ isLibraryMissing = [l \in Libraries |-> None]
  /\ dbError = FALSE /\ summary = NoCounts /\ totals = NoCounts
  /\ executionError = FALSE /\ failures = 0
  /\ wasTerminated = FALSE /\ handler = "waiting" /\ closed = {} /\ group = 1
  /\ errorCode = 0 /\ exitCode = -1

Alive == exitCode = -1
At(p) == Alive /\ pc = p
Fails == failures < MaxFailures /\ failures' = failures + 1

Flag(f) == f \in world.flags
Target  == Flag("target-host")
Port    == 1..65535

\* The source port is that of the flag or of PGPORT.
ValidateFlagCombinations ==
  /\ Cardinality(world.flags \cap {"debug", "quiet", "verbose"}) <= 1
  /\ world.sourcePort \in Port
  /\ Flag("target-host") <=> Flag("target-port")
  /\ Flag("target-user") => Flag("target-host")
  /\ Flag("target-host") => ~world.targetHostEmpty /\ world.targetPort \in Port

-----------------------------------------------------------------------------
(* The checks                                                              *)

MigrationSupport == "migration-support-functions"
DataTypeSupport  == "data-type-support-function"
SetupQueries     == <<MigrationSupport, DataTypeSupport>>

Check(finds, capability, quiet) ==
  [finds |-> finds, capability |-> capability, shouldDisableTrackCounts |-> quiet]

checkMultiColumnListPartitions   == Check("multi-column-LIST-key", None, FALSE)
checkPlpython2DependentFunctions == Check("plpython2-function", None, FALSE)
checkViewsWithRemovedOperators   == Check("removed-operator", MigrationSupport, TRUE)
checkViewsWithRemovedFunctions   == Check("removed-function", MigrationSupport, TRUE)
checkViewsWithRemovedTypes       == Check("removed-type", MigrationSupport, TRUE)
checkRemovedDataTypes            == Check("removed-column-type", DataTypeSupport, FALSE)
checkMissingAOOptions            == Check("missing-AO-option", None, FALSE)
checkRestrictedExecuteOnFunctions == Check("restricted-EXECUTE-ON", None, FALSE)
checkIncompletePartitionIndexes  == Check("incomplete-unique-index", None, FALSE)
checkIncompatibleRangePartitions == Check("range-bounds", None, FALSE)
checkStatementTriggers           == Check("statement-trigger", None, FALSE)
checkRequiredLibraries           == Check("library", None, FALSE)

databaseChecks ==
  <<checkMultiColumnListPartitions, checkPlpython2DependentFunctions,
    checkViewsWithRemovedOperators, checkViewsWithRemovedFunctions,
    checkViewsWithRemovedTypes, checkRemovedDataTypes, checkMissingAOOptions,
    checkRestrictedExecuteOnFunctions, checkIncompletePartitionIndexes,
    checkIncompatibleRangePartitions, checkStatementTriggers>>

Plan == databaseChecks \o (IF Target THEN <<checkRequiredLibraries>> ELSE <<>>)

\* The rows of a check's query.
Results(db, c) == {o \in world.objects[db] : o.problem = c.finds /\ o.schema \notin world.excluded}

-----------------------------------------------------------------------------
(* Flags and connections                                                   *)

\* cobra rejects what it does not know; DoFlagValidation turns the panic of
\* the validation into code 4.
DoFlagValidation ==
  /\ At("flags")
  /\ IF ~world.knownFlags THEN exitCode' = 4 /\ UNCHANGED <<pc, errorCode>>
     ELSE /\ UNCHANGED exitCode
          /\ IF ValidateFlagCombinations THEN pc' = "connect" /\ UNCHANGED errorCode
             ELSE pc' = "recover" /\ errorCode' = 4
  /\ UNCHANGED <<world, bootstrap, targetUp, checkVars, dbVars, failures,
                 wasTerminated, handler, closed, group>>

\* Without --source-database postgres is tried, then template1.
Candidates == IF world.database = None THEN <<"postgres", "template1">> ELSE <<world.database>>

CreateSourceConnection ==
  /\ At("connect")
  /\ \E n \in 0..Len(Candidates) :    \* the first n connections fail
       /\ failures + n <= MaxFailures /\ failures' = failures + n
       /\ IF n = Len(Candidates)
          THEN pc' = "teardown" /\ errorCode' = 5 /\ UNCHANGED bootstrap
          ELSE /\ bootstrap' = Candidates[n + 1]
               /\ IF world.sourceVersion = 6 THEN pc' = "target" /\ UNCHANGED errorCode
                  ELSE pc' = "teardown" /\ errorCode' = 2
  /\ UNCHANGED <<world, targetUp, checkVars, dbVars, endVars>>

CreateTargetConnection ==
  /\ At("target")
  /\ IF ~Target
     THEN pc' = "enumerate" /\ UNCHANGED <<targetUp, failures, errorCode>>
     ELSE \/ Fails /\ pc' = "teardown" /\ errorCode' = 5 /\ UNCHANGED targetUp
          \/ /\ targetUp' = "up" /\ UNCHANGED failures
             /\ IF world.targetVersion = 7 THEN pc' = "enumerate" /\ UNCHANGED errorCode
                ELSE pc' = "teardown" /\ errorCode' = 3
  /\ UNCHANGED <<world, bootstrap, checkVars, dbVars, endVars>>

-----------------------------------------------------------------------------
(* Statements.  The handler's cleanup closes the bootstrap and target      *)
(* connections, and what main then runs on them panics.                    *)

Closed == "source" \in closed /\ conn.db = bootstrap
Panic  == pc' = "recover" /\ UNCHANGED <<world, bootstrap, targetUp, checkVars,
                                         dbVars, failures, endVars, errorCode>>
Panics(p) == At(p) /\ Closed /\ Panic

\* A statement of an aborted transaction or a lost session fails on its own.
Broken == ~conn.up \/ conn.tx = "aborted"
StatementFails ==
  IF Broken THEN UNCHANGED <<failures, conn>>
  ELSE /\ Fails
       /\ \/ conn' = [conn EXCEPT !.up = FALSE]
          \/ conn' = [conn EXCEPT !.tx = IF @ = "open" THEN "aborted" ELSE @]

\* rollbackMigrationTransactionAfterError, Rollback and a failed Commit.
TransactionOver(session) == [session EXCEPT !.tx = "none", !.trackCounts = TRUE]

-----------------------------------------------------------------------------
(* DoCheckMigrate                                                          *)

EnumerateDatabases ==
  /\ At("enumerate") /\ (world.database # None \/ "source" \notin closed)
  /\ \/ /\ pc' = "database" /\ UNCHANGED <<failures, errorCode>>
        /\ left' = IF world.database = None THEN world.databases ELSE <<bootstrap>>
     \/ /\ world.database = None
        /\ Fails /\ pc' = "teardown" /\ errorCode' = 5 /\ UNCHANGED left
  /\ UNCHANGED <<world, bootstrap, targetUp, checkVars, conn, dbError, summary,
                 totals, executionError, endVars>>

PanicInEnumerate ==
  At("enumerate") /\ world.database = None /\ "source" \in closed /\ Panic

ConnectToDatabase ==
  /\ At("database") /\ left # <<>>
  /\ \/ /\ pc' = "begin-setup"
        /\ conn' = [NoSession EXCEPT !.db = Head(left), !.up = TRUE]
        /\ dbError' = FALSE /\ summary' = NoCounts
        /\ UNCHANGED <<left, executionError, failures>>
     \/ /\ Head(left) # bootstrap /\ Fails
        /\ left' = Tail(left) /\ executionError' = TRUE
        /\ UNCHANGED <<pc, conn, dbError, summary>>
  /\ UNCHANGED <<world, bootstrap, targetUp, checkVars, totals, endVars, errorCode>>

-----------------------------------------------------------------------------
(* prepareMigrationCheckCapabilities                                       *)

\* No check is run: the database's error is all there is.
StopDatabase == pc' = "close" /\ dbError' = TRUE

BeginSetup ==
  /\ At("begin-setup") /\ ~Closed
  /\ capabilities' = {}
  /\ \/ /\ pc' = "setup" /\ check' = 1 /\ conn.up
        /\ conn' = [conn EXCEPT !.tx = "open"] /\ UNCHANGED <<dbError, failures>>
     \/ StatementFails /\ StopDatabase /\ UNCHANGED check
  /\ UNCHANGED <<world, bootstrap, targetUp, checkError, found, loading,
                 isLibraryMissing, left, summary, totals, executionError, endVars, errorCode>>

\* A bug: only the log says that a capability is missing.
SetupLogged == UNCHANGED dbError

SetupFailed == dbError' = TRUE

\* One capability: savepoint, setup query, roll back to the savepoint when
\* the query fails, release.  When another of these fails the transaction is
\* rolled back and the database has no checks.
SetUpCapability ==
  /\ At("setup") /\ ~Closed /\ check <= Len(SetupQueries)
  /\ \/ /\ ~Broken
        /\ capabilities' = capabilities \cup {SetupQueries[check]}
        /\ check' = check + 1 /\ UNCHANGED <<pc, conn, dbError, failures>>
     \/ /\ ~Broken /\ Fails /\ SetupFailed
        /\ check' = check + 1 /\ UNCHANGED <<pc, conn, capabilities>>
     \/ /\ Fails
        /\ \E session \in {conn, [conn EXCEPT !.up = FALSE]} :
             conn' = TransactionOver(session)
        /\ StopDatabase /\ UNCHANGED <<capabilities, check>>
  /\ UNCHANGED <<world, bootstrap, targetUp, checkError, found, loading,
                 isLibraryMissing, left, summary, totals, executionError, endVars, errorCode>>

\* Commit, and beginReadOnlyMigrationTransaction.
BeginChecks ==
  /\ At("setup") /\ ~Closed /\ check > Len(SetupQueries)
  /\ \/ /\ ~Broken /\ pc' = "check" /\ check' = 1
        /\ conn' = [conn EXCEPT !.tx = "open"] /\ UNCHANGED <<dbError, failures>>
     \/ /\ Fails
        /\ \E session \in {conn, [conn EXCEPT !.up = FALSE]} :
             conn' = TransactionOver(session)
        /\ StopDatabase /\ UNCHANGED check
  /\ UNCHANGED <<world, bootstrap, targetUp, capabilities, checkError, found,
                 loading, isLibraryMissing, left, summary, totals, executionError,
                 endVars, errorCode>>

-----------------------------------------------------------------------------
(* runMigrationCheckPlan and runMigrationCheck                             *)

Current == Plan[check]
Available(c) == c.capability \in capabilities \cup {None}
StopChecks == pc' = "rollback" /\ dbError' = TRUE

SkipCheck ==
  /\ At("check") /\ check <= Len(Plan) /\ ~Available(Current)
  /\ summary' = [summary EXCEPT !.unavailable = @ + 1]
  /\ check' = check + 1
  /\ UNCHANGED <<world, pc, bootstrap, targetUp, capabilities, checkError, found,
                 loading, isLibraryMissing, left, conn, dbError, totals,
                 executionError, failures, endVars, errorCode>>

\* SAVEPOINT, and SET track_counts TO off, whose failure is the check's.
StartCheck ==
  /\ At("check") /\ ~Closed /\ check <= Len(Plan) /\ Available(Current)
  /\ found' = 0 /\ loading' = <<>>
  /\ \/ /\ ~Broken /\ pc' = "query" /\ checkError' = "no"
        /\ conn' = [conn EXCEPT !.trackCounts = ~Current.shouldDisableTrackCounts]
        /\ UNCHANGED <<dbError, failures>>
     \/ /\ ~Broken /\ Current.shouldDisableTrackCounts
        /\ StatementFails /\ pc' = "recover-check" /\ checkError' = "failed"
        /\ UNCHANGED dbError
     \/ StatementFails /\ StopChecks /\ UNCHANGED checkError
  /\ UNCHANGED <<world, bootstrap, targetUp, capabilities, check, isLibraryMissing,
                 left, summary, totals, executionError, endVars, errorCode>>

PanicInCheck ==
  At("check") /\ Closed /\ check <= Len(Plan) /\ Available(Current) /\ Panic

\* doRunCheck; that of the libraries goes on with their LOADs.
RunQuery ==
  /\ At("query") /\ ~Closed
  /\ \/ /\ ~Broken /\ UNCHANGED <<conn, failures, checkError>>
        /\ IF Current = checkRequiredLibraries
           THEN /\ pc' = "libraries" /\ loading' = world.libraries[conn.db]
                /\ UNCHANGED found
           ELSE /\ pc' = "reset" /\ found' = Cardinality(Results(conn.db, Current))
                /\ UNCHANGED loading
     \/ /\ StatementFails /\ pc' = "recover-check" /\ checkError' = "failed"
        /\ UNCHANGED <<found, loading>>
  /\ UNCHANGED <<world, bootstrap, targetUp, capabilities, check, isLibraryMissing,
                 left, dbError, summary, totals, executionError, endVars, errorCode>>

\* LOAD of a library nobody has tried; when it fails SELECT 1 tells a missing
\* library from a lost target.
LoadLibrary ==
  /\ At("libraries") /\ loading # <<>>
  /\ LET l == Head(loading)
         missing == IF isLibraryMissing[l] # None THEN isLibraryMissing[l]
                    ELSE IF l \in world.refused THEN "missing" ELSE "present"
     IN
     \/ /\ isLibraryMissing[l] # None \/ (targetUp = "up" /\ "target" \notin closed)
        /\ isLibraryMissing' = [isLibraryMissing EXCEPT ![l] = missing]
        /\ found' = found + (IF missing = "missing" THEN 1 ELSE 0)
        /\ loading' = Tail(loading)
        /\ UNCHANGED <<pc, targetUp, checkError, failures>>
     \/ /\ isLibraryMissing[l] = None /\ "target" \notin closed
        /\ IF targetUp = "up" THEN Fails ELSE UNCHANGED failures
        /\ targetUp' = "lost" /\ checkError' = "target"
        /\ pc' = "recover-check" /\ loading' = <<>>
        /\ UNCHANGED <<isLibraryMissing, found>>
  /\ UNCHANGED <<world, bootstrap, capabilities, check, dbVars, endVars, errorCode>>

LibrariesChecked ==
  /\ At("libraries") /\ loading = <<>>
  /\ pc' = "reset"
  /\ UNCHANGED <<world, bootstrap, targetUp, checkVars, dbVars, failures, endVars, errorCode>>

PanicOnTarget ==
  /\ At("libraries") /\ loading # <<>> /\ isLibraryMissing[Head(loading)] = None
  /\ "target" \in closed /\ Panic

\* RESET track_counts, then RELEASE of a check without an error.
FinishCheck ==
  /\ At("reset") /\ ~Closed
  /\ \/ /\ ~Broken /\ pc' = "check" /\ check' = check + 1
        /\ conn' = [conn EXCEPT !.trackCounts = TRUE]
        /\ summary' = [summary EXCEPT !.completed = @ + 1, !.findings = @ + found]
        /\ UNCHANGED <<dbError, failures, checkError>>
     \/ /\ Current.shouldDisableTrackCounts
        /\ StatementFails /\ pc' = "recover-check" /\ checkError' = "failed"
        /\ UNCHANGED <<dbError, check, summary>>
     \/ /\ StatementFails /\ StopChecks    \* RELEASE fails
        /\ summary' = [summary EXCEPT !.completed = @ + 1, !.findings = @ + found]
        /\ UNCHANGED <<check, checkError>>
  /\ UNCHANGED <<world, bootstrap, targetUp, capabilities, found, loading,
                 isLibraryMissing, left, totals, executionError, endVars, errorCode>>

\* A bug: the savepoint is only released.
NotRolledBack(session) == session

\* What ROLLBACK TO SAVEPOINT undoes.
RolledBackTo(session) == [session EXCEPT !.tx = "open", !.trackCounts = TRUE]

\* A failed check: roll back to its savepoint and release it.
RecoverCheck ==
  /\ At("recover-check") /\ ~Closed
  /\ \/ /\ conn.up /\ conn' = RolledBackTo(conn) /\ UNCHANGED failures
        /\ dbError' = TRUE
        /\ IF checkError = "target" THEN pc' = "rollback" /\ UNCHANGED check
           ELSE pc' = "check" /\ check' = check + 1
        /\ summary' = [summary EXCEPT !.findings = @ + found,
             !.failed = @ + (IF checkError = "target" THEN 0 ELSE 1)]
     \/ /\ IF conn.up THEN Fails /\ conn' = [conn EXCEPT !.up = FALSE]
           ELSE UNCHANGED <<failures, conn>>
        /\ StopChecks /\ UNCHANGED check
        /\ summary' \in {[summary EXCEPT !.findings = @ + found],
             [summary EXCEPT !.findings = @ + found,
                !.failed = @ + (IF conn.up /\ checkError = "failed" THEN 1 ELSE 0)]}
  /\ UNCHANGED <<world, bootstrap, targetUp, capabilities, checkError, found,
                 loading, isLibraryMissing, left, totals, executionError, endVars, errorCode>>

PlanDone ==
  /\ At("check") /\ check > Len(Plan)
  /\ pc' = "rollback"
  /\ UNCHANGED <<world, bootstrap, targetUp, checkVars, dbVars, failures, endVars, errorCode>>

\* The deferred Rollback of runMigrationChecks.
RollbackChecks ==
  /\ At("rollback") /\ ~Closed
  /\ pc' = "close"
  /\ \/ conn.up /\ conn' = TransactionOver(conn) /\ UNCHANGED <<dbError, failures>>
     \/ /\ IF conn.up THEN Fails ELSE UNCHANGED failures
        /\ dbError' = TRUE /\ conn' = TransactionOver([conn EXCEPT !.up = FALSE])
  /\ UNCHANGED <<world, bootstrap, targetUp, checkVars, left, summary, totals,
                 executionError, endVars, errorCode>>

CountDatabase ==
  /\ At("close")
  /\ totals' = [k \in DOMAIN totals |-> totals[k] + summary[k]]
  /\ executionError' = (executionError \/ dbError)
  /\ left' = Tail(left) /\ conn' = NoSession /\ pc' = "database"
  /\ summary' = NoCounts
  /\ UNCHANGED <<world, bootstrap, targetUp, checkVars, dbError, failures,
                 endVars, errorCode>>

SummaryCode ==
  IF executionError THEN 5
  ELSE IF totals.findings > 0 \/ totals.failed > 0 \/ totals.unavailable > 0 THEN 1
  ELSE 0

Summarize ==
  /\ At("database") /\ left = <<>>
  /\ pc' = "teardown" /\ errorCode' = SummaryCode
  /\ UNCHANGED <<world, bootstrap, targetUp, checkVars, dbVars, failures, endVars>>

-----------------------------------------------------------------------------
(* DoTeardown, DoCleanup and the signal handler                            *)

Recover ==
  /\ At("recover")
  /\ pc' = "teardown" /\ errorCode' = IF errorCode < 2 THEN 5 ELSE errorCode
  /\ UNCHANGED <<world, bootstrap, targetUp, checkVars, dbVars, failures, endVars>>

\* cleanupOnce: the second caller returns when the first is through.
Cleanup ==
  /\ group' = 0
  /\ closed' = IF group = 0 THEN closed
               ELSE (IF bootstrap = None THEN {} ELSE {"source"})
                    \cup (IF targetUp = "none" THEN {} ELSE {"target"})

Teardown ==
  /\ At("teardown")
  /\ IF wasTerminated THEN group = 0 /\ UNCHANGED <<closed, group>> ELSE Cleanup
  /\ pc' = "exit"
  /\ UNCHANGED <<world, bootstrap, targetUp, checkVars, dbVars, failures,
                 wasTerminated, handler, exitCode, errorCode>>

Exit ==
  /\ At("exit") /\ exitCode' = errorCode
  /\ UNCHANGED <<world, pc, bootstrap, targetUp, checkVars, dbVars, failures,
                 wasTerminated, handler, closed, group, errorCode>>

Signal ==
  /\ Alive /\ handler = "waiting"
  /\ wasTerminated' = TRUE /\ handler' = "cleanup"
  /\ UNCHANGED <<world, pc, bootstrap, targetUp, checkVars, dbVars, failures,
                 closed, group, exitCode, errorCode>>

HandlerCleansUp ==
  /\ Alive /\ handler = "cleanup"
  /\ Cleanup /\ handler' = "exit"
  /\ UNCHANGED <<world, pc, bootstrap, targetUp, checkVars, dbVars, failures,
                 wasTerminated, exitCode, errorCode>>

HandlerExits ==
  /\ Alive /\ handler = "exit" /\ exitCode' = 2
  /\ UNCHANGED <<world, pc, bootstrap, targetUp, checkVars, dbVars, failures,
                 wasTerminated, handler, closed, group, errorCode>>

Stopped == ~Alive /\ UNCHANGED vars

-----------------------------------------------------------------------------
Statement ==
  \/ BeginSetup \/ SetUpCapability \/ BeginChecks \/ StartCheck \/ RunQuery
  \/ LoadLibrary \/ FinishCheck \/ RecoverCheck \/ RollbackChecks

Main ==
  \/ DoFlagValidation \/ CreateSourceConnection \/ CreateTargetConnection
  \/ EnumerateDatabases \/ PanicInEnumerate \/ ConnectToDatabase
  \/ Statement \/ SkipCheck \/ LibrariesChecked \/ PanicOnTarget \/ PlanDone
  \/ CountDatabase \/ Summarize
  \/ (\E p \in {"begin-setup", "setup", "query", "reset", "recover-check", "rollback"} :
        Panics(p))
  \/ PanicInCheck
  \/ Recover \/ Teardown \/ Exit

Next == Main \/ Signal \/ HandlerCleansUp \/ HandlerExits \/ Stopped

Spec == Init /\ [][Next]_vars

-----------------------------------------------------------------------------
(* Properties                                                              *)

Checked == IF world.database = None THEN ToSet(world.databases) ELSE {world.database}
ProblemIn(db) ==
  \/ \E i \in DOMAIN databaseChecks : Results(db, databaseChecks[i]) # {}
  \/ Target /\ ToSet(world.libraries[db]) \cap world.refused # {}
EverythingCompleted ==
  totals.completed = Cardinality(Checked) * Len(Plan)

\* The exit code of a run nobody terminates means what README.md:169 says: 0
\* and 1 only when every check of every database was completed, by whether
\* there is a problem in one of them at all; 5 only when something failed.
\* The code is put together from counters and errors of three nested loops,
\* with cached LOADs and skipped checks (checkmigrate.go:181).
ExitCodeMeaning ==
  exitCode # -1 /\ ~wasTerminated =>
    CASE exitCode = 0 -> EverythingCompleted /\ \A db \in Checked : ~ProblemIn(db)
      [] exitCode = 1 -> EverythingCompleted /\ \E db \in Checked : ProblemIn(db)
      [] exitCode = 2 -> world.sourceVersion # 6
      [] exitCode = 3 -> world.sourceVersion = 6 /\ world.targetVersion # 7
      [] exitCode = 4 -> ~(ValidateFlagCombinations /\ world.knownFlags)
      [] exitCode = 5 -> failures > 0

\* A check that fails takes no other one with it: there are at most as many
\* failed checks as statements that failed, and the next check begins with
\* the transaction in order and track_counts on (checks.go:400).
FailuresContained ==
  /\ summary.failed + totals.failed <= failures
  /\ pc = "check" /\ conn.up => conn.tx = "open" /\ conn.trackCounts

=============================================================================
