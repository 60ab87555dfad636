--------------------------- MODULE RestoreLifecycle ---------------------------
(***************************************************************************)
(* One gprestore process from its flags to os.Exit (restore/restore.go,    *)
(* gprestore.go): DoValidation, DoSetup, DoRestore with its sections, the  *)
(* deferred DoTeardown, and the signal handler that runs DoCleanup at any  *)
(* moment.  The statements of a section go through the worker pool of      *)
(* restore/parallel.go and the tables of a backup through the workers of   *)
(* restoreDataFromTimestamp.                                               *)
(*                                                                         *)
(* How pre-data statements share connections is in PredataRestore and how  *)
(* a segment's helper feeds the COPYs in RestoreHelper; here pre-data runs *)
(* on connection 0 and a COPY succeeds or fails.                           *)
(***************************************************************************)
EXTENDS Integers, Sequences, FiniteSets, SequencesExt

CONSTANTS Commands,     \* command lines with the backup and the target database
          Backups,      \* timestamps of the restore plan, oldest first
          DataEntries,  \* the tables each of them has to supply
          Predata, Postdata, Statistics,   \* statements in file order
          NumConns,
          MaxFailures   \* bound: statements that fail for reasons of their own

Conns    == 0..(NumConns - 1)
Tables   == UNION {ToSet(DataEntries[b]) : b \in ToSet(Backups)}
Newest   == Backups[Len(Backups)]
None     == "none"

(* A statement has a type, the object it makes or changes, and the object  *)
(* it belongs to (a table's schema, an index's table) or None.             *)
StatementTypes == {"SCHEMA", "TABLE", "SEQUENCE", "QD-DATA", "INDEX",
                   "TRIGGER", "INDEX-METADATA", "STATISTICS", "SETVAL", "ANALYZE"}
MetadataTypes == {"INDEX-METADATA"}
NoStatement == [type |-> None, object |-> None, of |-> None]
Creating == {"SCHEMA", "TABLE", "SEQUENCE", "INDEX", "TRIGGER"}

ASSUME CommandsAssumption ==
  \A c \in Commands :
    /\ c.include \subseteq Tables
    /\ "include-table" \in c.flags <=> c.include # {}
    /\ c.database \in BOOLEAN

\* A table is in the plan once, for the newest backup that holds its rows.
ASSUME PlanAssumption ==
  /\ Backups \in Seq(ToSet(Backups)) /\ Backups # <<>>
  /\ \A b \in ToSet(Backups) :
       DataEntries[b] \in Seq(ToSet(DataEntries[b])) /\ IsInjective(DataEntries[b])
  /\ \A a, b \in ToSet(Backups) :
       a # b => ToSet(DataEntries[a]) \cap ToSet(DataEntries[b]) = {}

\* An index has one name and one table.
ASSUME StatementsAssumption ==
  /\ NumConns \in Nat \ {0} /\ MaxFailures \in Nat
  /\ \A ss \in {Predata, Postdata, Statistics} : ss \in Seq(ToSet(ss))
  /\ \A s \in ToSet(Predata) :
       s.type \in {"SCHEMA", "TABLE", "SEQUENCE", "QD-DATA"}
  /\ \A s \in ToSet(Postdata) : s.type \in {"INDEX", "TRIGGER", "INDEX-METADATA"}
  /\ \A s \in ToSet(Statistics) : s.type = "STATISTICS"
  /\ \A i, j \in DOMAIN Postdata :
       Postdata[i].type = "INDEX" /\ Postdata[i] = Postdata[j] => i = j

VARIABLES
  cmd,            \* the command line, the backup it names, the target database
  pc,             \* where the main goroutine stands
  section,        \* the section DoRestore has come to
  tasks,          \* channel of statements
  parallel,       \* executeInParallel
  worker,         \* "idle", "busy" or "done", per connection
  running,        \* the statement a connection executes
  fatalBy,        \* the connection that set fatalErr last
  numErrors,
  backupsLeft,    \* timestamps whose data restoreData has not loaded yet
  loading,        \* the one it loads
  entry,          \* entryIdx, the table each connection has come to
  cancelled,      \* the context of restoreDataFromTimestamp
  panicked,       \* a worker's panic that main has not taken from panicChan
  objects,        \* objects of the target database
  rows,           \* what a table of the target holds
  done, failed,   \* statements by their result
  failures,       \* the failures charged to MaxFailures
  errorTables,    \* errorTablesMetadata and errorTablesData
  files,          \* the error table files
  setUp,          \* globals set so far: "pool", "fpInfo", "plugin", "config"
  helpers,        \* timestamps with helpers on the segments
  plugin,         \* the storage plugin: "unused", "set-up" or "cleaned-up"
  wasTerminated, handler, group, cleanupFailed,
  overlooked,     \* timestamps whose running helpers a clean-up did not find
  errorCode, exitCode

poolVars == <<tasks, parallel, worker, running, fatalBy, numErrors>>
loadVars == <<backupsLeft, loading, entry, cancelled>>
dbVars   == <<objects, rows, done, failed, failures>>
errVars  == <<errorTables, files>>
endVars  == <<wasTerminated, handler, group, cleanupFailed, overlooked, exitCode>>
outVars  == <<setUp, helpers, plugin>>
vars == <<cmd, pc, section, poolVars, loadVars, panicked, dbVars, errVars,
          outVars, endVars, errorCode>>

Flag(f) == f \in cmd.flags
OnErrorContinue == Flag("on-error-continue")

Init ==
  /\ cmd \in Commands
  /\ pc = "validation" /\ section = 1
  /\ tasks = <<>> /\ parallel = FALSE
  /\ worker = [c \in Conns |-> "done"] /\ running = [c \in Conns |-> NoStatement]
  /\ fatalBy = -1 /\ numErrors = 0
  /\ backupsLeft = {} /\ loading = None
  /\ entry = [c \in Conns |-> 0] /\ cancelled = FALSE /\ panicked = FALSE
  /\ objects = cmd.objects
  /\ rows = [t \in Tables |-> IF t \in cmd.objects THEN "old" ELSE "empty"]
  /\ done = {} /\ failed = {} /\ failures = 0
  /\ errorTables = [metadata |-> {}, data |-> {}]
  /\ files = [written |-> FALSE, metadata |-> {}, data |-> {}]
  /\ setUp = {} /\ helpers = {} /\ plugin = "unused"
  /\ wasTerminated = FALSE /\ handler = "waiting" /\ group = 1
  /\ cleanupFailed = FALSE /\ overlooked = {}
  /\ errorCode = 0 /\ exitCode = -1

Alive == exitCode = -1
At(p) == Alive /\ pc = p
LogsError == errorCode' = IF errorCode = 0 THEN 1 ELSE errorCode

\* gplog.Fatal on the main goroutine: it panics into DoTeardown.
Fatal == pc' = "recover" /\ errorCode' = 2

-----------------------------------------------------------------------------
(* The command line and the backup                                         *)

DataOnly     == cmd.backup.dataOnly \/ Flag("data-only")
MetadataOnly == cmd.backup.metadataOnly \/ Flag("metadata-only")

Exclusive(flags, group_) == Cardinality(flags \cap group_) <= 1

ValidateFlagCombinations(flags) ==
  /\ Exclusive(flags, {"data-only", "with-globals"})
  /\ Exclusive(flags, {"data-only", "create-db"})
  /\ Exclusive(flags, {"metadata-only", "data-only"})
  /\ Exclusive(flags, {"plugin-config", "backup-dir"})
  /\ Exclusive(flags, {"truncate-table", "metadata-only", "incremental"})
  /\ Exclusive(flags, {"run-analyze", "with-stats"})
  /\ "truncate-table" \in flags =>
        "include-table" \in flags \/ "data-only" \in flags
  /\ "incremental" \in flags => "data-only" \in flags

ValidateBackupFlagCombinations(flags, backup) ==
  /\ backup.filtered \/ backup.dataOnly => "with-globals" \notin flags
  /\ backup.metadataOnly => "data-only" \notin flags
  /\ backup.dataOnly => "metadata-only" \notin flags
  /\ backup.singleDataFile \/ "copy-queue-size" \notin flags
  /\ backup.plugin <=> "plugin-config" \in flags

\* What of a sequence is in a set, in its order: a SelectSeq the prover can
\* expand.
Keep(ss, set) ==
  LET kept[i \in 0..Len(ss)] ==
        IF i = 0 THEN <<>>
        ELSE IF ss[i] \in set THEN Append(kept[i - 1], ss[i]) ELSE kept[i - 1]
  IN kept[Len(ss)]

\* shouldIncludeStatement and GetDataEntriesMatching for an include list.
Selected(t) == cmd.include = {} \/ t \in cmd.include
Relation(s) == IF s.type \in {"TABLE", "SEQUENCE", "QD-DATA"} THEN s.object ELSE s.of
StatementSelected(s) == s.type = "SCHEMA" \/ Selected(Relation(s))
StatementsOf(ss, types) ==
  Keep(ss, {s \in ToSet(ss) : s.type \in types /\ StatementSelected(s)})
EntriesOf(b) == Keep(DataEntries[b], {t \in Tables : Selected(t)})

ValidateDatabaseExistence ==
  IF cmd.database THEN ~Flag("create-db")
  ELSE Flag("create-db") /\ ~(cmd.backup.filtered \/ cmd.backup.dataOnly)

\* ValidateRelationsInRestoreDatabase, with the calls it is not made for.
ValidateRelations ==
  LET relations == IF cmd.include # {} THEN cmd.include
                   ELSE ToSet(DataEntries[Newest])
  IN \/ Flag("create-db") \/ OnErrorContinue \/ Flag("incremental")
     \/ IF DataOnly THEN relations \subseteq objects
        ELSE relations \cap objects = {}

DoValidation ==
  /\ At("validation")
  /\ IF ValidateFlagCombinations(cmd.flags)
     THEN pc' = "connect" /\ UNCHANGED errorCode
     ELSE Fatal
  /\ UNCHANGED <<cmd, section, poolVars, loadVars, panicked, dbVars, errVars,
                 outVars, endVars>>

-----------------------------------------------------------------------------
(* DoSetup                                                                 *)

Connect ==
  /\ At("connect")
  /\ \/ pc' = "plugin" /\ setUp' = setUp \cup {"pool", "fpInfo"}
        /\ UNCHANGED errorCode
     \/ Fatal /\ setUp' \in {setUp, setUp \cup {"pool"}}
  /\ UNCHANGED <<cmd, section, poolVars, loadVars, panicked, dbVars, errVars,
                 helpers, plugin, endVars>>

\* RecoverMetadataFilesUsingPlugin up to SetupPluginForRestore; pluginConfig
\* is set before the plugin is looked for on the hosts.
SetUpPlugin ==
  /\ At("plugin")
  /\ IF ~Flag("plugin-config")
     THEN pc' = "config" /\ UNCHANGED <<setUp, plugin, errorCode>>
     ELSE /\ setUp' = setUp \cup {"plugin"}
          /\ \/ pc' = "config" /\ plugin' = "set-up" /\ UNCHANGED errorCode
             \/ Fatal /\ plugin' \in {"unused", "set-up"}
  /\ UNCHANGED <<cmd, section, poolVars, loadVars, panicked, dbVars, errVars,
                 helpers, endVars>>

\* InitializeBackupConfig, for which the plugin may have to fetch the file.
ReadConfig ==
  /\ At("config")
  /\ \/ pc' = "backup" /\ setUp' = setUp \cup {"config"} /\ UNCHANGED errorCode
     \/ Fatal /\ setUp' \in {setUp, setUp \cup {"config"}}
  /\ UNCHANGED <<cmd, section, poolVars, loadVars, panicked, dbVars, errVars,
                 helpers, plugin, endVars>>

\* ValidateSafeToResizeCluster, BackupConfigurationValidation and
\* ValidateDatabaseExistence.
CheckBackup ==
  /\ At("backup")
  /\ IF /\ ValidateBackupFlagCombinations(cmd.flags, cmd.backup)
        /\ ValidateDatabaseExistence
     THEN pc' = "globals" /\ UNCHANGED errorCode
     ELSE Fatal
  /\ UNCHANGED <<cmd, section, poolVars, loadVars, panicked, dbVars, errVars,
                 outVars, endVars>>

\* restoreGlobal and createDatabase; without the database the connections
\* made afterwards fail.
RestoreGlobals ==
  /\ At("globals")
  /\ IF {"create-db", "with-globals"} \cap cmd.flags = {}
     THEN pc' = "relations" /\ UNCHANGED <<errorCode, failures>>
     ELSE \/ pc' = "relations" /\ UNCHANGED <<errorCode, failures>>
          \/ /\ failures < MaxFailures
             /\ failures' = failures + 1
             /\ \/ OnErrorContinue /\ cmd.database /\ pc' = "relations" /\ LogsError
                \/ ~(OnErrorContinue /\ cmd.database) /\ Fatal
  /\ UNCHANGED <<cmd, section, poolVars, loadVars, panicked, objects, rows, done,
                 failed, errVars, outVars, endVars>>

(* DoRestore's sections in its order.  Each begins by looking at           *)
(* wasTerminated, but for "incremental", "file-count" and later batches.   *)
Sections == <<"incremental", "schemas", "predata", "sequences", "qd-data",
              "file-count", "data", "batch-1", "batch-2", "batch-3",
              "statistics", "analyze">>

Metadata  == ~DataOnly /\ ~Flag("incremental")
WithStats == Flag("with-stats") /\ cmd.backup.withStatistics

\* The conditions under which DoRestore calls them.
Asks(p) ==
  CASE p = "incremental" -> Flag("incremental")
    [] p \in {"schemas", "predata", "batch-1", "batch-2", "batch-3"} -> Metadata
    [] p = "sequences"   -> DataOnly
    [] p = "qd-data"     -> DataOnly \/ (Metadata /\ ~MetadataOnly)
    [] p = "file-count"  -> ~MetadataOnly /\ ~Flag("plugin-config")
    [] p = "data"        -> ~MetadataOnly
    [] p = "statistics"  -> WithStats
    [] p = "analyze"     -> ~WithStats /\ Flag("run-analyze")

CheckRelations ==
  /\ At("relations")
  /\ IF ValidateRelations
     THEN pc' = "restore" /\ UNCHANGED errorCode
     ELSE Fatal
  /\ UNCHANGED <<cmd, section, poolVars, loadVars, panicked, dbVars, errVars, outVars,
                 endVars>>

-----------------------------------------------------------------------------
(* The batches of statements                                               *)

\* A bug: there is no first batch.
NoFirstIndexes(ss) == {}

\* BatchPostdataStatements: the first index of each table, the rest, and the
\* metadata of what they create.
FirstIndexes(ss) ==
  {ss[i] : i \in {k \in DOMAIN ss :
                    /\ ss[k].type = "INDEX"
                    /\ \A j \in 1..(k - 1) :
                         ss[j].type = "INDEX" => ss[j].of # ss[k].of}}
FirstBatch(ss) == Keep(ss, FirstIndexes(ss))

IsMetadata(s) == s.type \in MetadataTypes
ThirdBatch(ss) == Keep(ss, {s \in ToSet(ss) : IsMetadata(s)})
SecondBatch(ss) ==
  Keep(ss, {s \in ToSet(ss) : ~IsMetadata(s)} \ FirstIndexes(ss))

Analyze(t) == [type |-> "ANALYZE", object |-> None, of |-> t]
QDDone == {s.object : s \in {x \in done : x.type = "QD-DATA"}}

\* The entries of the restore plan that restoreData takes.
DueBackups == IF Flag("incremental") THEN {Newest} ELSE ToSet(Backups)

\* runAnalyze: what restoreData and restoreQDOnlyTablesData returned.
LoadedTables ==
  UNION {ToSet(EntriesOf(b)) : b \in IF MetadataOnly THEN {} ELSE DueBackups}
AnalyzeStatements == SetToSeq({Analyze(t) : t \in LoadedTables \cup QDDone})

Postdatas == StatementsOf(Postdata, StatementTypes)
Setval(s) == [type |-> "SETVAL", object |-> s.object, of |-> s.of]

Batch(p) ==
  CASE p = "predata"    -> StatementsOf(Predata, {"TABLE", "SEQUENCE"})
    [] p = "sequences"  -> [i \in DOMAIN StatementsOf(Predata, {"SEQUENCE"}) |->
                              Setval(StatementsOf(Predata, {"SEQUENCE"})[i])]
    [] p = "qd-data"    -> StatementsOf(Predata, {"QD-DATA"})
    [] p = "batch-1"    -> FirstBatch(Postdatas)
    [] p = "batch-2"    -> SecondBatch(Postdatas)
    [] p = "batch-3"    -> ThirdBatch(Postdatas)
    [] p = "statistics" -> StatementsOf(Statistics, StatementTypes)
    [] p = "analyze"    -> AnalyzeStatements

\* One call with executeInParallel FALSE, on connection 0.
Serial == {"predata", "statistics"}
\* Sections that are not entered once wasTerminated is set.
Guarded == {"schemas", "predata", "sequences", "qd-data", "data", "batch-1",
            "statistics", "analyze"}

Section(p) == /\ At("restore") /\ section \in DOMAIN Sections
              /\ Sections[section] = p /\ Asks(p)
Enters(p)  == Section(p) /\ ~(wasTerminated /\ p \in Guarded)
NextSection == section' = section + 1

SkipSection ==
  /\ At("restore") /\ section \in DOMAIN Sections
  /\ \/ ~Asks(Sections[section])
     \/ wasTerminated /\ Sections[section] \in Guarded
  /\ NextSection
  /\ UNCHANGED <<cmd, pc, poolVars, loadVars, panicked, dbVars, errVars,
                 outVars, endVars, errorCode>>

VerifyIncrementalState ==
  /\ Section("incremental")
  /\ IF ToSet(EntriesOf(Newest)) \subseteq objects \/ OnErrorContinue
     THEN NextSection /\ UNCHANGED <<pc, errorCode>>
     ELSE Fatal /\ UNCHANGED section
  /\ UNCHANGED <<cmd, poolVars, loadVars, panicked, dbVars, errVars, outVars,
                 endVars>>

VerifyFileCount ==
  /\ Section("file-count")
  /\ \/ NextSection /\ UNCHANGED <<pc, errorCode>>
     \/ Fatal /\ UNCHANGED section
  /\ UNCHANGED <<cmd, poolVars, loadVars, panicked, dbVars, errVars, outVars,
                 endVars>>

\* A schema that is there already is as good as restored.
RestoreSchemas ==
  /\ Enters("schemas")
  /\ LET all == ToSet(StatementsOf(Predata, {"SCHEMA"}))
     IN \E bad \in SUBSET {s \in all : s.object \notin objects} :
          /\ failures + Cardinality(bad) <= MaxFailures
          /\ failures' = failures + Cardinality(bad)
          /\ done' = done \cup (all \ bad)
          /\ failed' = failed \cup bad
          /\ objects' = objects \cup {s.object : s \in all \ bad}
          /\ \/ bad = {} /\ NextSection /\ UNCHANGED <<pc, errorCode>>
             \/ bad # {} /\ OnErrorContinue /\ LogsError /\ NextSection /\ UNCHANGED pc
             \/ bad # {} /\ ~OnErrorContinue /\ Fatal /\ UNCHANGED section
  /\ UNCHANGED <<cmd, poolVars, loadVars, panicked, rows, errVars, outVars,
                 endVars>>

StartPool(ss, inParallel) ==
  /\ IF ss = <<>> THEN NextSection /\ UNCHANGED <<pc, tasks, parallel, worker>>
     ELSE /\ UNCHANGED section
          /\ pc' = "run" /\ tasks' = ss /\ parallel' = inParallel
          /\ worker' = [c \in Conns |->
               IF inParallel \/ c = 0 THEN "idle" ELSE "done"]
  /\ UNCHANGED <<running, fatalBy, numErrors>>

\* ExecuteRestoreMetadataStatements for a section or one of its batches.
StartSection ==
  /\ \E p \in {"predata", "sequences", "batch-1", "batch-2", "batch-3",
               "statistics", "analyze"} :
       Enters(p) /\ StartPool(Batch(p), NumConns > 1 /\ p \notin Serial)
  /\ UNCHANGED <<cmd, loadVars, panicked, dbVars, errVars, outVars, endVars, errorCode>>

\* restoreQDOnlyTablesData: a table that is to be emptied first needs the
\* condition under which its extension keeps rows.
StartQDData ==
  /\ Enters("qd-data")
  /\ \E bad \in SUBSET ToSet(Batch("qd-data")) :
       /\ bad # {} => {"truncate-table", "incremental"} \cap cmd.flags # {}
       /\ failures + Cardinality(bad) <= MaxFailures
       /\ failures' = failures + Cardinality(bad)
       /\ failed' = failed \cup bad
       /\ IF bad # {} /\ ~OnErrorContinue
          THEN Fatal /\ UNCHANGED <<section, poolVars, errorTables>>
          ELSE /\ errorTables' = [errorTables EXCEPT
                    !.data = @ \cup {s.object : s \in bad}]
               /\ StartPool(Keep(Batch("qd-data"), ToSet(Batch("qd-data")) \ bad),
                            NumConns > 1)
               /\ IF bad = {} THEN UNCHANGED errorCode ELSE LogsError
  /\ UNCHANGED <<cmd, loadVars, panicked, objects, rows, done, files, outVars,
                 endVars>>

-----------------------------------------------------------------------------
(* executeStatementsForConn                                                *)

\* The other workers read fatalErr without a lock: they may see it late.
TakeStatement(c) ==
  /\ At("run") /\ worker[c] = "idle" /\ tasks # <<>>
  /\ tasks' = Tail(tasks)
  /\ \/ /\ wasTerminated \/ fatalBy # -1
        /\ worker' = [worker EXCEPT ![c] = "done"]
        /\ UNCHANGED running
     \/ /\ ~wasTerminated /\ fatalBy # c
        /\ worker' = [worker EXCEPT ![c] = "busy"]
        /\ running' = [running EXCEPT ![c] = Head(tasks)]
  /\ UNCHANGED <<cmd, pc, section, parallel, fatalBy, numErrors, loadVars,
                 panicked, dbVars, errVars, outVars, endVars, errorCode>>

WorkerEnds(c) ==
  /\ At("run") /\ worker[c] = "idle" /\ tasks = <<>>
  /\ worker' = [worker EXCEPT ![c] = "done"]
  /\ UNCHANGED <<cmd, pc, section, tasks, parallel, running, fatalBy, numErrors,
                 loadVars, panicked, dbVars, errVars, outVars, endVars, errorCode>>

Needs(s) == IF s.type = "INDEX-METADATA" THEN s.object ELSE s.of
CanSucceed(s) ==
  /\ Needs(s) \in objects \cup {None}
  /\ s.type \in Creating => s.object \notin objects

PoolOpen == "pool" \in setUp

StatementSucceeds(c) ==
  LET s == running[c] IN
  /\ At("run") /\ worker[c] = "busy" /\ PoolOpen /\ CanSucceed(s)
  /\ done' = done \cup {s}
  /\ objects' = IF s.type \in Creating THEN objects \cup {s.object} ELSE objects
  /\ worker' = [worker EXCEPT ![c] = "idle"]
  /\ running' = [running EXCEPT ![c] = NoStatement]
  /\ UNCHANGED <<cmd, pc, section, tasks, parallel, fatalBy, numErrors, loadVars,
                 panicked, rows, failed, failures, errVars, outVars, endVars, errorCode>>

\* A bug: the set of tables is replaced, as when two workers write a map.
LastErrorTable(s) ==
  IF s.type = "TABLE" THEN [errorTables EXCEPT !.metadata = {s.object}]
  ELSE IF s.type = "QD-DATA" THEN [errorTables EXCEPT !.data = {s.object}]
  ELSE errorTables

WithErrorTable(s) ==
  IF s.type = "TABLE" THEN [errorTables EXCEPT !.metadata = @ \cup {s.object}]
  ELSE IF s.type = "QD-DATA" THEN [errorTables EXCEPT !.data = @ \cup {s.object}]
  ELSE errorTables

StatementFails(c) ==
  LET s == running[c] IN
  /\ At("run") /\ worker[c] = "busy" /\ PoolOpen
  /\ IF CanSucceed(s) THEN failures < MaxFailures /\ failures' = failures + 1
     ELSE UNCHANGED failures
  /\ failed' = failed \cup {s}
  /\ IF OnErrorContinue
     THEN /\ numErrors' = numErrors + 1 /\ UNCHANGED fatalBy
          /\ errorTables' = WithErrorTable(s)
     ELSE fatalBy' = c /\ UNCHANGED <<numErrors, errorTables>>
  /\ worker' = [worker EXCEPT ![c] = "idle"]
  /\ running' = [running EXCEPT ![c] = NoStatement]
  /\ UNCHANGED <<cmd, pc, section, tasks, parallel, loadVars, panicked, objects,
                 rows, done, files, outVars, endVars, errorCode>>

\* The handler closed the connections: main panics, or a worker does, whose
\* panic is sent after workerPool.Done().
ConnectionGone(c) ==
  /\ At("run") /\ worker[c] = "busy" /\ ~PoolOpen
  /\ worker' = [worker EXCEPT ![c] = "done"]
  /\ running' = [running EXCEPT ![c] = NoStatement]
  /\ IF parallel THEN panicked' = TRUE /\ UNCHANGED <<pc, errorCode>>
     ELSE pc' = "recover" /\ UNCHANGED <<panicked, errorCode>>
  /\ UNCHANGED <<cmd, section, tasks, parallel, fatalBy, numErrors, loadVars,
                 dbVars, errVars, outVars, endVars>>

\* A bug: a worker sends its panic before workerPool.Done().
PanicBeforeDone == ~panicked /\ \A c \in Conns : worker[c] = "done"

AllDone == \A c \in Conns : worker[c] = "done"

\* A bug: main only counts the errors.
ErrorsOnlyCounted == UNCHANGED errorCode

ReportErrors == IF numErrors > 0 THEN LogsError ELSE UNCHANGED errorCode

\* main after workerPool.Wait(): the select takes a panic only if it is
\* being sent already.
FinishStatements ==
  /\ At("run") /\ AllDone
  /\ \/ (panicked \/ fatalBy # -1) /\ Fatal /\ UNCHANGED section
     \/ fatalBy = -1 /\ pc' = "restore" /\ ReportErrors /\ NextSection
  /\ panicked' = FALSE /\ tasks' = <<>> /\ fatalBy' = -1 /\ numErrors' = 0
  /\ UNCHANGED <<cmd, parallel, worker, running, loadVars, dbVars,
                 errVars, outVars, endVars>>

-----------------------------------------------------------------------------
(* restoreData and restoreDataFromTimestamp                                *)

UsesHelpers == cmd.backup.singleDataFile \/ Flag("resize-cluster")
ManyHelpers == ~cmd.backup.singleDataFile   \* maxHelpers > 1
Truncates   == {"truncate-table", "incremental"} \cap cmd.flags # {}

\* The GUC statements of connection 0 come first.
StartData ==
  /\ Enters("data")
  /\ backupsLeft' = DueBackups
  /\ pc' = "data"
  /\ UNCHANGED <<cmd, section, poolVars, loading, entry, cancelled, panicked, dbVars,
                 errVars, outVars, endVars, errorCode>>

\* The timestamps are the keys of a map and come in any order.  A connection
\* takes every NumConns-th of the table entries; helpers are not started after
\* a signal.
StartBackup(b) ==
  /\ At("data") /\ b \in backupsLeft
  /\ backupsLeft' = backupsLeft \ {b}
  /\ \/ /\ (EntriesOf(b) = <<>> \/ (UsesHelpers /\ wasTerminated))
        /\ UNCHANGED <<pc, errorCode, loading, entry, cancelled, worker, helpers>>
     \/ /\ EntriesOf(b) # <<>> /\ ~(UsesHelpers /\ wasTerminated)
        /\ pc' = "load" /\ loading' = b /\ cancelled' = FALSE
        /\ entry' = [c \in Conns |-> c]
        /\ worker' = [c \in Conns |-> "gucs"]
        /\ helpers' = IF UsesHelpers THEN helpers \cup {b} ELSE helpers
        /\ UNCHANGED errorCode
     \/ /\ EntriesOf(b) # <<>> /\ UsesHelpers
        /\ Fatal
        /\ helpers' \in {helpers, IF wasTerminated THEN helpers ELSE helpers \cup {b}}
        /\ UNCHANGED <<loading, entry, cancelled, worker>>
  /\ UNCHANGED <<cmd, section, tasks, parallel, running, fatalBy, numErrors,
                 panicked, dbVars, errVars, setUp, plugin, endVars>>

DataDone ==
  /\ At("data") /\ backupsLeft = {}
  /\ pc' = "restore" /\ NextSection
  /\ UNCHANGED <<cmd, poolVars, loadVars, panicked, dbVars, errVars,
                 outVars, endVars, errorCode>>

\* setGUCsForConnection of a worker: gplog.Fatal in it is a worker's panic.
SetGUCs(c) ==
  /\ At("load") /\ worker[c] = "gucs"
  /\ \/ /\ PoolOpen
        /\ worker' = [worker EXCEPT ![c] = "idle"]
        /\ UNCHANGED <<cancelled, panicked, errorCode, failures>>
     \/ /\ PoolOpen /\ OnErrorContinue /\ failures < MaxFailures
        /\ failures' = failures + 1 /\ LogsError
        /\ worker' = [worker EXCEPT ![c] = "idle"]
        /\ UNCHANGED <<cancelled, panicked>>
     \/ /\ IF PoolOpen THEN /\ ~OnErrorContinue /\ failures < MaxFailures
                            /\ failures' = failures + 1 /\ errorCode' = 2
           ELSE UNCHANGED <<failures, errorCode>>
        /\ worker' = [worker EXCEPT ![c] = "done"]
        /\ cancelled' = TRUE /\ panicked' = TRUE
  /\ UNCHANGED <<cmd, pc, section, tasks, parallel, running, fatalBy, numErrors,
                 backupsLeft, loading, entry, objects, rows, done, failed,
                 errVars, outVars, endVars>>

HasTable(c)  == entry[c] < Len(EntriesOf(loading))
NextTable(c) == EntriesOf(loading)[entry[c] + 1]

LoaderEnds(c) ==
  /\ At("load") /\ worker[c] = "idle"
  /\ ~HasTable(c) \/ cancelled \/ wasTerminated
  /\ worker' = [worker EXCEPT ![c] = "done"]
  /\ cancelled' = (cancelled \/ (HasTable(c) /\ wasTerminated))
  /\ UNCHANGED <<cmd, pc, section, tasks, parallel, running, fatalBy, numErrors,
                 backupsLeft, loading, entry, panicked, dbVars, errVars, outVars,
                 endVars, errorCode>>

\* The error of TRUNCATE is logged, and the COPY goes on.
TakeTable(c) ==
  /\ At("load") /\ worker[c] = "idle" /\ HasTable(c)
  /\ ~cancelled /\ ~wasTerminated /\ PoolOpen
  /\ worker' = [worker EXCEPT ![c] = "busy"]
  /\ \/ /\ Truncates => NextTable(c) \in objects
        /\ rows' = IF Truncates THEN [rows EXCEPT ![NextTable(c)] = "empty"] ELSE rows
        /\ UNCHANGED <<errorCode, failures>>
     \/ /\ Truncates /\ LogsError /\ UNCHANGED rows
        /\ IF NextTable(c) \in objects
           THEN failures < MaxFailures /\ failures' = failures + 1
           ELSE UNCHANGED failures
  /\ UNCHANGED <<cmd, pc, section, tasks, parallel, running, fatalBy, numErrors,
                 loadVars, panicked, objects, done, failed, errVars, outVars,
                 endVars>>

Copy(t) == [type |-> "COPY", object |-> t, of |-> loading]

TableLoaded(c) ==
  LET t == NextTable(c) IN
  /\ At("load") /\ worker[c] = "busy" /\ PoolOpen
  /\ t \in objects /\ ~wasTerminated
  /\ done' = done \cup {Copy(t)}
  /\ rows' = [rows EXCEPT ![t] = IF @ = "empty" THEN "backup" ELSE "added"]
  /\ entry' = [entry EXCEPT ![c] = @ + NumConns]
  /\ worker' = [worker EXCEPT ![c] = "idle"]
  /\ UNCHANGED <<cmd, pc, section, tasks, parallel, running, fatalBy, numErrors,
                 backupsLeft, loading, cancelled, panicked, objects, failed,
                 failures, errVars, outVars, endVars, errorCode>>

\* The COPY fails or loads another number of rows (after a signal it is not
\* run and counts -1 row), or a helper's error file is there (agent).
TableFails(c, agent) ==
  LET t == NextTable(c) IN
  /\ At("load") /\ worker[c] = "busy"
  /\ agent => UsesHelpers
  /\ IF t \in objects /\ ~wasTerminated
     THEN failures < MaxFailures /\ failures' = failures + 1
     ELSE UNCHANGED failures
  /\ failed' = failed \cup {Copy(t)}
  /\ LogsError
  /\ IF agent /\ OnErrorContinue /\ ManyHelpers
     THEN /\ worker' = [worker EXCEPT ![c] = "done"]
          /\ UNCHANGED <<cancelled, entry, errorTables>>
     ELSE IF agent \/ ~OnErrorContinue
     THEN /\ worker' = [worker EXCEPT ![c] = "done"]
          /\ cancelled' = TRUE /\ UNCHANGED <<entry, errorTables>>
     ELSE /\ worker' = [worker EXCEPT ![c] = "idle"]
          /\ entry' = [entry EXCEPT ![c] = @ + NumConns]
          /\ errorTables' = [errorTables EXCEPT !.data = @ \cup {t}]
          /\ UNCHANGED cancelled
  /\ UNCHANGED <<cmd, pc, section, tasks, parallel, running, fatalBy, numErrors,
                 backupsLeft, loading, panicked, objects, rows, done, files,
                 outVars, endVars>>

LoaderPanics(c) ==
  /\ At("load") /\ ~PoolOpen
  /\ \/ worker[c] = "busy"
     \/ worker[c] = "idle" /\ HasTable(c) /\ Truncates
  /\ worker' = [worker EXCEPT ![c] = "done"]
  /\ cancelled' = TRUE /\ panicked' = TRUE
  /\ UNCHANGED <<cmd, pc, section, tasks, parallel, running, fatalBy, numErrors,
                 backupsLeft, loading, entry, dbVars, errVars, outVars, endVars, errorCode>>

\* After workerPool.Wait(); the errors are logged where they occurred, and
\* the next timestamp is taken whatever became of this one.
FinishBackup ==
  /\ At("load") /\ AllDone
  /\ \/ panicked /\ Fatal
     \/ pc' = "data" /\ UNCHANGED errorCode
  /\ panicked' = FALSE /\ loading' = None
  /\ UNCHANGED <<cmd, section, poolVars, backupsLeft, entry, cancelled, dbVars,
                 errVars, outVars, endVars>>

-----------------------------------------------------------------------------
(* DoTeardown, DoCleanup and the signal handler                            *)

ReturnFromRestore ==
  /\ At("restore") /\ section \notin DOMAIN Sections
  /\ pc' = "teardown"
  /\ UNCHANGED <<cmd, section, poolVars, loadVars, panicked, dbVars, errVars,
                 outVars, endVars, errorCode>>

Recover ==
  /\ At("recover")
  /\ pc' = "teardown" /\ errorCode' = 2
  /\ UNCHANGED <<cmd, section, poolVars, loadVars, panicked, dbVars, errVars,
                 outVars, endVars>>

\* A terminated restore waits for the handler's DoCleanup.
LookForSignal ==
  /\ At("teardown")
  /\ IF wasTerminated
     THEN group = 0 /\ pc' = "end"
     ELSE pc' = IF "fpInfo" \in setUp THEN "report" ELSE "end"
  /\ UNCHANGED <<cmd, section, poolVars, loadVars, panicked, dbVars, errVars,
                 outVars, endVars, errorCode>>

\* Without the backup's directory there is no report, and without its
\* config GetResizeClusterInfo panics; the deferred function ends both.
WriteReport ==
  /\ At("report")
  /\ pc' \in IF "config" \in setUp THEN {"clean-plugin", "end"} ELSE {"end"}
  /\ UNCHANGED <<cmd, section, poolVars, loadVars, panicked, dbVars, errVars,
                 outVars, endVars, errorCode>>

CleanUpPlugin ==
  /\ At("clean-plugin")
  /\ pc' = "error-files"
  /\ plugin' = IF "plugin" \in setUp THEN "cleaned-up" ELSE plugin
  /\ UNCHANGED <<cmd, section, poolVars, loadVars, panicked, dbVars, errVars,
                 setUp, helpers, endVars, errorCode>>

WriteErrorTables ==
  /\ At("error-files")
  /\ pc' = "end"
  /\ files' = [written |-> TRUE, metadata |-> errorTables.metadata,
                data |-> errorTables.data]
  /\ UNCHANGED <<cmd, section, poolVars, loadVars, panicked, dbVars, errorTables,
                 outVars, endVars, errorCode>>

\* The deferred function looks at wasTerminated again.
EndTeardown ==
  /\ At("end")
  /\ IF wasTerminated THEN group = 0 /\ pc' = "exit" ELSE pc' = "cleanup"
  /\ UNCHANGED <<cmd, section, poolVars, loadVars, panicked, dbVars, errVars,
                 outVars, endVars, errorCode>>

\* A bug: only the helpers of the newest backup are looked for.
NewestOnly == {Newest}
\* GetBackupFPInfoListFromRestorePlan, for restores that use helpers.
PlannedBackups == ToSet(Backups)

\* The helpers a DoCleanup looks for.
HelpersToStop ==
  IF "config" \in setUp /\ UsesHelpers THEN helpers \cap PlannedBackups ELSE {}

(* DoCleanup.  CheckHelperPids takes what ssh or ps could not look at for  *)
(* gone, and the clean-up goes on; files it cannot count or remove and     *)
(* error files found at the end are logged as errors.  A gplog.Fatal, at   *)
(* any of the timestamps, is recovered; the connections then stay open.    *)
CleanUp ==
  \E left \in SUBSET HelpersToStop :
    /\ helpers' = (helpers \ HelpersToStop) \cup left
    /\ \/ /\ overlooked' = overlooked \cup left
          /\ setUp' = setUp \ {"pool"}
          /\ UNCHANGED cleanupFailed
          /\ \/ UNCHANGED errorCode
             \/ "config" \in setUp /\ UsesHelpers /\ LogsError
       \/ /\ "config" \in setUp /\ UsesHelpers
          /\ cleanupFailed' = TRUE /\ errorCode' = 2
          /\ UNCHANGED <<overlooked, setUp>>

\* CleanupGroup.Done(): the second one panics with a negative counter, which
\* ends the process with status 2.
Done == IF group = 1 THEN group' = 0 /\ UNCHANGED exitCode
        ELSE exitCode' = 2 /\ UNCHANGED group

MainCleansUp ==
  /\ At("cleanup")
  /\ CleanUp /\ Done
  /\ pc' = "exit"
  /\ UNCHANGED <<cmd, section, poolVars, loadVars, panicked, dbVars, errVars,
                 plugin, wasTerminated, handler>>

Exit ==
  /\ At("exit")
  /\ exitCode' = errorCode
  /\ UNCHANGED <<cmd, pc, section, poolVars, loadVars, panicked, dbVars, errVars,
                 outVars, wasTerminated, handler, group, cleanupFailed, overlooked,
                 errorCode>>

Signal ==
  /\ Alive /\ handler = "waiting"
  /\ wasTerminated' = TRUE /\ handler' = "cleanup"
  /\ UNCHANGED <<cmd, pc, section, poolVars, loadVars, panicked, dbVars, errVars,
                 outVars, group, cleanupFailed, overlooked, exitCode, errorCode>>

HandlerCleansUp ==
  /\ Alive /\ handler = "cleanup"
  /\ CleanUp /\ Done
  /\ handler' = "exit"
  /\ UNCHANGED <<cmd, pc, section, poolVars, loadVars, panicked, dbVars, errVars,
                 plugin, wasTerminated>>

HandlerExits ==
  /\ Alive /\ handler = "exit"
  /\ exitCode' = 2
  /\ UNCHANGED <<cmd, pc, section, poolVars, loadVars, panicked, dbVars, errVars,
                 outVars, wasTerminated, handler, group, cleanupFailed, overlooked,
                 errorCode>>

-----------------------------------------------------------------------------
Main ==
  \/ DoValidation \/ Connect \/ SetUpPlugin \/ ReadConfig \/ CheckBackup
  \/ RestoreGlobals \/ CheckRelations
  \/ SkipSection \/ VerifyIncrementalState \/ VerifyFileCount
  \/ RestoreSchemas \/ StartSection \/ StartQDData \/ FinishStatements
  \/ StartData \/ (\E b \in ToSet(Backups) : StartBackup(b)) \/ DataDone
  \/ FinishBackup
  \/ ReturnFromRestore \/ Recover \/ LookForSignal \/ WriteReport
  \/ CleanUpPlugin \/ WriteErrorTables \/ EndTeardown \/ MainCleansUp \/ Exit

Worker(c) ==
  \/ TakeStatement(c) \/ WorkerEnds(c) \/ StatementSucceeds(c)
  \/ StatementFails(c) \/ ConnectionGone(c)
  \/ SetGUCs(c) \/ LoaderEnds(c) \/ TakeTable(c) \/ TableLoaded(c)
  \/ (\E agent \in BOOLEAN : TableFails(c, agent)) \/ LoaderPanics(c)

Handler == HandlerCleansUp \/ HandlerExits
Stopped == ~Alive /\ UNCHANGED vars

Next == Main \/ (\E c \in Conns : Worker(c)) \/ Signal \/ Handler \/ Stopped

\* Goroutines are scheduled, and a statement the server runs ends.
Spec == Init /\ [][Next]_vars
        /\ WF_vars(Main) /\ WF_vars(Handler) /\ \A c \in Conns : WF_vars(Worker(c))

-----------------------------------------------------------------------------
(* Properties                                                              *)

TypeOK ==
  /\ cmd \in Commands
  /\ worker \in [Conns -> {"idle", "busy", "done", "gucs"}]
  /\ \A c \in Conns : worker[c] = "busy" /\ pc = "run" =>
       running[c].type \in StatementTypes
  /\ backupsLeft \subseteq ToSet(Backups) /\ helpers \subseteq ToSet(Backups)
  /\ overlooked \subseteq ToSet(Backups)
  /\ rows \in [Tables -> {"old", "empty", "backup", "added"}]
  /\ failures \in 0..MaxFailures
  /\ setUp \subseteq {"pool", "fpInfo", "plugin", "config"}
  /\ group \in {0, 1} /\ errorCode \in 0..2 /\ exitCode \in -1..2

(* What the command line asks for, section by section.                     *)
Due ==
  LET Of(ss, types) == ToSet(StatementsOf(ss, types))
      loads_  == IF MetadataOnly THEN {} ELSE
                 UNION {{[type |-> "COPY", object |-> t, of |-> b] :
                           t \in ToSet(EntriesOf(b))} : b \in DueBackups}
      qd      == IF MetadataOnly THEN {} ELSE Of(Predata, {"QD-DATA"})
  IN loads_ \cup qd
     \cup (IF DataOnly THEN {Setval(s) : s \in Of(Predata, {"SEQUENCE"})}
           ELSE Of(Predata, {"SCHEMA", "TABLE", "SEQUENCE"})
                \cup Of(Postdata, StatementTypes))
     \cup (IF WithStats
           THEN Of(Statistics, StatementTypes)
           ELSE IF Flag("run-analyze")
                THEN {Analyze(s.object) : s \in loads_ \cup qd} ELSE {})

\* A restore that was not terminated and ends with status 0 has done all that
\* its command line asks for, nothing of it failed, and each table it loaded
\* holds the rows of the backup only if it was empty or to be emptied.  The
\* status is put together from errors logged in workers and in main, by
\* sections that stop or go on after an error (restore.go, parallel.go,
\* data.go).
SuccessIsComplete ==
  exitCode = 0 /\ ~wasTerminated =>
    /\ failed = {} /\ Due \subseteq done
    /\ \A s \in done : s.type = "COPY" =>
         rows[s.object] = IF Truncates \/ s.object \notin cmd.objects
                          THEN "backup" ELSE "added"

Indexing(c) == worker[c] = "busy" /\ pc = "run" /\ running[c].type = "INDEX"
HasIndex(t) == \E s \in done : s.type = "INDEX" /\ s.of = t

\* Two connections create indexes of one table only when the table has an
\* index already, or the one of the first batch failed and the restore goes
\* on under --on-error-continue (parallel.go:238: creating the first indexes
\* of an append-optimized table in parallel can deadlock).
IndexesOneAtATime ==
  \A c, d \in Conns :
    c # d /\ Indexing(c) /\ Indexing(d) /\ running[c].of = running[d].of =>
      HasIndex(running[c].of) \/ \E s \in ToSet(FirstBatch(Postdatas)) \cap failed :
                                    s.of = running[c].of

\* Metadata of post-data objects is not set while one of these objects is
\* still to be created on another connection (parallel.go:249).
DependentsLast ==
  \A c \in Conns :
    worker[c] = "busy" /\ pc = "run" /\ running[c].type \in MetadataTypes =>
      \A s \in ToSet(Postdatas) : s.type \notin MetadataTypes => s \in done \cup failed

\* BatchPostdataStatements keeps apart what must not run at the same time.
PostdataInOrder == IndexesOneAtATime /\ DependentsLast

\* The two files of an unterminated restore with --on-error-continue list
\* exactly the tables whose definition or data failed, save those a helper's
\* error took with it: what a user restores again is all in there
\* (restore.go:836, parallel.go:57, data.go:300).
ErrorTablesListed ==
  files.written /\ ~wasTerminated /\ OnErrorContinue /\ errorCode < 2 =>
    /\ files.metadata = {s.object : s \in {x \in failed : x.type = "TABLE"}}
    /\ files.data \subseteq {s.object : s \in {x \in failed : x.type \in {"COPY", "QD-DATA"}}}
    /\ ~UsesHelpers =>
         files.data = {s.object : s \in {x \in failed : x.type \in {"COPY", "QD-DATA"}}}

\* A restore that ends leaves no helpers on the segments, of any of the plan's
\* timestamps, but those a failed ssh or ps hid from CheckHelperPids, and those
\* of a DoCleanup that broke off: only what DoCleanup looked for may be left.
NoHelperLeft == exitCode # -1 => helpers \subseteq overlooked \/ cleanupFailed

\* A restore ends, with or without a signal: no worker, wait group or panic
\* of a goroutine keeps it.
RestoreProcessEnds == <>(exitCode # -1)

=============================================================================
