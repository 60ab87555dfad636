# A formal model of gpbackup

This directory holds TLA+ specifications of gpbackup, gprestore and their
segment helper, the TLC configurations that check them on small instances, and
proofs that TLAPS checks for instances of every size. Each definition is a
translation of the Go source; `PROJECT.json` names the lines.

## 1. The system

gpbackup writes a database's metadata as SQL and its table data as one COPY per
table and segment; gprestore executes the SQL and copies the data back. Both
are one process on the coordinator with many goroutines and database
connections. With `--single-data-file` a `gpbackup_helper` process per segment
stands between COPY and the data file. A history database (SQLite) links
incremental backups into chains.

| Component | State it keeps | Operations | Talks to |
|---|---|---|---|
| Data phase (`backup/data.go`) | task channel, `oidMap`, `rowsCopiedMaps`, `isErroredBackup`, a context, `panicChan`, `deferredWorkerDone`, a transaction per connection | worker loop, deferred worker, main's select and fallback loop | table locks of other sessions, the signal flag, segment helpers |
| gpbackup's lifecycle (`backup/backup.go`, `utils/util.go`) | `connectionPool`, `globalFPInfo`, `backupReport`, `wasTerminated`, `CleanupGroup`, `helperMutex`, error code, lock file, history row | `DoSetup`, `DoBackup`, `DoTeardown`, `DoCleanup`, the signal handler | helpers and their files over ssh, the history database |
| Backup helper (`helper/backup_helper.go`, `helper/helper.go`) | next table of the oid list, open pipe, byte count, segment TOC, error file | create next pipe, read until end of file, add an entry, finish, clean up | COPY through named pipes, gpbackup through files |
| Restore helper (`helper/restore_helper.go`) | open reader, position in the data file, oid/batch index, skip files | open pipe, seek or discard, copy, clean up | COPY through pipes, gprestore through files |
| gprestore data (`restore/data.go`, `restore/remote.go`) | tasks, error counters, `filePartitions` | task loop per connection, truncation, error collection | helpers, COPY |
| gprestore metadata (`restore/restore.go`, `restore/parallel.go`) | statement queues, a connection's current task, error sets | run schema, pre-data and post-data statements, on one or all connections | the database |
| History and chains (`history/history.go`, `backup/incremental.go`) | rows with status, deletion date and restore plan | store, look up the last matching backup, build the restore plan | every later backup and restore |
| Metadata order (`backup/dependencies.go`) | dependency map | topological sort, tiers | pre-data writer, parallel restore |
| Metadata retrieval and printing (`backup/queries_*.go`, `backup/predata_*.go`, `postdata.go`, `statistics.go`) | none | query the catalogue, print SQL | database, TOC |
| TOC and filters (`toc/toc.go`) | lists of entries with byte offsets | add, select | gprestore |
| Table selection (`options/`, `backup/validate.go`, `predata_relations.go`) | filter lists, expanded oids | reject, expand, split into metadata and data tables | catalogue, data phase |
| Owners and privileges (`backup/queries_acl.go`, `predata_acl.go`) | a metadata map per type of object | construct it from rows, print GRANT, REVOKE and OWNER TO | catalogue, metadata file |
| Plugins (`utils/plugin.go`) | configuration | run an external program | helper, gpbackup |
| Files, reports, small utilities (`filepath/`, `report/`, `utils/`) | none | names, text | everything |
| `ggcheckmigrate` (`checkmigrate/`) | results per check | check databases one after another, set the exit code | database |

`gp-common-go-libs` (connections, logging, ssh commands) is not in the
repository: its operations are modelled as the callers use them and marked
external in the map.

### What is hard

* **Interleaving.** The data phase's goroutines share state without a common
  lock; its correctness rests on the order in which flags, channels and the wait
  group are used. The signal handler runs `DoCleanup` while main is anywhere.
* **Locks of others.** Another session's ACCESS EXCLUSIVE request queued
  between connection 0's ACCESS SHARE lock and a worker's would deadlock
  everything; workers use NOWAIT and defer.
* **Two processes and a pipe.** A COPY is over when its bytes are in the pipe,
  not when the helper has written them; the helper reads in its own order.
* **Failure reporting.** Errors travel as panics, channel sends, files on the
  segments and exit codes, each of which can be looked at too early.

What makes each part correct: the data phase returns normally only when every
table has been copied once; a recorded success is a success and the segments
are clean afterwards; the data file and its TOC agree; a signal ends the
process. `PROJECT.json` lists the hazards with their lines and the properties
that watch them.

## 2. Modules

### BackupData and DataPhase

`BackupData.tla` is `BackupDataForAllTables`. Variables carry the source's
names. A goroutine is a program counter (`workerPc`, `deferredPc`, `mainPc`)
and an action is the code between two accesses that another goroutine could
tell apart. The points that matter:

* A panicking worker decrements the wait group, then recovers and cancels the
  context, then offers its panic: three actions, because main may pass its
  `select` in between (`WorkerDone`, `WorkerRecovers`, and `ReceivePanic`, which
  is the rendezvous on the unbuffered channel).
* The deferred worker's flag check, its load from `oidMap` and its COPY are
  separate.
* `exclusive` is the set of tables another session waits to lock; the NOWAIT
  lock fails exactly on those. Requests may arrive at any moment.
* Without a synchronized snapshot (`backupSnapshot = FALSE`) a worker whose
  lock fails leaves, and main's loop hands what nobody took to connection 0.

`DataPhase.tla` is the promise: each table is copied at most once, success
needs all of them unless a signal came. `BackupData` implements it under the
mapping at its end (`KeepsPromise`).

### BackupLifecycle

`BackupLifecycle.tla` is the whole process. `mainPc` walks through `DoSetup`,
`DoBackup` and `DoTeardown`; `cleanupPc[main]` and `cleanupPc[handler]` are two
calls of `DoCleanup`. `setUp` records which globals exist, since `DoCleanup`
decides by them. What outlives the process is state of its own: the history
row, the config file, the lock file, helpers and files on the segments.
`CopyData` abstracts the data phase to what `DataPhase` promises. All segments
are one, because commands to them are collected before the process goes on.
`CleanupFaults` are the failures of the clean-up: `HelperOverlooked` is a look
for helpers whose ssh or ps failed, which `CheckHelperPids` takes for one that
found none (`helperMissed` remembers it), `HelperFilesFail` a count or a removal
of files that failed, which raises the error code.

### SingleDataFile

`SingleDataFile.tla` is one segment of a `--single-data-file` backup. A COPY is
the shell's `test -p`, the blocking open, byte writes into a pipe that holds
`Capacity` of them, and the close. The helper creates the pipe `copyQueue`
tables ahead, opens, reads to end of file, notes `<<start, end>>` and removes the
pipe. Its failure writes the error file and then opens and closes every pipe so
that blocked COPYs go on. Its death by SIGKILL does neither. The scheduling of
connections is reduced to what differs from `BackupData`: which tables are
locked (`locked`), and that connection 0 takes them in order.

### BackupChain and Archive

`BackupChain.tla` has several gpbackup processes, each named by its timestamp,
against a database that changes. `db[t]` is a table's content with the two
counters gpbackup compares: `modcount`, which a transaction's writes increase,
and `lastDDL`, the time of the last DDL statement. Every change gets a content of
its own, so equal contents are the same rows. `DoSetup` takes the snapshot,
`GetTargetBackupTimestamp` chooses the base (by history row, or by
`--from-timestamp`, which looks at the config file only), `PlanBackup` is the
middle of `DoBackup` up to the history row, then data, TOC, config file and the
final status are written one after the other. A table truncated or re-created
between snapshot and lock (`replaced`) looks empty in that snapshot.

gprestore is a set of operators over the files: `RestorePlanEntries`,
`DataEntriesMatching`, `IncludedPartitionRoots` and `IncrementalStateVerified`.
`Archive.tla` is what the files promise: a backup sees the database once, at
some later moment there is an archive of what it saw, and an archive can be lost
but never changes. `KeepsArchive` maps each backup's archive to what gprestore
would restore from the files.

### RestoreLifecycle

`RestoreLifecycle.tla` is one gprestore process. A command is its flags, the
backup it names and the database it finds (`Commands`); `DoValidation` to
`CheckRelations` are the checks in the order of `DoSetup`, `Sections` are the
parts of `DoRestore` and `Asks` when it calls them. Statements are records of a type, the object
they make and the object they belong to; a statement succeeds only when what it
needs is there. `StartSection` fills the channel, `TakeStatement`,
`StatementSucceeds`, `StatementFails` and `FinishStatements` are
`ExecuteStatements` with its workers; `StartBackup` to `FinishBackup` are
`restoreDataFromTimestamp`, one timestamp after the other in any order, because
the code ranges over a map. `files` is what `writeErrorTables` leaves.

The signal handler is an actor of its own: it may close the connections under
the workers (`ConnectionGone`, `LoaderPanics`), whose panics main may or may not
find in the channel, and a second `CleanupGroup.Done()` ends the process. Of the
helpers a `CleanUp` looks for it may miss any (`overlooked`), since
`CheckHelperPids` takes a failed ssh or ps for none found.

### Privileges

`Privileges.tla` takes a small catalogue of objects with owners, access lists,
columns, comments and security labels through `GetMetadataForObjectType` and
`ConstructMetadataMap` (one action per row), the statements `PrintObjectMetadata`,
`GetPostCreateRelationStatements`, `printExtensionFunctionACLs` and
`PrintDefaultPrivilegesStatements` print, and their execution on a new database.
A privilege is the server's letter. An identifier is a name with a quoted flag,
because `aclitemout`, `quote_ident` and the SQL reader have three different rules.
What GRANT, REVOKE, OWNER TO and the default privileges do is the server's
documented behaviour (external). A foreign table's TRUNCATE is left out of the
comparison: the code does not count it among "all", so a role with all but
TRUNCATE is given `ALL`.
Members of an extension belong to the role that restores, since no OWNER TO is
printed for them (`CatalogsAssumption`). A view that depends on a constraint
(`dummy`, the code's `NeedsDummy`) is printed as a view of NULLs with its owner
and privileges and replaced after the constraint; neither statement comes with
GRANTs on its columns, so `PrivilegesRestored` sets those aside. Left out are
materialized views that depend on a constraint, which come as plain views, and
default privileges on schemas (kind `n`, version 7): the query returns them and
`PrintDefaultPrivilegesStatements` has no word for them (`predata_acl.go:521`), so
the statement it prints is refused.

### TableSelection

`TableSelection.tla` follows one command line from the filter flags to the lists
`metadataTables`, `dataTables` and `dataTablesQDOnly`. A `world` is a version (6
or 7), a catalogue and the flags; each name on the command line is the table it
resolves to and whether it is spelled as `quote_ident` would. The actions are the
functions of `DoSetup` and `DoBackup` in their order; `recurseTableDepend` takes
one step per query, over `pg_depend` as `DependsOn`. The catalogue queries are
sets of oids defined with the conditions of their WHERE clauses. A list of tables
is a function to how often it has each one, since a table retrieved twice is copied
twice; the order in which tables are copied is the matter of `BackupData`.

`WorldsAssumption` says what the server lets be: no table is below itself,
partitions have their parent's schema, inherit from nothing else, and nothing
inherits from them; before version 7 foreign tables are no partitions. (Version 6
allows a partition to be moved to another schema, which the code looks for in
`GetPartitionAlteredSchemas`; such catalogues are left out.)

The properties hold for ordinary command lines. What they set aside is named in
the module, because TLC found it to fail and the code really does it:

* `OrdinaryList`: a list that names members of an extension;
* `SpelledOtherwise`: an excluded partition root typed without the quotes its name
  needs;
* `RootsNested`: in version 7 a partition that was attached to a configuration
  table of an extension is copied as a root of its own
  (`predata_relations.go:120`), and its rows again with that table, so that a
  restore loads them twice. This was met in a proof attempt: the case of two
  copied tables one of which covers the other did not close;
* `AskedOrAncestor`: version 6 takes siblings by inheritance along, not their other
  parents.

### CheckMigrate

`CheckMigrate.tla` is one ggcheckmigrate process. A `world` is a command line
with the clusters it meets: versions, connectable databases, problematic objects
with their schemas, the libraries each database needs and those the target
refuses to load. `databaseChecks` is the list of `checks.go` with what each check
needs; `conn` is the session of the database being checked, whose transaction
may be aborted, whose connection may be lost and whose `track_counts` may be
off. The actions follow `prepareMigrationCheckCapabilities`,
`runMigrationCheck` and `runMigrationCheckPlan` statement by statement as far as
their failures have different effects; a LOAD the target refuses while it
answers `SELECT 1` is a missing library, as in the code.

### RestoreHelper

`RestoreHelper.tla` is one segment of a single-data-file restore. A connection
of `restoreDataFromTimestamp` takes every `NumConns`-th table, looks for the
helper's error file, runs one COPY per batch and goes on; a COPY waits for its
pipe, opens it and reads until the writer closes. The helper walks
`oidWithBatchList`: it creates the pipe `copyQueue` entries ahead, tries to open
the current one until a COPY has it open or there is a skip file, positions its
reader, copies and removes the pipe. Bytes are counted: `pos[b]` is where batch
`b`'s reader is in its stream, and the stream of a subset reader (a plugin that
sends selected tables) holds other tables than a whole data file. `lastByte` is
what the helper believes. `setup` fixes the kind of reader, the replicated
tables, how many data files there are, and whether this backup is the last one
of the restore plan: files named after `globalFPInfo` reach its helper only then.
`Dead` stands for a subset stream after an error of a discard, where every read
fails; `AtEnd` for a stream that is used up, which gives end-of-file and is not
discarded from.

### MetadataTiers and TopologicalSort

`TopologicalSort.tla` is how gpbackup orders the objects of the pre-data
section. `BreakCircles` is `breakCircularDependencies`; `CountDegrees`, `Visit`
and `NextTier` are the loops of `TopologicalSort`; `NextItem`, `MergeNeighbour`
and `Renumber` those of `assignCohorts`. An object is its index in the slice.
Queues of one depth and Go maps are sets, so each action takes an element in any
order and the results hold for every order. A backup writes with each object a
tier: its depth and its cohort. `MetadataTiers.tla` states what these numbers
promise (`TiersFollow`, `CohortsIsolate`, `CohortsDense`): the sort is checked
against it, and the restore assumes it. Both modules take the number of objects
from it.

### PredataRestore

`PredataRestore.tla` is `restorePredata` with `BatchPredataStatements`,
`scheduleStatementsOnWorkers` and the workers of `ExecutePredataStatements`. A
`plan` is what a backup may hold: statements in file order, the objects they
are about, dependencies, tiers and cohorts (`PlansAssumption` is the promise of
`MetadataTiers`). `kept` is what passes the filters. A worker's `Take` is the
check of `fatalErr` and `wasTerminated` with the receive from its channel,
`Succeed` and `Fail` are the server's answer; a transaction has the statements
it made and the objects it locked. Which connection gets a cohort depends on map
order in `findLeastBusyConn`, so `Schedules` is the set of all assignments it
can make. Connection 0 gets statements too, outside a transaction, as in the code.

## 3. Runs

| Run | Instance | Shows |
|---|---|---|
| `data_phase` | 2 tables, 2 workers, every fault | `AllTablesBackedUp`, `CopyProtected`, refinement of `DataPhase`, and that main gets to an end unless a goroutine panics |
| `lifecycle` | 1 process, 1 segment, failures of steps and of the clean-up, one signal | statuses are true, a clean exit leaves nothing and no helper outlives the process, but for one that a failed ssh or ps hid, a signal ends the process |
| `single_data_file` | 4 tables of 2, 0, 1, 0 bytes, 1 worker, at most 2 locked tables, pipe of 1 byte | the TOC delimits tables, plugin success is complete, at most the last table is at risk without a plugin, and with at most one locked table a backup whose helper is well succeeds |
| `backup_chain` | 3 backups one after the other, full, data-only or incremental, 2 filter settings, a heap table and an append-optimized leaf partition, 2 changes | a restore of any backup of a chain is its snapshot; filters and `--incremental` select the right tables from the right backup |
| `concurrent_backups` | 2 backups that overlap, 2 changes, 1 fault (failure, signal, kill, upload lost, backup deleted) | the same when the base is newer than the snapshot or the base failed, and `Archive` is implemented |
| `restore_lifecycle` | 13 command lines, 2 timestamps, 2 connections, 5 pre-data and 4 post-data statements, 2 failing statements, a signal at any step | status 0 means everything asked for is restored; no two first indexes of a table at once; metadata after its objects; error-table files are complete; no helpers are left but those a failed look hid; the process ends |
| `privileges` | each single privilege and each set of a role's privileges with and without grant option, on 15 types, 4 roles | every role, PUBLIC included, ends with what it had on every object and column but those of dummy views, and new objects get what the source would give them |
| `table_selection` | 8 catalogues of 6 to 8 tables, lists of up to 2 names, 4 156 command lines | rows that are asked for are copied once, excluded ones never; the metadata file has every table another one refers to |
| `check_migrate` | 9 worlds, up to 3 databases, 12 checks, 2 failures, a signal at any step | exit codes 0 to 5 mean what the table in the repository's README says; a failed check leaves the transaction and `track_counts` in order for the next one |
| `restore_helper` | 4 tables of 2, 1, 0, 1 bytes of which 3 are restored, 2 batches, 2 connections, each kind of reader, an older backup of a chain, with and without `--on-error-continue`, COPY and read errors | every byte reaches its table, no table fails for another's sake, an error-free restore is complete, and all connections end unless the helper breaks down |
| `topological_sort` | all 4096 relations on 4 objects, one a type, two functions | fails on circles only; sorted after dependencies; depths without gaps; cohorts are the connected components |
| `predata_restore` | 7 statements on 6 objects, 5 dependency shapes (one from an old backup without tiers), 7 filters, 1 to 3 connections, up to 2 failing statements, a signal | prerequisites are there, no lock contention in a tier, a completed restore has run everything, and it ends |

### What the code does otherwise

The model follows the code also where it breaks what a comment or a reader would
expect. The properties then name the case they set aside:

* The deferred worker's COPY fails: its panic goes into a channel nobody reads
  any more and main waits for ever on `deferredWorkerDone` (`backup/data.go:372`,
  although `data.go:343` lets panics crash main). `FinishesUnlessPanic` speaks
  of phases without a panic.
* The clean-up gets no connection to cancel queries, panics, and the history row
  stays In Progress (`backup/backup.go:560`, against the comment at 586).
  `NoOrphanHelpers` excludes a clean-up that broke off (`cleanupBroken`).
* A failed ssh or ps in `CheckHelperPids` counts as no helper found
  (`utils/agent_remote.go:285`): gpbackup may exit with 0, and gprestore with the
  status of its work, while helpers run. `CleanExit` and `NoOrphanHelpers` name
  the case by `helperMissed`, `NoHelperLeft` by `overlooked`. A failed count of
  files leaves them too (`agent_remote.go:224`), but raises the exit code.
* Column privileges of a view that depends on a constraint are not printed
  (`backup/dependencies.go:390`): `PrivilegesRestored` sets dummy views' columns
  aside.
* Two deferred tables let a worker overtake the helper's pipes, and the backup
  fails with "Pipe not found" (`backup/data.go:255`). `BackupSucceeds` allows one.
* Skipping a replicated table takes bytes out of streams that never held it
  (`helper/restore_helper.go:390`): `Shifted` in `RestoreHelper`.
* For an older backup of a chain the skip file has the latest timestamp
  (`restore/data.go:124`); after a failed COPY the helper waits for ever.
  `RestoreEnds` asks such a backup for COPYs that do not fail.
* Filters that leave a tier empty end the loop over the tiers before the last
  one (`restore/restore.go:343`), and its statements are lost without an error:
  `Gap` in `PredataRestore`.
* The first index of an append-optimized table fails under
  `--on-error-continue`, and the others are created at once all the same
  (`restore/parallel.go:260`): `IndexesOneAtATime` excludes the table.
* Lists of tables that `TableSelection` names (below its properties).

### Bounds

Two tables and two workers give the data phase every pair of goroutines that
can meet on one table, a table left over when a worker leaves, and a worker
that is still sending its panic when another one finishes. The invariants are
proved for all sizes, so the bound matters for liveness only. The lifecycle has
no size: it is explored completely, and its invariants are proved for each set
of faults. Four tables and one worker are the smallest
instance in which the helper must create two pipes late (`copyQueue` is 2) and
a deferred table still has a successor; two locked tables are what lets the
worker get ahead of the pipes.

### Fairness

Goroutines, COPY commands and the helper are scheduled whenever they can move:
weak fairness of each one's steps. Faults, signals, lock requests of other
sessions and their release are never forced. `HelpersObey` says that a helper
that gets SIGUSR1 ends: without it `SignalEnds` fails, since the clean-up loop's
time-out (`utils/agent_remote.go:306`) is made anew on each pass and never fires.
For the same reason files that can never be removed would keep the process:
`CleanUpHelperFiles` is fair. Failures of the clean-up (`CleanupFaults`) are never
forced.
Two changes are enough in `BackupChain` for a table to be re-created and to have
its old modification count again, and three backups for a plan entry to be
inherited twice. A third overlapping backup would add no other kind of pair:
only its base matters to a backup.
In `RestoreLifecycle` main, the handler and each worker are weakly fair: a
goroutine that can run does, and a statement sent to the server is answered.
Two failing statements are enough for two workers to fail in one section or in
two sections; a third index of one table makes two connections want it at once.
In `RestoreHelper` a connection's wait for a pipe ends after 300 seconds at the
latest, so `PipeTimesOut` is one of its fair steps; failures of COPYs and of
readers are not. The table sizes there let a COPY break off in the middle of a
table that others follow, and with 3 restored tables the third one's pipes are
made late.

Four objects are the fewest in which a chain, a join and two separate cohorts
can occur together and a cohort merge meets one merged before; the sort's
invariants are proved for every size. The plans of `predata_restore` are two
separate pairs, a table with two dependents beside a lone one, a chain that
branches, unrelated objects, and a backup without tiers; three connections let two
workers and connection 0 meet in one tier. `PrerequisitesThere` and
`AllRestored` exclude tiers with a gap (`Gap`).
Fairness is that of goroutines and statements; a statement that waits for a lock
is not forced to get it.

`CHECK_DEADLOCK FALSE` stands where the modelled part really stops (a returned
phase) or hangs by the faults it is given (a COPY that waits on a pipe its dead
helper left). `lifecycle` checks deadlock: its only stop is the process's end.

## 4. Proofs

`BackupDataProofs.tla` proves, for every number of tables and workers and every
set of faults, from the three assumptions on the constants alone:
`TypeCorrect`, `EveryTableBackedUp`, `CopiesProtected`, `CopiesExclusive`,
`ErrorsNotSilent` and `DataPhaseImplemented`. The inductive invariant `IInv`
adds to the properties what they need:

* who has recorded a table, and that a table's state in `oidMap` says whether a
  worker still has it, connection 0 may take it, or it is done;
* tables before `nextTask` have been handed out, each to one worker;
* the deferred worker has passed only tables that are complete;
* main is past the wait only when all workers have left, so its fallback loop
  and they do not meet;
* once `isErroredBackup` is set, somebody who panicked still holds a table that
  nobody will complete, so the deferred worker never gets to the end;
* what a worker's transaction and its locks are at each of its positions.

There is one lemma for each group of actions (worker, deferred worker, main)
and each part of the invariant; `Inductive` assembles them. The refinement is
proved step by step: an action maps to `Copy`, `Signal`, `Return`, `Fail`,
`Kill` or a stuttering step (`WorkerPromise`, `DeferredPromise`, `MainPromise`,
`EnvironmentPromise`).

`BackupLifecycleProofs.tla` proves `SuccessReal`, `NoOrphans` and `ExitClean` of
one gpbackup process for every set of faults. None of the three is inductive;
its `IInv` adds, besides `TypeOK`:

* `CleanerInv`: main is in `DoCleanup` only in its deferred teardown, the handler
  only after the signal, and main is past its waits only when one of them is
  through;
* `StatusInv`: past the data phase, either every table is copied or
  `backupFailed` or `wasTerminated` says otherwise, and nothing writes "Success"
  earlier;
* `HelperInv`: the mutex is held exactly between check and start, and once a
  `DoCleanup` is past its look main can no longer be about to start one, so a
  helper that runs then is one it missed. That is where the check of
  `wasTerminated` under the mutex is needed;
* `CleanInv`: how far an undisturbed backup has come at each step, which the exit
  code 0 then refers to (`ExitInv`).

There is one lemma for each part, with a step for each action.

`SingleDataFileProofs.tla` proves `TypeCorrect`, `EntriesCorrect`,
`PluginBackupComplete` and `SuccessLosesLastOnly` for any number of tables and
workers, any sizes, `copyQueue` and pipe capacity, from the module's assumptions.
`EntriesDelimit` only looks at the helper's TOC; that the bytes of the data file
are those of the right table depends on who holds which pipe:

* `PlaceInv`: the helper's position in the oid list is one past its TOC;
* `OwnerInv`: each table is with one connection at most, and connection 0's is
  the one its loop is at;
* `ServedInv`: no COPY of a table whose pipe the helper has opened is still
  before its own open, so nobody can write to a pipe that is done with;
* `EntriesInv` and `CountInv`: bytes after the last entry are those of the table
  being read, and written bytes are in the pipe or in the file;
* `PipeInv`, `MainInv` and `TailInv`: no pipe goes early unless there is an error
  file, which main looks for. This carries `OnlyTailAtRisk`.

`BackupChainProofs.tla` proves, for any tables, filters and numbers of backups
that may overlap, of changes and of faults, `TypeCorrect`, `SnapshotRestored`,
`FilterRespected`, `IncrementalRestored` and the refinement `ArchivesKept`. Its
assumptions are those of the module: a leaf names its root or none, the
append-optimized tables are tables, filters select tables, there are filters to
choose from, and the bounds are numbers. That a restore is the snapshot is not
inductive: a plan mentions other backups, whose plans mention others. So `IInv`
says of every plan at once, at whatever stage its process is:

* `PlanInv`: it deals each table of the backup to exactly one backup, which saw
  the same rows and stores them, and whose TOC, once there is one, is complete;
* `BaseInv`: what a backup does not store itself was the same in its base;
* `VersionsInv`: equal counters mean equal rows, in the database, between the
  database and every snapshot, and between any two snapshots, because a table
  that was not re-created has been modified as often as before, or more. It is
  what an incremental backup relies on;
* `FilesInv`: which file can be there at which stage, so that a TOC together with
  a config file, or with a process that has failed after both, is complete. A
  base is a backup that writes no file any more.

`Frozen` is the lemma behind the last two: what a backup knows does not change
once its plan is made. The refinement maps `rows`, `seen` and `archive`; each
action is a step of `Archive` or stutters.

`RestoreLifecycleProofs.tla` proves `TypeCorrect`, `SuccessComplete`,
`PostdataOrdered`, `ErrorTablesRight` and `HelpersStopped` for any command lines,
plan, files of statements, connections and bound on failures, from
`CommandsAssumption`, `PlanAssumption` (a table is in the plan for one backup)
and `StatementsAssumption` (statements have the types of their file, an index is
there once). `Works[n]` is the set of statements section `n` owes to the command
line, and the invariant follows it through the channel and the workers:

* `Places` and `Ready`: which section main is in, what is set up there, and that
  it leaves by the last section or with `errorCode` 2;
* `Pool`: until an error or a signal a statement of the section is done, failed,
  in the channel or with a busy worker, and the channel is not left unread;
* `Past`: sections that are over did their work. A signal breaks this only for
  statements started after it, so it is stated as long as a worker is busy, which
  is what `PostdataInOrder` needs of interrupted restores;
* `EachIndexOnce`: no two workers run one index statement, so two busy with
  indexes of one table are not both in the first batch;
* `Loaded`, `Loading` and `CopiesKnown`: of a backup's tables those at places
  below a connection's `entry` and of its residue are copied, no others;
* `RowsKnown`: what each table holds then, with the truncation in between;
* `FailuresNoticed` and `StopsNoticed`: a failure, a panic or a cancelled
  context is on its way to the error code in every state, from which
  `SuccessComplete` follows;
* `ErrorTables`, `Files` and `Helpers` for the files and the helpers.

`KeepIsSelection` and `KeepOnce` say what the filter `Keep` returns: its
recursive function is unfolded with a least counterexample. `OwnerKept` and
`OwnersApart` are the arithmetic of taking every `NumConns`-th table.

The last part of `MetadataProofs.tla` proves `PrivilegesRestored` and
`DefaultsRestored` for any roles and any catalogue that `CatalogsAssumption`
allows. `RolesAssumption` says which names roles cannot have: the server
reserves `public` and `none`, and no name is empty; which names need quotes, and
what a name folds to, is arbitrary. Neither property says anything before the
end, so `PrivilegesIInv` describes what the restored database lacks and where it
is to come from:

* `CollectInv` and `MapInv`: the metadata of an object is what its rows so far
  say, and complete when the rows of the next one begin; it is there until the
  object is printed, for a member of an extension until the end;
* `InOrder` (in `PrintInv`): statements about one object come as CREATE, COMMENT,
  OWNER TO, GRANT, SECURITY LABEL, and GRANT on its columns, whatever else is
  between them, and default privileges after all objects. The privileges of an
  extension's functions break into this order only after its CREATE, and may be
  repeated;
* `ObjectInv`: before its CREATE has run the script has all of an object's
  statements (`Awaited`); then each part of it is either as created and its
  statement still to come, or as in the source and every statement that would
  undo it behind (`Present`: `OwnerInv`, `ListInv`, `ColumnInv`, `NoteInv`). That a
  GRANT undoes the columns' privileges, and OWNER TO both lists, is why `InOrder`
  is needed;
* `DefaultInv`: each row's default privileges are given or still to come.

The lemmas say what a round of names and access lists gives: quoting a name and
reading it back is the identity (`Named` of `QuoteIdent` and of the quoted
`ItemName`), a REVOKE from PUBLIC and the owner followed by the grants of a list
leaves just that list, whether a set of privileges is written as `ALL` or one by
one, and running a GRANT twice is running it once.

The second half of `BackupDataProofs.tla` proves `RowsExactlyOnce` and
`MetadataClosed` of `TableSelection` for every catalogue and command line that
`WorldsAssumption` allows. Root, Ancestors and Covers are recursive functions;
`RootUnfolds`, `AncestorsUnfold` and `CoversUnfolds` show that they are what their
equations say (with a solution built from the sets that are closed upwards), and
`TableInduction` turns the absence of cycles into induction along the catalogue.
`SelectionIInv` (theorem `SelectionInductive`) has three parts:

* `CommandInv`: the flags agree, names already validated are not to be refused, and
  the filter lists are those of the names looked at;
* `PassesInv`: what the set of `recurseTableDepend` is closed under after each
  pass: `LonelyFound` and `AskedFound` after the first, `AncestorsFound` and
  `ParentsFound` after the second, kept by the third, and `RootsOnly` (no inner
  partition of version 6) throughout. No fixpoint of all three passes exists: in
  version 6 the third pass undoes the closure under parents, and only these facts
  survive it;
* `ListsInv`: each list is what its query returns.

The properties then follow at the end by cases of version, `--leaf-partition-data`
and list: the copied table above some rows is the table itself (`LeafRows`), its
root (`RootRows`) or the first ancestor that is a root or below a member of an
extension (`ClimbsToData`), and `CoversLinear` excludes a second one
(`NestedRoots`). TLC found no violation of the invariant on the worlds of the run
before it was proved.

`CheckMigrateProofs.tla` proves `FailuresStayContained` and `ExitCodeRight` for
any command lines and clusters: any number of databases with different names
(the key of `pg_database`), finite sets of objects, any libraries, and any number
of failing statements. The exit code is put together from counters of three
loops, so `IInv` has a part for each:

* `FoundInv` and `CacheInv`: what the check at hand has counted is zero exactly
  when there is nothing to find, for the libraries among those looked at so
  far, with cached results that are those the target gives;
* `SetupInv` and `CheckInv`: as long as the database has no error, every
  capability is there, so no check is skipped, the checks so far are completed,
  and the findings are zero exactly when none of them finds anything;
* `LoopInv` and `TotalsInv`: the databases left are the last ones of the list, and
  as long as no error is known the totals tell of those before them;
* `FailedInv` and `ErrorInv`: each failed check has a failure of its own, and no
  error is recorded without one;
* `SessionInv`: the transaction is in order wherever a statement of a check runs;
* `CodeInv`: without a signal nothing is closed before the end, so main does
  not panic, and the code it ends with is right from the moment it is set.

`RestoreHelperProofs.tla` proves `TypeCorrect`, `BytesRight`,
`FailuresStayLocal` and `RestoredAll` for any tables, sizes, batches, connections
and setups, with readers and COPYs that fail at any moment. The connections and
the helper walk the same list, the former by tables and the latter by batches;
the lemmas about `Sums` and `Place` say where an entry of a table is in the flat
oid list. The invariant relates the two walks:

* `HelperInv`, `PosInv`: where the helper is, and that no reader is past its end;
* `SeekInv`: a reader that is positioned is where `lastByte` says, also after a
  COPY or a read that broke off; `SubsetInv`: a filtered stream stands at the end
  of what the helper has passed, unless a discard failed (`discardErr`) or a
  replicated table was skipped (`Shifted`). `RightBytes` follows from both;
* `ConnInv`: each entry of the list has one connection (`Owner`), which gives its
  table a verdict when it passes it, so none is left out;
* `SkipInv`, `PassedInv`: the helper leaves a pipe behind only when its COPY is
  over; a table is passed over only after its COPY failed;
* `RowsInv`: a table that no reader failed on has the rows of its finished batches;
* `QueueInv`: before any failure the helper is at most `copyQueue` entries behind
  the COPYs, so a pipe a COPY looks for has been made.

The last three hold as long as the helper itself has not broken down, `QueueInv`
as long as nothing has failed.

The first parts of `MetadataProofs.tla` are about both modules, which share the objects and
`MetadataTiers`. Of the sort it proves, for every number of objects and all
dependencies without self-references, `SortTypeCorrect`, `SortedInOrder`,
`CirclesReported`, `TiersCorrect`, `CohortsCorrect` and `CohortNumbersCorrect`.
The invariant `SortIInv` says that

* an object has a tier exactly when it is in `sorted`, and its in-degree is the
  number of dependencies without one; so when the queues are empty the objects
  left form a circle;
* what is in the queue has a dependency of the depth before, and what is in
  `nextTier` one of the present depth;
* two objects of one cohort are not separated by any closed set (`Separate`),
  and objects passed have the cohort of all their neighbours (`Joined`);
* during the renumbering the numbers below `expected` are used, and `pending`
  are the others in use.

Of the restore it proves `TypeCorrect`, `PrerequisitesCorrect`,
`LocksUncontended` and `EverythingRestored` for all plans, filters, numbers of
connections and failing statements. `PlansAssumption` is the promise of
`MetadataTiers`, which the theorems about the sort establish, and what
`backupPredata` does by writing roles, schemas and types that are not sorted
before the sorted objects. `PrerequisitesThere` is part of the invariant, which
further says that

* the connections of a tier have to do with different cohorts (`CohortInv`), so
  that no two of them lock one object;
* between the tiers only connection 0 has statements in a transaction, and
  during a tier it has none (`TxInv`);
* the first error ends the restore, or each is counted (`ErrorInv`);
* a chosen statement of an earlier batch is committed, one of this batch waits
  with some connection or is done there (`ProgressInv`). This fails with a tier
  that the filters left empty, which is why the properties exclude `Gap`.

Each module with processes has a `TypeOK`. Where a module of proofs stands
beside it, it is proved for all sizes, with `CopyExclusive`, `NoSilentFailure`
and `CohortsNumbered`, so no run repeats them; that of `BackupLifecycle` is part
of its `IInv`. The others hold on the instances of the runs, whose
configurations leave them out: add `INVARIANT TypeOK` to see it.

Only model-checked: every liveness property (TLAPS does not reason about
ENABLED). Every safety invariant of the runs is proved.

## 5. Not modelled

The catalogue queries and SQL texts of functions, types, sequences and the other
objects besides tables and privileges; report texts, file names, compression
and plugin programs: no concurrency and no state beyond text. Of gprestore,
`--redirect-schema`, how a TOC's metadata statements are chosen by type and
filter, and redistribution inside a loaded table are left out. What the database
does inside a statement is assumed; statements may fail. Time is
abstracted: sleeps and tickers are steps that may happen at any moment.

## 6. Plan

Done: the data phase with its abstract specification, the process lifecycles of
gpbackup and gprestore, the single-data-file backup and restore, the metadata
order, the pre-data restore, backup chains with their abstract specification,
table selection, owners and privileges, and ggcheckmigrate; proofs of
all safety properties of these.

Left, in this order:

1. The selection of metadata statements by type and filter in the TOC, with
   `--redirect-schema`.
2. The tier of an exchanged external partition (`predata_externals.go:388`), as
   a plan of `PredataRestore`.
3. `RestoreLifecycle` composed with `RestoreHelper`: a phase that either
   completes a table or reports it.
