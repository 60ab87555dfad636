----------------------------- MODULE BackupChain ----------------------------
(***************************************************************************)
(* Full and incremental backups that build on one another.                 *)
(*                                                                         *)
(* Every gpbackup process is named by its timestamp.  It sees the database *)
(* in the snapshot its transaction took in DoSetup, chooses the backup it  *)
(* is based on, decides which tables changed since by comparing the        *)
(* modification counts of append-optimized tables, and stores a restore    *)
(* plan that says which backup holds the data of which table.  Other       *)
(* sessions change the database and other gpbackup processes run           *)
(* meanwhile; a process may fail, be terminated or be killed anywhere.     *)
(* gprestore reads nothing but the files: config, TOC and data.            *)
(***************************************************************************)
EXTENDS Naturals, FiniteSets, Functions

CONSTANTS
  Tables,         \* the tables that hold data: leaf partitions and plain tables
  AOTables,       \* those of them that are append-optimized
  PartitionRoot,  \* the root of each leaf partition, NoRoot for a plain table
  NoRoot,
  Signatures,     \* the flag combinations matchesIncrementalFlags compares
  Included(_),    \* the tables that a signature's filters leave
  MaxTimestamp,   \* bound: backups that may be started
  MaxTick,        \* bound: changes of the database
  MaxRunning,     \* bound: gpbackup processes at the same time
  MaxFaults       \* bound: failures, signals, crashes, lost and deleted files

ASSUME AOAssumption        == AOTables \subseteq Tables
ASSUME PartitionAssumption == DOMAIN PartitionRoot = Tables /\ NoRoot \notin Tables
ASSUME SignatureAssumption == /\ Signatures # {}
                              /\ \A s \in Signatures : Included(s) \subseteq Tables
ASSUME BoundsAssumption    == MaxTimestamp \in Nat /\ MaxTick \in Nat \ {0}
                              /\ MaxRunning \in Nat /\ MaxFaults \in Nat

Timestamps == 1 .. MaxTimestamp
NoBase     == 0
Ticks      == 0 .. MaxTick
Empty      == 0       \* the content of a table without rows
ZeroEntry  == [modcount |-> 0, lastDDL |-> 0]   \* a Go map's answer for an absent key

VARIABLES
  db,         \* existing tables: content, and the counters of the catalogue
  faults,     \* how often something went wrong
  tick,       \* names every content and every DDL statement apart
  pc, kind, sig, base,
  snap,       \* the database in the snapshot of each backup
  replaced,   \* tables truncated or re-created between snapshot and lock
  dataset,    \* dataTables: the tables this backup locked and accounts for
  plan,       \* backupReport.RestorePlan: timestamp -> tables
  ao,         \* IncrementalMetadata.AO of the TOC
  data,       \* the data files, by table
  tocFile, configFile,   \* the files that exist
  status,     \* the row in gpbackup_history.db
  deleted     \* date_deleted of the row, and the files with it

dbVars      == <<db, tick>>
envVars     == <<db, tick, faults>>
processVars == <<pc, kind, sig, base, snap, replaced, dataset>>
fileVars    == <<plan, ao, data, tocFile, configFile>>
vars == <<envVars, processVars, fileVars, status, deleted>>

TableState == [content : Ticks, modcount : 0 .. MaxTick + 1, lastDDL : Ticks]
AOEntry    == [modcount : 0 .. MaxTick + 1, lastDDL : Ticks]
IsPartial(f, S, T) == DOMAIN f \subseteq S /\ f \in [DOMAIN f -> T]

Running   == {"setup", "based", "planned", "copied", "written",
              "failing", "updating", "updatingFailure"}
Unlocked  == {"setup", "based"}   \* the snapshot is taken, the locks are not
HoldLocks == {"planned", "copied", "written"}

TypeOK ==
  /\ IsPartial(db, Tables, TableState)
  /\ tick \in Ticks
  /\ faults \in 0 .. MaxFaults
  /\ pc \in [Timestamps -> Running \cup {"none", "ended"}]
  /\ kind \in [Timestamps -> {"full", "data-only", "incremental"}]
  /\ sig \in [Timestamps -> Signatures]
  /\ base \in [Timestamps -> Timestamps \cup {NoBase}]
  /\ \A b \in Timestamps : IsPartial(snap[b], Tables, TableState)
  /\ replaced \in [Timestamps -> SUBSET Tables]
  /\ dataset \in [Timestamps -> SUBSET Tables]
  /\ \A b \in Timestamps : /\ IsPartial(plan[b], Timestamps, SUBSET Tables)
                           /\ IsPartial(ao[b], AOTables, AOEntry)
                           /\ IsPartial(data[b], Tables, Ticks)
  /\ tocFile \in [Timestamps -> BOOLEAN]
  /\ configFile \in [Timestamps -> BOOLEAN]
  /\ status \in [Timestamps -> {"none", "In Progress", "Success", "Failure"}]
  /\ deleted \in [Timestamps -> BOOLEAN]

NoFunction == [x \in {} |-> x]

Init ==
  /\ tick = 1
  /\ faults = 0
  /\ db = [t \in Tables |-> [content |-> 1, modcount |-> 1, lastDDL |-> 1]]
  /\ pc = [b \in Timestamps |-> "none"]
  /\ kind = [b \in Timestamps |-> "full"]
  /\ sig = [b \in Timestamps |-> CHOOSE s \in Signatures : TRUE]   \* until DoSetup
  /\ base = [b \in Timestamps |-> NoBase]
  /\ snap = [b \in Timestamps |-> NoFunction]
  /\ replaced = [b \in Timestamps |-> {}]
  /\ dataset = [b \in Timestamps |-> {}]
  /\ plan = [b \in Timestamps |-> NoFunction]
  /\ ao = [b \in Timestamps |-> NoFunction]
  /\ data = [b \in Timestamps |-> NoFunction]
  /\ tocFile = [b \in Timestamps |-> FALSE]
  /\ configFile = [b \in Timestamps |-> FALSE]
  /\ status = [b \in Timestamps |-> "none"]
  /\ deleted = [b \in Timestamps |-> FALSE]

-----------------------------------------------------------------------------
(* Other sessions.                                                         *)

Locked(t) == \E b \in Timestamps : pc[b] \in HoldLocks /\ t \in dataset[b]

\* A table that is truncated or re-created after a snapshot was taken looks
\* empty in that snapshot.
Hide(t) == replaced' = [b \in Timestamps |->
                          IF pc[b] \in Unlocked THEN replaced[b] \cup {t} ELSE replaced[b]]

Fault == faults < MaxFaults /\ faults' = faults + 1

ChangeTo(newDb) ==
  /\ tick < MaxTick
  /\ tick' = tick + 1
  /\ db' = newDb
  /\ UNCHANGED <<faults, pc, kind, sig, base, snap, dataset, fileVars, status, deleted>>

\* INSERT, UPDATE or DELETE: not stopped by a backup's ACCESS SHARE lock.
Modify(t) ==
  /\ t \in DOMAIN db
  /\ ChangeTo([db EXCEPT ![t].content = tick + 1, ![t].modcount = @ + 1])
  /\ UNCHANGED replaced

\* TRUNCATE, or DROP and CREATE: the counter starts again, lastDDL tells.
Recreate(t) ==
  /\ t \in DOMAIN db /\ ~Locked(t)
  /\ ChangeTo([db EXCEPT ![t] = [content |-> Empty, modcount |-> 0, lastDDL |-> tick + 1]])
  /\ Hide(t)

Drop(t) ==
  /\ t \in DOMAIN db /\ ~Locked(t)
  /\ ChangeTo([u \in DOMAIN db \ {t} |-> db[u]])
  /\ Hide(t)

Create(t) ==
  /\ t \in Tables \ DOMAIN db
  /\ ChangeTo([u \in DOMAIN db \cup {t} |->
                IF u = t THEN [content |-> Empty, modcount |-> 0, lastDDL |-> tick + 1]
                ELSE db[u]])
  /\ UNCHANGED replaced

\* Deleting a backup is the work of a tool outside of this repository; the code
\* knows of it by date_deleted and by the files that are gone.
Delete(b) ==
  /\ Fault
  /\ pc[b] = "ended" /\ ~deleted[b]
  /\ deleted' = [deleted EXCEPT ![b] = TRUE]
  /\ tocFile' = [tocFile EXCEPT ![b] = FALSE]
  /\ configFile' = [configFile EXCEPT ![b] = FALSE]
  /\ data' = [data EXCEPT ![b] = NoFunction]
  /\ UNCHANGED <<dbVars, processVars, plan, ao, status>>

-----------------------------------------------------------------------------
(* gpbackup.                                                               *)

GoTo(b, label) == pc' = [pc EXCEPT ![b] = label]

\* DoSetup.  CurrentTimestamp and the lock file make timestamps unique and
\* increasing; MustBegin opens a repeatable-read transaction, and the queries
\* of ValidateAndProcessFilterLists take its snapshot.
DoSetup(b) ==
  /\ pc[b] = "none"
  /\ \A c \in Timestamps : c < b => pc[c] # "none"
  /\ Cardinality({c \in Timestamps : pc[c] \in Running}) < MaxRunning
  /\ \E k \in {"full", "data-only", "incremental"}, s \in Signatures :
       /\ kind' = [kind EXCEPT ![b] = k]
       /\ sig' = [sig EXCEPT ![b] = s]
  /\ snap' = [snap EXCEPT ![b] = db]
  /\ GoTo(b, "setup")
  /\ UNCHANGED <<envVars, base, replaced, dataset, fileVars, status, deleted>>

\* matchesIncrementalFlags: backup directory, database, plugin, compression,
\* leaf partition data, single data file and the four filter lists.
MatchesIncrementalFlags(c, b) == sig[c] = sig[b]

\* GetMainBackupInfo gives an error for a timestamp without a row.
HasRow(c) == status[c] # "none"

\* The query and the loop of GetLatestMatchingBackupConfig.
Candidates(b) == {c \in Timestamps : /\ HasRow(c) /\ status[c] = "Success"
                                     /\ ~deleted[c]
                                     /\ MatchesIncrementalFlags(c, b)}

LatestMatchingBackup(b) == {c \in Candidates(b) : \A d \in Candidates(b) : d <= c}

\* validateFromTimestamp reads the config file and compares the flags; it looks
\* neither at the status nor at the history database.
ValidFromTimestamps(b) == {c \in Timestamps : configFile[c] /\ MatchesIncrementalFlags(c, b)}

GetTargetBackupTimestamp(b) ==
  /\ pc[b] = "setup"
  /\ IF kind[b] = "incremental"
     THEN \E c \in LatestMatchingBackup(b) \cup ValidFromTimestamps(b) :
            base' = [base EXCEPT ![b] = c]
     ELSE UNCHANGED base
  /\ GoTo(b, "based")
  /\ UNCHANGED <<envVars, kind, sig, snap, replaced, dataset, fileVars, status, deleted>>

\* RetrieveAndProcessTables: the tables of the snapshot that pass the filters.
TablesOf(b) == Included(sig[b]) \cap DOMAIN snap[b]

\* GetAOIncrementalMetadata, in the snapshot.  The segment file counts of a table
\* that was truncated meanwhile are gone; pg_stat_last_operation is not.
AOMetadata(b) ==
  [t \in AOTables \cap TablesOf(b) |->
     [modcount |-> IF t \in replaced[b] THEN 0 ELSE snap[b][t].modcount,
      lastDDL  |-> snap[b][t].lastDDL]]

AOEntryOf(metadata, t) == IF t \in DOMAIN metadata THEN metadata[t] ELSE ZeroEntry

\* Mutant: the time of the last DDL is not compared.
FilterByModcount(lastAO, currentAO, S) ==
  {t \in S : t \in DOMAIN currentAO => AOEntryOf(lastAO, t).modcount # currentAO[t].modcount}

\* Mutant: a table has changed when its count has grown.
FilterByGrowth(lastAO, currentAO, S) ==
  {t \in S : t \in DOMAIN currentAO =>
     \/ AOEntryOf(lastAO, t).modcount < currentAO[t].modcount
     \/ AOEntryOf(lastAO, t).lastDDL # currentAO[t].lastDDL}

\* A table without an entry of its own is a heap table.
FilterTablesForIncremental(lastAO, currentAO, S) ==
  {t \in S : t \in DOMAIN currentAO => AOEntryOf(lastAO, t) # currentAO[t]}

PopulateRestorePlan(changed, targetPlan, all, b) ==
  [c \in DOMAIN targetPlan \cup {b} |->
     IF c = b THEN changed ELSE (targetPlan[c] \ changed) \cap all]

\* Incremental metadata is gathered unless the backup is data-only.
CurrentAO(b) == IF kind[b] = "data-only" THEN NoFunction ELSE AOMetadata(b)

ChangedTables(b) ==
  IF base[b] = NoBase THEN TablesOf(b)
  ELSE FilterTablesForIncremental(ao[base[b]], CurrentAO(b), TablesOf(b))

RestorePlanFor(b) ==
  IF TablesOf(b) = {} THEN NoFunction   \* becomes a metadata-only backup
  ELSE PopulateRestorePlan(ChangedTables(b),
                           IF base[b] = NoBase THEN NoFunction ELSE plan[base[b]],
                           TablesOf(b), b)

\* The middle of DoBackup: lock the tables, gather their state, read TOC and
\* config of the base, make the plan and store the row.  (With --no-history there is
\* no row: such a backup is no more a candidate than one that stays "In Progress".)
\* Both files must be there: NewTOC and ReadConfigFile are fatal otherwise.
PlanBackup(b) ==
  /\ pc[b] = "based"
  /\ TablesOf(b) \subseteq DOMAIN db
  /\ base[b] # NoBase /\ TablesOf(b) # {} => tocFile[base[b]] /\ configFile[base[b]]
  /\ dataset' = [dataset EXCEPT ![b] = TablesOf(b)]
  /\ ao' = [ao EXCEPT ![b] = CurrentAO(b)]
  /\ plan' = [plan EXCEPT ![b] = RestorePlanFor(b)]
  /\ status' = [status EXCEPT ![b] = "In Progress"]
  /\ GoTo(b, "planned")
  /\ UNCHANGED <<envVars, kind, sig, base, snap, replaced, data, tocFile, configFile, deleted>>

BackupSet(b) == IF b \in DOMAIN plan[b] THEN plan[b][b] ELSE {}

\* Mutant: COPY reads what is committed, not the snapshot.
ContentCommitted(b, t) == IF t \in replaced[b] THEN Empty ELSE db[t].content

ContentSeen(b, t) == IF t \in replaced[b] THEN Empty ELSE snap[b][t].content

\* backupData(backupSetTables), which BackupData models in detail.
BackupTableData(b) ==
  /\ pc[b] = "planned"
  /\ data' = [data EXCEPT ![b] = [t \in BackupSet(b) |-> ContentSeen(b, t)]]
  /\ GoTo(b, "copied")
  /\ UNCHANGED <<envVars, kind, sig, base, snap, replaced, dataset, plan, ao,
                 tocFile, configFile, status, deleted>>

WriteTOC(b) ==
  /\ pc[b] = "copied"
  /\ tocFile' = [tocFile EXCEPT ![b] = TRUE]
  /\ GoTo(b, "written")
  /\ UNCHANGED <<envVars, kind, sig, base, snap, replaced, dataset, plan, ao, data,
                 configFile, status, deleted>>

\* A panic in any step before the end of DoBackup.
Fail(b) ==
  /\ Fault
  /\ pc[b] \in {"setup", "based", "planned", "copied", "written"}
  /\ GoTo(b, "failing")
  /\ UNCHANGED <<dbVars, kind, sig, base, snap, replaced, dataset, fileVars, status, deleted>>

\* The end of DoBackup commits and hands the files to the plugin, which changes
\* none of them.  DoTeardown writes the config file of successful and of failed backups alike;
\* the plugin may fail to store it, which leaves the status as it is.
WriteConfig(b) ==
  /\ pc[b] \in {"written", "failing"}
  /\ \/ configFile' = [configFile EXCEPT ![b] = TRUE] /\ UNCHANGED faults
     \/ Fault /\ UNCHANGED configFile
  /\ GoTo(b, IF pc[b] = "written" THEN "updating" ELSE "updatingFailure")
  /\ UNCHANGED <<dbVars, kind, sig, base, snap, replaced, dataset, plan, ao, data,
                 tocFile, status, deleted>>

FinalStatus(b) ==
  IF status[b] = "none" THEN "none" ELSE IF pc[b] = "updating" THEN "Success" ELSE "Failure"

\* DoCleanup: the row gets its final status, unless it is not there or the
\* history database cannot be updated.
UpdateHistory(b) ==
  /\ pc[b] \in {"updating", "updatingFailure"}
  /\ \/ /\ status' = [status EXCEPT ![b] = FinalStatus(b)]
        /\ UNCHANGED faults
     \/ Fault /\ UNCHANGED status
  /\ GoTo(b, "ended")
  /\ UNCHANGED <<dbVars, kind, sig, base, snap, replaced, dataset, fileVars, deleted>>

\* A signal.  Steps that look at wasTerminated return at once, so main may still
\* write a TOC that lists only the tables copied so far; DoTeardown then waits
\* and writes no config file.  The handler's DoCleanup sets the row.
Terminate(b) ==
  /\ Fault
  /\ pc[b] \in Running \ {"updating", "updatingFailure"}
  /\ IF pc[b] = "planned"
     THEN \E S \in SUBSET BackupSet(b), wrote \in BOOLEAN :
            /\ data' = [data EXCEPT ![b] = [t \in S |-> ContentSeen(b, t)]]
            /\ tocFile' = [tocFile EXCEPT ![b] = wrote]
     ELSE /\ tocFile' \in {tocFile, [tocFile EXCEPT ![b] = @ \/ pc[b] = "copied"]}
          /\ UNCHANGED data
  /\ \E r \in {status[b], "Failure"} :
       /\ status[b] = "none" => r = "none"
       /\ status' = [status EXCEPT ![b] = r]
  /\ GoTo(b, "ended")
  /\ UNCHANGED <<dbVars, kind, sig, base, snap, replaced, dataset, plan, ao,
                 configFile, deleted>>

\* The process is killed: what is on disk stays.
Kill(b) ==
  /\ Fault
  /\ pc[b] \in Running
  /\ GoTo(b, "ended")
  /\ UNCHANGED <<dbVars, kind, sig, base, snap, replaced, dataset, fileVars, status, deleted>>

Gpbackup(b) ==
  \/ DoSetup(b) \/ GetTargetBackupTimestamp(b) \/ PlanBackup(b) \/ BackupTableData(b)
  \/ WriteTOC(b) \/ Fail(b) \/ WriteConfig(b) \/ UpdateHistory(b)
  \/ Terminate(b) \/ Kill(b)

Next ==
  \/ \E b \in Timestamps : Gpbackup(b) \/ Delete(b)
  \/ \E t \in Tables : Modify(t) \/ Recreate(t) \/ Drop(t) \/ Create(t)

Spec == Init /\ [][Next]_vars

-----------------------------------------------------------------------------
(* gprestore, which reads the files of the backup it is given and of those in *)
(* its restore plan.  Filters are sets of tables and partition roots.         *)

\* NewIncludeSet and NewExcludeSet of an empty list match everything; NewSet of
\* an empty list matches nothing.
IncludeSet(F) == IF F = {} THEN Tables ELSE F
ExcludeSet(F) == Tables \ F

\* Mutant: a root is not expanded to its leaves.
NoLeafPartitions(F, c) == {}

\* getLeafPartitions: the data entries of a TOC name the root of each leaf.
LeafPartitions(F, c) == {t \in DOMAIN data[c] : PartitionRoot[t] # NoRoot /\ PartitionRoot[t] \in F}

\* GetDataEntriesMatching for the TOC of c.  At most one filter is not empty.
DataEntriesMatching(c, include, exclude, planned) ==
  LET tableSet == IF include # {} THEN IncludeSet(include \cup LeafPartitions(include, c))
                  ELSE ExcludeSet(exclude \cup LeafPartitions(exclude, c))
  IN  {t \in DOMAIN data[c] : t \in planned /\ t \in tableSet}

\* The last entry of a plan is the backup's own.
RestorePlanEntries(b, incremental) == IF incremental THEN DOMAIN plan[b] \cap {b} ELSE DOMAIN plan[b]

\* Neither the status of a backup nor its row matter to gprestore.  The config
\* file, its own TOC and those of the plan must be there.
Restorable(b) == configFile[b] /\ tocFile[b] /\ \A c \in DOMAIN plan[b] : tocFile[c]

\* restoreData: which data files are copied into which tables.
RestoredFrom(b, t, include, exclude, incremental) ==
  {c \in RestorePlanEntries(b, incremental) :
     t \in DataEntriesMatching(c, include, exclude, plan[b][c])}

RestoredTables(b, include, exclude, incremental) ==
  {t \in Tables : RestoredFrom(b, t, include, exclude, incremental) # {}}

RestoredContent(b, t, incremental) ==
  data[CHOOSE c \in RestoredFrom(b, t, {}, {}, incremental) : TRUE][t]

\* GetIncludedPartitionRoots, over the TOCs of the plan: relations whose
\* definitions are restored as well.
IncludedPartitionRoots(b, include) ==
  {PartitionRoot[t] : t \in {u \in include : \E c \in DOMAIN plan[b] : u \in DOMAIN data[c]}} \ {NoRoot}

\* Mutant: the tables are not looked for.
IncrementalStateAssumed(b, existing) == TRUE

\* verifyIncrementalState, without filters: the tables to restore must exist.
IncrementalStateVerified(b, existing) == BackupSet(b) \subseteq existing

\* gprestore --incremental into a database: tables are truncated first.
RestoredOnto(b, target) ==
  [t \in DOMAIN target |->
     IF t \in RestoredTables(b, {}, {}, TRUE) THEN RestoredContent(b, t, TRUE) ELSE target[t]]

-----------------------------------------------------------------------------
(* Properties.                                                             *)

ContentOf(b) == [t \in dataset[b] |-> ContentSeen(b, t)]

\* As long as its files are there, a backup of whatever base, status and age
\* gives each of its tables exactly once, with the rows of its own snapshot.
RestoreIsSnapshot ==
  \A b \in Timestamps : Restorable(b) =>
    /\ RestoredTables(b, {}, {}, FALSE) = dataset[b]
    /\ \A t \in dataset[b] : /\ Cardinality(RestoredFrom(b, t, {}, {}, FALSE)) = 1
                             /\ RestoredContent(b, t, FALSE) = ContentSeen(b, t)

\* A restore with --include-table or --exclude-table restores what was asked for
\* wherever in the chain it is: a root stands for its leaves, and the
\* definition of the root comes with a leaf.
FilteredRestore ==
  \A b \in Timestamps : Restorable(b) =>
    \A F \in SUBSET (Tables \cup (Range(PartitionRoot) \ {NoRoot})) :
      LET named == {t \in dataset[b] : t \in F \/ PartitionRoot[t] \in F}
      IN  /\ F # {} => RestoredTables(b, F, {}, FALSE) = named
          /\ RestoredTables(b, {}, F, FALSE) = dataset[b] \ named
          /\ \A t \in F \cap dataset[b] :
               PartitionRoot[t] # NoRoot => PartitionRoot[t] \in IncludedPartitionRoots(b, F)

\* gprestore --incremental brings a database that holds a restore of the base to
\* the state of the backup, or stops because tables are missing.
IncrementalRestoreAdvances ==
  \A b \in Timestamps :
    /\ base[b] # NoBase /\ Restorable(b) /\ Restorable(base[b])
    /\ IncrementalStateVerified(b, dataset[base[b]])
    => \A t \in dataset[b] : /\ t \in dataset[base[b]]
                             /\ RestoredOnto(b, ContentOf(base[b]))[t] = ContentSeen(b, t)

\* The database, what each backup saw of it, and what a restore of it gives.
rows    == [t \in DOMAIN db |-> db[t].content]
seen    == [b \in Timestamps |->
             IF pc[b] = "none" THEN {}
             ELSE {[t \in DOMAIN snap[b] |-> snap[b][t].content]}]
archive == [b \in Timestamps |->
             IF Restorable(b)
             THEN {[t \in RestoredTables(b, {}, {}, FALSE) |-> RestoredContent(b, t, FALSE)]}
             ELSE {}]

\* What the files promise: an archive, once there, is never altered by later
\* backups, it can only be lost.
Promise == INSTANCE Archive WITH Contents <- Ticks, db <- rows

KeepsArchive == Promise!Spec
=============================================================================
