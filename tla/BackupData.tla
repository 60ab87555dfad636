----------------------------- MODULE BackupData -----------------------------
(***************************************************************************)
(* The data phase of gpbackup: BackupDataForAllTables (backup/data.go).    *)
(*                                                                         *)
(* The main goroutine puts every table on a buffered channel and starts    *)
(* one goroutine per connection 1..N-1 ("workers") and one goroutine that  *)
(* owns connection 0 (the "deferred worker").  A worker takes a table,     *)
(* locks it with NOWAIT and copies it out; a table whose lock is not       *)
(* available is left to connection 0, which has held ACCESS SHARE locks on *)
(* every table since before the metadata was written.  The goroutines talk *)
(* through the task channel, the oidMap, two flags, a context, a wait      *)
(* group and two unbuffered channels (panicChan and deferredWorkerDone).   *)
(*                                                                         *)
(* A goroutine's shared-memory accesses are separate steps wherever        *)
(* another goroutine can tell: the wait-group decrement, the cancellation  *)
(* and the channel send of a panicking worker are three steps, and so are  *)
(* the deferred worker's flag check, its oidMap load and its COPY.         *)
(***************************************************************************)
EXTENDS Naturals, FiniteSets

CONSTANTS
  NumTables,   \* tables of the backup set; table t is the t-th of "tables"
  NumWorkers,  \* connectionPool.NumConns - 1: the workers besides connection 0
  Faults       \* the failures the environment may inject

FaultKinds == {"lock", "locksQuery", "copy", "snapshot", "agent", "signal"}

ASSUME NumTablesAssumption  == NumTables \in Nat \ {0}
ASSUME NumWorkersAssumption == NumWorkers \in Nat \ {0}
ASSUME FaultsAssumption     == Faults \subseteq FaultKinds

Tables  == 1 .. NumTables
Workers == 1 .. NumWorkers
Conns   == 0 .. NumWorkers

VARIABLES
  nextTask,         \* head of the tasks channel; NumTables + 1 when drained
  oidMap,           \* state of each table, shared by every goroutine
  rowsCopiedMaps,   \* what each connection recorded for each table
  isErroredBackup,  \* a worker met an error that must stop the others
  wasTerminated,    \* set by the signal handler
  ctxDone,          \* the shared context is cancelled
  workerPc,         \* where each worker stands
  workerTable,      \* the table each worker took last
  tx,               \* transaction of each worker's connection
  held,             \* tables each worker's transaction has locked
  exclusive,        \* tables another session waits to lock ACCESS EXCLUSIVE
  backupSnapshot,   \* a synchronized snapshot is in use (backupSnapshot != "")
  deferredPc,       \* where the goroutine of connection 0 stands
  deferredTable,    \* the table it looks at
  mainPc,           \* where the main goroutine stands
  sweepTable        \* the table of main's fallback loop

workerVars   == <<workerPc, workerTable, tx, held, nextTask>>
deferredVars == <<deferredPc, deferredTable>>
mainVars     == <<mainPc, sweepTable>>
flagVars     == <<isErroredBackup, wasTerminated, ctxDone>>
tableVars    == <<oidMap, rowsCopiedMaps>>
envVars      == <<exclusive, backupSnapshot>>
vars == <<workerVars, deferredVars, mainVars, flagVars, tableVars, envVars>>

TableStates == {"Unknown", "Deferred", "Complete"}

\* A worker that left the loop ("exited") or panicked has decremented the wait
\* group before it recovers, cancels the context and sends on panicChan.
Panicking  == {"panicking", "recovering", "sending"}
DoneStates == {"exited", "recovering", "sending"}

TypeOK ==
  /\ nextTask \in 1 .. NumTables + 1
  /\ oidMap \in [Tables -> TableStates]
  /\ rowsCopiedMaps \in [Conns -> [Tables -> {"absent", "rows", "skipped"}]]
  /\ isErroredBackup \in BOOLEAN
  /\ wasTerminated \in BOOLEAN
  /\ ctxDone \in BOOLEAN
  /\ workerPc \in [Workers -> {"start", "take", "check", "lock", "copy",
                               "copying", "exited"} \cup Panicking]
  /\ workerTable \in [Workers -> 0 .. NumTables]
  /\ tx \in [Workers -> {"none", "local", "shared"}]
  /\ held \in [Workers -> SUBSET Tables]
  /\ exclusive \in SUBSET Tables
  /\ backupSnapshot \in BOOLEAN
  /\ deferredPc \in {"check", "load", "copy", "copying", "send", "sent",
                     "gone", "recovering", "sending"}
  /\ deferredTable \in 1 .. NumTables + 1
  /\ mainPc \in {"wait", "select", "sweep", "await", "agents", "returned",
                 "failed", "killed"}
  /\ sweepTable \in 1 .. NumTables + 1

\* Every connection has an open transaction when the data phase starts; the
\* workers' own ones are "local" until the synchronized snapshot replaces them.
Init ==
  /\ nextTask = 1
  /\ oidMap = [t \in Tables |-> "Unknown"]
  /\ rowsCopiedMaps = [c \in Conns |-> [t \in Tables |-> "absent"]]
  /\ isErroredBackup = FALSE
  /\ wasTerminated = FALSE
  /\ ctxDone = FALSE
  /\ workerPc = [w \in Workers |-> "start"]
  /\ workerTable = [w \in Workers |-> 0]
  /\ tx = [w \in Workers |-> "local"]
  /\ held = [w \in Workers |-> {}]
  /\ exclusive = {}
  /\ backupSnapshot \in BOOLEAN
  /\ deferredPc = "check"
  /\ deferredTable = 1
  /\ mainPc = "wait"
  /\ sweepTable = 1

Running == mainPc # "killed"
GoWorker(w, from, to) ==
  /\ Running
  /\ workerPc[w] = from
  /\ workerPc' = [workerPc EXCEPT ![w] = to]
GoDeferred(from, to) ==
  /\ Running
  /\ deferredPc = from
  /\ deferredPc' = to
GoMain(from, to) ==
  /\ mainPc = from
  /\ mainPc' = to

EndTransaction(w) ==
  /\ tx' = [tx EXCEPT ![w] = "none"]
  /\ held' = [held EXCEPT ![w] = {}]
Record(c, t, what) ==
  rowsCopiedMaps' = [rowsCopiedMaps EXCEPT ![c][t] = what]
SetState(t, state) ==
  oidMap' = [oidMap EXCEPT ![t] = state]
StopRequested == wasTerminated \/ isErroredBackup

-----------------------------------------------------------------------------
(* Workers 1..NumWorkers                                                   *)

WorkerStart(w) ==
  /\ GoWorker(w, "start", "take")
  /\ IF backupSnapshot THEN EndTransaction(w) ELSE UNCHANGED <<tx, held>>
  /\ UNCHANGED <<workerTable, nextTask, deferredVars, mainVars, flagVars,
                 tableVars, envVars>>

TakeTable(w) ==
  /\ nextTask <= NumTables
  /\ GoWorker(w, "take", "check")
  /\ workerTable' = [workerTable EXCEPT ![w] = nextTask]
  /\ nextTask' = nextTask + 1
  /\ UNCHANGED <<tx, held, deferredVars, mainVars, flagVars, tableVars,
                 envVars>>

NoMoreTables(w) ==
  /\ nextTask > NumTables
  /\ GoWorker(w, "take", "exited")
  /\ UNCHANGED <<workerTable, tx, held, nextTask, deferredVars, mainVars,
                 flagVars, tableVars, envVars>>

\* The worker drops the table it has just taken.
WorkerStops(w) ==
  /\ ctxDone \/ StopRequested
  /\ GoWorker(w, "check", "exited")
  /\ ctxDone' = TRUE
  /\ UNCHANGED <<workerTable, tx, held, nextTask, deferredVars, mainVars,
                 isErroredBackup, wasTerminated, tableVars, envVars>>

WorkerProceeds(w) ==
  /\ ~ctxDone /\ ~StopRequested
  /\ GoWorker(w, "check", "lock")
  /\ tx' = [tx EXCEPT ![w] = IF backupSnapshot /\ @ = "none" THEN "shared" ELSE @]
  /\ UNCHANGED <<workerTable, held, nextTask, deferredVars, mainVars,
                 flagVars, tableVars, envVars>>

\* SetSynchronizedSnapshot fails: a panic that does not set isErroredBackup.
SnapshotFails(w) ==
  /\ "snapshot" \in Faults
  /\ backupSnapshot /\ tx[w] = "none"
  /\ ~ctxDone /\ ~StopRequested
  /\ GoWorker(w, "check", "panicking")
  /\ UNCHANGED <<workerTable, tx, held, nextTask, deferredVars, mainVars,
                 flagVars, tableVars, envVars>>

\* LOCK TABLE ... NOWAIT is granted unless a conflicting request is queued.
LockAcquired(w) ==
  /\ workerTable[w] \notin exclusive
  /\ GoWorker(w, "lock", "copy")
  /\ held' = [held EXCEPT ![w] = @ \cup {workerTable[w]}]
  /\ UNCHANGED <<workerTable, tx, nextTask, deferredVars, mainVars, flagVars,
                 tableVars, envVars>>

\* Mutant: LOCK TABLE without NOWAIT waits behind the queued request.
LockBlocks(w) ==
  /\ workerTable[w] \in exclusive
  /\ GoWorker(w, "lock", "lock")
  /\ UNCHANGED <<workerTable, tx, held, nextTask, deferredVars, mainVars,
                 flagVars, tableVars, envVars>>

\* Mutant: the failed lock is logged, and the worker goes on to the COPY.
LockFailureIgnored(w) ==
  /\ workerTable[w] \in exclusive
  /\ GoWorker(w, "lock", "copy")
  /\ UNCHANGED <<workerTable, tx, held, nextTask, deferredVars, mainVars,
                 flagVars, tableVars, envVars>>

\* 55P03: roll back and leave the table to connection 0.  Without a shared
\* snapshot the worker cannot open an equivalent transaction again and ends.
LockNotAvailable(w) ==
  /\ workerTable[w] \in exclusive
  /\ GoWorker(w, "lock", IF backupSnapshot THEN "take" ELSE "exited")
  /\ EndTransaction(w)
  /\ SetState(workerTable[w], "Deferred")
  /\ UNCHANGED <<workerTable, nextTask, deferredVars, mainVars, flagVars,
                 rowsCopiedMaps, envVars>>

\* Any other server error stops the backup.
LockFails(w) ==
  /\ "lock" \in Faults
  /\ GoWorker(w, "lock", "panicking")
  /\ EndTransaction(w)
  /\ isErroredBackup' = TRUE
  /\ UNCHANGED <<workerTable, nextTask, deferredVars, mainVars, wasTerminated,
                 ctxDone, tableVars, envVars>>

\* The query that reports who holds the lock fails: the worker panics before
\* it rolls back, defers the table or sets isErroredBackup.
LocksQueryFails(w) ==
  /\ "locksQuery" \in Faults
  /\ workerTable[w] \in exclusive
  /\ GoWorker(w, "lock", "panicking")
  /\ UNCHANGED <<workerTable, tx, held, nextTask, deferredVars, mainVars,
                 flagVars, tableVars, envVars>>

CopyStarts(w) ==
  /\ ~wasTerminated /\ ~ctxDone
  /\ GoWorker(w, "copy", "copying")
  /\ UNCHANGED <<workerTable, tx, held, nextTask, deferredVars, mainVars,
                 flagVars, tableVars, envVars>>

AfterCopy(w) == IF backupSnapshot THEN EndTransaction(w) ELSE UNCHANGED <<tx, held>>

\* CopyTableOut returns (-1, nil) once a signal arrived: no COPY is issued, and
\* the table is recorded and marked Complete all the same.
CopySkipped(w) ==
  /\ wasTerminated
  /\ GoWorker(w, "copy", "take")
  /\ Record(w, workerTable[w], "skipped")
  /\ SetState(workerTable[w], "Complete")
  /\ AfterCopy(w)
  /\ UNCHANGED <<workerTable, nextTask, deferredVars, mainVars, flagVars,
                 envVars>>

CopySucceeds(w) ==
  /\ GoWorker(w, "copying", "take")
  /\ Record(w, workerTable[w], "rows")
  /\ SetState(workerTable[w], "Complete")
  /\ AfterCopy(w)
  /\ UNCHANGED <<workerTable, nextTask, deferredVars, mainVars, flagVars,
                 envVars>>

\* COPY fails by itself, or because the context was cancelled before or under
\* it; a cancelled context does not even send the statement.
CopyFails(w) ==
  /\ \/ GoWorker(w, "copying", "panicking") /\ (ctxDone \/ "copy" \in Faults)
     \/ GoWorker(w, "copy", "panicking") /\ ctxDone /\ ~wasTerminated
  /\ isErroredBackup' = TRUE
  /\ UNCHANGED <<workerTable, tx, held, nextTask, deferredVars, mainVars,
                 wasTerminated, ctxDone, tableVars, envVars>>

\* Deferred calls run last to first: workerPool.Done before recover.
WorkerDone(w) ==
  /\ GoWorker(w, "panicking", "recovering")
  /\ UNCHANGED <<workerTable, tx, held, nextTask, deferredVars, mainVars,
                 flagVars, tableVars, envVars>>

WorkerRecovers(w) ==
  /\ GoWorker(w, "recovering", "sending")
  /\ ctxDone' = TRUE
  /\ UNCHANGED <<workerTable, tx, held, nextTask, deferredVars, mainVars,
                 isErroredBackup, wasTerminated, tableVars, envVars>>

WorkerRuns(w) ==
  \/ WorkerStart(w) \/ TakeTable(w) \/ NoMoreTables(w)
  \/ WorkerStops(w) \/ WorkerProceeds(w)
  \/ LockAcquired(w) \/ LockNotAvailable(w)
  \/ CopyStarts(w) \/ CopySkipped(w) \/ CopySucceeds(w) \/ CopyFails(w)
  \/ WorkerDone(w) \/ WorkerRecovers(w)

Worker(w) ==
  \/ WorkerRuns(w) \/ SnapshotFails(w) \/ LockFails(w) \/ LocksQueryFails(w)

-----------------------------------------------------------------------------
(* The deferred worker, on connection 0                                    *)

\* It returns without sending on deferredWorkerDone.
DeferredStops ==
  /\ deferredTable <= NumTables
  /\ ctxDone \/ StopRequested
  /\ GoDeferred("check", "gone")
  /\ ctxDone' = TRUE
  /\ UNCHANGED <<deferredTable, workerVars, mainVars, isErroredBackup,
                 wasTerminated, tableVars, envVars>>

DeferredProceeds ==
  /\ deferredTable <= NumTables
  /\ ~ctxDone /\ ~StopRequested
  /\ GoDeferred("check", "load")
  /\ UNCHANGED <<deferredTable, workerVars, mainVars, flagVars, tableVars,
                 envVars>>

\* Mutant: a table still Unknown is passed over instead of polled again.
DeferredSkipsUnknown ==
  /\ deferredPc = "load" /\ oidMap[deferredTable] = "Unknown"
  /\ GoDeferred("load", "check")
  /\ deferredTable' = deferredTable + 1
  /\ UNCHANGED <<workerVars, mainVars, flagVars, tableVars, envVars>>

DeferredPolls ==
  /\ deferredPc = "load" /\ oidMap[deferredTable] = "Unknown"
  /\ GoDeferred("load", "check")
  /\ UNCHANGED <<deferredTable, workerVars, mainVars, flagVars, tableVars,
                 envVars>>

DeferredTakes ==
  /\ deferredPc = "load" /\ oidMap[deferredTable] = "Deferred"
  /\ GoDeferred("load", "copy")
  /\ UNCHANGED <<deferredTable, workerVars, mainVars, flagVars, tableVars,
                 envVars>>

DeferredPasses ==
  /\ deferredPc = "load" /\ oidMap[deferredTable] = "Complete"
  /\ GoDeferred("load", "check")
  /\ deferredTable' = deferredTable + 1
  /\ UNCHANGED <<workerVars, mainVars, flagVars, tableVars, envVars>>

DeferredCopyStarts ==
  /\ ~wasTerminated /\ ~ctxDone
  /\ GoDeferred("copy", "copying")
  /\ UNCHANGED <<deferredTable, workerVars, mainVars, flagVars, tableVars,
                 envVars>>

DeferredCopySkipped ==
  /\ wasTerminated
  /\ GoDeferred("copy", "check")
  /\ Record(0, deferredTable, "skipped")
  /\ SetState(deferredTable, "Complete")
  /\ deferredTable' = deferredTable + 1
  /\ UNCHANGED <<workerVars, mainVars, flagVars, envVars>>

DeferredCopySucceeds ==
  /\ GoDeferred("copying", "check")
  /\ Record(0, deferredTable, "rows")
  /\ SetState(deferredTable, "Complete")
  /\ deferredTable' = deferredTable + 1
  /\ UNCHANGED <<workerVars, mainVars, flagVars, envVars>>

DeferredCopyFails ==
  /\ \/ GoDeferred("copying", "recovering") /\ (ctxDone \/ "copy" \in Faults)
     \/ GoDeferred("copy", "recovering") /\ ctxDone /\ ~wasTerminated
  /\ isErroredBackup' = TRUE
  /\ UNCHANGED <<deferredTable, workerVars, mainVars, wasTerminated, ctxDone,
                 tableVars, envVars>>

DeferredRecovers ==
  /\ GoDeferred("recovering", "sending")
  /\ ctxDone' = TRUE
  /\ UNCHANGED <<deferredTable, workerVars, mainVars, isErroredBackup,
                 wasTerminated, tableVars, envVars>>

\* The loop over the tables is over: block in deferredWorkerDone <- true.
DeferredFinishes ==
  /\ deferredTable > NumTables
  /\ GoDeferred("check", "send")
  /\ UNCHANGED <<deferredTable, workerVars, mainVars, flagVars, tableVars,
                 envVars>>

Deferred ==
  \/ DeferredStops \/ DeferredProceeds \/ DeferredPolls \/ DeferredTakes
  \/ DeferredPasses \/ DeferredCopyStarts \/ DeferredCopySkipped
  \/ DeferredCopySucceeds \/ DeferredCopyFails \/ DeferredRecovers
  \/ DeferredFinishes

-----------------------------------------------------------------------------
(* The main goroutine                                                      *)

\* A goroutine blocked in panicChan <- err.
PanicReady == deferredPc = "sending" \/ \E w \in Workers : workerPc[w] = "sending"

\* Mutant: workerPool.Wait is missing.
NoWaitForWorkers ==
  /\ GoMain("wait", "select")
  /\ UNCHANGED <<sweepTable, workerVars, deferredVars, flagVars, tableVars,
                 envVars>>

WaitForWorkers ==
  /\ \A w \in Workers : workerPc[w] \in DoneStates
  /\ GoMain("wait", "select")
  /\ UNCHANGED <<sweepTable, workerVars, deferredVars, flagVars, tableVars,
                 envVars>>

ReceivePanic ==
  /\ PanicReady
  /\ GoMain("select", "failed")
  /\ UNCHANGED <<sweepTable, workerVars, deferredVars, flagVars, tableVars,
                 envVars>>

NoPanicReady ==
  /\ ~PanicReady
  /\ GoMain("select", IF backupSnapshot THEN "await" ELSE "sweep")
  /\ UNCHANGED <<sweepTable, workerVars, deferredVars, flagVars, tableVars,
                 envVars>>

\* Without a shared snapshot every worker may have ended: the tables nobody
\* took go to connection 0.
SweepStep ==
  /\ mainPc = "sweep"
  /\ sweepTable <= NumTables /\ ~StopRequested
  /\ SetState(sweepTable, IF oidMap[sweepTable] = "Unknown" THEN "Deferred"
                          ELSE oidMap[sweepTable])
  /\ sweepTable' = sweepTable + 1
  /\ UNCHANGED <<mainPc, workerVars, deferredVars, flagVars, rowsCopiedMaps,
                 envVars>>

SweepEnds ==
  /\ sweepTable > NumTables \/ StopRequested
  /\ GoMain("sweep", "await")
  /\ UNCHANGED <<sweepTable, workerVars, deferredVars, flagVars, tableVars,
                 envVars>>

\* The two ends of deferredWorkerDone meet.
DeferredWorkerDone ==
  /\ GoDeferred("send", "sent")
  /\ GoMain("await", "agents")
  /\ UNCHANGED <<sweepTable, deferredTable, workerVars, flagVars, tableVars,
                 envVars>>

AgentsHealthy ==
  /\ GoMain("agents", "returned")
  /\ UNCHANGED <<sweepTable, workerVars, deferredVars, flagVars, tableVars,
                 envVars>>

AgentsFailed ==
  /\ "agent" \in Faults
  /\ GoMain("agents", "failed")
  /\ UNCHANGED <<sweepTable, workerVars, deferredVars, flagVars, tableVars,
                 envVars>>

Main ==
  \/ WaitForWorkers \/ ReceivePanic \/ NoPanicReady \/ SweepStep
  \/ SweepEnds \/ DeferredWorkerDone \/ AgentsHealthy \/ AgentsFailed

-----------------------------------------------------------------------------
(* The environment: the signal handler and other database sessions         *)

Signal ==
  /\ "signal" \in Faults
  /\ Running /\ ~wasTerminated
  /\ wasTerminated' = TRUE
  /\ UNCHANGED <<isErroredBackup, ctxDone, workerVars, deferredVars, mainVars,
                 tableVars, envVars>>

\* The handler cleans up and calls os.Exit(2); every goroutine stops there.
HandlerExits ==
  /\ wasTerminated
  /\ mainPc \notin {"killed", "returned", "failed"}
  /\ mainPc' = "killed"
  /\ UNCHANGED <<sweepTable, workerVars, deferredVars, flagVars, tableVars,
                 envVars>>

\* Another session asks for ACCESS EXCLUSIVE on a table.  Connection 0 holds
\* ACCESS SHARE on it, so the request queues.  Giving it up again is left out:
\* a table is locked by one worker at most once, so only the requests queued at
\* that moment can be seen.
RequestExclusive(t) ==
  /\ Running /\ t \notin exclusive
  /\ exclusive' = exclusive \cup {t}
  /\ UNCHANGED <<backupSnapshot, workerVars, deferredVars, mainVars, flagVars,
                 tableVars>>

Environment ==
  \/ Signal \/ HandlerExits
  \/ \E t \in Tables : RequestExclusive(t)

Ended == mainPc \in {"returned", "failed", "killed"}

\* The data phase is over for the main goroutine.
Finished ==
  /\ Ended
  /\ UNCHANGED vars

Next ==
  \/ \E w \in Workers : Worker(w)
  \/ Deferred
  \/ Main
  \/ Environment
  \/ Finished

\* The Go scheduler runs every goroutine that can run, and the handler of a
\* delivered signal runs to its os.Exit.  Nothing is assumed of other sessions,
\* of faults, or of a COPY that could fail: only that each step is not put off
\* for ever while it is enabled.
Fairness ==
  /\ \A w \in Workers : WF_vars(WorkerRuns(w))
  /\ WF_vars(Deferred)
  /\ WF_vars(Main)
  /\ WF_vars(HandlerExits)

Spec     == Init /\ [][Next]_vars
FairSpec == Spec /\ Fairness

-----------------------------------------------------------------------------
(* Properties                                                              *)

CopiedBy(t) == {c \in Conns : rowsCopiedMaps[c][t] = "rows"}

\* When BackupDataForAllTables returns and no signal arrived, every table was
\* copied out by exactly one connection and recorded by no other: the map
\* AddTableDataEntriesToTOC reads has one row count per table.
AllTablesBackedUp ==
  (mainPc = "returned" /\ ~wasTerminated) =>
    \A t \in Tables :
      /\ oidMap[t] = "Complete"
      /\ \E c \in Conns :
           /\ CopiedBy(t) = {c}
           /\ \A d \in Conns \ {c} : rowsCopiedMaps[d][t] = "absent"

\* A worker copies a table only under a lock that its own open transaction
\* holds and inside the backup's snapshot: a blocked COPY would wait for a
\* request that waits for connection 0, and a fresh transaction would see
\* other data.
CopyProtected ==
  \A w \in Workers : workerPc[w] \in {"copy", "copying"} =>
    /\ workerTable[w] \in held[w]
    /\ tx[w] = IF backupSnapshot THEN "shared" ELSE "local"

\* No table is the subject of two COPY statements at once, and none is copied
\* again after it was recorded.
CopyExclusive ==
  /\ \A w \in Workers : workerPc[w] = "copying" =>
       /\ \A c \in Conns : rowsCopiedMaps[c][workerTable[w]] = "absent"
       /\ \A v \in Workers \ {w} :
            workerPc[v] = "copying" => workerTable[v] # workerTable[w]
       /\ ~(deferredPc = "copying" /\ deferredTable = workerTable[w])
  /\ deferredPc = "copying" =>
       \A c \in Conns : rowsCopiedMaps[c][deferredTable] = "absent"

\* Once a goroutine has set isErroredBackup, after a COPY that failed or a lock
\* error it did not expect, the phase does not return normally.  A panic that sets
\* no flag, where a worker joins the snapshot or logs its locks, is not meant:
\* without a snapshot main's own loop may copy the table and return normally.
NoSilentFailure == mainPc = "returned" => ~isErroredBackup

\* The data phase implements its promise.
Promise == INSTANCE DataPhase
  WITH copiedBy  <- [t \in Tables |-> CopiedBy(t)],
       signalled <- wasTerminated,
       outcome   <- IF mainPc \in {"returned", "failed", "killed"}
                    THEN mainPc ELSE "running"
KeepsPromise == Promise!Spec

\* Whatever other sessions lock and whenever a signal arrives, main gets to an
\* end unless some goroutine panics: lock contention alone never hangs it.
NoPanic ==
  /\ deferredPc \notin Panicking
  /\ \A w \in Workers : workerPc[w] \notin Panicking
FinishesUnlessPanic == [](NoPanic) => <>Ended
=============================================================================
