-------------------------- MODULE BackupDataProofs --------------------------
(***************************************************************************)
(* Proofs about the data of a backup: how its workers copy the tables      *)
(* (BackupData), for any number of tables and workers and any set of       *)
(* faults, and which tables these are (TableSelection), for any catalogue  *)
(* and command line.                                                       *)
(***************************************************************************)
EXTENDS BackupData, TableSelection, FiniteSetTheorems, TLAPS

-----------------------------------------------------------------------------
(* The data phase                                                          *)


\* A worker that has taken a table and neither recorded nor deferred it.
Holding == {"check", "lock", "copy", "copying"} \cup Panicking
Active  == {"check", "lock", "copy", "copying"}

\* A table is recorded exactly when it is Complete, and by one connection.
RecordInv ==
  /\ \A t \in Tables : oidMap[t] # "Complete" =>
       \A c \in Conns : rowsCopiedMaps[c][t] = "absent"
  /\ \A t \in Tables : oidMap[t] = "Complete" =>
       \E c \in Conns :
         /\ rowsCopiedMaps[c][t] # "absent"
         /\ \A d \in Conns \ {c} : rowsCopiedMaps[d][t] = "absent"
  /\ ~wasTerminated =>
       \A t \in Tables, c \in Conns : rowsCopiedMaps[c][t] # "skipped"

\* Each table taken from the channel is in the hands of one worker.
QueueInv ==
  /\ mainPc = "wait" =>
       \A t \in Tables : t >= nextTask => oidMap[t] = "Unknown"
  /\ \A w \in Workers : workerPc[w] \in Holding =>
       workerTable[w] \in Tables /\ workerTable[w] < nextTask
  /\ \A w \in Workers : workerPc[w] \in Active =>
       oidMap[workerTable[w]] = "Unknown"
  /\ \A v, w \in Workers :
       (v # w /\ workerPc[v] \in Holding /\ workerPc[w] \in Holding) =>
         workerTable[v] # workerTable[w]

\* The deferred worker leaves only Complete tables behind it.
DeferredInv ==
  /\ \A t \in Tables : t < deferredTable => oidMap[t] = "Complete"
  /\ deferredPc \in {"load", "copy", "copying"} => deferredTable \in Tables
  /\ deferredPc \in {"copy", "copying"} => oidMap[deferredTable] = "Deferred"
  /\ deferredPc \in {"send", "sent"} => deferredTable = NumTables + 1

MainInv ==
  /\ mainPc \notin {"wait", "killed"} =>
       \A w \in Workers : workerPc[w] \in DoneStates
  /\ mainPc \in {"agents", "returned"} => deferredPc = "sent"

\* An error leaves a table behind that nobody will complete.
ErrorInv ==
  isErroredBackup =>
    \/ deferredPc \in {"recovering", "sending"}
    \/ \E w \in Workers :
         /\ workerPc[w] \in Panicking
         /\ workerTable[w] \in Tables
         /\ oidMap[workerTable[w]] = "Unknown"

TransactionInv ==
  /\ ~backupSnapshot => \A w \in Workers :
       workerPc[w] \in {"start", "take"} \cup Active => tx[w] = "local"
  /\ backupSnapshot => \A w \in Workers :
       /\ workerPc[w] \in {"take", "check"} => tx[w] \in {"none", "shared"}
       /\ workerPc[w] \in {"lock", "copy", "copying"} => tx[w] = "shared"
  /\ \A w \in Workers :
       workerPc[w] \in {"copy", "copying"} => workerTable[w] \in held[w]

IInv == /\ TypeOK /\ RecordInv /\ QueueInv /\ DeferredInv /\ MainInv
        /\ ErrorInv /\ TransactionInv

-----------------------------------------------------------------------------
(* A step of a worker                                                      *)

LEMMA WorkerTypes ==
  ASSUME TypeOK, QueueInv, NEW w \in Workers, Worker(w)
  PROVE  TypeOK'
<1> USE NumTablesAssumption, NumWorkersAssumption
    DEF TypeOK, Tables, Workers, Conns, TableStates, Panicking, QueueInv,
        Holding, GoWorker, EndTransaction, Record, SetState, AfterCopy,
        deferredVars, mainVars, flagVars, tableVars, envVars
<1>1. CASE WorkerStart(w)
  BY <1>1, ZenonT(60) DEF WorkerStart
<1>2. CASE TakeTable(w)
  BY <1>2 DEF TakeTable
<1>3. CASE NoMoreTables(w)
  BY <1>3 DEF NoMoreTables
<1>4. CASE WorkerStops(w)
  BY <1>4 DEF WorkerStops
<1>5. CASE WorkerProceeds(w)
  BY <1>5 DEF WorkerProceeds
<1>6. CASE SnapshotFails(w)
  BY <1>6 DEF SnapshotFails
<1>7. CASE LockAcquired(w)
  BY <1>7 DEF LockAcquired
<1>8. CASE LockNotAvailable(w)
  BY <1>8 DEF LockNotAvailable
<1>9. CASE LockFails(w)
  BY <1>9 DEF LockFails
<1>10. CASE LocksQueryFails(w)
  BY <1>10 DEF LocksQueryFails
<1>11. CASE CopyStarts(w)
  BY <1>11 DEF CopyStarts
<1>12. CASE CopySkipped(w)
  BY <1>12 DEF CopySkipped
<1>13. CASE CopySucceeds(w)
  BY <1>13, SMTT(30) DEF CopySucceeds
<1>14. CASE CopyFails(w)
  BY <1>14 DEF CopyFails
<1>15. CASE WorkerDone(w)
  BY <1>15 DEF WorkerDone
<1>16. CASE WorkerRecovers(w)
  BY <1>16 DEF WorkerRecovers
<1> QED
  BY <1>1, <1>2, <1>3, <1>4, <1>5, <1>6, <1>7, <1>8, <1>9, <1>10, <1>11,
     <1>12, <1>13, <1>14, <1>15, <1>16 DEF Worker, WorkerRuns

LEMMA WorkerRecord ==
  ASSUME TypeOK, RecordInv, QueueInv, NEW w \in Workers, Worker(w)
  PROVE  RecordInv'
<1> USE NumTablesAssumption, NumWorkersAssumption
    DEF TypeOK, Tables, Workers, Conns, TableStates, Panicking, RecordInv,
        QueueInv, Holding, Active, GoWorker, EndTransaction, Record,
        SetState, AfterCopy, deferredVars, mainVars, flagVars, tableVars,
        envVars
<1>1. CASE WorkerStops(w)
  BY <1>1 DEF WorkerStops
<1>2. CASE LockNotAvailable(w)
  BY <1>2 DEF LockNotAvailable
<1>3. CASE LockFails(w)
  BY <1>3 DEF LockFails
<1>4. CASE CopySkipped(w)
  <2> DEFINE t == workerTable[w]
  <2>1. t \in Tables /\ w \in Conns /\ oidMap[t] # "Complete" /\ wasTerminated
    BY <1>4 DEF CopySkipped
  <2>2. /\ oidMap' = [oidMap EXCEPT ![t] = "Complete"]
        /\ rowsCopiedMaps' = [rowsCopiedMaps EXCEPT ![w][t] = "skipped"]
        /\ wasTerminated' = wasTerminated
    BY <1>4 DEF CopySkipped
  <2>3. ASSUME NEW u \in Tables, oidMap'[u] # "Complete", NEW d \in Conns
        PROVE  rowsCopiedMaps'[d][u] = "absent"
    BY <2>1, <2>2, <2>3
  <2>4. ASSUME NEW u \in Tables, oidMap'[u] = "Complete"
        PROVE  \E b \in Conns :
                 /\ rowsCopiedMaps'[b][u] # "absent"
                 /\ \A d \in Conns \ {b} : rowsCopiedMaps'[d][u] = "absent"
    <3>1. CASE u = t
      BY <2>1, <2>2, <3>1
    <3>2. CASE u # t
      <4>1. oidMap[u] = "Complete"
        BY <2>1, <2>2, <2>4, <3>2
      <4>2. \A d \in Conns : rowsCopiedMaps'[d][u] = rowsCopiedMaps[d][u]
        BY <2>1, <2>2, <3>2
      <4>3. PICK b \in Conns :
              /\ rowsCopiedMaps[b][u] # "absent"
              /\ \A d \in Conns \ {b} : rowsCopiedMaps[d][u] = "absent"
        BY <4>1
      <4>4. rowsCopiedMaps'[b][u] # "absent"
        BY <4>2, <4>3
      <4>5. \A d \in Conns \ {b} : rowsCopiedMaps'[d][u] = "absent"
        BY <4>2, <4>3
      <4> QED
        BY <4>4, <4>5, ZenonT(20)
    <3> QED
      BY <3>1, <3>2
  <2> QED
    BY <2>1, <2>2, <2>3, <2>4
<1>5. CASE CopySucceeds(w)
  BY <1>5 DEF CopySucceeds
<1>6. CASE CopyFails(w)
  BY <1>6 DEF CopyFails
<1>7. CASE WorkerRecovers(w)
  BY <1>7 DEF WorkerRecovers
<1>8. CASE \/ WorkerStart(w) \/ TakeTable(w) \/ NoMoreTables(w)
             \/ WorkerProceeds(w) \/ SnapshotFails(w) \/ LockAcquired(w)
             \/ LocksQueryFails(w) \/ CopyStarts(w) \/ WorkerDone(w)
  <2>1. UNCHANGED <<oidMap, rowsCopiedMaps, wasTerminated>>
    BY <1>8 DEF WorkerStart, TakeTable, NoMoreTables, WorkerProceeds,
               SnapshotFails, LockAcquired, LocksQueryFails, CopyStarts,
               WorkerDone
  <2> QED
    BY <2>1
<1> QED
  BY <1>1, <1>2, <1>3, <1>4, <1>5, <1>6, <1>7, <1>8 DEF Worker, WorkerRuns

LEMMA WorkerQueue ==
  ASSUME TypeOK, QueueInv, MainInv, NEW w \in Workers, Worker(w)
  PROVE  QueueInv'
<1> USE NumTablesAssumption, NumWorkersAssumption
    DEF TypeOK, Tables, Workers, Conns, TableStates, Panicking, QueueInv,
        MainInv, DoneStates, Holding, Active, Running, GoWorker,
        EndTransaction, Record, SetState, AfterCopy, deferredVars, mainVars,
        flagVars, tableVars, envVars
<1>1. CASE WorkerStart(w)
  BY <1>1 DEF WorkerStart
<1>2. CASE TakeTable(w)
  BY <1>2, SMTT(60) DEF TakeTable
<1>3. CASE NoMoreTables(w)
  BY <1>3 DEF NoMoreTables
<1>4. CASE WorkerStops(w)
  BY <1>4 DEF WorkerStops
<1>5. CASE WorkerProceeds(w)
  BY <1>5 DEF WorkerProceeds
<1>6. CASE SnapshotFails(w)
  BY <1>6 DEF SnapshotFails
<1>7. CASE LockAcquired(w)
  BY <1>7 DEF LockAcquired
<1>8. CASE LockNotAvailable(w)
  BY <1>8 DEF LockNotAvailable
<1>9. CASE LockFails(w)
  BY <1>9 DEF LockFails
<1>10. CASE LocksQueryFails(w)
  BY <1>10 DEF LocksQueryFails
<1>11. CASE CopyStarts(w)
  BY <1>11 DEF CopyStarts
<1>12. CASE CopySkipped(w)
  BY <1>12 DEF CopySkipped
<1>13. CASE CopySucceeds(w)
  BY <1>13 DEF CopySucceeds
<1>14. CASE CopyFails(w)
  BY <1>14 DEF CopyFails
<1>15. CASE WorkerDone(w)
  BY <1>15 DEF WorkerDone
<1>16. CASE WorkerRecovers(w)
  BY <1>16 DEF WorkerRecovers
<1> QED
  BY <1>1, <1>2, <1>3, <1>4, <1>5, <1>6, <1>7, <1>8, <1>9, <1>10, <1>11,
     <1>12, <1>13, <1>14, <1>15, <1>16 DEF Worker, WorkerRuns

LEMMA WorkerDeferred ==
  ASSUME TypeOK, QueueInv, DeferredInv, NEW w \in Workers, Worker(w)
  PROVE  DeferredInv'
<1> USE NumTablesAssumption, NumWorkersAssumption
    DEF TypeOK, Tables, Workers, Conns, TableStates, Panicking, QueueInv,
        DeferredInv, Holding, Active, GoWorker, EndTransaction, Record,
        SetState, AfterCopy, deferredVars, mainVars, flagVars, tableVars,
        envVars
<1>1. CASE LockNotAvailable(w)
  BY <1>1 DEF LockNotAvailable
<1>2. CASE CopySkipped(w)
  BY <1>2 DEF CopySkipped
<1>3. CASE CopySucceeds(w)
  BY <1>3 DEF CopySucceeds
<1>4. CASE \/ WorkerStart(w) \/ TakeTable(w) \/ NoMoreTables(w)
             \/ WorkerStops(w) \/ WorkerProceeds(w) \/ SnapshotFails(w)
             \/ LockAcquired(w) \/ LockFails(w) \/ LocksQueryFails(w)
             \/ CopyStarts(w) \/ CopyFails(w) \/ WorkerDone(w)
             \/ WorkerRecovers(w)
  <2>1. UNCHANGED <<oidMap, deferredPc, deferredTable>>
    BY <1>4 DEF WorkerStart, TakeTable, NoMoreTables, WorkerStops,
               WorkerProceeds, SnapshotFails, LockAcquired, LockFails,
               LocksQueryFails, CopyStarts, CopyFails, WorkerDone,
               WorkerRecovers
  <2> QED
    BY <2>1
<1> QED
  BY <1>1, <1>2, <1>3, <1>4 DEF Worker, WorkerRuns

LEMMA WorkerMain ==
  ASSUME TypeOK, MainInv, NEW w \in Workers, Worker(w)
  PROVE  MainInv'
<1> USE NumTablesAssumption, NumWorkersAssumption
    DEF TypeOK, Workers, Panicking, MainInv, DoneStates, Running, GoWorker,
        EndTransaction, Record, SetState, AfterCopy, deferredVars, mainVars,
        flagVars, tableVars, envVars
<1>1. CASE WorkerStart(w)
  BY <1>1 DEF WorkerStart
<1>2. CASE TakeTable(w)
  BY <1>2 DEF TakeTable
<1>3. CASE NoMoreTables(w)
  BY <1>3 DEF NoMoreTables
<1>4. CASE WorkerStops(w)
  BY <1>4 DEF WorkerStops
<1>5. CASE WorkerProceeds(w)
  BY <1>5 DEF WorkerProceeds
<1>6. CASE SnapshotFails(w)
  BY <1>6 DEF SnapshotFails
<1>7. CASE LockAcquired(w)
  BY <1>7 DEF LockAcquired
<1>8. CASE LockNotAvailable(w)
  BY <1>8 DEF LockNotAvailable
<1>9. CASE LockFails(w)
  BY <1>9 DEF LockFails
<1>10. CASE LocksQueryFails(w)
  BY <1>10 DEF LocksQueryFails
<1>11. CASE CopyStarts(w)
  BY <1>11 DEF CopyStarts
<1>12. CASE CopySkipped(w)
  BY <1>12 DEF CopySkipped
<1>13. CASE CopySucceeds(w)
  BY <1>13 DEF CopySucceeds
<1>14. CASE CopyFails(w)
  BY <1>14 DEF CopyFails
<1>15. CASE WorkerDone(w)
  BY <1>15 DEF WorkerDone
<1>16. CASE WorkerRecovers(w)
  BY <1>16 DEF WorkerRecovers
<1> QED
  BY <1>1, <1>2, <1>3, <1>4, <1>5, <1>6, <1>7, <1>8, <1>9, <1>10, <1>11,
     <1>12, <1>13, <1>14, <1>15, <1>16 DEF Worker, WorkerRuns

LEMMA WorkerError ==
  ASSUME TypeOK, QueueInv, ErrorInv, NEW w \in Workers, Worker(w)
  PROVE  ErrorInv'
<1> USE NumTablesAssumption, NumWorkersAssumption
    DEF TypeOK, Tables, Workers, Conns, TableStates, Panicking, QueueInv,
        ErrorInv, Holding, Active, GoWorker, EndTransaction, Record,
        SetState, AfterCopy, deferredVars, mainVars, flagVars, tableVars,
        envVars
<1>1. CASE WorkerStart(w)
  BY <1>1 DEF WorkerStart
<1>2. CASE TakeTable(w)
  BY <1>2 DEF TakeTable
<1>3. CASE NoMoreTables(w)
  BY <1>3 DEF NoMoreTables
<1>4. CASE WorkerStops(w)
  BY <1>4 DEF WorkerStops
<1>5. CASE WorkerProceeds(w)
  BY <1>5 DEF WorkerProceeds
<1>6. CASE SnapshotFails(w)
  BY <1>6 DEF SnapshotFails
<1>7. CASE LockAcquired(w)
  BY <1>7 DEF LockAcquired
<1>8. CASE LockNotAvailable(w)
  BY <1>8 DEF LockNotAvailable
<1>9. CASE LockFails(w)
  BY <1>9 DEF LockFails
<1>10. CASE LocksQueryFails(w)
  BY <1>10 DEF LocksQueryFails
<1>11. CASE CopyStarts(w)
  BY <1>11 DEF CopyStarts
<1>12. CASE CopySkipped(w)
  BY <1>12 DEF CopySkipped
<1>13. CASE CopySucceeds(w)
  BY <1>13, SMTT(30) DEF CopySucceeds
<1>14. CASE CopyFails(w)
  BY <1>14 DEF CopyFails
<1>15. CASE WorkerDone(w)
  BY <1>15 DEF WorkerDone
<1>16. CASE WorkerRecovers(w)
  BY <1>16 DEF WorkerRecovers
<1> QED
  BY <1>1, <1>2, <1>3, <1>4, <1>5, <1>6, <1>7, <1>8, <1>9, <1>10, <1>11,
     <1>12, <1>13, <1>14, <1>15, <1>16 DEF Worker, WorkerRuns

LEMMA WorkerTransaction ==
  ASSUME TypeOK, TransactionInv, NEW w \in Workers, Worker(w)
  PROVE  TransactionInv'
<1> USE NumTablesAssumption, NumWorkersAssumption
    DEF TypeOK, Tables, Workers, Conns, TableStates, Panicking,
        TransactionInv, Active, GoWorker, EndTransaction, Record, SetState,
        AfterCopy, deferredVars, mainVars, flagVars, tableVars, envVars
<1>1. CASE WorkerStart(w)
  BY <1>1 DEF WorkerStart
<1>2. CASE TakeTable(w)
  BY <1>2 DEF TakeTable
<1>3. CASE NoMoreTables(w)
  BY <1>3 DEF NoMoreTables
<1>4. CASE WorkerStops(w)
  BY <1>4 DEF WorkerStops
<1>5. CASE WorkerProceeds(w)
  BY <1>5 DEF WorkerProceeds
<1>6. CASE SnapshotFails(w)
  BY <1>6 DEF SnapshotFails
<1>7. CASE LockAcquired(w)
  BY <1>7 DEF LockAcquired
<1>8. CASE LockNotAvailable(w)
  BY <1>8 DEF LockNotAvailable
<1>9. CASE LockFails(w)
  BY <1>9 DEF LockFails
<1>10. CASE LocksQueryFails(w)
  BY <1>10 DEF LocksQueryFails
<1>11. CASE CopyStarts(w)
  BY <1>11 DEF CopyStarts
<1>12. CASE CopySkipped(w)
  BY <1>12 DEF CopySkipped
<1>13. CASE CopySucceeds(w)
  BY <1>13 DEF CopySucceeds
<1>14. CASE CopyFails(w)
  BY <1>14 DEF CopyFails
<1>15. CASE WorkerDone(w)
  BY <1>15 DEF WorkerDone
<1>16. CASE WorkerRecovers(w)
  BY <1>16 DEF WorkerRecovers
<1> QED
  BY <1>1, <1>2, <1>3, <1>4, <1>5, <1>6, <1>7, <1>8, <1>9, <1>10, <1>11,
     <1>12, <1>13, <1>14, <1>15, <1>16 DEF Worker, WorkerRuns

-----------------------------------------------------------------------------
(* A step of the deferred worker                                           *)

LEMMA DeferredTypes ==
  ASSUME TypeOK, DeferredInv, Deferred
  PROVE  TypeOK'
<1> USE NumTablesAssumption, NumWorkersAssumption
    DEF TypeOK, Tables, Workers, Conns, TableStates, Panicking, DeferredInv,
        GoDeferred, Record, SetState, workerVars, mainVars, flagVars,
        tableVars, envVars
<1>1. CASE DeferredStops
  BY <1>1 DEF DeferredStops
<1>2. CASE DeferredProceeds
  BY <1>2 DEF DeferredProceeds
<1>3. CASE DeferredPolls
  BY <1>3 DEF DeferredPolls
<1>4. CASE DeferredTakes
  BY <1>4 DEF DeferredTakes
<1>5. CASE DeferredPasses
  BY <1>5 DEF DeferredPasses
<1>6. CASE DeferredCopyStarts
  BY <1>6 DEF DeferredCopyStarts
<1>7. CASE DeferredCopySkipped
  BY <1>7 DEF DeferredCopySkipped
<1>8. CASE DeferredCopySucceeds
  BY <1>8 DEF DeferredCopySucceeds
<1>9. CASE DeferredCopyFails
  BY <1>9 DEF DeferredCopyFails
<1>10. CASE DeferredRecovers
  BY <1>10 DEF DeferredRecovers
<1>11. CASE DeferredFinishes
  BY <1>11 DEF DeferredFinishes
<1> QED
  BY <1>1, <1>2, <1>3, <1>4, <1>5, <1>6, <1>7, <1>8, <1>9, <1>10, <1>11 DEF Deferred

LEMMA DeferredRecord ==
  ASSUME TypeOK, RecordInv, DeferredInv, Deferred
  PROVE  RecordInv'
<1> USE NumTablesAssumption, NumWorkersAssumption
    DEF TypeOK, Tables, Workers, Conns, TableStates, Panicking, RecordInv,
        DeferredInv, GoDeferred, Record, SetState, workerVars, mainVars,
        flagVars, tableVars, envVars
<1>1. CASE DeferredCopySkipped
  <2> DEFINE t == deferredTable
  <2>1. t \in Tables /\ 0 \in Conns /\ oidMap[t] # "Complete" /\ wasTerminated
    BY <1>1 DEF DeferredCopySkipped
  <2>2. /\ oidMap' = [oidMap EXCEPT ![t] = "Complete"]
        /\ rowsCopiedMaps' = [rowsCopiedMaps EXCEPT ![0][t] = "skipped"]
        /\ wasTerminated' = wasTerminated
    BY <1>1 DEF DeferredCopySkipped
  <2>3. ASSUME NEW u \in Tables, oidMap'[u] # "Complete", NEW d \in Conns
        PROVE  rowsCopiedMaps'[d][u] = "absent"
    BY <2>1, <2>2, <2>3
  <2>4. ASSUME NEW u \in Tables, oidMap'[u] = "Complete"
        PROVE  \E b \in Conns :
                 /\ rowsCopiedMaps'[b][u] # "absent"
                 /\ \A d \in Conns \ {b} : rowsCopiedMaps'[d][u] = "absent"
    <3>1. CASE u = t
      BY <2>1, <2>2, <3>1
    <3>2. CASE u # t
      <4>1. oidMap[u] = "Complete"
        BY <2>1, <2>2, <2>4, <3>2
      <4>2. \A d \in Conns : rowsCopiedMaps'[d][u] = rowsCopiedMaps[d][u]
        BY <2>1, <2>2, <3>2
      <4>3. PICK b \in Conns :
              /\ rowsCopiedMaps[b][u] # "absent"
              /\ \A d \in Conns \ {b} : rowsCopiedMaps[d][u] = "absent"
        BY <4>1
      <4>4. rowsCopiedMaps'[b][u] # "absent"
        BY <4>2, <4>3
      <4>5. \A d \in Conns \ {b} : rowsCopiedMaps'[d][u] = "absent"
        BY <4>2, <4>3
      <4> QED
        BY <4>4, <4>5, ZenonT(20)
    <3> QED
      BY <3>1, <3>2
  <2> QED
    BY <2>1, <2>2, <2>3, <2>4
<1>2. CASE DeferredCopySucceeds
  BY <1>2 DEF DeferredCopySucceeds
<1>3. CASE \/ DeferredStops \/ DeferredProceeds \/ DeferredPolls
             \/ DeferredTakes \/ DeferredPasses \/ DeferredCopyStarts
             \/ DeferredCopyFails \/ DeferredRecovers \/ DeferredFinishes
  <2>1. UNCHANGED <<oidMap, rowsCopiedMaps, wasTerminated>>
    BY <1>3 DEF DeferredStops, DeferredProceeds, DeferredPolls, DeferredTakes,
               DeferredPasses, DeferredCopyStarts, DeferredCopyFails,
               DeferredRecovers, DeferredFinishes
  <2> QED
    BY <2>1
<1> QED
  BY <1>1, <1>2, <1>3 DEF Deferred

LEMMA DeferredQueue ==
  ASSUME TypeOK, QueueInv, DeferredInv, Deferred
  PROVE  QueueInv'
<1> USE NumTablesAssumption, NumWorkersAssumption
    DEF TypeOK, Tables, Workers, Conns, TableStates, Panicking, QueueInv,
        DeferredInv, Holding, Active, GoDeferred, Record, SetState,
        workerVars, mainVars, flagVars, tableVars, envVars
<1>1. CASE DeferredCopySkipped
  BY <1>1 DEF DeferredCopySkipped
<1>2. CASE DeferredCopySucceeds
  BY <1>2 DEF DeferredCopySucceeds
<1>3. CASE \/ DeferredStops \/ DeferredProceeds \/ DeferredPolls
             \/ DeferredTakes \/ DeferredPasses \/ DeferredCopyStarts
             \/ DeferredCopyFails \/ DeferredRecovers \/ DeferredFinishes
  BY <1>3, SMTT(30) DEF DeferredStops, DeferredProceeds, DeferredPolls,
                 DeferredTakes, DeferredPasses, DeferredCopyStarts,
                 DeferredCopyFails, DeferredRecovers, DeferredFinishes
<1> QED
  BY <1>1, <1>2, <1>3 DEF Deferred

LEMMA DeferredDeferred ==
  ASSUME TypeOK, DeferredInv, Deferred
  PROVE  DeferredInv'
<1> USE NumTablesAssumption, NumWorkersAssumption
    DEF TypeOK, Tables, Workers, Conns, TableStates, Panicking, DeferredInv,
        GoDeferred, Record, SetState, workerVars, mainVars, flagVars,
        tableVars, envVars
<1>1. CASE DeferredStops
  BY <1>1 DEF DeferredStops
<1>2. CASE DeferredProceeds
  BY <1>2 DEF DeferredProceeds
<1>3. CASE DeferredPolls
  BY <1>3 DEF DeferredPolls
<1>4. CASE DeferredTakes
  BY <1>4 DEF DeferredTakes
<1>5. CASE DeferredPasses
  BY <1>5 DEF DeferredPasses
<1>6. CASE DeferredCopyStarts
  BY <1>6 DEF DeferredCopyStarts
<1>7. CASE DeferredCopySkipped
  BY <1>7 DEF DeferredCopySkipped
<1>8. CASE DeferredCopySucceeds
  BY <1>8 DEF DeferredCopySucceeds
<1>9. CASE DeferredCopyFails
  BY <1>9 DEF DeferredCopyFails
<1>10. CASE DeferredRecovers
  BY <1>10 DEF DeferredRecovers
<1>11. CASE DeferredFinishes
  BY <1>11 DEF DeferredFinishes
<1> QED
  BY <1>1, <1>2, <1>3, <1>4, <1>5, <1>6, <1>7, <1>8, <1>9, <1>10, <1>11 DEF Deferred

LEMMA DeferredMain ==
  ASSUME TypeOK, MainInv, Deferred
  PROVE  MainInv'
<1> USE NumTablesAssumption, NumWorkersAssumption
    DEF TypeOK, MainInv, GoDeferred, Record, SetState, workerVars, mainVars,
        flagVars, tableVars, envVars
<1>1. CASE \/ DeferredStops \/ DeferredProceeds \/ DeferredPolls
             \/ DeferredTakes \/ DeferredPasses \/ DeferredCopyStarts
             \/ DeferredCopySkipped \/ DeferredCopySucceeds
             \/ DeferredCopyFails \/ DeferredRecovers \/ DeferredFinishes
  BY <1>1 DEF DeferredStops, DeferredProceeds, DeferredPolls,
                 DeferredTakes, DeferredPasses, DeferredCopyStarts,
                 DeferredCopySkipped, DeferredCopySucceeds,
                 DeferredCopyFails, DeferredRecovers, DeferredFinishes
<1> QED
  BY <1>1 DEF Deferred

LEMMA DeferredError ==
  ASSUME TypeOK, DeferredInv, ErrorInv, Deferred
  PROVE  ErrorInv'
<1> USE NumTablesAssumption, NumWorkersAssumption
    DEF TypeOK, Tables, Workers, Conns, TableStates, Panicking, DeferredInv,
        ErrorInv, GoDeferred, Record, SetState, workerVars, mainVars,
        flagVars, tableVars, envVars
<1>1. CASE DeferredCopySkipped
  BY <1>1 DEF DeferredCopySkipped
<1>2. CASE DeferredCopySucceeds
  BY <1>2 DEF DeferredCopySucceeds
<1>3. CASE DeferredCopyFails
  BY <1>3 DEF DeferredCopyFails
<1>4. CASE DeferredRecovers
  BY <1>4 DEF DeferredRecovers
<1>5. CASE \/ DeferredStops \/ DeferredProceeds \/ DeferredPolls
             \/ DeferredTakes \/ DeferredPasses \/ DeferredCopyStarts
             \/ DeferredFinishes
  BY <1>5 DEF DeferredStops, DeferredProceeds, DeferredPolls,
                 DeferredTakes, DeferredPasses, DeferredCopyStarts,
                 DeferredFinishes
<1> QED
  BY <1>1, <1>2, <1>3, <1>4, <1>5 DEF Deferred

LEMMA DeferredTransaction ==
  ASSUME TypeOK, TransactionInv, Deferred
  PROVE  TransactionInv'
<1> USE NumTablesAssumption, NumWorkersAssumption
    DEF TransactionInv, Active, GoDeferred, Record, SetState, workerVars,
        mainVars, flagVars, tableVars, envVars
<1>1. CASE \/ DeferredStops \/ DeferredProceeds \/ DeferredPolls
             \/ DeferredTakes \/ DeferredPasses \/ DeferredCopyStarts
             \/ DeferredCopySkipped \/ DeferredCopySucceeds
             \/ DeferredCopyFails \/ DeferredRecovers \/ DeferredFinishes
  BY <1>1 DEF DeferredStops, DeferredProceeds, DeferredPolls,
                 DeferredTakes, DeferredPasses, DeferredCopyStarts,
                 DeferredCopySkipped, DeferredCopySucceeds,
                 DeferredCopyFails, DeferredRecovers, DeferredFinishes
<1> QED
  BY <1>1 DEF Deferred

-----------------------------------------------------------------------------
(* A step of the main goroutine                                            *)

LEMMA MainTypes ==
  ASSUME TypeOK, Main
  PROVE  TypeOK'
<1> USE NumTablesAssumption, NumWorkersAssumption
    DEF TypeOK, Tables, Workers, Conns, TableStates, Panicking, GoMain,
        GoDeferred, SetState, workerVars, deferredVars, flagVars, tableVars,
        envVars
<1>1. CASE WaitForWorkers
  BY <1>1 DEF WaitForWorkers
<1>2. CASE ReceivePanic
  BY <1>2 DEF ReceivePanic
<1>3. CASE NoPanicReady
  BY <1>3 DEF NoPanicReady
<1>4. CASE SweepStep
  BY <1>4 DEF SweepStep
<1>5. CASE SweepEnds
  BY <1>5 DEF SweepEnds
<1>6. CASE DeferredWorkerDone
  BY <1>6 DEF DeferredWorkerDone
<1>7. CASE AgentsHealthy
  BY <1>7 DEF AgentsHealthy
<1>8. CASE AgentsFailed
  BY <1>8 DEF AgentsFailed
<1> QED
  BY <1>1, <1>2, <1>3, <1>4, <1>5, <1>6, <1>7, <1>8 DEF Main

LEMMA MainRecord ==
  ASSUME TypeOK, RecordInv, Main
  PROVE  RecordInv'
<1> USE NumTablesAssumption, NumWorkersAssumption
    DEF TypeOK, Tables, Workers, Conns, TableStates, Panicking, RecordInv,
        GoMain, GoDeferred, SetState, workerVars, deferredVars, flagVars,
        tableVars, envVars
<1>1. CASE SweepStep
  BY <1>1 DEF SweepStep
<1>2. CASE \/ WaitForWorkers \/ ReceivePanic \/ NoPanicReady \/ SweepEnds
             \/ DeferredWorkerDone \/ AgentsHealthy \/ AgentsFailed
  <2>1. UNCHANGED <<oidMap, rowsCopiedMaps, wasTerminated>>
    BY <1>2 DEF WaitForWorkers, ReceivePanic, NoPanicReady, SweepEnds,
               DeferredWorkerDone, AgentsHealthy, AgentsFailed
  <2> QED
    BY <2>1
<1> QED
  BY <1>1, <1>2 DEF Main

LEMMA MainQueue ==
  ASSUME TypeOK, QueueInv, MainInv, Main
  PROVE  QueueInv'
<1> USE NumTablesAssumption, NumWorkersAssumption
    DEF TypeOK, Tables, Workers, Conns, TableStates, Panicking, QueueInv,
        MainInv, DoneStates, Holding, Active, GoMain, GoDeferred, SetState,
        workerVars, deferredVars, flagVars, tableVars, envVars
<1>1. CASE WaitForWorkers
  BY <1>1 DEF WaitForWorkers
<1>2. CASE SweepStep
  BY <1>2 DEF SweepStep
<1>3. CASE \/ ReceivePanic \/ NoPanicReady \/ SweepEnds
             \/ DeferredWorkerDone \/ AgentsHealthy \/ AgentsFailed
  <2>1. UNCHANGED <<oidMap, nextTask, workerPc, workerTable>> /\ mainPc' # "wait"
    BY <1>3 DEF ReceivePanic, NoPanicReady, SweepEnds, DeferredWorkerDone,
               AgentsHealthy, AgentsFailed
  <2> QED
    BY <2>1
<1> QED
  BY <1>1, <1>2, <1>3 DEF Main

LEMMA MainDeferred ==
  ASSUME TypeOK, DeferredInv, Main
  PROVE  DeferredInv'
<1> USE NumTablesAssumption, NumWorkersAssumption
    DEF TypeOK, Tables, Workers, Conns, TableStates, Panicking, DeferredInv,
        GoMain, GoDeferred, SetState, workerVars, deferredVars, flagVars,
        tableVars, envVars
<1>1. CASE SweepStep
  BY <1>1 DEF SweepStep
<1>2. CASE DeferredWorkerDone
  BY <1>2 DEF DeferredWorkerDone
<1>3. CASE \/ WaitForWorkers \/ ReceivePanic \/ NoPanicReady \/ SweepEnds
             \/ AgentsHealthy \/ AgentsFailed
  BY <1>3 DEF WaitForWorkers, ReceivePanic, NoPanicReady, SweepEnds,
                 AgentsHealthy, AgentsFailed
<1> QED
  BY <1>1, <1>2, <1>3 DEF Main

LEMMA MainMain ==
  ASSUME TypeOK, MainInv, Main
  PROVE  MainInv'
<1> USE NumTablesAssumption, NumWorkersAssumption
    DEF TypeOK, MainInv, GoMain, GoDeferred, SetState, workerVars,
        deferredVars, flagVars, tableVars, envVars
<1>1. CASE WaitForWorkers
  BY <1>1 DEF WaitForWorkers
<1>2. CASE ReceivePanic
  BY <1>2 DEF ReceivePanic
<1>3. CASE NoPanicReady
  BY <1>3 DEF NoPanicReady
<1>4. CASE SweepStep
  BY <1>4 DEF SweepStep
<1>5. CASE SweepEnds
  BY <1>5 DEF SweepEnds
<1>6. CASE DeferredWorkerDone
  BY <1>6 DEF DeferredWorkerDone
<1>7. CASE AgentsHealthy
  BY <1>7 DEF AgentsHealthy
<1>8. CASE AgentsFailed
  BY <1>8 DEF AgentsFailed
<1> QED
  BY <1>1, <1>2, <1>3, <1>4, <1>5, <1>6, <1>7, <1>8 DEF Main

LEMMA MainError ==
  ASSUME TypeOK, MainInv, ErrorInv, Main
  PROVE  ErrorInv'
<1> USE NumTablesAssumption, NumWorkersAssumption
    DEF TypeOK, Tables, Workers, Conns, TableStates, Panicking, ErrorInv,
        StopRequested, GoMain, GoDeferred, SetState, workerVars,
        deferredVars, flagVars, tableVars, envVars
<1>1. CASE SweepStep
  BY <1>1 DEF SweepStep
<1>2. CASE DeferredWorkerDone
  BY <1>2 DEF DeferredWorkerDone
<1>3. CASE \/ WaitForWorkers \/ ReceivePanic \/ NoPanicReady \/ SweepEnds
             \/ AgentsHealthy \/ AgentsFailed
  BY <1>3 DEF WaitForWorkers, ReceivePanic, NoPanicReady, SweepEnds,
                 AgentsHealthy, AgentsFailed
<1> QED
  BY <1>1, <1>2, <1>3 DEF Main

LEMMA MainTransaction ==
  ASSUME TypeOK, TransactionInv, Main
  PROVE  TransactionInv'
<1> USE NumTablesAssumption, NumWorkersAssumption
    DEF TransactionInv, Active, GoMain, GoDeferred, SetState, workerVars,
        deferredVars, flagVars, tableVars, envVars
<1>1. CASE \/ WaitForWorkers \/ ReceivePanic \/ NoPanicReady \/ SweepStep
             \/ SweepEnds \/ DeferredWorkerDone \/ AgentsHealthy
             \/ AgentsFailed
  BY <1>1 DEF WaitForWorkers, ReceivePanic, NoPanicReady, SweepStep,
                 SweepEnds, DeferredWorkerDone, AgentsHealthy, AgentsFailed
<1> QED
  BY <1>1 DEF Main

-----------------------------------------------------------------------------
(* The inductive invariant                                                 *)

LEMMA WorkerStep ==
  ASSUME IInv, NEW w \in Workers, Worker(w)
  PROVE  IInv'
BY WorkerTypes, WorkerRecord, WorkerQueue, WorkerDeferred, WorkerMain,
   WorkerError, WorkerTransaction DEF IInv

LEMMA DeferredStep ==
  ASSUME IInv, Deferred
  PROVE  IInv'
BY DeferredTypes, DeferredRecord, DeferredQueue, DeferredDeferred,
   DeferredMain, DeferredError, DeferredTransaction DEF IInv

LEMMA MainStep ==
  ASSUME IInv, Main
  PROVE  IInv'
BY MainTypes, MainRecord, MainQueue, MainDeferred, MainMain, MainError,
   MainTransaction DEF IInv

\* A signal, the handler's exit and other sessions' requests leave the
\* goroutines' state alone.
LEMMA EnvironmentStep ==
  ASSUME IInv, Environment
  PROVE  IInv'
<1>1. UNCHANGED <<workerVars, deferredVars, sweepTable, isErroredBackup,
                  ctxDone, tableVars, backupSnapshot>>
  BY DEF Environment, Signal, HandlerExits, RequestExclusive, mainVars,
     flagVars, envVars
<1>2. /\ wasTerminated' \in BOOLEAN
      /\ wasTerminated => wasTerminated'
      /\ exclusive' \in SUBSET Tables
      /\ mainPc' \in {mainPc, "killed"}
  BY DEF IInv, TypeOK, Environment, Signal, HandlerExits, RequestExclusive,
     mainVars, flagVars, envVars
<1> USE <1>1, <1>2 DEF IInv, workerVars, deferredVars, tableVars
<1>3. TypeOK'
  BY DEF TypeOK
<1>4. RecordInv'
  BY DEF RecordInv, TypeOK
<1>5. QueueInv'
  BY DEF QueueInv
<1>6. DeferredInv'
  BY DEF DeferredInv
<1>7. MainInv'
  BY DEF MainInv
<1>8. ErrorInv'
  BY DEF ErrorInv
<1>9. TransactionInv'
  BY DEF TransactionInv
<1> QED
  BY <1>3, <1>4, <1>5, <1>6, <1>7, <1>8, <1>9

LEMMA StutterStep ==
  ASSUME IInv, UNCHANGED vars
  PROVE  IInv'
<1> USE DEF IInv, vars, workerVars, deferredVars, mainVars, flagVars,
            tableVars, envVars
<1>1. TypeOK'
  BY DEF TypeOK
<1>2. RecordInv' /\ ErrorInv'
  BY DEF RecordInv, ErrorInv
<1>3. QueueInv' /\ DeferredInv'
  BY DEF QueueInv, DeferredInv
<1>4. MainInv' /\ TransactionInv'
  BY DEF MainInv, TransactionInv
<1> QED
  BY <1>1, <1>2, <1>3, <1>4

LEMMA InitIInv == Init => IInv
<1> SUFFICES ASSUME Init PROVE IInv
  OBVIOUS
<1> USE NumTablesAssumption, NumWorkersAssumption
    DEF Init, Tables, Workers, Conns, TableStates
<1>1. TypeOK
  <2>1. rowsCopiedMaps \in [Conns -> [Tables -> {"absent", "rows", "skipped"}]]
    OBVIOUS
  <2>2. NumTables + 1 \in Nat /\ 1 \in 1 .. NumTables + 1
    OBVIOUS
  <2>3. /\ held \in [Workers -> SUBSET Tables]
        /\ tx \in [Workers -> {"none", "local", "shared"}]
        /\ workerTable \in [Workers -> 0 .. NumTables]
        /\ oidMap \in [Tables -> {"Unknown", "Deferred", "Complete"}]
    OBVIOUS
  <2> QED
    BY <2>1, <2>2, <2>3 DEF TypeOK
<1>2. RecordInv
  BY DEF RecordInv
<1>3. QueueInv
  BY DEF QueueInv, Holding, Active, Panicking
<1>4. DeferredInv /\ MainInv /\ ErrorInv
  BY DEF DeferredInv, MainInv, ErrorInv
<1>5. TransactionInv
  BY DEF TransactionInv, Active
<1> QED
  BY <1>1, <1>2, <1>3, <1>4, <1>5 DEF IInv

\* The inductive invariant holds in every run of the data phase.
THEOREM Inductive == Spec => []IInv
<1>1. IInv /\ [Next]_vars => IInv'
  <2> SUFFICES ASSUME IInv, [Next]_vars PROVE IInv'
    OBVIOUS
  <2>1. CASE \E w \in Workers : Worker(w)
    BY <2>1, WorkerStep
  <2>2. CASE Deferred
    BY <2>2, DeferredStep
  <2>3. CASE Main
    BY <2>3, MainStep
  <2>4. CASE Environment
    BY <2>4, EnvironmentStep
  <2>5. CASE Finished \/ UNCHANGED vars
    BY <2>5, StutterStep DEF Finished
  <2> QED
    BY <2>1, <2>2, <2>3, <2>4, <2>5 DEF Next
<1> QED
  BY <1>1, InitIInv, PTL DEF Spec

-----------------------------------------------------------------------------
(* The properties                                                          *)

\* Every variable keeps its type.
THEOREM TypeCorrect == Spec => []TypeOK
<1>1. IInv => TypeOK
  BY DEF IInv
<1> QED
  BY <1>1, Inductive, PTL

\* On a normal return without a signal every table is Complete, copied by one
\* connection and recorded by no other, whatever was deferred to connection 0.
THEOREM EveryTableBackedUp == Spec => []AllTablesBackedUp
<1>1. IInv => AllTablesBackedUp
  <2> SUFFICES ASSUME IInv, mainPc = "returned", ~wasTerminated,
                      NEW t \in Tables
               PROVE  /\ oidMap[t] = "Complete"
                      /\ \E c \in Conns :
                           /\ CopiedBy(t) = {c}
                           /\ \A d \in Conns \ {c} :
                                rowsCopiedMaps[d][t] = "absent"
    BY DEF AllTablesBackedUp
  <2>1. oidMap[t] = "Complete"
    BY NumTablesAssumption DEF IInv, MainInv, DeferredInv, TypeOK, Tables
  <2>2. PICK c \in Conns :
          /\ rowsCopiedMaps[c][t] # "absent"
          /\ \A d \in Conns \ {c} : rowsCopiedMaps[d][t] = "absent"
    BY <2>1 DEF IInv, RecordInv
  <2>3. rowsCopiedMaps[c][t] = "rows"
    BY <2>2 DEF IInv, RecordInv, TypeOK
  <2>4. CopiedBy(t) = {c}
    BY <2>2, <2>3 DEF CopiedBy
  <2> QED
    BY <2>1, <2>2, <2>4
<1> QED
  BY <1>1, Inductive, PTL

\* Every COPY of a worker runs under its own lock and inside the snapshot.
THEOREM CopiesProtected == Spec => []CopyProtected
<1>1. IInv => CopyProtected
  BY DEF IInv, TransactionInv, CopyProtected, Active
<1> QED
  BY <1>1, Inductive, PTL

\* No table is in two COPY statements at once or copied after it was recorded.
THEOREM CopiesExclusive == Spec => []CopyExclusive
<1>1. IInv => CopyExclusive
  <2> SUFFICES ASSUME IInv PROVE CopyExclusive
    OBVIOUS
  <2>1. ASSUME NEW w \in Workers, workerPc[w] = "copying"
        PROVE  /\ workerTable[w] \in Tables
               /\ oidMap[workerTable[w]] = "Unknown"
    BY <2>1 DEF IInv, QueueInv, Holding, Active
  <2>2. ASSUME NEW w \in Workers, workerPc[w] = "copying",
               NEW v \in Workers \ {w}, workerPc[v] = "copying"
        PROVE  workerTable[v] # workerTable[w]
    BY <2>2 DEF IInv, QueueInv, Holding
  <2>3. deferredPc = "copying" =>
          deferredTable \in Tables /\ oidMap[deferredTable] = "Deferred"
    BY DEF IInv, DeferredInv
  <2> QED
    BY <2>1, <2>2, <2>3 DEF IInv, RecordInv, CopyExclusive
<1> QED
  BY <1>1, Inductive, PTL

\* No normal return once isErroredBackup is set: the goroutine that set it holds
\* a table nobody completes.
THEOREM ErrorsNotSilent == Spec => []NoSilentFailure
<1>1. IInv => NoSilentFailure
  <2> SUFFICES ASSUME IInv, mainPc = "returned", isErroredBackup PROVE FALSE
    BY DEF NoSilentFailure
  <2>1. \A t \in Tables : oidMap[t] = "Complete"
    BY NumTablesAssumption DEF IInv, MainInv, DeferredInv, TypeOK, Tables
  <2> QED
    BY <2>1 DEF IInv, MainInv, ErrorInv
<1> QED
  BY <1>1, Inductive, PTL

-----------------------------------------------------------------------------
(* The data phase implements its promise                                   *)

\* Recording a table shows up as one Copy step of the abstract specification.
LEMMA RecordingCopies ==
  ASSUME TypeOK, NEW c \in Conns, NEW t \in Tables, Record(c, t, "rows"),
         \A d \in Conns : rowsCopiedMaps[d][t] = "absent"
  PROVE  /\ CopiedBy(t) = {}
         /\ [u \in Tables |-> CopiedBy(u)]' =
              [[u \in Tables |-> CopiedBy(u)] EXCEPT ![t] = {c}]
<1>1. CopiedBy(t) = {}
  BY DEF CopiedBy
<1>2. \A u \in Tables, d \in Conns :
        rowsCopiedMaps'[d][u] =
          IF d = c /\ u = t THEN "rows" ELSE rowsCopiedMaps[d][u]
  BY DEF Record, TypeOK
<1>3. CopiedBy(t)' = {c}
  BY <1>2 DEF CopiedBy
<1>4. \A u \in Tables \ {t} : CopiedBy(u)' = CopiedBy(u)
  BY <1>2 DEF CopiedBy
<1> QED
  BY <1>1, <1>3, <1>4

\* Skipping a table after a signal is no Copy step.
LEMMA SkippingStutters ==
  ASSUME TypeOK, NEW c \in Conns, NEW t \in Tables, Record(c, t, "skipped"),
         \A d \in Conns : rowsCopiedMaps[d][t] = "absent"
  PROVE  [u \in Tables |-> CopiedBy(u)]' = [u \in Tables |-> CopiedBy(u)]
<1>1. \A u \in Tables, d \in Conns :
        rowsCopiedMaps'[d][u] = "rows" <=> rowsCopiedMaps[d][u] = "rows"
  BY DEF Record, TypeOK
<1>2. \A u \in Tables : CopiedBy(u)' = CopiedBy(u)
  BY <1>1 DEF CopiedBy
<1> QED
  BY <1>2

\* A step of a worker copies one table or is a stutter.
LEMMA WorkerPromise ==
  ASSUME IInv, NEW w \in Workers, Worker(w)
  PROVE  [Promise!Next]_Promise!vars
<1> USE DEF IInv
<1>1. UNCHANGED mainPc /\ UNCHANGED wasTerminated
  BY DEF Worker, WorkerRuns, WorkerStart, TakeTable, NoMoreTables, WorkerStops,
     WorkerProceeds, SnapshotFails, LockAcquired, LockNotAvailable, LockFails,
     LocksQueryFails, CopyStarts, CopySkipped, CopySucceeds, CopyFails,
     WorkerDone, WorkerRecovers, mainVars, flagVars
<1>2. CASE CopySucceeds(w)
  <2> DEFINE t == workerTable[w]
  <2>1. /\ Record(w, t, "rows") /\ w \in Conns
        /\ workerPc[w] = "copying" /\ mainPc # "killed"
    BY <1>2 DEF CopySucceeds, GoWorker, Running, Workers, Conns
  <2>2. t \in Tables /\ oidMap[t] = "Unknown"
    BY <2>1 DEF QueueInv, Holding, Active
  <2>3. \A d \in Conns : rowsCopiedMaps[d][t] = "absent"
    BY <2>2 DEF RecordInv
  <2>4. mainPc = "wait"
    BY <2>1 DEF MainInv, DoneStates
  <2>5. Promise!Copy(t, w)
    BY <1>1, <2>1, <2>2, <2>3, <2>4, RecordingCopies DEF Promise!Copy
  <2> QED
    BY <2>1, <2>2, <2>5 DEF Promise!Next
<1>3. CASE CopySkipped(w)
  <2> DEFINE t == workerTable[w]
  <2>1. Record(w, t, "skipped") /\ w \in Conns /\ workerPc[w] = "copy"
    BY <1>3 DEF CopySkipped, GoWorker, Workers, Conns
  <2>2. t \in Tables /\ oidMap[t] = "Unknown"
    BY <2>1 DEF QueueInv, Holding, Active
  <2>3. \A d \in Conns : rowsCopiedMaps[d][t] = "absent"
    BY <2>2 DEF RecordInv
  <2> QED
    BY <1>1, <2>1, <2>2, <2>3, SkippingStutters DEF Promise!vars
<1>4. CASE ~CopySucceeds(w) /\ ~CopySkipped(w)
  <2>1. UNCHANGED rowsCopiedMaps
    BY <1>4 DEF Worker, WorkerRuns, WorkerStart, TakeTable, NoMoreTables, WorkerStops,
       WorkerProceeds, SnapshotFails, LockAcquired, LockNotAvailable,
       LockFails, LocksQueryFails, CopyStarts, CopyFails, WorkerDone,
       WorkerRecovers, tableVars
  <2> QED
    BY <1>1, <2>1 DEF Promise!vars, CopiedBy
<1> QED
  BY <1>2, <1>3, <1>4

\* So does a step of the deferred worker.
LEMMA DeferredPromise ==
  ASSUME IInv, Deferred
  PROVE  [Promise!Next]_Promise!vars
<1> USE DEF IInv
<1>1. UNCHANGED mainPc /\ UNCHANGED wasTerminated
  BY DEF Deferred, DeferredStops, DeferredProceeds, DeferredPolls,
     DeferredTakes, DeferredPasses, DeferredCopyStarts, DeferredCopySkipped,
     DeferredCopySucceeds, DeferredCopyFails, DeferredRecovers,
     DeferredFinishes, mainVars, flagVars
<1>2. 0 \in Conns
  BY NumWorkersAssumption DEF Conns
<1>3. CASE DeferredCopySucceeds
  <2>1. /\ Record(0, deferredTable, "rows")
        /\ deferredPc = "copying" /\ mainPc # "killed"
    BY <1>3 DEF DeferredCopySucceeds, GoDeferred, Running
  <2>2. deferredTable \in Tables /\ oidMap[deferredTable] = "Deferred"
    BY <2>1 DEF DeferredInv
  <2>3. \A d \in Conns : rowsCopiedMaps[d][deferredTable] = "absent"
    BY <2>2 DEF RecordInv
  <2>4. mainPc # "returned"
    BY <2>1 DEF MainInv
  <2>5. Promise!Copy(deferredTable, 0)
    BY <1>1, <1>2, <2>1, <2>2, <2>3, <2>4, RecordingCopies DEF Promise!Copy
  <2> QED
    BY <1>2, <2>2, <2>5 DEF Promise!Next
<1>4. CASE DeferredCopySkipped
  <2>1. Record(0, deferredTable, "skipped") /\ deferredPc = "copy"
    BY <1>4 DEF DeferredCopySkipped, GoDeferred
  <2>2. deferredTable \in Tables /\ oidMap[deferredTable] = "Deferred"
    BY <2>1 DEF DeferredInv
  <2>3. \A d \in Conns : rowsCopiedMaps[d][deferredTable] = "absent"
    BY <2>2 DEF RecordInv
  <2> QED
    BY <1>1, <1>2, <2>1, <2>2, <2>3, SkippingStutters DEF Promise!vars
<1>5. CASE ~DeferredCopySucceeds /\ ~DeferredCopySkipped
  <2>1. UNCHANGED rowsCopiedMaps
    BY <1>5 DEF Deferred, DeferredStops, DeferredProceeds, DeferredPolls,
       DeferredTakes, DeferredPasses, DeferredCopyStarts, DeferredCopyFails,
       DeferredRecovers, DeferredFinishes, tableVars
  <2> QED
    BY <1>1, <2>1 DEF Promise!vars, CopiedBy
<1> QED
  BY <1>3, <1>4, <1>5

\* A step of main changes at most the outcome.
LEMMA MainPromise ==
  ASSUME IInv, Main
  PROVE  [Promise!Next]_Promise!vars
<1> USE DEF IInv
<1>1. UNCHANGED rowsCopiedMaps /\ UNCHANGED wasTerminated
  BY DEF Main, WaitForWorkers, ReceivePanic, NoPanicReady, SweepStep,
     SweepEnds, DeferredWorkerDone, AgentsHealthy, AgentsFailed, tableVars,
     flagVars
<1>2. UNCHANGED [t \in Tables |-> CopiedBy(t)]
  BY <1>1 DEF CopiedBy
<1>3. CASE AgentsHealthy
  <2>1. mainPc = "agents" /\ mainPc' = "returned"
    BY <1>3 DEF AgentsHealthy, GoMain
  <2>2. \A t \in Tables : oidMap[t] = "Complete"
    BY <2>1, NumTablesAssumption DEF MainInv, DeferredInv, TypeOK, Tables
  <2>3. ~wasTerminated => \A t \in Tables : CopiedBy(t) # {}
    <3> SUFFICES ASSUME ~wasTerminated, NEW t \in Tables
                 PROVE  CopiedBy(t) # {}
      OBVIOUS
    <3>1. PICK c \in Conns : rowsCopiedMaps[c][t] # "absent"
      BY <2>2 DEF RecordInv
    <3>2. rowsCopiedMaps[c][t] = "rows"
      BY <3>1 DEF RecordInv, TypeOK
    <3> QED
      BY <3>2 DEF CopiedBy
  <2>4. Promise!Return
    BY <1>1, <1>2, <2>1, <2>3 DEF Promise!Return, TypeOK
  <2> QED
    BY <2>4 DEF Promise!Next
<1>4. CASE ReceivePanic \/ AgentsFailed
  <2>1. mainPc \in {"select", "agents"} /\ mainPc' = "failed"
    BY <1>4 DEF ReceivePanic, AgentsFailed, GoMain
  <2>2. Promise!Fail
    BY <1>1, <1>2, <2>1 DEF Promise!Fail
  <2> QED
    BY <2>2 DEF Promise!Next
<1>5. CASE \/ WaitForWorkers \/ NoPanicReady \/ SweepStep \/ SweepEnds
           \/ DeferredWorkerDone
  <2>1. /\ mainPc \in {"wait", "select", "sweep", "await"}
        /\ mainPc' \in {"select", "await", "sweep", "agents"}
    BY <1>5 DEF WaitForWorkers, NoPanicReady, SweepStep, SweepEnds,
       DeferredWorkerDone, GoMain, TypeOK
  <2> QED
    BY <1>1, <1>2, <2>1 DEF Promise!vars
<1> QED
  BY <1>3, <1>4, <1>5 DEF Main

LEMMA EnvironmentPromise ==
  ASSUME IInv, Environment
  PROVE  [Promise!Next]_Promise!vars
<1>1. UNCHANGED [t \in Tables |-> CopiedBy(t)]
  BY DEF Environment, Signal, HandlerExits, RequestExclusive, tableVars,
     CopiedBy
<1>2. CASE Signal
  <2>1. Promise!Signal
    BY <1>1, <1>2 DEF Signal, Promise!Signal, mainVars
  <2> QED
    BY <2>1 DEF Promise!Next
<1>3. CASE HandlerExits
  <2>1. Promise!Kill
    BY <1>1, <1>3 DEF HandlerExits, Promise!Kill, flagVars
  <2> QED
    BY <2>1 DEF Promise!Next
<1>4. CASE \E t \in Tables : RequestExclusive(t)
  BY <1>1, <1>4 DEF RequestExclusive, Promise!vars, mainVars, flagVars
<1> QED
  BY <1>2, <1>3, <1>4 DEF Environment

\* BackupDataForAllTables keeps the promise of the data phase: no table copied
\* twice, success only with every table copied, nothing copied afterwards.
THEOREM DataPhaseImplemented == Spec => KeepsPromise
<1>1. Init => Promise!Init
  <2> SUFFICES ASSUME Init PROVE Promise!Init
    OBVIOUS
  <2>1. \A t \in Tables : CopiedBy(t) = {}
    BY DEF Init, CopiedBy
  <2> QED
    BY <2>1 DEF Init, Promise!Init
<1>2. IInv /\ [Next]_vars => [Promise!Next]_Promise!vars
  <2> SUFFICES ASSUME IInv, [Next]_vars PROVE [Promise!Next]_Promise!vars
    OBVIOUS
  <2>1. CASE \E w \in Workers : Worker(w)
    BY <2>1, WorkerPromise
  <2>2. CASE Deferred
    BY <2>2, DeferredPromise
  <2>3. CASE Main
    BY <2>3, MainPromise
  <2>4. CASE Environment
    BY <2>4, EnvironmentPromise
  <2>5. CASE Finished \/ UNCHANGED vars
    BY <2>5 DEF Finished, vars, mainVars, flagVars, tableVars, CopiedBy,
       Promise!vars
  <2> QED
    BY <2>1, <2>2, <2>3, <2>4, <2>5 DEF Next
<1> QED
  BY <1>1, <1>2, Inductive, PTL DEF Spec, KeepsPromise, Promise!Spec

-----------------------------------------------------------------------------
(* The tables of a backup: the catalogue                                   *)

\* What the assumption on the worlds says of the one that is looked at.
LEMMA WorldFacts ==
  ASSUME world \in Worlds
  PROVE  /\ world.version \in {6, 7}
         /\ world.leaf \in BOOLEAN /\ world.noInherits \in BOOLEAN
         /\ world.metadataOnly \in BOOLEAN
         /\ Oids \subseteq Nat \ {0} /\ IsFiniteSet(Oids)
         /\ DOMAIN world.flags \subseteq TableFlags \cup SchemaFlags
         /\ \A f \in DOMAIN world.flags \cap TableFlags :
              \A name \in world.flags[f] : name.oid \in Oids \cup {0}
BY WorldsAssumption, Zenon DEF Oids, T

LEMMA TableTypes ==
  ASSUME world \in Worlds, NEW i \in Oids
  PROVE  /\ T[i] \in TableFacts
         /\ T[i].parted \in BOOLEAN /\ T[i].foreign \in BOOLEAN
         /\ T[i].external \in BOOLEAN /\ T[i].member \in BOOLEAN
         /\ T[i].config \in BOOLEAN /\ T[i].distributed \in BOOLEAN
<1>1. T[i] \in TableFacts
  BY WorldsAssumption, Zenon DEF Oids, T
<1> QED
  BY <1>1 DEF TableFacts

LEMMA TableSound ==
  ASSUME world \in Worlds, NEW i \in Oids
  PROVE  /\ T[i].parent = 0 \/ (T[i].parent \in Oids /\ T[T[i].parent].parted)
         /\ T[i].inherits \subseteq Oids
         /\ \A j \in T[i].inherits : T[j].parent = 0
         /\ T[i].parent # 0 => T[i].inherits = {} /\ T[i].schema = T[T[i].parent].schema
         /\ T[i].parted => ~T[i].foreign /\ ~T[i].external
         /\ T[i].config => T[i].member
         /\ world.version = 6 => /\ ~(T[i].external /\ T[i].foreign)
                                 /\ (T[i].config \/ T[i].foreign) => T[i].parent = 0
         /\ world.version = 7 => (T[i].external => T[i].foreign)
<1>1. Sound(world, i)
  BY WorldsAssumption, Zenon DEF Oids, T
<1> QED
  BY <1>1 DEF Sound, Oids, T

\* Induction from what a table depends on to the table.
LEMMA TableInduction ==
  ASSUME world \in Worlds, NEW P,
         \A i \in Oids : (\A j \in DependsOn(i) : j \in P) => i \in P
  PROVE  Oids \subseteq P
<1> DEFINE S == {i \in Oids : i \notin P}
<1> SUFFICES ASSUME S # {} PROVE FALSE
  OBVIOUS
<1>1. Acyclic(world)
  BY WorldsAssumption, Zenon
<1>2. PICK i \in S : (T[i].inherits \cup {T[i].parent}) \cap S = {}
  BY <1>1 DEF Acyclic, Oids, T
<1>3. i \in Oids
  OBVIOUS
<1>4. ASSUME NEW j \in DependsOn(i) PROVE j \in P
  <2>1. j \in Oids
    BY <1>3, TableSound DEF DependsOn
  <2>2. j \notin S
    BY <1>2 DEF DependsOn
  <2> QED
    BY <2>1, <2>2
<1> QED
  BY <1>3, <1>4

\* The partitions above a table, itself included.
ClosedUp(S) == \A j \in S : T[j].parent # 0 => T[j].parent \in S
Above(i) == {k \in Oids : \A S \in SUBSET Oids : i \in S /\ ClosedUp(S) => k \in S}

LEMMA AboveUnfolds ==
  ASSUME world \in Worlds, NEW i \in Oids
  PROVE  Above(i) = {i} \cup IF T[i].parent = 0 THEN {} ELSE Above(T[i].parent)
<1> DEFINE p == T[i].parent
           R == {i} \cup IF p = 0 THEN {} ELSE Above(p)
<1>1. p = 0 \/ p \in Oids
  BY TableSound
<1>2. i \in Above(i)
  BY DEF Above
<1>3. ASSUME p # 0, NEW k \in Above(p) PROVE k \in Above(i)
  <2>1. k \in Oids
    BY DEF Above
  <2>2. ASSUME NEW S \in SUBSET Oids, i \in S, ClosedUp(S) PROVE k \in S
    <3>1. p \in S
      BY <2>2, <1>3 DEF ClosedUp
    <3> QED
      BY <3>1, <2>2 DEF Above
  <2> QED
    BY <2>1, <2>2 DEF Above
<1>4. ASSUME NEW q \in Oids PROVE ClosedUp(Above(q))
  <2> SUFFICES ASSUME NEW j \in Above(q), T[j].parent # 0 PROVE T[j].parent \in Above(q)
    BY DEF ClosedUp
  <2>1. j \in Oids
    BY DEF Above
  <2>2. T[j].parent \in Oids
    BY <2>1, TableSound
  <2>3. ASSUME NEW S \in SUBSET Oids, q \in S, ClosedUp(S) PROVE T[j].parent \in S
    <3>1. j \in S
      BY <2>3 DEF Above
    <3> QED
      BY <3>1, <2>3 DEF ClosedUp
  <2> QED
    BY <2>2, <2>3 DEF Above
<1>5. R \in SUBSET Oids /\ i \in R
  BY DEF Above
<1>6. ClosedUp(R)
  <2> SUFFICES ASSUME NEW j \in R, T[j].parent # 0 PROVE T[j].parent \in R
    BY DEF ClosedUp
  <2>1. CASE j = i
    <3>1. p # 0 /\ p \in Oids
      BY <2>1, <1>1
    <3>2. p \in Above(p)
      BY <3>1 DEF Above
    <3> QED
      BY <2>1, <3>1, <3>2
  <2>2. CASE j # i
    <3>1. p # 0 /\ p \in Oids /\ j \in Above(p)
      BY <2>2, <1>1
    <3>2. ClosedUp(Above(p))
      BY <3>1, <1>4
    <3> QED
      BY <3>1, <3>2 DEF ClosedUp
  <2> QED
    BY <2>1, <2>2
<1>7. ASSUME NEW k \in Above(i) PROVE k \in R
  <2> HIDE DEF R
  <2> QED
    BY <1>5, <1>6 DEF Above
<1> QED
  BY <1>2, <1>3, <1>7

\* Root climbs from parent to parent.
LEMMA RootUnfolds ==
  ASSUME world \in Worlds, NEW i \in Oids
  PROVE  Root(i) = IF T[i].parent = 0 THEN i ELSE Root(T[i].parent)
<1> DEFINE Tops(j) == {k \in Above(j) : T[k].parent = 0}
           g == [j \in Oids |-> CHOOSE k : k \in Tops(j)]
           IsUp(h) == h = [j \in Oids |-> IF T[j].parent = 0 THEN j ELSE h[T[j].parent]]
<1>1. ASSUME NEW j \in Oids PROVE g[j] = IF T[j].parent = 0 THEN j ELSE g[T[j].parent]
  <2>1. CASE T[j].parent = 0
    <3>1. Tops(j) = {j}
      BY <2>1, AboveUnfolds
    <3> HIDE DEF Tops
    <3>2. g[j] = CHOOSE k : k \in {j}
      BY <3>1
    <3> HIDE DEF g
    <3> QED
      BY <3>2, <2>1
  <2>2. CASE T[j].parent # 0
    <3>1. T[j].parent \in Oids
      BY <2>2, TableSound
    <3>2. Tops(j) = Tops(T[j].parent)
      BY <2>2, AboveUnfolds
    <3> HIDE DEF Tops
    <3> QED
      BY <3>1, <3>2, <2>2
  <2> QED
    BY <2>1, <2>2
<1>2. IsUp(g)
  <2>1. g = [j \in Oids |-> g[j]]
    OBVIOUS
  <2> HIDE DEF g
  <2> QED
    BY <2>1, <1>1
<1> DEFINE up == CHOOSE h : IsUp(h)
<1>3. IsUp(up)
  <2> HIDE DEF IsUp
  <2> QED
    BY <1>2
<1>4. \A j \in Oids : Root(j) = up[j]
  BY DEF Root
<1> HIDE DEF up
<1>5. up[i] = IF T[i].parent = 0 THEN i ELSE up[T[i].parent]
  BY <1>3
<1>6. T[i].parent = 0 \/ T[i].parent \in Oids
  BY TableSound
<1> QED
  BY <1>4, <1>5, <1>6

\* A COPY covers a table when it is of the table or covers its parent.
LEMMA CoversUnfolds ==
  ASSUME world \in Worlds, NEW d, NEW i \in Oids
  PROVE  /\ Covers(d, i) \in BOOLEAN
         /\ Covers(d, i) <=> i = d \/ (T[i].parent # 0 /\ Covers(d, T[i].parent))
<1> DEFINE g == [j \in Oids |-> d \in Above(j)]
           IsUp(h) == h = [j \in Oids |-> j = d \/ (T[j].parent # 0 /\ h[T[j].parent])]
<1>1. ASSUME NEW j \in Oids PROVE g[j] = (j = d \/ (T[j].parent # 0 /\ g[T[j].parent]))
  <2>1. T[j].parent = 0 \/ T[j].parent \in Oids
    BY TableSound
  <2>2. d \in Above(j) <=> j = d \/ (T[j].parent # 0 /\ d \in Above(T[j].parent))
    BY AboveUnfolds
  <2>3. g[j] = (d \in Above(j))
    OBVIOUS
  <2>4. (j = d \/ (T[j].parent # 0 /\ g[T[j].parent])) <=> d \in Above(j)
    <3>1. T[j].parent # 0 => g[T[j].parent] = (d \in Above(T[j].parent))
      BY <2>1
    <3> HIDE DEF g
    <3> QED
      BY <2>2, <3>1, Zenon
  <2> DEFINE r == (j = d \/ (T[j].parent # 0 /\ g[T[j].parent]))
             a == (d \in Above(j))
  <2>5. r \in BOOLEAN /\ a \in BOOLEAN
    OBVIOUS
  <2>6. a = r
    <3> HIDE DEF r, a
    <3>1. r <=> a
      BY <2>4 DEF r, a
    <3> QED
      BY <2>5, <3>1, Zenon
  <2> QED
    BY <2>3, <2>6
<1>2. IsUp(g)
  <2>1. g = [j \in Oids |-> g[j]]
    OBVIOUS
  <2> HIDE DEF g
  <2> QED
    BY <2>1, <1>1, Zenon
<1> DEFINE up == CHOOSE h : IsUp(h)
<1>3. IsUp(up)
  <2> HIDE DEF IsUp
  <2> QED
    BY <1>2
<1>4. \A j \in Oids : Covers(d, j) = up[j]
  BY DEF Covers
<1> HIDE DEF up
<1>5. up[i] = (i = d \/ (T[i].parent # 0 /\ up[T[i].parent]))
  BY <1>3, Zenon
<1>6. T[i].parent = 0 \/ T[i].parent \in Oids
  BY TableSound
<1> QED
  BY <1>4, <1>5, <1>6, Zenon

\* What a table inherits from, directly or not, and the table.
ClosedUnder(S) == \A j \in S : T[j].inherits \subseteq S
Lineage(i) == {k \in Oids : \A S \in SUBSET Oids : i \in S /\ ClosedUnder(S) => k \in S}

LEMMA LineageUnfolds ==
  ASSUME world \in Worlds, NEW i \in Oids
  PROVE  Lineage(i) = {i} \cup UNION {Lineage(k) : k \in T[i].inherits}
<1> DEFINE R == {i} \cup UNION {Lineage(k) : k \in T[i].inherits}
<1>1. T[i].inherits \subseteq Oids
  BY TableSound
<1>2. i \in Lineage(i)
  BY DEF Lineage
<1>3. ASSUME NEW k \in T[i].inherits, NEW n \in Lineage(k) PROVE n \in Lineage(i)
  <2>1. n \in Oids
    BY DEF Lineage
  <2>2. ASSUME NEW S \in SUBSET Oids, i \in S, ClosedUnder(S) PROVE n \in S
    <3>1. k \in S
      BY <2>2 DEF ClosedUnder
    <3> QED
      BY <3>1, <2>2 DEF Lineage
  <2> QED
    BY <2>1, <2>2 DEF Lineage
<1>4. ASSUME NEW q \in Oids PROVE ClosedUnder(Lineage(q))
  <2> SUFFICES ASSUME NEW j \in Lineage(q), NEW n \in T[j].inherits PROVE n \in Lineage(q)
    BY DEF ClosedUnder
  <2>1. j \in Oids
    BY DEF Lineage
  <2>2. n \in Oids
    BY <2>1, TableSound
  <2>3. ASSUME NEW S \in SUBSET Oids, q \in S, ClosedUnder(S) PROVE n \in S
    <3>1. j \in S
      BY <2>3 DEF Lineage
    <3> QED
      BY <3>1, <2>3 DEF ClosedUnder
  <2> QED
    BY <2>2, <2>3 DEF Lineage
<1>5. R \in SUBSET Oids /\ i \in R
  BY DEF Lineage
<1>6. ClosedUnder(R)
  <2> SUFFICES ASSUME NEW j \in R, NEW n \in T[j].inherits PROVE n \in R
    BY DEF ClosedUnder
  <2>1. CASE j = i
    <3>1. n \in Oids
      BY <2>1, <1>1
    <3>2. n \in Lineage(n)
      BY <3>1 DEF Lineage
    <3> QED
      BY <2>1, <3>2
  <2>2. CASE j # i
    <3>1. PICK k \in T[i].inherits : j \in Lineage(k)
      BY <2>2
    <3>2. ClosedUnder(Lineage(k))
      BY <1>1, <1>4
    <3>3. n \in Lineage(k)
      BY <3>1, <3>2 DEF ClosedUnder
    <3> QED
      BY <3>3
  <2> QED
    BY <2>1, <2>2
<1>7. ASSUME NEW k \in Lineage(i) PROVE k \in R
  <2> HIDE DEF R
  <2> QED
    BY <1>5, <1>6 DEF Lineage
<1> QED
  BY <1>2, <1>3, <1>7

LEMMA AncestorsUnfold ==
  ASSUME world \in Worlds, NEW i \in Oids
  PROVE  Ancestors(i) = {i} \cup UNION {Ancestors(k) : k \in T[i].inherits}
<1> DEFINE g == [j \in Oids |-> Lineage(j)]
           IsUp(h) == h = [j \in Oids |-> {j} \cup UNION {h[k] : k \in T[j].inherits}]
<1>1. ASSUME NEW j \in Oids PROVE g[j] = {j} \cup UNION {g[k] : k \in T[j].inherits}
  <2>1. T[j].inherits \subseteq Oids
    BY TableSound
  <2>2. Lineage(j) = {j} \cup UNION {Lineage(k) : k \in T[j].inherits}
    BY LineageUnfolds
  <2>3. {g[k] : k \in T[j].inherits} = {Lineage(k) : k \in T[j].inherits}
    BY <2>1
  <2>4. g[j] = Lineage(j)
    OBVIOUS
  <2> HIDE DEF g
  <2> QED
    BY <2>2, <2>3, <2>4
<1>2. IsUp(g)
  <2>1. g = [j \in Oids |-> g[j]]
    OBVIOUS
  <2> HIDE DEF g
  <2> QED
    BY <2>1, <1>1
<1> DEFINE up == CHOOSE h : IsUp(h)
<1>3. IsUp(up)
  <2> HIDE DEF IsUp
  <2> QED
    BY <1>2
<1>4. \A j \in Oids : Ancestors(j) = up[j]
  BY DEF Ancestors
<1> HIDE DEF up
<1>5. up[i] = {i} \cup UNION {up[k] : k \in T[i].inherits}
  BY <1>3
<1>6. T[i].inherits \subseteq Oids
  BY TableSound
<1>7. {up[k] : k \in T[i].inherits} = {Ancestors(k) : k \in T[i].inherits}
  BY <1>4, <1>6
<1> QED
  BY <1>4, <1>5, <1>7

LEMMA AncestorsExist ==
  ASSUME world \in Worlds
  PROVE  \A i \in Oids : i \in Ancestors(i) /\ Ancestors(i) \subseteq Oids
<1> DEFINE P == {i \in Oids : i \in Ancestors(i) /\ Ancestors(i) \subseteq Oids}
<1>1. ASSUME NEW i \in Oids, \A j \in DependsOn(i) : j \in P PROVE i \in P
  <2>1. Ancestors(i) = {i} \cup UNION {Ancestors(k) : k \in T[i].inherits}
    BY AncestorsUnfold
  <2>2. \A k \in T[i].inherits : Ancestors(k) \subseteq Oids
    BY <1>1 DEF DependsOn
  <2> QED
    BY <2>1, <2>2
<1>2. Oids \subseteq P
  <2> HIDE DEF P
  <2> QED
    BY <1>1, TableInduction
<1> QED
  BY <1>2

\* The root of a partition.
LEMMA RootFacts ==
  ASSUME world \in Worlds
  PROVE  \A i \in Oids :
           /\ Root(i) \in Oids /\ T[Root(i)].parent = 0
           /\ Root(i) # i => T[Root(i)].parted /\ T[i].parent # 0
           /\ T[Root(i)].schema = T[i].schema
           /\ Covers(Root(i), i) /\ Root(Root(i)) = Root(i)
<1> DEFINE Good(i) == /\ Root(i) \in Oids /\ T[Root(i)].parent = 0
                      /\ Root(i) # i => T[Root(i)].parted /\ T[i].parent # 0
                      /\ T[Root(i)].schema = T[i].schema
                      /\ Covers(Root(i), i) /\ Root(Root(i)) = Root(i)
           P == {i \in Oids : Good(i)}
<1>1. ASSUME NEW i \in Oids, \A j \in DependsOn(i) : j \in P PROVE i \in P
  <2>1. CASE T[i].parent = 0
    <3>1. Root(i) = i
      BY <2>1, RootUnfolds
    <3>2. Covers(i, i)
      BY CoversUnfolds
    <3> QED
      BY <3>1, <3>2, <2>1
  <2>2. CASE T[i].parent # 0
    <3> DEFINE p == T[i].parent
    <3>1. p \in Oids /\ T[p].parted /\ T[i].schema = T[p].schema
      BY <2>2, TableSound
    <3>2. Good(p)
      BY <2>2, <1>1 DEF DependsOn
    <3>3. Root(i) = Root(p)
      BY <2>2, RootUnfolds
    <3>4. Covers(Root(p), i)
      BY <2>2, <3>2, CoversUnfolds
    <3>5. T[Root(p)].parted
      BY <3>1, <3>2
    <3> QED
      BY <2>2, <3>1, <3>2, <3>3, <3>4, <3>5
  <2> QED
    BY <2>1, <2>2
<1>2. Oids \subseteq P
  <2> HIDE DEF P
  <2> QED
    BY <1>1, TableInduction
<1> QED
  BY <1>2

LEMMA CoversFacts ==
  ASSUME world \in Worlds, NEW d
  PROVE  \A i \in Oids : Covers(d, i) =>
           /\ d \in Oids
           /\ d # i => T[d].parted /\ T[i].parent # 0
           /\ T[d].schema = T[i].schema /\ Root(d) = Root(i)
           /\ T[d].parent = 0 => d = Root(i)
<1> DEFINE Good(i) == Covers(d, i) =>
             /\ d \in Oids
             /\ d # i => T[d].parted /\ T[i].parent # 0
             /\ T[d].schema = T[i].schema /\ Root(d) = Root(i)
             /\ T[d].parent = 0 => d = Root(i)
           P == {i \in Oids : Good(i)}
<1>1. ASSUME NEW i \in Oids, \A j \in DependsOn(i) : j \in P PROVE i \in P
  <2> SUFFICES ASSUME Covers(d, i) PROVE Good(i)
    OBVIOUS
  <2>1. CASE i = d
    BY <2>1, RootUnfolds
  <2>2. CASE i # d
    <3> DEFINE p == T[i].parent
    <3>1. p # 0 /\ Covers(d, p)
      BY <2>2, CoversUnfolds
    <3>2. p \in Oids /\ T[p].parted /\ T[i].schema = T[p].schema
      BY <3>1, TableSound
    <3>3. Good(p)
      BY <3>1, <1>1 DEF DependsOn
    <3>4. Root(i) = Root(p)
      BY <3>1, RootUnfolds
    <3> QED
      BY <3>1, <3>2, <3>3, <3>4
  <2> QED
    BY <2>1, <2>2
<1>2. Oids \subseteq P
  <2> HIDE DEF P
  <2> QED
    BY <1>1, TableInduction
<1> QED
  BY <1>2

\* Of two COPYs that cover a table one covers the other.
LEMMA CoversLinear ==
  ASSUME world \in Worlds, NEW d, NEW e
  PROVE  \A i \in Oids : Covers(d, i) /\ Covers(e, i) => Covers(d, e) \/ Covers(e, d)
<1> DEFINE P == {i \in Oids : Covers(d, i) /\ Covers(e, i) => Covers(d, e) \/ Covers(e, d)}
<1>1. ASSUME NEW i \in Oids, \A j \in DependsOn(i) : j \in P PROVE i \in P
  <2> SUFFICES ASSUME Covers(d, i), Covers(e, i) PROVE Covers(d, e) \/ Covers(e, d)
    OBVIOUS
  <2>1. CASE i = d \/ i = e
    BY <2>1
  <2>2. CASE i # d /\ i # e
    <3>1. T[i].parent # 0 /\ Covers(d, T[i].parent) /\ Covers(e, T[i].parent)
      BY <2>2, CoversUnfolds
    <3>2. T[i].parent \in P
      BY <3>1, <1>1 DEF DependsOn
    <3> QED
      BY <3>1, <3>2
  <2> QED
    BY <2>1, <2>2
<1>2. Oids \subseteq P
  <2> HIDE DEF P
  <2> QED
    BY <1>1, TableInduction
<1> QED
  BY <1>2

-----------------------------------------------------------------------------
(* The command line                                                        *)

LEMMA FlagsFinite == IsFiniteSet(TableFlags \cup SchemaFlags)
<1>1. \A a, b : IsFiniteSet({a} \cup {b})
  BY FS_Singleton, FS_Union
<1>2. \A a, b, c, d : IsFiniteSet(({a} \cup {b}) \cup ({c} \cup {d}))
  BY <1>1, FS_Union
<1>3. TableFlags = ({"include-table"} \cup {"include-table-file"})
                   \cup ({"exclude-table"} \cup {"exclude-table-file"})
  BY DEF TableFlags
<1>4. SchemaFlags = ({"include-schema"} \cup {"include-schema-file"})
                    \cup ({"exclude-schema"} \cup {"exclude-schema-file"})
  BY DEF SchemaFlags
<1>5. IsFiniteSet(TableFlags) /\ IsFiniteSet(SchemaFlags)
  BY <1>2, <1>3, <1>4, Zenon
<1> QED
  BY <1>5, FS_Union

LEMMA TwoElements ==
  ASSUME NEW S, IsFiniteSet(S), NEW a \in S, NEW b \in S, a # b
  PROVE  Cardinality(S) > 1
<1>1. IsFiniteSet({a}) /\ Cardinality({a}) = 1
  BY FS_Singleton
<1>2. {a} \cup {b} = {a, b} /\ b \notin {a}
  OBVIOUS
<1>3. Cardinality({a, b}) = 2
  BY <1>1, <1>2, FS_AddElement
<1>4. Cardinality({a, b}) <= Cardinality(S) /\ Cardinality(S) \in Nat
  BY FS_Subset, FS_CardinalityType
<1> QED
  BY <1>3, <1>4

\* Only one flag of an exclusive group is given.
LEMMA OnlyOneFlag ==
  ASSUME ~FlagsConflict, NEW group \in ExclusiveFlags, group \subseteq TableFlags \cup SchemaFlags,
         NEW f \in group, NEW g \in group, f \in DOMAIN world.flags, g \in DOMAIN world.flags
  PROVE  f = g
<1> DEFINE S == {h \in group : Changed(h)}
<1>1. f \in S /\ g \in S
  BY DEF Changed, TableFlags, SchemaFlags
<1>2. IsFiniteSet(S)
  BY FlagsFinite, FS_Subset
<1>3. ~(Cardinality(S) > 1)
  BY Zenon DEF FlagsConflict
<1> HIDE DEF S
<1> QED
  BY <1>1, <1>2, <1>3, TwoElements

\* A list of tables to include goes with no other filter.
LEMMA OneList ==
  ASSUME ~FlagsConflict, IncludedTables # {}
  PROVE  /\ ExcludedTables = {}
         /\ IncludedSchemas = {} /\ ExcludedSchemas = {}
<1> DEFINE S1 == {"include-schema", "include-schema-file", "include-table", "include-table-file"}
           S3 == {"exclude-schema", "exclude-schema-file", "exclude-table", "include-table",
                  "exclude-table-file", "include-table-file"}
<1>1. PICK f \in {"include-table", "include-table-file"} : f \in DOMAIN world.flags
  BY DEF IncludedTables, Filters
<1>2. f \in S1 /\ f \in S3 /\ f \notin {"include-schema", "include-schema-file"}
      /\ f \notin {"exclude-schema", "exclude-schema-file", "exclude-table", "exclude-table-file"}
  BY <1>1
<1>3. S1 \in ExclusiveFlags /\ S3 \in ExclusiveFlags
  BY DEF ExclusiveFlags
<1>4. S1 \subseteq TableFlags \cup SchemaFlags /\ S3 \subseteq TableFlags \cup SchemaFlags
  BY DEF TableFlags, SchemaFlags
<1>5. \A g \in {"include-schema", "include-schema-file"} : g \in S1 /\ g # f
  BY <1>2
<1>6. \A g \in {"exclude-schema", "exclude-schema-file", "exclude-table", "exclude-table-file"} :
        g \in S3 /\ g # f
  BY <1>2
<1> HIDE DEF S1, S3
<1>7. \A g \in {"include-schema", "include-schema-file"} : g \notin DOMAIN world.flags
  BY <1>1, <1>2, <1>3, <1>4, <1>5, OnlyOneFlag
<1>8. \A g \in {"exclude-schema", "exclude-schema-file", "exclude-table", "exclude-table-file"} :
        g \notin DOMAIN world.flags
  BY <1>1, <1>2, <1>3, <1>4, <1>6, OnlyOneFlag
<1>9. ExcludedTables = {}
  BY <1>8 DEF ExcludedTables, Filters
<1>10. IncludedSchemas = {}
  BY <1>7 DEF IncludedSchemas, Filters
<1>11. ExcludedSchemas = {}
  BY <1>8 DEF ExcludedSchemas, Filters
<1> QED
  BY <1>9, <1>10, <1>11

\* The oids that --include-table names.
NamedOids == {name.oid : name \in IncludedTables}

LEMMA FilterTypes ==
  ASSUME world \in Worlds
  PROVE  /\ \A name \in IncludedTables : name.oid \in Oids \cup {0}
         /\ \A name \in ExcludedTables : name.oid \in Oids \cup {0}
<1>1. \A f \in DOMAIN world.flags \cap TableFlags :
        \A name \in world.flags[f] : name.oid \in Oids \cup {0}
  BY WorldFacts
<1>2. \A name \in IncludedTables : \E f \in DOMAIN world.flags \cap TableFlags :
        name \in world.flags[f]
  BY DEF IncludedTables, Filters, TableFlags
<1>3. \A name \in ExcludedTables : \E f \in DOMAIN world.flags \cap TableFlags :
        name \in world.flags[f]
  BY DEF ExcludedTables, Filters, TableFlags
<1>4. \A name \in IncludedTables : name.oid \in Oids \cup {0}
  BY <1>1, <1>2, Zenon
<1>5. \A name \in ExcludedTables : name.oid \in Oids \cup {0}
  BY <1>1, <1>3, Zenon
<1> QED
  BY <1>4, <1>5

LEMMA NamedAsOids == \A i : Named(i) <=> i \in NamedOids
BY DEF Named, NamedOids

-----------------------------------------------------------------------------
(* The world stays                                                         *)

\* Root and Ancestors of a given world.
RootIn(w, i) ==
  LET up[j \in DOMAIN w.tables] == IF w.tables[j].parent = 0 THEN j ELSE up[w.tables[j].parent]
  IN  up[i]
AncestorsIn(w, i) ==
  LET up[j \in DOMAIN w.tables] == {j} \cup UNION {up[k] : k \in w.tables[j].inherits} IN up[i]

LEMMA RootOfWorld == \A i : Root(i) = RootIn(world, i)
BY DEF Root, RootIn, Oids, T
LEMMA AncestorsOfWorld == \A i : Ancestors(i) = AncestorsIn(world, i)
BY DEF Ancestors, AncestorsIn, Oids, T

LEMMA CatalogKept ==
  ASSUME world' = world
  PROVE  /\ T' = T /\ Oids' = Oids /\ AtLeast7' = AtLeast7
         /\ \A i : Root(i)' = Root(i)
         /\ \A i : Ancestors(i)' = Ancestors(i)
         /\ \A i : Level(i)' = Level(i)
<1>1. T' = T /\ Oids' = Oids
  BY DEF T, Oids
<1>2. AtLeast7' = AtLeast7
  BY DEF AtLeast7
<1>3. \A i : Root(i)' = Root(i)
  <2>1. (\A i : Root(i) = RootIn(world, i))'
    BY RootOfWorld, PTL
  <2> QED
    BY <2>1, RootOfWorld
<1>4. \A i : Ancestors(i)' = Ancestors(i)
  <2>1. (\A i : Ancestors(i) = AncestorsIn(world, i))'
    BY AncestorsOfWorld, PTL
  <2> QED
    BY <2>1, AncestorsOfWorld
<1>5. \A i : Level(i)' = Level(i)
  BY <1>1 DEF Level
<1> QED
  BY <1>1, <1>2, <1>3, <1>4, <1>5

LEMMA CommandKept ==
  ASSUME world' = world
  PROVE  /\ IncludedTables' = IncludedTables /\ ExcludedTables' = ExcludedTables
         /\ NamedOids' = NamedOids
         /\ FlagsConflict' = FlagsConflict
         /\ \A i : Named(i)' <=> Named(i)
         /\ \A name : Refused(name)' <=> Refused(name)
         /\ \A i : ExcludedWith(i)' = ExcludedWith(i)
         /\ \A i : SchemaFilterClause(i)' <=> SchemaFilterClause(i)
<1>1. \A f, g : Filters(f, g)' = Filters(f, g)
  BY DEF Filters
<1>2. IncludedTables' = IncludedTables /\ ExcludedTables' = ExcludedTables
  BY DEF Filters, IncludedTables, ExcludedTables
<1>3. IncludedSchemas' = IncludedSchemas /\ ExcludedSchemas' = ExcludedSchemas
  BY DEF Filters, IncludedSchemas, ExcludedSchemas
<1>4. \A f : Changed(f)' <=> Changed(f)
  BY DEF Changed
<1>5. FlagsConflict' = FlagsConflict
  BY DEF FlagsConflict, Changed
<1>6. NamedOids' = NamedOids /\ \A i : Named(i)' <=> Named(i)
  BY <1>2 DEF NamedOids, Named
<1>7. \A name : Refused(name)' <=> Refused(name)
  BY <1>2, CatalogKept DEF Refused
<1>8. \A i : ExcludedWith(i)' = ExcludedWith(i)
  BY CatalogKept DEF ExcludedWith
<1>9. \A i : SchemaFilterClause(i)' <=> SchemaFilterClause(i)
  BY <1>3, CatalogKept DEF SchemaFilterClause
<1> QED
  BY <1>2, <1>5, <1>6, <1>7, <1>8, <1>9

-----------------------------------------------------------------------------
(* The invariant                                                           *)

Started == pc \notin {"flags", "fatal"}
Listed  == pc \in {"retrieve", "split", "dataset", "done"}
Loaded  == pc \in {"split", "dataset", "done"}

\* The flags agree, and the names that have been looked at are accepted.
CommandInv ==
  /\ pc = "flags" => /\ IncludedRelationFqns = {} /\ ExcludedRelationFqns = {}
                     /\ expandedIncludeOids = {} /\ passes = <<>>
  /\ Started =>
       /\ ~FlagsConflict
       /\ left \subseteq IncludedTables \cup ExcludedTables
       /\ pc # "validate" => left = {}
       /\ \A name \in IncludedTables \cup ExcludedTables : name \in left \/ ~Refused(name)
       /\ ExcludedRelationFqns =
            UNION {ExcludedWith(name.oid) :
                     name \in {n \in ExcludedTables : n \notin left /\ n.oid # 0}}
       /\ pc = "validate" => /\ expandedIncludeOids = {} /\ passes = <<>>
                             /\ IncludedRelationFqns =
                                  {name.oid : name \in {n \in IncludedTables : n \notin left}}
       /\ pc = "expand" => IncludedRelationFqns = NamedOids

\* Roots that are named, in version 6 without a partition of theirs.
Lonely(r) ==
  /\ Named(r) /\ T[r].parent = 0
  /\ AtLeast7 \/ \A j \in Oids : Named(j) /\ Root(j) = r => j = r

\* What recurseTableDepend has found: the partitions of lonely roots, what is
\* asked for, the ancestors of that, the parents of partitions; and before
\* version 7 with a data file per root, no partition but external ones.
LonelyFound(S) ==
  AtLeast7 \/ world.leaf => \A j \in Oids : T[j].parent # 0 /\ Lonely(T[j].parent) => j \in S
AskedFound(S) ==
  \A i \in Oids : Asked(i) /\ (AtLeast7 \/ world.leaf \/ T[i].parent = 0) => i \in S
AncestorsFound(S) == \A i \in Oids : AskedOrAncestor(i) => T[i].inherits \subseteq S
ParentsFound(S) == \A i \in S : T[i].parent # 0 => T[i].parent \in S
RootsOnly(S) ==
  ~AtLeast7 /\ ~world.leaf =>
    \A i \in S : T[i].parent # 0 => T[i].external /\ T[i].parent \in S

First == IF AtLeast7 THEN <<"children", "parents">> ELSE <<"children", "parents", "children">>
Later == IF AtLeast7 THEN {<<"parents">>, <<>>}
         ELSE {<<"parents", "children">>, <<"children">>, <<>>}

PassesInv ==
  pc = "expand" \/ Listed =>
    /\ NamedOids \subseteq expandedIncludeOids /\ expandedIncludeOids \subseteq Oids
    /\ Listed => passes = <<>>
    /\ IncludedTables = {} \/ world.noInherits =>
         passes = <<>> /\ expandedIncludeOids = NamedOids
    /\ RootsOnly(expandedIncludeOids)
    /\ IncludedTables # {} /\ ~world.noInherits =>
         /\ passes \in {First} \cup Later
         /\ passes = First =>
              expandedIncludeOids = NamedOids \/ LonelyFound(expandedIncludeOids)
         /\ passes \in Later => AskedFound(expandedIncludeOids)
         /\ passes \in {<<"children">>, <<>>} =>
              AncestorsFound(expandedIncludeOids) /\ ParentsFound(expandedIncludeOids)
         /\ AtLeast7 /\ passes = <<>> =>
              \A i \in expandedIncludeOids : DependsOn(i) \subseteq expandedIncludeOids

\* The lists are what the queries return.
Found == [i \in Oids |-> Count(i \in GetIncludedUserTableRelations)
                         + Count(i \in GetForeignTableRelations)
                         + Count(i \in GetExtensionTableRelations)]
Entries == [i \in Oids |-> Found[i] * MetadataEntries(i)]
WithData == Only(Found, {i \in Oids : HasData(i)})
CopiedHere == IF world.metadataOnly THEN {} ELSE {i \in Oids : ~IsQDOnly(i) /\ ~SkipDataBackup(i)}
WrittenHere == IF world.metadataOnly THEN {} ELSE {i \in Oids : IsQDOnly(i)}

ListsInv ==
  /\ Listed => IncludedRelationFqns = NamedOids \cup
       {i \in expandedIncludeOids : SchemaFilterClause(i) /\ ~T[i].member}
  /\ Loaded => tables = Found
  /\ pc \in {"dataset", "done"} => metadataTables = Entries
  /\ pc = "dataset" => dataTables = WithData
  /\ pc = "done" => /\ dataTables = Only(WithData, CopiedHere)
                    /\ dataTablesQDOnly = Only(WithData, WrittenHere)

SelectionIInv ==
  /\ world \in Worlds
  /\ pc \in {"flags", "fatal", "validate", "expand"} \/ Listed
  /\ CommandInv /\ PassesInv /\ ListsInv

-----------------------------------------------------------------------------
(* Expansion                                                               *)

LEMMA DependsOnOids ==
  ASSUME world \in Worlds
  PROVE  \A i \in Oids : DependsOn(i) \subseteq Oids
BY TableSound DEF DependsOn

\* Without inheritance between them, partitions depend on their parent alone.
LEMMA PartitionDepends ==
  ASSUME world \in Worlds, NEW i \in Oids, T[i].parent # 0
  PROVE  DependsOn(i) = {T[i].parent} /\ Ancestors(i) = {i}
<1>1. T[i].inherits = {}
  BY TableSound
<1>2. Ancestors(i) = {i} \cup UNION {Ancestors(k) : k \in T[i].inherits}
  BY AncestorsUnfold
<1> QED
  BY <1>1, <1>2 DEF DependsOn

\* What the first pass has found when it finds nothing more.
LEMMA AskedAreFound ==
  ASSUME world \in Worlds, NEW S \in SUBSET Oids, NamedOids \subseteq S,
         Children(S) \subseteq S, LonelyFound(S)
  PROVE  AskedFound(S)
<1> DEFINE Heir(i) == \E j \in Ancestors(i) : Named(j)
           P == {i \in Oids : Heir(i) => i \in S}
           Below(i) == Lonely(Root(i)) /\ (AtLeast7 \/ world.leaf)
           Q == {i \in Oids : Below(i) => i \in S}
<1>1. ASSUME NEW j \in Oids, NEW k \in DependsOn(j), k \in S,
             \/ AtLeast7 \/ ~InnerPartition(j)
             \/ world.leaf /\ k \notin {Root(n) : n \in {n \in S : T[n].parent # 0}}
      PROVE  j \in S
  BY <1>1 DEF Children, Child
<1>2. ASSUME NEW i \in Oids, \A j \in DependsOn(i) : j \in P PROVE i \in P
  <2> SUFFICES ASSUME Heir(i) PROVE i \in S
    OBVIOUS
  <2>1. CASE Named(i)
    BY <2>1, NamedAsOids
  <2>2. CASE ~Named(i)
    <3>1. Ancestors(i) = {i} \cup UNION {Ancestors(k) : k \in T[i].inherits}
      BY AncestorsUnfold
    <3>2. PICK k \in T[i].inherits : Heir(k)
      BY <3>1, <2>2
    <3>3. k \in DependsOn(i) /\ k \in S
      BY <3>2, <1>2 DEF DependsOn
    <3>4. ~InnerPartition(i)
      BY <3>2, TableSound DEF InnerPartition
    <3> QED
      BY <3>3, <3>4, <1>1
  <2> QED
    BY <2>1, <2>2
<1>3. Oids \subseteq P
  <2> HIDE DEF P
  <2> QED
    BY <1>2, TableInduction
<1>4. ASSUME NEW i \in Oids, \A j \in DependsOn(i) : j \in Q PROVE i \in Q
  <2> SUFFICES ASSUME Below(i) PROVE i \in S
    OBVIOUS
  <2>1. CASE T[i].parent = 0
    <3>1. Root(i) = i
      BY <2>1, RootUnfolds
    <3> QED
      BY <3>1, NamedAsOids DEF Lonely
  <2>2. CASE T[i].parent # 0
    <3> DEFINE p == T[i].parent
    <3>1. p \in Oids /\ p \in DependsOn(i) /\ Root(i) = Root(p)
      BY <2>2, TableSound, RootUnfolds DEF DependsOn
    <3>2. p \in S
      BY <3>1, <1>4
    <3>3. CASE T[p].parent = 0
      <4>1. Root(p) = p
        BY <3>1, <3>3, RootUnfolds
      <4> QED
        BY <4>1, <3>1, <2>2 DEF LonelyFound
    <3>4. CASE T[p].parent # 0
      <4>1. \A n \in Oids : T[Root(n)].parent = 0
        BY RootFacts
      <4>2. p \notin {Root(n) : n \in {n \in S : T[n].parent # 0}}
        BY <4>1, <3>4
      <4> QED
        BY <4>2, <3>1, <3>2, <1>1
    <3> QED
      BY <3>3, <3>4
  <2> QED
    BY <2>1, <2>2
<1>5. Oids \subseteq Q
  <2> HIDE DEF Q
  <2> QED
    BY <1>4, TableInduction
<1> SUFFICES ASSUME NEW i \in Oids, Asked(i), AtLeast7 \/ world.leaf \/ T[i].parent = 0
             PROVE  i \in S
  BY DEF AskedFound
<1>6. CASE Named(i) \/ Heir(i)
  BY <1>6, <1>3, NamedAsOids
<1>7. CASE ~Named(i) /\ ~Heir(i)
  <2>1. Named(Root(i)) /\ (world.leaf => AtLeast7 \/ \A j \in Oids : Named(j) /\ Root(j) = Root(i) => j = Root(i))
    BY <1>7 DEF Asked
  <2>2. CASE AtLeast7 \/ world.leaf
    <3>1. Lonely(Root(i))
      BY <2>1, <2>2, RootFacts DEF Lonely
    <3> QED
      BY <3>1, <2>2, <1>5
  <2>3. CASE ~AtLeast7 /\ ~world.leaf
    <3>1. Root(i) = i
      BY <2>3, RootUnfolds
    <3> QED
      BY <3>1, <2>1, <1>7
  <2> QED
    BY <2>2, <2>3
<1> QED
  BY <1>6, <1>7

\* What the second pass has found, from what the first one had.
LEMMA AncestorsAreFound ==
  ASSUME world \in Worlds, NEW S \in SUBSET Oids, AskedFound(S), Parents(S) \subseteq S
  PROVE  AncestorsFound(S) /\ ParentsFound(S) /\ \A i \in S : DependsOn(i) \subseteq S
<1> DEFINE P == {i \in Oids : i \in S => Ancestors(i) \subseteq S}
<1>1. \A i \in S : DependsOn(i) \subseteq S
  BY DEF Parents
<1>2. ParentsFound(S)
  BY <1>1 DEF ParentsFound, DependsOn
<1>3. ASSUME NEW i \in Oids, \A j \in DependsOn(i) : j \in P PROVE i \in P
  <2> SUFFICES ASSUME i \in S PROVE Ancestors(i) \subseteq S
    OBVIOUS
  <2>1. Ancestors(i) = {i} \cup UNION {Ancestors(k) : k \in T[i].inherits}
    BY AncestorsUnfold
  <2>2. \A k \in T[i].inherits : k \in DependsOn(i) /\ k \in S
    BY <1>1 DEF DependsOn
  <2>3. \A k \in T[i].inherits : Ancestors(k) \subseteq S
    BY <2>2, <1>3
  <2> QED
    BY <2>1, <2>3
<1>4. Oids \subseteq P
  <2> HIDE DEF P
  <2> QED
    BY <1>3, TableInduction
<1>5. ASSUME NEW i \in Oids, AskedOrAncestor(i) PROVE T[i].inherits \subseteq S
  <2>1. PICK j \in Oids : Asked(j) /\ i \in Ancestors(j)
    BY <1>5 DEF AskedOrAncestor
  <2>2. CASE T[j].parent # 0
    <3>1. i = j /\ T[j].inherits = {}
      BY <2>1, <2>2, PartitionDepends, TableSound
    <3> QED
      BY <3>1
  <2>3. CASE T[j].parent = 0
    <3>1. i \in S
      BY <2>1, <2>3, <1>4 DEF AskedFound
    <3> QED
      BY <3>1, <1>1 DEF DependsOn
  <2> QED
    BY <2>2, <2>3
<1> QED
  BY <1>1, <1>2, <1>5 DEF AncestorsFound

\* A pass keeps what has been found.
LEMMA FoundGrows ==
  ASSUME NEW S, NEW D
  PROVE  /\ LonelyFound(S) => LonelyFound(S \cup D)
         /\ AskedFound(S) => AskedFound(S \cup D)
         /\ AncestorsFound(S) => AncestorsFound(S \cup D)
BY DEF LonelyFound, AskedFound, AncestorsFound

LEMMA ChildrenFound ==
  ASSUME world \in Worlds, NEW S \in SUBSET Oids
  PROVE  /\ Children(S) \subseteq Oids
         /\ S = NamedOids => LonelyFound(S \cup Children(S))
         /\ ParentsFound(S) => ParentsFound(S \cup Children(S))
         /\ RootsOnly(S) => RootsOnly(S \cup Children(S))
<1>1. Children(S) \subseteq Oids
  BY DEF Children
<1>2. ASSUME NEW j \in Children(S), T[j].parent # 0
      PROVE  T[j].parent \in S /\ Child(j, T[j].parent, S)
  <2>1. j \in Oids
    BY <1>1
  <2>2. DependsOn(j) = {T[j].parent}
    BY <2>1, <1>2, PartitionDepends
  <2> QED
    BY <2>2 DEF Children
<1>3. ASSUME ParentsFound(S) PROVE ParentsFound(S \cup Children(S))
  BY <1>3, <1>2 DEF ParentsFound
<1>4. ASSUME RootsOnly(S) PROVE RootsOnly(S \cup Children(S))
  <2> SUFFICES ASSUME ~AtLeast7, ~world.leaf, NEW i \in S \cup Children(S), T[i].parent # 0
               PROVE  T[i].external /\ T[i].parent \in S \cup Children(S)
    BY DEF RootsOnly
  <2>1. CASE i \in S
    BY <2>1, <1>4 DEF RootsOnly
  <2>2. CASE i \in Children(S)
    BY <2>2, <1>2 DEF Child, InnerPartition
  <2> QED
    BY <2>1, <2>2
<1>5. ASSUME S = NamedOids PROVE LonelyFound(S \cup Children(S))
  <2> SUFFICES ASSUME AtLeast7 \/ world.leaf,
                      NEW j \in Oids, T[j].parent # 0, Lonely(T[j].parent), j \notin S
               PROVE  j \in Children(S)
    BY DEF LonelyFound
  <2> DEFINE p == T[j].parent
  <2>1. p \in S /\ p \in DependsOn(j) /\ T[p].parent = 0
    BY <1>5, NamedAsOids DEF Lonely, DependsOn
  <2>2. CASE AtLeast7
    BY <2>1, <2>2 DEF Children, Child
  <2>3. CASE ~AtLeast7
    <3>1. \A k \in Oids : Named(k) /\ Root(k) = p => k = p
      BY <2>3 DEF Lonely
    <3>2. \A k \in S : Named(k) /\ k \in Oids
      BY <1>5, NamedAsOids
    <3>3. p \notin {Root(k) : k \in {k \in S : T[k].parent # 0}}
      BY <3>1, <3>2, <2>1
    <3> QED
      BY <2>1, <3>3, <2>3 DEF Children, Child
  <2> QED
    BY <2>2, <2>3
<1> QED
  BY <1>1, <1>3, <1>4, <1>5

LEMMA ParentsAreOids ==
  ASSUME world \in Worlds, NEW S \in SUBSET Oids
  PROVE  /\ Parents(S) \subseteq Oids
         /\ RootsOnly(S) => RootsOnly(S \cup Parents(S))
<1>1. Parents(S) \subseteq Oids
  BY DependsOnOids DEF Parents
<1>2. ASSUME RootsOnly(S) PROVE RootsOnly(S \cup Parents(S))
  <2> SUFFICES ASSUME ~AtLeast7, ~world.leaf, NEW i \in S \cup Parents(S), T[i].parent # 0
               PROVE  T[i].external /\ T[i].parent \in S \cup Parents(S)
    BY DEF RootsOnly
  <2>1. CASE i \in S
    BY <2>1, <1>2 DEF RootsOnly
  <2>2. CASE i \notin S
    <3>1. PICK j \in S : i \in DependsOn(j)
      BY <2>2 DEF Parents
    <3>2. i \notin T[j].inherits
      BY <3>1, TableSound
    <3>3. i = T[j].parent /\ T[j].parent # 0
      BY <3>1, <3>2 DEF DependsOn
    <3> QED
      BY <3>3, <2>2, <1>2 DEF RootsOnly
  <2> QED
    BY <2>1, <2>2
<1> QED
  BY <1>1, <1>2

-----------------------------------------------------------------------------
(* The steps                                                               *)

LEMMA AskedKept ==
  ASSUME world' = world
  PROVE  /\ \A i : Asked(i)' <=> Asked(i)
         /\ \A i : AskedOrAncestor(i)' <=> AskedOrAncestor(i)
         /\ \A i : Lonely(i)' <=> Lonely(i)
         /\ \A i : DependsOn(i)' = DependsOn(i)
<1>1. \A i : Asked(i)' <=> Asked(i)
  BY CatalogKept, CommandKept DEF Asked
<1>2. \A i : AskedOrAncestor(i)' <=> AskedOrAncestor(i)
  BY <1>1, CatalogKept DEF AskedOrAncestor
<1>3. \A i : Lonely(i)' <=> Lonely(i)
  BY CatalogKept, CommandKept DEF Lonely
<1>4. \A i : DependsOn(i)' = DependsOn(i)
  BY CatalogKept DEF DependsOn
<1> QED
  BY <1>1, <1>2, <1>3, <1>4

LEMMA FindsKept ==
  ASSUME world' = world
  PROVE  /\ LonelyFound(expandedIncludeOids)' <=> LonelyFound(expandedIncludeOids')
         /\ AskedFound(expandedIncludeOids)' <=> AskedFound(expandedIncludeOids')
         /\ AncestorsFound(expandedIncludeOids)' <=> AncestorsFound(expandedIncludeOids')
         /\ ParentsFound(expandedIncludeOids)' <=> ParentsFound(expandedIncludeOids')
         /\ RootsOnly(expandedIncludeOids)' <=> RootsOnly(expandedIncludeOids')
<1>1. LonelyFound(expandedIncludeOids)' <=> LonelyFound(expandedIncludeOids')
  BY CatalogKept, AskedKept DEF LonelyFound
<1>2. AskedFound(expandedIncludeOids)' <=> AskedFound(expandedIncludeOids')
  BY CatalogKept, AskedKept DEF AskedFound
<1>3. AncestorsFound(expandedIncludeOids)' <=> AncestorsFound(expandedIncludeOids')
  BY CatalogKept, AskedKept DEF AncestorsFound
<1>4. ParentsFound(expandedIncludeOids)' <=> ParentsFound(expandedIncludeOids')
  BY CatalogKept DEF ParentsFound
<1>5. RootsOnly(expandedIncludeOids)' <=> RootsOnly(expandedIncludeOids')
  BY CatalogKept DEF RootsOnly
<1> QED
  BY <1>1, <1>2, <1>3, <1>4, <1>5

LEMMA ListsKept ==
  ASSUME UNCHANGED <<world, lists>>
  PROVE  /\ Found' = Found /\ Entries' = Entries /\ WithData' = WithData
         /\ Only(WithData, CopiedHere)' = Only(WithData, CopiedHere)
         /\ Only(WithData, WrittenHere)' = Only(WithData, WrittenHere)
<1>1. /\ IncludedRelationFqns' = IncludedRelationFqns
      /\ ExcludedRelationFqns' = ExcludedRelationFqns /\ world' = world
  BY DEF lists
<1>2. T' = T /\ Oids' = Oids /\ AtLeast7' = AtLeast7 /\ IncludedTables' = IncludedTables
      /\ ExcludedTables' = ExcludedTables
  BY <1>1, CatalogKept, CommandKept
<1>3. \A i : relationAndSchemaFilterClause(i)' <=> relationAndSchemaFilterClause(i)
  BY <1>1, <1>2, CommandKept DEF relationAndSchemaFilterClause
<1>4. GetIncludedUserTableRelations' = GetIncludedUserTableRelations
  BY <1>1, <1>2, <1>3 DEF GetIncludedUserTableRelations, getUserTableRelations,
     getUserTableRelationsWithIncludeFiltering, InnerPartition
<1>5. /\ GetForeignTableRelations' = GetForeignTableRelations
      /\ GetExtensionTableRelations' = GetExtensionTableRelations
  BY <1>2, <1>3 DEF GetForeignTableRelations, GetExtensionTableRelations
<1>6. Found' = Found
  BY <1>2, <1>4, <1>5 DEF Found, Count
<1>7. \A i : Skipped(i)' <=> Skipped(i)
  BY <1>1, <1>2, CatalogKept DEF Skipped, Attached
<1>8. \A i : MetadataEntries(i)' = MetadataEntries(i)
  BY <1>1, <1>2, <1>7, CatalogKept DEF MetadataEntries, Filtered
<1>9. Entries' = Entries
  BY <1>2, <1>6, <1>8 DEF Entries
<1>10. \A i : HasData(i)' <=> HasData(i)
  BY <1>1, <1>2, <1>7, CatalogKept DEF HasData, Filtered, Attached, IsParentInExtension
<1>11. {i \in Oids : HasData(i)}' = {i \in Oids : HasData(i)}
  BY <1>2, <1>10
<1>12. WithData' = WithData
  BY <1>2, <1>6, <1>11 DEF WithData, Only
<1>13. CopiedHere' = CopiedHere
  BY <1>1, <1>2 DEF CopiedHere, IsQDOnly, SkipDataBackup
<1>14. WrittenHere' = WrittenHere
  BY <1>1, <1>2 DEF WrittenHere, IsQDOnly
<1>15. /\ Only(WithData, CopiedHere)' = Only(WithData, CopiedHere)
       /\ Only(WithData, WrittenHere)' = Only(WithData, WrittenHere)
  BY <1>2, <1>12, <1>13, <1>14 DEF Only
<1> QED
  BY <1>6, <1>9, <1>12, <1>15

\* Names that are accepted stand for tables that are copied on their own.
LEMMA AcceptedNames ==
  ASSUME SelectionIInv, Started, pc # "validate"
  PROVE  /\ \A name \in IncludedTables \cup ExcludedTables :
              name.oid # 0 => /\ Level(name.oid) # "i"
                              /\ world.leaf \/ Level(name.oid) # "l"
         /\ NamedOids \subseteq Oids
         /\ \A i \in NamedOids : world.leaf \/ T[i].parent = 0
<1>1. \A name \in IncludedTables \cup ExcludedTables : ~Refused(name)
  BY DEF SelectionIInv, CommandInv
<1>2. \A name \in IncludedTables \cup ExcludedTables :
        name.oid # 0 => /\ Level(name.oid) # "i"
                        /\ world.leaf \/ Level(name.oid) # "l"
  BY <1>1 DEF Refused
<1>3. \A name \in IncludedTables : name.oid # 0 /\ name.oid \in Oids
  BY <1>1, FilterTypes DEF Refused, SelectionIInv
<1>4. \A i \in Oids : T[i].parent # 0 => Level(i) \in {"i", "l"}
  BY DEF Level
<1>5. NamedOids \subseteq Oids
  BY <1>3 DEF NamedOids
<1>6. \A i \in NamedOids : world.leaf \/ T[i].parent = 0
  BY <1>2, <1>3, <1>4 DEF NamedOids
<1> QED
  BY <1>2, <1>5, <1>6

\* Everything is carried along by a step that leaves the variables of a part alone.
LEMMA CommandInvKept ==
  ASSUME SelectionIInv, world' = world, left' = left, ExcludedRelationFqns' = ExcludedRelationFqns,
         Started, Started', pc # "validate", pc' # "validate", pc' # "expand"
  PROVE  CommandInv'
<1>1. pc' # "flags"
  BY DEF Started
<1>2. left' \subseteq IncludedTables' \cup ExcludedTables' /\ left' = {}
  BY CommandKept DEF SelectionIInv, CommandInv
<1>3. \A name \in IncludedTables' \cup ExcludedTables' : ~Refused(name)'
  BY CommandKept DEF SelectionIInv, CommandInv
<1>4. ExcludedRelationFqns' =
        UNION {ExcludedWith(name.oid)' :
                 name \in {n \in ExcludedTables' : n \notin left' /\ n.oid # 0}}
  BY CommandKept DEF SelectionIInv, CommandInv
<1>5. ~FlagsConflict'
  BY CommandKept DEF SelectionIInv, CommandInv
<1> QED
  BY <1>1, <1>2, <1>3, <1>4, <1>5 DEF CommandInv

LEMMA PassesInvKept ==
  ASSUME SelectionIInv, world' = world, passes' = passes,
         expandedIncludeOids' = expandedIncludeOids,
         pc = "expand" \/ Listed, Listed' => passes = <<>>
  PROVE  PassesInv'
<1>1. AtLeast7' = AtLeast7 /\ First' = First /\ Later' = Later /\ IncludedTables' = IncludedTables
      /\ NamedOids' = NamedOids /\ Oids' = Oids
  BY CatalogKept, CommandKept DEF First, Later
<1>2. PassesInv
  BY DEF SelectionIInv
<1>3. \A i : DependsOn(i)' = DependsOn(i)
  BY AskedKept
<1>4. /\ LonelyFound(expandedIncludeOids)' <=> LonelyFound(expandedIncludeOids)
      /\ AskedFound(expandedIncludeOids)' <=> AskedFound(expandedIncludeOids)
      /\ AncestorsFound(expandedIncludeOids)' <=> AncestorsFound(expandedIncludeOids)
      /\ ParentsFound(expandedIncludeOids)' <=> ParentsFound(expandedIncludeOids)
      /\ RootsOnly(expandedIncludeOids)' <=> RootsOnly(expandedIncludeOids)
  BY FindsKept
<1>5. /\ NamedOids' \subseteq expandedIncludeOids' /\ expandedIncludeOids' \subseteq Oids'
      /\ IncludedTables' = {} \/ world'.noInherits =>
           passes' = <<>> /\ expandedIncludeOids' = NamedOids'
      /\ RootsOnly(expandedIncludeOids)'
  BY <1>1, <1>2, <1>4 DEF PassesInv
<1>6. ASSUME IncludedTables # {} /\ ~world.noInherits
      PROVE  /\ passes' \in {First'} \cup Later'
             /\ passes' = First' =>
                  expandedIncludeOids' = NamedOids' \/ LonelyFound(expandedIncludeOids)'
             /\ passes' \in Later' => AskedFound(expandedIncludeOids)'
             /\ passes' \in {<<"children">>, <<>>} =>
                  AncestorsFound(expandedIncludeOids)' /\ ParentsFound(expandedIncludeOids)'
             /\ AtLeast7' /\ passes' = <<>> =>
                  \A i \in expandedIncludeOids' : DependsOn(i)' \subseteq expandedIncludeOids'
  BY <1>1, <1>2, <1>3, <1>4, <1>6 DEF PassesInv
<1> QED
  BY <1>1, <1>5, <1>6 DEF PassesInv

LEMMA FlagsStep ==
  ASSUME SelectionIInv, validateFlagCombinations
  PROVE  SelectionIInv'
<1>1. pc = "flags" /\ world' = world /\ pc' \in {"fatal", "validate"}
  BY DEF validateFlagCombinations
<1>2. UNCHANGED <<IncludedRelationFqns, ExcludedRelationFqns, passes, expandedIncludeOids>>
  BY DEF validateFlagCombinations, lists
<1>3. ~Listed' /\ ~Loaded' /\ PassesInv' /\ ListsInv'
  BY <1>1 DEF Listed, Loaded, PassesInv, ListsInv
<1>4. CASE pc' = "fatal"
  <2>1. CommandInv'
    BY <1>4 DEF CommandInv, Started
  <2> QED
    BY <2>1, <1>1, <1>3, <1>4 DEF SelectionIInv
<1>5. CASE pc' = "validate"
  <2>1. ~FlagsConflict /\ left' = IncludedTables \cup ExcludedTables
    BY <1>5 DEF validateFlagCombinations
  <2>2. left' = IncludedTables' \cup ExcludedTables' /\ ~FlagsConflict'
    BY <2>1, <1>1, CommandKept
  <2>3. /\ IncludedRelationFqns' = {} /\ ExcludedRelationFqns' = {}
        /\ expandedIncludeOids' = {} /\ passes' = <<>>
    BY <1>1, <1>2 DEF SelectionIInv, CommandInv
  <2>4. {n \in ExcludedTables' : n \notin left' /\ n.oid # 0} = {}
        /\ {n \in IncludedTables' : n \notin left'} = {}
    BY <2>2
  <2>5. CommandInv'
    BY <2>2, <2>3, <2>4, <1>5 DEF CommandInv, Started
  <2> QED
    BY <2>5, <1>1, <1>3, <1>5 DEF SelectionIInv
<1> QED
  BY <1>1, <1>4, <1>5

LEMMA NamesStep ==
  ASSUME SelectionIInv, ValidateTablesExist
  PROVE  SelectionIInv'
<1>1. pc = "validate" /\ world' = world /\ pc' \in {"fatal", "validate"}
      /\ passes' = passes /\ expandedIncludeOids' = expandedIncludeOids
  BY DEF ValidateTablesExist
<1>2. Started /\ CommandInv
  BY <1>1 DEF Started, SelectionIInv
<1>3. ~Listed' /\ ~Loaded' /\ PassesInv' /\ ListsInv'
  BY <1>1 DEF Listed, Loaded, PassesInv, ListsInv
<1>4. CASE pc' = "fatal"
  <2>1. CommandInv'
    BY <1>4 DEF CommandInv, Started
  <2> QED
    BY <2>1, <1>1, <1>3, <1>4 DEF SelectionIInv
<1>5. CASE pc' = "validate"
  <2>1. PICK name \in left :
          /\ left' = left \ {name}
          /\ pc' = IF Refused(name) THEN "fatal" ELSE pc
          /\ IF Refused(name) \/ name.oid = 0 THEN UNCHANGED lists
             ELSE IF name \in ExcludedTables
             THEN /\ ExcludedRelationFqns' = ExcludedRelationFqns \cup ExcludedWith(name.oid)
                  /\ UNCHANGED IncludedRelationFqns
             ELSE /\ IncludedRelationFqns' = IncludedRelationFqns \cup {name.oid}
                  /\ UNCHANGED ExcludedRelationFqns
    BY DEF ValidateTablesExist
  <2>2. ~Refused(name)
    BY <2>1, <1>5
  <2>3. /\ left \subseteq IncludedTables \cup ExcludedTables
        /\ \A n \in IncludedTables \cup ExcludedTables : n \in left \/ ~Refused(n)
        /\ expandedIncludeOids = {} /\ passes = <<>> /\ ~FlagsConflict
    BY <1>1, <1>2 DEF CommandInv
  <2>4. IncludedTables' = IncludedTables /\ ExcludedTables' = ExcludedTables
        /\ ~FlagsConflict' /\ (\A n : Refused(n)' <=> Refused(n))
        /\ (\A i : ExcludedWith(i)' = ExcludedWith(i))
    BY <1>1, <2>3, CommandKept
  <2>5. /\ left' \subseteq IncludedTables' \cup ExcludedTables'
        /\ \A n \in IncludedTables' \cup ExcludedTables' : n \in left' \/ ~Refused(n)'
    BY <2>1, <2>2, <2>3, <2>4
  <2> DEFINE Inc(S) == {n.oid : n \in {n \in IncludedTables : n \notin S}}
             Exc(S) == UNION {ExcludedWith(n.oid) :
                                n \in {n \in ExcludedTables : n \notin S /\ n.oid # 0}}
  <2>6. IncludedRelationFqns = Inc(left) /\ ExcludedRelationFqns = Exc(left)
    BY <1>1, <1>2 DEF CommandInv
  <2>7. IncludedTables = {} \/ ExcludedTables = {}
    BY <2>3, OneList
  <2>8. IncludedRelationFqns' = Inc(left') /\ ExcludedRelationFqns' = Exc(left')
    <3>1. CASE name.oid = 0
      <4>1. name \notin IncludedTables
        BY <3>1, <2>2 DEF Refused
      <4>2. Inc(left') = Inc(left)
        BY <4>1, <2>1
      <4>3. Exc(left') = Exc(left)
        BY <3>1, <2>1
      <4> QED
        BY <4>2, <4>3, <3>1, <2>1, <2>6 DEF lists
    <3>2. CASE name.oid # 0 /\ name \in ExcludedTables
      <4>1. Inc(left') = Inc(left)
        BY <3>2, <2>7
      <4>2. {n \in ExcludedTables : n \notin left' /\ n.oid # 0}
              = {n \in ExcludedTables : n \notin left /\ n.oid # 0} \cup {name}
        BY <3>2, <2>1
      <4>3. Exc(left') = Exc(left) \cup ExcludedWith(name.oid)
        BY <4>2
      <4> QED
        BY <4>1, <4>3, <3>2, <2>1, <2>2, <2>6
    <3>3. CASE name.oid # 0 /\ name \notin ExcludedTables
      <4>1. name \in IncludedTables
        BY <3>3, <2>3
      <4>2. Exc(left') = Exc(left)
        BY <4>1, <2>7
      <4>3. {n \in IncludedTables : n \notin left'}
              = {n \in IncludedTables : n \notin left} \cup {name}
        BY <4>1, <2>1
      <4>4. Inc(left') = Inc(left) \cup {name.oid}
        BY <4>3
      <4> QED
        BY <4>2, <4>4, <3>3, <2>1, <2>2, <2>6
    <3> QED
      BY <3>1, <3>2, <3>3
  <2>9. CommandInv'
    BY <2>3, <2>4, <2>5, <2>8, <1>1, <1>5 DEF CommandInv, Started
  <2> QED
    BY <2>9, <1>1, <1>3, <1>5 DEF SelectionIInv
<1> QED
  BY <1>1, <1>4, <1>5

LEMMA SchemasStep ==
  ASSUME SelectionIInv, ValidateSchemasExist
  PROVE  SelectionIInv'
<1>1. /\ pc = "validate" /\ left = {} /\ world' = world /\ pc' \in {"fatal", "expand"}
      /\ left' = left /\ IncludedRelationFqns' = IncludedRelationFqns
      /\ ExcludedRelationFqns' = ExcludedRelationFqns
  BY DEF ValidateSchemasExist, lists
<1>2. Started /\ CommandInv
  BY <1>1 DEF Started, SelectionIInv
<1>3. ~Listed' /\ ~Loaded' /\ ListsInv'
  BY <1>1 DEF Listed, Loaded, ListsInv
<1>4. CASE pc' = "fatal"
  BY <1>1, <1>3, <1>4 DEF SelectionIInv, CommandInv, PassesInv, Started
<1>5. CASE pc' = "expand"
  <2>1. passes' = Passes /\ expandedIncludeOids' = IncludedRelationFqns
    BY <1>5 DEF ValidateSchemasExist
  <2>2. /\ ~FlagsConflict
        /\ \A name \in IncludedTables \cup ExcludedTables : ~Refused(name)
        /\ ExcludedRelationFqns =
             UNION {ExcludedWith(name.oid) :
                      name \in {n \in ExcludedTables : n \notin left /\ n.oid # 0}}
        /\ IncludedRelationFqns = {name.oid : name \in {n \in IncludedTables : n \notin left}}
    BY <1>1, <1>2 DEF CommandInv
  <2>3. {n \in IncludedTables : n \notin left} = IncludedTables
    BY <1>1
  <2>4. IncludedRelationFqns = NamedOids
    BY <2>2, <2>3 DEF NamedOids
  <2>5. CommandInv'
    <3>1. ~FlagsConflict' /\ left' \subseteq IncludedTables' \cup ExcludedTables' /\ left' = {}
      BY <1>1, <2>2, CommandKept
    <3>2. \A name \in IncludedTables' \cup ExcludedTables' : ~Refused(name)'
      BY <1>1, <2>2, CommandKept
    <3>3. ExcludedRelationFqns' =
             UNION {ExcludedWith(name.oid)' :
                      name \in {n \in ExcludedTables' : n \notin left' /\ n.oid # 0}}
      BY <1>1, <2>2, CommandKept
    <3>4. IncludedRelationFqns' = NamedOids'
      BY <1>1, <2>4, CommandKept
    <3> QED
      BY <3>1, <3>2, <3>3, <3>4, <1>5 DEF CommandInv
  <2>6. NamedOids \subseteq Oids /\ \A i \in NamedOids : world.leaf \/ T[i].parent = 0
    <3>1. \A name \in IncludedTables : name.oid # 0 /\ name.oid \in Oids
      BY <2>2, FilterTypes DEF Refused, SelectionIInv
    <3>2. \A i \in Oids : T[i].parent # 0 => Level(i) \in {"i", "l"}
      BY DEF Level
    <3>3. \A name \in IncludedTables : T[name.oid].parent # 0 => world.leaf
      BY <2>2, <3>1, <3>2 DEF Refused
    <3> QED
      BY <3>1, <3>3 DEF NamedOids
  <2>7. RootsOnly(NamedOids)
    BY <2>6 DEF RootsOnly
  <2>8. expandedIncludeOids' = NamedOids
    BY <2>1, <2>4
  <2>9. RootsOnly(expandedIncludeOids)'
    BY <2>7, <2>8, <1>1, FindsKept
  <2>10. NamedOids' = NamedOids /\ Oids' = Oids /\ IncludedTables' = IncludedTables
         /\ First' = First /\ Later' = Later
    BY <1>1, CatalogKept, CommandKept DEF First, Later
  <2>11. CASE IncludedTables = {} \/ world.noInherits
    <3>1. passes' = <<>>
      BY <2>1, <2>11 DEF Passes
    <3> QED
      BY <3>1, <2>5, <2>6, <2>8, <2>9, <2>10, <2>11, <1>1, <1>3, <1>5
         DEF SelectionIInv, PassesInv
  <2>12. CASE IncludedTables # {} /\ ~world.noInherits
    <3>1. passes' = First
      BY <2>1, <2>12 DEF Passes, First
    <3>2. First \notin Later /\ First \notin {<<"children">>, <<>>}
      BY DEF First, Later
    <3> QED
      BY <3>1, <3>2, <2>5, <2>6, <2>8, <2>9, <2>10, <2>12, <1>1, <1>3, <1>5
         DEF SelectionIInv, PassesInv
  <2> QED
    BY <2>11, <2>12
<1> QED
  BY <1>1, <1>4, <1>5

\* One query of the first pass.
LEMMA FirstPassStep ==
  ASSUME SelectionIInv, recurseTableDepend, IncludedTables # {}, ~world.noInherits,
         passes = First
  PROVE  LET S == expandedIncludeOids'
         IN  /\ S \in SUBSET Oids /\ NamedOids \subseteq S /\ RootsOnly(S)
             /\ \/ passes' = First /\ (S = NamedOids \/ LonelyFound(S))
                \/ /\ passes' = Tail(First) /\ AskedFound(S)
<1> DEFINE E == expandedIncludeOids
           S == expandedIncludeOids'
<1>1. world \in Worlds /\ PassesInv /\ pc = "expand"
  BY DEF SelectionIInv, recurseTableDepend
<1>2. NamedOids \subseteq E /\ E \in SUBSET Oids /\ RootsOnly(E)
      /\ (E = NamedOids \/ LonelyFound(E))
  BY <1>1 DEF PassesInv
<1>3. Head(passes) = "children"
  BY DEF First
<1>4. S = E \cup Children(E)
      /\ passes' = IF Children(E) \subseteq E THEN Tail(passes) ELSE passes
  BY <1>3 DEF recurseTableDepend
<1>5. S \in SUBSET Oids /\ NamedOids \subseteq S /\ RootsOnly(S)
  BY <1>1, <1>2, <1>4, ChildrenFound
<1>6. LonelyFound(S)
  BY <1>1, <1>2, <1>4, ChildrenFound, FoundGrows
<1>7. CASE Children(E) \subseteq E
  <2>1. S = E /\ passes' = Tail(First)
    BY <1>4, <1>7
  <2>2. LonelyFound(E)
    BY <1>6, <2>1
  <2>3. AskedFound(E)
    BY <1>1, <1>2, <1>7, <2>2, AskedAreFound
  <2>4. AskedFound(S)
    BY <2>1, <2>3
  <2> QED
    BY <1>5, <2>1, <2>4
<1>8. CASE ~(Children(E) \subseteq E)
  BY <1>4, <1>5, <1>6, <1>8
<1> QED
  BY <1>7, <1>8

\* One query of the second pass.
LEMMA ParentsPassStep ==
  ASSUME SelectionIInv, recurseTableDepend, IncludedTables # {}, ~world.noInherits,
         passes = Tail(First)
  PROVE  LET S == expandedIncludeOids'
         IN  /\ S \in SUBSET Oids /\ NamedOids \subseteq S /\ RootsOnly(S) /\ AskedFound(S)
             /\ \/ passes' = passes
                \/ /\ passes' = Tail(Tail(First)) /\ AncestorsFound(S) /\ ParentsFound(S)
                   /\ \A i \in S : DependsOn(i) \subseteq S
<1> DEFINE E == expandedIncludeOids
           S == expandedIncludeOids'
<1>1. world \in Worlds /\ PassesInv /\ pc = "expand"
  BY DEF SelectionIInv, recurseTableDepend
<1>2. passes \in Later /\ Head(passes) = "parents"
  BY DEF First, Later
<1>3. NamedOids \subseteq E /\ E \in SUBSET Oids /\ RootsOnly(E) /\ AskedFound(E)
  BY <1>1, <1>2 DEF PassesInv
<1>4. S = E \cup Parents(E)
      /\ passes' = IF Parents(E) \subseteq E THEN Tail(passes) ELSE passes
  BY <1>2 DEF recurseTableDepend
<1>5. S \in SUBSET Oids /\ NamedOids \subseteq S /\ RootsOnly(S) /\ AskedFound(S)
  BY <1>1, <1>3, <1>4, ParentsAreOids, FoundGrows
<1>6. CASE Parents(E) \subseteq E
  <2>1. S = E /\ passes' = Tail(Tail(First))
    BY <1>4, <1>6
  <2>2. AncestorsFound(E) /\ ParentsFound(E) /\ \A i \in E : DependsOn(i) \subseteq E
    BY <1>1, <1>3, <1>6, AncestorsAreFound
  <2> QED
    BY <1>5, <2>1, <2>2
<1>7. CASE ~(Parents(E) \subseteq E)
  BY <1>4, <1>5, <1>7
<1> QED
  BY <1>6, <1>7

\* One query of the third pass.
LEMMA LastPassStep ==
  ASSUME SelectionIInv, recurseTableDepend, IncludedTables # {}, ~world.noInherits,
         passes = <<"children">>, ~AtLeast7
  PROVE  LET S == expandedIncludeOids'
         IN  /\ S \in SUBSET Oids /\ NamedOids \subseteq S /\ RootsOnly(S) /\ AskedFound(S)
             /\ AncestorsFound(S) /\ ParentsFound(S)
             /\ passes' = <<"children">> \/ passes' = <<>>
<1> DEFINE E == expandedIncludeOids
           S == expandedIncludeOids'
<1>1. world \in Worlds /\ PassesInv /\ pc = "expand"
  BY DEF SelectionIInv, recurseTableDepend
<1>2. passes \in Later /\ Head(passes) = "children" /\ Tail(passes) = <<>>
  BY DEF First, Later
<1>3. NamedOids \subseteq E /\ E \in SUBSET Oids /\ RootsOnly(E) /\ AskedFound(E)
      /\ AncestorsFound(E) /\ ParentsFound(E)
  BY <1>1, <1>2 DEF PassesInv
<1>4. S = E \cup Children(E) /\ (passes' = <<"children">> \/ passes' = <<>>)
  BY <1>2 DEF recurseTableDepend
<1> QED
  BY <1>1, <1>3, <1>4, ChildrenFound, FoundGrows

LEMMA RecurseStep ==
  ASSUME SelectionIInv, recurseTableDepend
  PROVE  SelectionIInv'
<1> DEFINE S == expandedIncludeOids'
<1>1. /\ pc = "expand" /\ passes # <<>> /\ world \in Worlds /\ PassesInv
      /\ UNCHANGED <<world, pc, left, IncludedRelationFqns, ExcludedRelationFqns>>
  BY DEF SelectionIInv, recurseTableDepend, lists
<1>2. IncludedTables # {} /\ ~world.noInherits /\ passes \in {First} \cup Later
  BY <1>1 DEF PassesInv
<1>3. ~Listed' /\ ~Loaded' /\ ListsInv'
  BY <1>1 DEF Listed, Loaded, ListsInv
<1>4. CommandInv'
  <2>1. Started
    BY <1>1 DEF Started
  <2>2. /\ ~FlagsConflict /\ left = {} /\ IncludedRelationFqns = NamedOids
        /\ \A name \in IncludedTables \cup ExcludedTables : ~Refused(name)
        /\ ExcludedRelationFqns =
             UNION {ExcludedWith(name.oid) :
                      name \in {n \in ExcludedTables : n \notin left /\ n.oid # 0}}
    BY <1>1, <2>1 DEF SelectionIInv, CommandInv
  <2>3. ~FlagsConflict' /\ left' = {} /\ IncludedRelationFqns' = NamedOids'
    BY <1>1, <2>2, CommandKept
  <2>4. \A name \in IncludedTables' \cup ExcludedTables' : ~Refused(name)'
    BY <1>1, <2>2, CommandKept
  <2>5. ExcludedRelationFqns' =
             UNION {ExcludedWith(name.oid)' :
                      name \in {n \in ExcludedTables' : n \notin left' /\ n.oid # 0}}
    BY <1>1, <2>2, CommandKept
  <2> QED
    BY <2>3, <2>4, <2>5, <1>1 DEF CommandInv
<1>5. /\ First' = First /\ Later' = Later /\ NamedOids' = NamedOids /\ Oids' = Oids
      /\ IncludedTables' = IncludedTables /\ AtLeast7' = AtLeast7
      /\ world'.noInherits = world.noInherits
      /\ \A i : DependsOn(i)' = DependsOn(i)
  BY <1>1, CatalogKept, CommandKept, AskedKept DEF First, Later
<1>6. /\ LonelyFound(expandedIncludeOids)' <=> LonelyFound(S)
      /\ AskedFound(expandedIncludeOids)' <=> AskedFound(S)
      /\ AncestorsFound(expandedIncludeOids)' <=> AncestorsFound(S)
      /\ ParentsFound(expandedIncludeOids)' <=> ParentsFound(S)
      /\ RootsOnly(expandedIncludeOids)' <=> RootsOnly(S)
  BY <1>1, FindsKept
<1>7. SUFFICES /\ NamedOids \subseteq S /\ S \subseteq Oids /\ RootsOnly(S)
               /\ passes' \in {First} \cup Later
               /\ passes' = First => S = NamedOids \/ LonelyFound(S)
               /\ passes' \in Later => AskedFound(S)
               /\ passes' \in {<<"children">>, <<>>} => AncestorsFound(S) /\ ParentsFound(S)
               /\ AtLeast7 /\ passes' = <<>> => \A i \in S : DependsOn(i) \subseteq S
  <2> HIDE DEF S
  <2>1. expandedIncludeOids' = S
    BY DEF S
  <2>2. PassesInv'
    BY <1>1, <1>2, <1>3, <1>5, <1>6, <1>7, <2>1 DEF PassesInv
  <2> QED
    BY <2>2, <1>1, <1>3, <1>4 DEF SelectionIInv
<1>8. /\ First # Tail(First) /\ First \notin Later /\ Tail(First) \in Later
      /\ Tail(First) \notin {<<"children">>, <<>>}
      /\ Tail(Tail(First)) \in Later /\ First \notin {<<"children">>, <<>>}
      /\ AtLeast7 => Tail(First) # <<>> /\ Tail(Tail(First)) = <<>>
      /\ First # <<>>
  BY DEF First, Later
<1>9. CASE passes = First
  <2>1. /\ S \in SUBSET Oids /\ NamedOids \subseteq S /\ RootsOnly(S)
        /\ \/ passes' = First /\ (S = NamedOids \/ LonelyFound(S))
           \/ passes' = Tail(First) /\ AskedFound(S)
    BY <1>2, <1>9, FirstPassStep
  <2> HIDE DEF S
  <2> QED
    BY <2>1, <1>8
<1>10. CASE passes = Tail(First)
  <2>1. /\ S \in SUBSET Oids /\ NamedOids \subseteq S /\ RootsOnly(S) /\ AskedFound(S)
        /\ \/ passes' = passes
           \/ /\ passes' = Tail(Tail(First)) /\ AncestorsFound(S) /\ ParentsFound(S)
              /\ \A i \in S : DependsOn(i) \subseteq S
    BY <1>2, <1>10, ParentsPassStep
  <2> HIDE DEF S
  <2> QED
    BY <2>1, <1>8, <1>10
<1>11. CASE passes # First /\ passes # Tail(First)
  <2>1. ~AtLeast7 /\ passes = <<"children">>
    BY <1>1, <1>2, <1>11 DEF First, Later
  <2>2. /\ S \in SUBSET Oids /\ NamedOids \subseteq S /\ RootsOnly(S) /\ AskedFound(S)
        /\ AncestorsFound(S) /\ ParentsFound(S)
        /\ passes' = <<"children">> \/ passes' = <<>>
    BY <1>2, <2>1, LastPassStep
  <2>3. passes' \in Later /\ passes' # First
    BY <2>1, <2>2 DEF First, Later
  <2> HIDE DEF S
  <2> QED
    BY <2>1, <2>2, <2>3
<1> QED
  BY <1>9, <1>10, <1>11

LEMMA FilterStep ==
  ASSUME SelectionIInv, ExpandIncludesForPartitions
  PROVE  SelectionIInv'
<1>1. /\ pc = "expand" /\ passes = <<>> /\ pc' = "retrieve"
      /\ UNCHANGED <<world, left, ExcludedRelationFqns, passes, expandedIncludeOids>>
      /\ IncludedRelationFqns' = IncludedRelationFqns \cup
           {i \in expandedIncludeOids : SchemaFilterClause(i) /\ ~T[i].member}
  BY DEF ExpandIncludesForPartitions
<1>2. Started /\ Started' /\ IncludedRelationFqns = NamedOids
  BY <1>1 DEF Started, SelectionIInv, CommandInv
<1>3. CommandInv' /\ PassesInv'
  BY <1>1, <1>2, CommandInvKept, PassesInvKept DEF Listed
<1>4. IncludedRelationFqns' = NamedOids' \cup
        {i \in expandedIncludeOids' : SchemaFilterClause(i)' /\ ~T'[i].member}
  BY <1>1, <1>2, CatalogKept, CommandKept
<1>5. ListsInv'
  BY <1>1, <1>4 DEF ListsInv, Listed, Loaded
<1> QED
  BY <1>1, <1>3, <1>5 DEF SelectionIInv, Listed

\* From the retrieval on only the lists of tables change.
LEMMA RestKept ==
  ASSUME SelectionIInv, Listed, Listed', UNCHANGED <<world, left, lists, passes, expandedIncludeOids>>
  PROVE  /\ world' \in Worlds /\ CommandInv' /\ PassesInv'
         /\ IncludedRelationFqns' = NamedOids' \cup
              {i \in expandedIncludeOids' : SchemaFilterClause(i)' /\ ~T'[i].member}
         /\ Found' = Found /\ Entries' = Entries /\ WithData' = WithData
         /\ Only(WithData, CopiedHere)' = Only(WithData, CopiedHere)
         /\ Only(WithData, WrittenHere)' = Only(WithData, WrittenHere)
<1>1. /\ Started /\ Started' /\ pc # "validate" /\ pc' # "validate" /\ pc' # "expand"
      /\ passes = <<>> /\ IncludedRelationFqns' = IncludedRelationFqns
      /\ ExcludedRelationFqns' = ExcludedRelationFqns
  BY DEF Listed, Started, SelectionIInv, PassesInv, lists
<1>2. CommandInv' /\ PassesInv'
  BY <1>1, CommandInvKept, PassesInvKept
<1>3. IncludedRelationFqns = NamedOids \cup
        {i \in expandedIncludeOids : SchemaFilterClause(i) /\ ~T[i].member}
  BY DEF SelectionIInv, ListsInv
<1>4. IncludedRelationFqns' = NamedOids' \cup
        {i \in expandedIncludeOids' : SchemaFilterClause(i)' /\ ~T'[i].member}
  BY <1>1, <1>3, CatalogKept, CommandKept
<1> QED
  BY <1>2, <1>4, ListsKept DEF SelectionIInv

LEMMA RetrieveStep ==
  ASSUME SelectionIInv, RetrieveTables
  PROVE  SelectionIInv'
<1>1. /\ pc = "retrieve" /\ pc' = "split" /\ tables' = Found
      /\ UNCHANGED <<world, left, lists, passes, expandedIncludeOids>>
  BY DEF RetrieveTables, Found
<1>2. Listed /\ Listed' /\ Loaded'
  BY <1>1 DEF Listed, Loaded
<1>3. ListsInv'
  BY <1>1, <1>2, RestKept DEF ListsInv
<1> QED
  BY <1>1, <1>2, <1>3, RestKept DEF SelectionIInv

LEMMA SplitStep ==
  ASSUME SelectionIInv, SplitTablesByPartitionType
  PROVE  SelectionIInv'
<1>1. /\ pc = "split" /\ pc' = "dataset" /\ tables' = tables
      /\ UNCHANGED <<world, left, lists, passes, expandedIncludeOids>>
      /\ metadataTables' = [i \in Oids |-> tables[i] * MetadataEntries(i)]
      /\ dataTables' = Only(tables, {i \in Oids : HasData(i)})
  BY DEF SplitTablesByPartitionType
<1>2. Listed /\ Listed' /\ Loaded /\ Loaded'
  BY <1>1 DEF Listed, Loaded
<1>3. tables = Found
  BY <1>2 DEF SelectionIInv, ListsInv
<1>4. metadataTables' = Entries /\ dataTables' = WithData
  BY <1>1, <1>3 DEF Entries, WithData
<1>5. ListsInv'
  BY <1>1, <1>2, <1>3, <1>4, RestKept DEF ListsInv
<1> QED
  BY <1>1, <1>2, <1>5, RestKept DEF SelectionIInv

LEMMA DataSetStep ==
  ASSUME SelectionIInv, GetBackupDataSet
  PROVE  SelectionIInv'
<1>1. /\ pc = "dataset" /\ pc' = "done" /\ tables' = tables /\ metadataTables' = metadataTables
      /\ UNCHANGED <<world, left, lists, passes, expandedIncludeOids>>
  BY DEF GetBackupDataSet
<1>2. Listed /\ Listed' /\ Loaded /\ Loaded'
  BY <1>1 DEF Listed, Loaded
<1>3. tables = Found /\ metadataTables = Entries /\ dataTables = WithData
  BY <1>1, <1>2 DEF SelectionIInv, ListsInv
<1>4. /\ dataTables' = Only(WithData, CopiedHere)
      /\ dataTablesQDOnly' = Only(WithData, WrittenHere)
  BY <1>3 DEF GetBackupDataSet, CopiedHere, WrittenHere
<1>5. ListsInv'
  BY <1>1, <1>2, <1>3, <1>4, RestKept DEF ListsInv
<1> QED
  BY <1>1, <1>2, <1>5, RestKept DEF SelectionIInv

LEMMA SelectionStutters ==
  ASSUME SelectionIInv, UNCHANGED selectionVars
  PROVE  SelectionIInv'
<1>1. /\ UNCHANGED <<world, pc, left, lists, passes, expandedIncludeOids>>
      /\ UNCHANGED <<tables, metadataTables, dataTables, dataTablesQDOnly>>
      /\ IncludedRelationFqns' = IncludedRelationFqns
      /\ ExcludedRelationFqns' = ExcludedRelationFqns
  BY DEF selectionVars, results, lists
<1>2. (Started' <=> Started) /\ (Listed' <=> Listed) /\ (Loaded' <=> Loaded)
  BY <1>1 DEF Started, Listed, Loaded
<1>3. CommandInv'
  <2>1. pc' = "flags" => /\ IncludedRelationFqns' = {} /\ ExcludedRelationFqns' = {}
                         /\ expandedIncludeOids' = {} /\ passes' = <<>>
    BY <1>1 DEF SelectionIInv, CommandInv
  <2>2. ASSUME Started
        PROVE  /\ ~FlagsConflict'
               /\ left' \subseteq IncludedTables' \cup ExcludedTables'
               /\ pc' # "validate" => left' = {}
               /\ \A name \in IncludedTables' \cup ExcludedTables' :
                    name \in left' \/ ~Refused(name)'
    BY <1>1, <2>2, CommandKept DEF SelectionIInv, CommandInv
  <2>3. ASSUME Started
        PROVE  ExcludedRelationFqns' =
                 UNION {ExcludedWith(name.oid)' :
                          name \in {n \in ExcludedTables' : n \notin left' /\ n.oid # 0}}
    BY <1>1, <2>3, CommandKept DEF SelectionIInv, CommandInv
  <2>4. ASSUME Started
        PROVE  /\ pc' = "validate" =>
                    /\ expandedIncludeOids' = {} /\ passes' = <<>>
                    /\ IncludedRelationFqns' =
                         {name.oid : name \in {n \in IncludedTables' : n \notin left'}}
               /\ pc' = "expand" => IncludedRelationFqns' = NamedOids'
    BY <1>1, <2>4, CommandKept DEF SelectionIInv, CommandInv
  <2> QED
    BY <1>2, <2>1, <2>2, <2>3, <2>4 DEF CommandInv
<1>4. PassesInv'
  <2>1. CASE pc = "expand" \/ Listed
    <3>1. Listed => passes = <<>>
      BY <2>1 DEF SelectionIInv, PassesInv
    <3> QED
      BY <2>1, <3>1, <1>1, <1>2, PassesInvKept
  <2>2. CASE ~(pc = "expand" \/ Listed)
    BY <2>2, <1>1, <1>2 DEF PassesInv
  <2> QED
    BY <2>1, <2>2
<1>5. ListsInv'
  <2>1. CASE Listed
    BY <2>1, <1>1, <1>2, RestKept DEF SelectionIInv, ListsInv
  <2>2. CASE ~Listed
    <3>1. ~Listed' /\ ~Loaded' /\ pc' \notin {"dataset", "done"}
      BY <2>2, <1>1, <1>2 DEF Listed, Loaded
    <3> QED
      BY <3>1 DEF ListsInv
  <2> QED
    BY <2>1, <2>2
<1> QED
  BY <1>1, <1>2, <1>3, <1>4, <1>5 DEF SelectionIInv

\* The flags stay accepted, the expansion stays closed as far as its passes got,
\* and each list is what its query returns.
THEOREM SelectionInductive == SelectionSpec => []SelectionIInv
<1>1. SelectionInit => SelectionIInv
  BY DEF SelectionInit, SelectionIInv, CommandInv, PassesInv, ListsInv, Started, Listed, Loaded
<1>2. SelectionIInv /\ [SelectionNext]_selectionVars => SelectionIInv'
  <2> SUFFICES ASSUME SelectionIInv, [SelectionNext]_selectionVars
               PROVE  SelectionIInv'
    OBVIOUS
  <2>1. CASE validateFlagCombinations
    BY <2>1, FlagsStep
  <2>2. CASE ValidateTablesExist
    BY <2>2, NamesStep
  <2>3. CASE ValidateSchemasExist
    BY <2>3, SchemasStep
  <2>4. CASE recurseTableDepend
    BY <2>4, RecurseStep
  <2>5. CASE ExpandIncludesForPartitions
    BY <2>5, FilterStep
  <2>6. CASE RetrieveTables
    BY <2>6, RetrieveStep
  <2>7. CASE SplitTablesByPartitionType
    BY <2>7, SplitStep
  <2>8. CASE GetBackupDataSet
    BY <2>8, DataSetStep
  <2>9. CASE UNCHANGED selectionVars
    BY <2>9, SelectionStutters
  <2> QED
    BY <2>1, <2>2, <2>3, <2>4, <2>5, <2>6, <2>7, <2>8, <2>9 DEF SelectionNext
<1> QED
  BY <1>1, <1>2, PTL DEF SelectionSpec

-----------------------------------------------------------------------------
(* The lists                                                               *)

\* The tables that are retrieved.
Retrieved(i) ==
  IF IncludedTables # {} THEN i \in IncludedRelationFqns
  ELSE /\ SchemaFilterClause(i) /\ i \notin ExcludedRelationFqns
       /\ \/ /\ ~T[i].member
             /\ T[i].foreign \/ world.leaf \/ AtLeast7 \/ ~InnerPartition(i)
          \/ T[i].config /\ ~T[i].foreign

\* Those with a COPY of their own, or with INSERTs.
Copied(i) == Retrieved(i) /\ HasData(i) /\ (IsQDOnly(i) \/ ~SkipDataBackup(i))

LEMMA ListFilter ==
  ASSUME SelectionIInv, Listed, OrdinaryList, IncludedTables # {}
  PROVE  /\ ExcludedTables = {} /\ \A i : SchemaFilterClause(i)
         /\ IncludedRelationFqns = {i \in expandedIncludeOids : ~T[i].member}
         /\ NamedOids \subseteq IncludedRelationFqns /\ IncludedRelationFqns \subseteq Oids
         /\ ExcludedRelationFqns = {} /\ Filtered
<1>1. Started /\ pc # "validate" /\ left = {} /\ ~FlagsConflict
  BY DEF Listed, Started, SelectionIInv, CommandInv
<1>2. ExcludedTables = {} /\ IncludedSchemas = {} /\ ExcludedSchemas = {}
  BY <1>1, OneList
<1>3. \A i : SchemaFilterClause(i)
  BY <1>2 DEF SchemaFilterClause
<1>4. NamedOids \subseteq expandedIncludeOids /\ expandedIncludeOids \subseteq Oids
  BY DEF SelectionIInv, PassesInv
<1>5. \A i \in NamedOids : ~T[i].member
  BY <1>4, NamedAsOids DEF OrdinaryList
<1>6. IncludedRelationFqns = NamedOids \cup
        {i \in expandedIncludeOids : SchemaFilterClause(i) /\ ~T[i].member}
  BY DEF SelectionIInv, ListsInv
<1>7. IncludedRelationFqns = {i \in expandedIncludeOids : ~T[i].member}
  BY <1>3, <1>4, <1>5, <1>6
<1>8. ExcludedRelationFqns = {}
  BY <1>1, <1>2 DEF SelectionIInv, CommandInv
<1>9. NamedOids # {}
  BY DEF NamedOids
<1> QED
  BY <1>2, <1>3, <1>4, <1>5, <1>7, <1>8, <1>9 DEF Filtered

LEMMA NoListFilter ==
  ASSUME SelectionIInv, Listed, IncludedTables = {}
  PROVE  /\ IncludedRelationFqns = {} /\ (Filtered <=> world.leaf)
         /\ \A i \in Oids : i \in ExcludedRelationFqns <=>
              \E name \in ExcludedTables :
                name.oid = i \/ (world.leaf /\ name.oid = Root(i))
<1>1. Started /\ left = {} /\ world \in Worlds
  BY DEF Listed, Started, SelectionIInv, CommandInv
<1>2. NamedOids = {}
  BY DEF NamedOids
<1>3. expandedIncludeOids = {} /\ IncludedRelationFqns = {}
  BY <1>2 DEF SelectionIInv, PassesInv, ListsInv
<1>4. ExcludedRelationFqns =
        UNION {ExcludedWith(name.oid) : name \in {n \in ExcludedTables : n.oid # 0}}
  BY <1>1 DEF SelectionIInv, CommandInv
<1>5. ASSUME NEW i \in Oids, NEW name \in ExcludedTables
      PROVE  name.oid # 0 /\ i \in ExcludedWith(name.oid) <=>
               name.oid = i \/ (world.leaf /\ name.oid = Root(i))
  <2>1. i # 0 /\ Root(i) \in Oids /\ Root(i) # 0 /\ T[Root(i)].parent = 0
        /\ (Root(i) # i => T[Root(i)].parted /\ T[i].parent # 0)
    BY <1>1, WorldFacts, RootFacts
  <2>2. ASSUME Root(i) # i PROVE Level(Root(i)) = "p" /\ Level(i) # "p"
    BY <2>1, <2>2 DEF Level
  <2>3. i \in ExcludedWith(name.oid) <=>
          i = name.oid \/ (world.leaf /\ Level(name.oid) = "p" /\ Root(i) = name.oid /\ Level(i) # "p")
    BY DEF ExcludedWith
  <2> QED
    BY <2>1, <2>2, <2>3
<1>6. ASSUME NEW i \in Oids
      PROVE  i \in ExcludedRelationFqns <=>
               \E name \in ExcludedTables : name.oid = i \/ (world.leaf /\ name.oid = Root(i))
  BY <1>4, <1>5
<1> QED
  BY <1>3, <1>6 DEF Filtered

LEMMA FoundOnce ==
  ASSUME SelectionIInv, Listed, OrdinaryList
  PROVE  \A i \in Oids : Found[i] = IF Retrieved(i) THEN 1 ELSE 0
<1> SUFFICES ASSUME NEW i \in Oids PROVE Found[i] = IF Retrieved(i) THEN 1 ELSE 0
  OBVIOUS
<1> DEFINE a == i \in GetIncludedUserTableRelations
           b == i \in GetForeignTableRelations
           c == i \in GetExtensionTableRelations
<1>1. Found[i] = Count(a) + Count(b) + Count(c)
  BY DEF Found
<1>2. world \in Worlds
  BY DEF SelectionIInv
<1>3. /\ T[i].parted \in BOOLEAN /\ T[i].foreign \in BOOLEAN /\ T[i].external \in BOOLEAN
      /\ T[i].member \in BOOLEAN /\ T[i].config \in BOOLEAN /\ (T[i].config => T[i].member)
  BY <1>2, TableTypes, TableSound
<1>4. /\ Retrieved(i) <=> a \/ b \/ c
      /\ ~(a /\ b) /\ ~(a /\ c) /\ ~(b /\ c)
  <2>1. CASE IncludedTables # {}
    <3>1. /\ IncludedRelationFqns = {j \in expandedIncludeOids : ~T[j].member}
          /\ ExcludedRelationFqns = {} /\ \A j : SchemaFilterClause(j)
      BY <2>1, ListFilter
    <3>2. a <=> i \in IncludedRelationFqns /\ ~T[i].foreign
      BY <2>1 DEF GetIncludedUserTableRelations, getUserTableRelationsWithIncludeFiltering
    <3>3. b <=> i \in IncludedRelationFqns /\ T[i].foreign /\ ~T[i].member
      BY <2>1, <3>1 DEF GetForeignTableRelations, relationAndSchemaFilterClause
    <3>4. ~c
      BY <2>1, <3>1, <1>3 DEF GetExtensionTableRelations, relationAndSchemaFilterClause
    <3>5. Retrieved(i) <=> i \in IncludedRelationFqns
      BY <2>1 DEF Retrieved
    <3>6. i \in IncludedRelationFqns => ~T[i].member
      BY <3>1
    <3> HIDE DEF a, b, c
    <3> QED
      BY <3>2, <3>3, <3>4, <3>5, <3>6
  <2>2. CASE IncludedTables = {}
    <3> DEFINE rel == SchemaFilterClause(i) /\ i \notin ExcludedRelationFqns
    <3>1. relationAndSchemaFilterClause(i) <=> rel
      BY <2>2 DEF relationAndSchemaFilterClause
    <3>2. a <=> /\ rel /\ ~T[i].foreign /\ ~T[i].member
                /\ world.leaf \/ AtLeast7 \/ ~InnerPartition(i)
      BY <2>2, <3>1 DEF GetIncludedUserTableRelations, getUserTableRelations
    <3>3. b <=> rel /\ T[i].foreign /\ ~T[i].member
      BY <3>1 DEF GetForeignTableRelations
    <3>4. c <=> rel /\ ~T[i].foreign /\ T[i].config
      BY <3>1 DEF GetExtensionTableRelations
    <3>5. Retrieved(i) <=>
            /\ rel
            /\ \/ ~T[i].member /\ (T[i].foreign \/ world.leaf \/ AtLeast7 \/ ~InnerPartition(i))
               \/ T[i].config /\ ~T[i].foreign
      BY <2>2 DEF Retrieved
    <3> HIDE DEF a, b, c, rel
    <3> QED
      BY <3>2, <3>3, <3>4, <3>5, <1>3
  <2> QED
    BY <2>1, <2>2
<1> HIDE DEF a, b, c
<1> QED
  BY <1>1, <1>4 DEF Count

\* The lists at the end.
LEMMA FinalLists ==
  ASSUME SelectionIInv, pc = "done", OrdinaryList
  PROVE  \A i \in Oids :
           /\ ~world.metadataOnly =>
                dataTables[i] + dataTablesQDOnly[i] = IF Copied(i) THEN 1 ELSE 0
           /\ dataTables[i] > 0 => Copied(i) /\ ~IsQDOnly(i)
           /\ metadataTables[i] > 0 <=> Retrieved(i) /\ MetadataEntries(i) > 0
<1> SUFFICES ASSUME NEW i \in Oids
             PROVE  /\ ~world.metadataOnly =>
                         dataTables[i] + dataTablesQDOnly[i] = IF Copied(i) THEN 1 ELSE 0
                    /\ dataTables[i] > 0 => Copied(i) /\ ~IsQDOnly(i)
                    /\ metadataTables[i] > 0 <=> Retrieved(i) /\ MetadataEntries(i) > 0
  OBVIOUS
<1>1. Listed
  BY DEF Listed
<1>2. Found[i] = IF Retrieved(i) THEN 1 ELSE 0
  BY <1>1, FoundOnce
<1>3. /\ metadataTables = Entries /\ dataTables = Only(WithData, CopiedHere)
      /\ dataTablesQDOnly = Only(WithData, WrittenHere)
  BY DEF SelectionIInv, ListsInv
<1>4. /\ metadataTables[i] = Found[i] * MetadataEntries(i)
      /\ WithData[i] = IF HasData(i) THEN Found[i] ELSE 0
      /\ dataTables[i] = IF i \in CopiedHere THEN WithData[i] ELSE 0
      /\ dataTablesQDOnly[i] = IF i \in WrittenHere THEN WithData[i] ELSE 0
  BY <1>3 DEF Entries, WithData, Only
<1>5. /\ i \in CopiedHere <=> ~world.metadataOnly /\ ~IsQDOnly(i) /\ ~SkipDataBackup(i)
      /\ i \in WrittenHere <=> ~world.metadataOnly /\ IsQDOnly(i)
  BY DEF CopiedHere, WrittenHere
<1>6. MetadataEntries(i) \in Nat
  BY DEF MetadataEntries
<1> QED
  BY <1>2, <1>4, <1>5, <1>6 DEF Copied

\* The number of COPYs of a table's rows.
LEMMA CopiesCounted ==
  ASSUME SelectionIInv, pc = "done", OrdinaryList, ~world.metadataOnly, NEW i \in Oids
  PROVE  /\ Copies(i) \in Nat
         /\ (\A d, e \in Oids : Covers(d, i) /\ Covers(e, i) /\ Copied(d) /\ Copied(e) => d = e)
              => Copies(i) <= 1
         /\ (\E d \in Oids : Covers(d, i) /\ Copied(d)) => Copies(i) >= 1
         /\ (\A d \in Oids : Covers(d, i) => ~Copied(d)) => Copies(i) = 0
<1> DEFINE S == CopyStatements(i)
<1>1. ASSUME NEW d \in Oids
      PROVE  1..(dataTables[d] + dataTablesQDOnly[d]) = IF Copied(d) THEN {1} ELSE {}
  <2> DEFINE n == dataTables[d] + dataTablesQDOnly[d]
  <2>1. n = IF Copied(d) THEN 1 ELSE 0
    BY FinalLists
  <2> HIDE DEF n
  <2>2. 1..1 = {1} /\ 1..0 = {}
    OBVIOUS
  <2>3. 1..n = IF Copied(d) THEN {1} ELSE {}
    BY <2>1, <2>2
  <2> QED
    BY <2>3 DEF n
<1>2. S = {<<d, 1>> : d \in {d \in Oids : Covers(d, i) /\ Copied(d)}}
  <2>1. \A s : s \in S <=> \E d \in Oids : Covers(d, i) /\
                 s \in {d} \X (1..(dataTables[d] + dataTablesQDOnly[d]))
    BY DEF CopyStatements
  <2>2. \A s : s \in S <=> \E d \in Oids : Covers(d, i) /\ Copied(d) /\ s = <<d, 1>>
    <3> DEFINE R(d) == 1..(dataTables[d] + dataTablesQDOnly[d])
    <3>1. \A s : s \in S <=> \E d \in Oids : Covers(d, i) /\ s \in {d} \X R(d)
      BY <2>1
    <3>2. \A d \in Oids : R(d) = IF Copied(d) THEN {1} ELSE {}
      BY <1>1
    <3> HIDE DEF R, S
    <3>3. \A d, s : s \in {d} \X {1} <=> s = <<d, 1>>
      OBVIOUS
    <3>4. \A d \in Oids : \A s : s \in {d} \X R(d) <=> Copied(d) /\ s = <<d, 1>>
      BY <3>2, <3>3
    <3> QED
      BY <3>1, <3>4
  <2> HIDE DEF S
  <2> QED
    BY <2>2
<1> HIDE DEF S
<1>3. IsFiniteSet(S)
  <2>1. IsFiniteSet(Oids) /\ IsFiniteSet({1})
    BY WorldFacts, FS_Singleton DEF SelectionIInv
  <2>2. IsFiniteSet(Oids \X {1})
    BY <2>1, FS_Product
  <2>3. S \subseteq Oids \X {1}
    BY <1>2
  <2> QED
    BY <2>2, <2>3, FS_Subset
<1>4. Copies(i) = Cardinality(S) /\ Copies(i) \in Nat
  BY <1>3, FS_CardinalityType DEF Copies, S
<1>5. Cardinality(S) = 0 <=> S = {}
  BY <1>3, FS_EmptySet
<1>6. ASSUME \A d, e \in Oids : Covers(d, i) /\ Covers(e, i) /\ Copied(d) /\ Copied(e) => d = e
      PROVE  Copies(i) <= 1
  <2>1. CASE S = {}
    BY <2>1, <1>4, <1>5
  <2>2. CASE S # {}
    <3>1. PICK s : s \in S
      BY <2>2
    <3>2. S = {s}
      BY <3>1, <1>2, <1>6
    <3>3. Cardinality({s}) = 1
      BY FS_Singleton
    <3>4. Copies(i) = 1
      BY <3>2, <3>3, <1>4
    <3> QED
      BY <3>4
  <2> QED
    BY <2>1, <2>2
<1>7. ASSUME NEW d \in Oids, Covers(d, i), Copied(d) PROVE Copies(i) >= 1
  <2>1. S # {}
    BY <1>2, <1>7
  <2> QED
    BY <2>1, <1>4, <1>5
<1>8. ASSUME \A d \in Oids : Covers(d, i) => ~Copied(d) PROVE Copies(i) = 0
  <2>1. S = {}
    BY <1>2, <1>8
  <2> QED
    BY <2>1, <1>4, <1>5
<1> QED
  BY <1>4, <1>6, <1>7, <1>8

-----------------------------------------------------------------------------
(* Rows                                                                    *)

\* With a data file per leaf rows come with the table they are in.
LEMMA LeafRows ==
  ASSUME SelectionIInv, world.leaf, NEW i \in Oids, HasRows(i), NEW d, Covers(d, i), Copied(d)
  PROVE  d = i
<1>1. world \in Worlds
  BY DEF SelectionIInv
<1>2. d \in Oids /\ (d # i => T[d].parted)
  BY <1>1, CoversFacts
<1>3. T[d].parted => Level(d) \in {"p", "i"}
  BY DEF Level
<1>4. Level(d) \notin {"p", "i"}
  BY DEF Copied, HasData
<1> QED
  BY <1>2, <1>3, <1>4

\* Otherwise, but for version 7 without a list, they come with the root.
LEMMA RootRows ==
  ASSUME SelectionIInv, Listed, OrdinaryList, ~world.leaf, ~AtLeast7 \/ IncludedTables # {},
         NEW i \in Oids, HasRows(i), NEW d, Covers(d, i), Copied(d)
  PROVE  d = Root(i) /\ T[d].parent = 0
<1>1. world \in Worlds
  BY DEF SelectionIInv
<1>2. /\ d \in Oids /\ (d # i => T[d].parted)
      /\ T[d].parent = 0 => d = Root(i)
  BY <1>1, CoversFacts
<1>3. ~T[d].external
  BY <1>1, <1>2, TableSound DEF HasRows, SkipDataBackup
<1>4. CASE AtLeast7
  <2>1. Filtered
    BY <1>4, ListFilter
  <2>2. T[d].parent = 0
    BY <2>1, <1>4 DEF Copied, HasData, Attached
  <2> QED
    BY <2>2, <1>2
<1>5. CASE ~AtLeast7 /\ IncludedTables # {}
  <2>1. d \in expandedIncludeOids
    BY <1>5, ListFilter DEF Copied, Retrieved
  <2>2. RootsOnly(expandedIncludeOids)
    BY DEF SelectionIInv, PassesInv
  <2>3. T[d].parent = 0
    BY <2>1, <2>2, <1>3, <1>5 DEF RootsOnly
  <2> QED
    BY <2>3, <1>2
<1>6. CASE ~AtLeast7 /\ IncludedTables = {}
  <2>1. world.version = 6
    BY <1>1, <1>6, WorldFacts DEF AtLeast7
  <2>2. T[d].foreign \/ T[d].config => T[d].parent = 0
    BY <1>1, <1>2, <2>1, TableSound
  <2>3. T[d].parent = 0
    BY <1>3, <1>6, <2>2 DEF Copied, Retrieved, InnerPartition
  <2> QED
    BY <2>3, <1>2
<1> QED
  BY <1>4, <1>5, <1>6

\* Of two tables of version 7 that are copied and cover the same rows, one is a
\* root of its own below the other.
LEMMA NestedRoots ==
  ASSUME SelectionIInv, Listed, AtLeast7, ~world.leaf, IncludedTables = {},
         NEW i \in Oids, ~RootsNested(i),
         NEW d \in Oids, NEW e \in Oids, Covers(d, i), Covers(e, i), Copied(d), Copied(e)
  PROVE  d = e
<1>1. world \in Worlds /\ ~Filtered
  BY NoListFilter DEF SelectionIInv
<1>2. ASSUME NEW c \in Oids, NEW f \in Oids, c # f, Covers(f, c), Copied(c), Copied(f)
      PROVE  NewRoot(c, f)
  <2>1. T[c].parent # 0
    BY <1>1, <1>2, CoversFacts
  <2>2. IsParentInExtension(c)
    BY <1>1, <1>2, <2>1 DEF Copied, HasData, Attached
  <2>3. T[f].member => T[f].config
    BY <1>2 DEF Copied, Retrieved
  <2> QED
    BY <1>2, <2>2, <2>3 DEF NewRoot
<1>3. Covers(d, e) \/ Covers(e, d)
  BY <1>1, CoversLinear
<1> QED
  BY <1>2, <1>3 DEF RootsNested

\* A table that is not excluded has a copied table above it, if it is not itself.
LEMMA ClimbsToData ==
  ASSUME SelectionIInv, Listed, AtLeast7, ~world.leaf, IncludedTables = {}
  PROVE  \A i \in Oids :
           ~Excluded(i) /\ ~SkipDataBackup(i) /\ (T[i].member => T[i].config) =>
             \E d \in Oids : Covers(d, i) /\ Copied(d)
<1> DEFINE Fine(i) == ~Excluded(i) /\ ~SkipDataBackup(i) /\ (T[i].member => T[i].config)
           Up(i) == \E d \in Oids : Covers(d, i) /\ Copied(d)
           P == {i \in Oids : Fine(i) => Up(i)}
<1>1. world \in Worlds /\ ~Filtered /\ Started /\ pc # "validate"
  BY NoListFilter DEF SelectionIInv, Listed, Started
<1>2. ASSUME NEW i \in Oids PROVE i \in ExcludedRelationFqns <=>
                \E name \in ExcludedTables : name.oid = i
  BY <1>2, NoListFilter
<1>3. ASSUME NEW i \in Oids, Fine(i), HasData(i) PROVE Up(i)
  <2>1. Covers(i, i)
    BY <1>1, CoversUnfolds
  <2>2. i \notin ExcludedRelationFqns /\ SchemaFilterClause(i)
    BY <1>2, <1>3 DEF Excluded
  <2>3. Retrieved(i)
    BY <2>2, <1>3 DEF Retrieved, SkipDataBackup
  <2> QED
    BY <2>1, <2>3, <1>3 DEF Copied
<1>4. ASSUME NEW i \in Oids, \A j \in DependsOn(i) : j \in P PROVE i \in P
  <2> SUFFICES ASSUME Fine(i) PROVE Up(i)
    OBVIOUS
  <2>1. ~Skipped(i)
    BY DEF Skipped, Excluded
  <2>2. CASE HasData(i)
    BY <2>2, <1>3
  <2>3. CASE ~HasData(i)
    <3> DEFINE p == T[i].parent
    <3>1. p # 0 /\ ~T[p].member
      BY <2>1, <2>3, <1>1 DEF HasData, Attached, IsParentInExtension
    <3>2. p \in Oids /\ p \in DependsOn(i) /\ Root(p) = Root(i) /\ T[p].parted
          /\ T[p].schema = T[i].schema /\ ~SkipDataBackup(p)
      <4>1. p \in Oids /\ T[p].parted /\ T[p].schema = T[i].schema /\ Root(p) = Root(i)
        BY <1>1, <3>1, TableSound, RootUnfolds
      <4>2. ~SkipDataBackup(p)
        BY <1>1, <4>1, TableSound DEF SkipDataBackup
      <4> QED
        BY <3>1, <4>1, <4>2 DEF DependsOn
    <3>3. ~Excluded(p)
      <4>1. SchemaFilterClause(p)
        BY <3>2 DEF Excluded, SchemaFilterClause
      <4>2. ASSUME NEW name \in ExcludedTables, name.oid = p PROVE FALSE
        <5>1. p # 0 /\ Level(p) # "i"
          BY <3>1, <4>2, <1>1, AcceptedNames
        <5>2. T[p].parent = 0
          BY <3>2, <5>1 DEF Level
        <5>3. p = Root(i)
          BY <1>1, <3>2, <5>2, RootUnfolds
        <5> QED
          BY <4>2, <5>3 DEF Excluded
      <4>3. \A name \in ExcludedTables : name.oid # Root(i)
        BY DEF Excluded
      <4> QED
        BY <4>1, <4>2, <4>3, <3>2 DEF Excluded
    <3>4. Up(p)
      BY <3>1, <3>2, <3>3, <1>4
    <3>5. PICK d \in Oids : Covers(d, p) /\ Copied(d)
      BY <3>4
    <3>6. Covers(d, i)
      BY <1>1, <3>1, <3>5, CoversUnfolds
    <3> QED
      BY <3>5, <3>6
  <2> QED
    BY <2>2, <2>3
<1>5. Oids \subseteq P
  <2> HIDE DEF P
  <2> QED
    BY <1>1, <1>4, TableInduction
<1> QED
  BY <1>5

\* What a list asks for is found.
LEMMA ListedRows ==
  ASSUME SelectionIInv, pc = "done", OrdinaryList, IncludedTables # {},
         NEW i \in Oids, HasRows(i), Wanted(i)
  PROVE  \E d \in Oids : Covers(d, i) /\ Copied(d)
<1> DEFINE r == IF world.leaf THEN i ELSE Root(i)
<1>1. world \in Worlds /\ Listed /\ Started /\ pc # "validate" /\ passes = <<>>
      /\ <<>> \in Later
  BY DEF SelectionIInv, Listed, Started, PassesInv, Later
<1>2. Filtered /\ NamedOids \subseteq IncludedRelationFqns
      /\ IncludedRelationFqns = {j \in expandedIncludeOids : ~T[j].member}
  BY <1>1, ListFilter
<1>3. Asked(i)
  BY DEF Wanted
<1>4. ~world.noInherits => AskedFound(expandedIncludeOids)
  BY <1>1 DEF SelectionIInv, PassesInv
<1>5. /\ Root(i) \in Oids /\ T[Root(i)].parent = 0 /\ Covers(Root(i), i) /\ Covers(i, i)
      /\ Root(i) # i => T[Root(i)].parted
  BY <1>1, RootFacts, CoversUnfolds
<1>6. r \in IncludedRelationFqns
  <2>1. CASE world.leaf
    <3>1. ~T[i].member
      BY <2>1 DEF Wanted
    <3>2. Named(i) \/ ~world.noInherits
      BY <1>3, <2>1 DEF Asked
    <3>3. CASE Named(i)
      BY <3>3, <2>1, <1>2, NamedAsOids
    <3>4. CASE ~world.noInherits
      BY <3>1, <3>4, <2>1, <1>2, <1>3, <1>4 DEF AskedFound
    <3> QED
      BY <3>2, <3>3, <3>4
  <2>2. CASE ~world.leaf
    <3>1. CASE Named(Root(i))
      BY <3>1, <2>2, <1>2, NamedAsOids
    <3>2. CASE ~Named(Root(i))
      <4>1. Named(i) \/ (~world.noInherits /\ \E j \in Ancestors(i) : Named(j))
        BY <3>2, <1>3 DEF Asked
      <4>2. T[i].parent = 0
        <5>1. CASE Named(i)
          BY <5>1, <1>1, <2>2, AcceptedNames, NamedAsOids
        <5>2. CASE ~Named(i)
          BY <5>2, <4>1, <1>1, PartitionDepends
        <5> QED
          BY <5>1, <5>2
      <4>3. Root(i) = i
        BY <4>2, <1>1, RootUnfolds
      <4>4. ~world.noInherits /\ ~T[i].member
        BY <3>2, <4>1, <4>3 DEF Wanted
      <4>5. i \in expandedIncludeOids
        BY <4>2, <4>4, <1>3, <1>4 DEF AskedFound
      <4> QED
        BY <4>3, <4>4, <4>5, <2>2, <1>2
    <3> QED
      BY <3>1, <3>2
  <2> QED
    BY <2>1, <2>2
<1>7. r \in Oids /\ Covers(r, i)
  BY <1>5
<1>8. ~SkipDataBackup(r)
  <2>1. CASE r = i
    BY <2>1 DEF HasRows
  <2>2. CASE r # i
    BY <2>2, <1>1, <1>5, TableSound DEF SkipDataBackup
  <2> QED
    BY <2>1, <2>2
<1>9. HasData(r)
  <2>1. CASE world.leaf
    BY <2>1 DEF HasData, HasRows, Level
  <2>2. CASE ~world.leaf
    BY <2>2, <1>2, <1>5, <1>6 DEF HasData, Attached
  <2> QED
    BY <2>1, <2>2
<1>10. Copied(r)
  BY <1>6, <1>8, <1>9 DEF Copied, Retrieved
<1> QED
  BY <1>7, <1>10

\* Without a list all that is not excluded is found.
LEMMA OtherRows ==
  ASSUME SelectionIInv, pc = "done", OrdinaryList, IncludedTables = {},
         NEW i \in Oids, HasRows(i), Wanted(i)
  PROVE  \E d \in Oids : Covers(d, i) /\ Copied(d)
<1>1. world \in Worlds /\ Listed
  BY DEF SelectionIInv, Listed
<1>2. /\ Filtered <=> world.leaf
      /\ \A j \in Oids : j \in ExcludedRelationFqns <=>
           \E name \in ExcludedTables : name.oid = j \/ (world.leaf /\ name.oid = Root(j))
  BY <1>1, NoListFilter
<1>3. ~Excluded(i)
  BY DEF Wanted
<1>4. /\ Root(i) \in Oids /\ T[Root(i)].parent = 0 /\ Covers(Root(i), i) /\ Covers(i, i)
      /\ Root(Root(i)) = Root(i) /\ T[Root(i)].schema = T[i].schema
      /\ Root(i) # i => T[Root(i)].parted
  BY <1>1, RootFacts, CoversUnfolds
<1>5. CASE world.leaf
  <2>1. i \notin ExcludedRelationFqns /\ SchemaFilterClause(i)
    BY <1>2, <1>3 DEF Excluded
  <2>2. T[i].member => T[i].config
    BY <1>5 DEF Wanted
  <2>3. Retrieved(i)
    BY <2>1, <2>2, <1>5 DEF Retrieved, HasRows, SkipDataBackup
  <2>4. HasData(i)
    BY <1>5 DEF HasData, HasRows, Level
  <2>5. Copied(i)
    BY <2>3, <2>4 DEF Copied, HasRows
  <2> QED
    BY <2>5, <1>4
<1>6. CASE ~world.leaf /\ AtLeast7
  <2>1. T[i].member => T[i].config
    BY <1>6 DEF Wanted
  <2> QED
    BY <2>1, <1>1, <1>3, <1>6, ClimbsToData DEF HasRows
<1>7. CASE ~world.leaf /\ ~AtLeast7
  <2> DEFINE r == Root(i)
  <2>1. r \notin ExcludedRelationFqns /\ SchemaFilterClause(r)
    BY <1>2, <1>3, <1>4, <1>7 DEF Excluded, SchemaFilterClause
  <2>2. T[r].member => T[r].config
    BY <1>7 DEF Wanted
  <2>3. ~SkipDataBackup(r)
    <3>1. CASE r = i
      BY <3>1 DEF HasRows
    <3>2. CASE r # i
      BY <3>2, <1>1, <1>4, TableSound DEF SkipDataBackup
    <3> QED
      BY <3>1, <3>2
  <2>4. ~InnerPartition(r)
    BY <1>4 DEF InnerPartition
  <2>5. Retrieved(r)
    BY <2>1, <2>2, <2>3, <2>4 DEF Retrieved, SkipDataBackup
  <2>6. HasData(r)
    BY <1>2, <1>7 DEF HasData, Skipped, Attached
  <2>7. Copied(r)
    BY <2>3, <2>5, <2>6 DEF Copied
  <2> QED
    BY <2>7, <1>4
<1> QED
  BY <1>5, <1>6, <1>7

\* What is excluded is not copied.
LEMMA ExcludedRows ==
  ASSUME SelectionIInv, pc = "done", OrdinaryList, NEW i \in Oids, HasRows(i),
         Excluded(i), ~SpelledOtherwise(i), NEW d \in Oids, Covers(d, i)
  PROVE  ~Copied(d)
<1>1. world \in Worlds /\ Listed /\ Started /\ pc # "validate"
  BY DEF SelectionIInv, Listed, Started
<1>2. IncludedTables = {}
  BY <1>1, ListFilter DEF Excluded
<1>3. /\ Filtered <=> world.leaf
      /\ \A j \in Oids : j \in ExcludedRelationFqns <=>
           \E name \in ExcludedTables : name.oid = j \/ (world.leaf /\ name.oid = Root(j))
  BY <1>1, <1>2, NoListFilter
<1>4. T[d].schema = T[i].schema /\ Root(d) = Root(i) /\ (T[d].parent = 0 => d = Root(i))
      /\ (T[i].parent = 0 => d = i)
  BY <1>1, CoversFacts
<1> SUFFICES ASSUME Copied(d) PROVE FALSE
  OBVIOUS
<1>5. SchemaFilterClause(d) /\ d \notin ExcludedRelationFqns
  BY <1>2 DEF Copied, Retrieved
<1>6. SchemaFilterClause(i)
  BY <1>4, <1>5 DEF SchemaFilterClause
<1>7. PICK name \in ExcludedTables : name.oid \in {i, Root(i)}
  BY <1>6 DEF Excluded
<1>8. CASE world.leaf
  <2>1. d = i
    BY <1>8, LeafRows
  <2> QED
    BY <2>1, <1>3, <1>5, <1>7, <1>8
<1>9. CASE ~world.leaf
  <2>1. name.oid = Root(i)
    <3>1. CASE name.oid = i
      <4>1. i # 0 /\ Level(i) \notin {"i", "l"}
        BY <3>1, <1>1, <1>9, WorldFacts, AcceptedNames
      <4>2. T[i].parent = 0
        BY <4>1 DEF Level
      <4>3. Root(i) = i
        BY <4>2, <1>1, RootUnfolds
      <4> QED
        BY <3>1, <4>3
    <3> QED
      BY <3>1, <1>7
  <2>2. d # Root(i)
    BY <2>1, <1>3, <1>5
  <2>3. T[d].parent # 0
    BY <2>2, <1>4
  <2>4. CASE AtLeast7
    <3>1. name.exact
      BY <2>1, <2>4, <1>9 DEF SpelledOtherwise
    <3>2. Skipped(d)
      BY <2>1, <2>3, <2>4, <3>1, <1>4 DEF Skipped, Attached
    <3> QED
      BY <3>2, <1>3, <1>9 DEF Copied, HasData
  <2>5. CASE ~AtLeast7
    BY <2>2, <2>5, <1>1, <1>9, RootRows
  <2> QED
    BY <2>4, <2>5
<1> QED
  BY <1>8, <1>9

\* Every row that is asked for is copied, none twice, and no excluded one.
THEOREM RowsCopiedOnce == SelectionSpec => []RowsExactlyOnce
<1>1. SelectionIInv => RowsExactlyOnce
  <2> SUFFICES ASSUME SelectionIInv, pc = "done", ~world.metadataOnly, OrdinaryList,
                      NEW i \in Oids, HasRows(i)
               PROVE  /\ ~RootsNested(i) => Copies(i) <= 1
                      /\ Wanted(i) => Copies(i) >= 1
                      /\ Excluded(i) /\ ~SpelledOtherwise(i) => Copies(i) = 0
    BY DEF RowsExactlyOnce
  <2>1. Listed
    BY DEF Listed
  <2>2. ASSUME ~RootsNested(i), NEW d \in Oids, NEW e \in Oids,
               Covers(d, i), Covers(e, i), Copied(d), Copied(e)
        PROVE  d = e
    <3>1. CASE world.leaf
      BY <3>1, <2>2, LeafRows
    <3>2. CASE ~world.leaf /\ (~AtLeast7 \/ IncludedTables # {})
      BY <3>2, <2>1, <2>2, RootRows
    <3>3. CASE ~world.leaf /\ AtLeast7 /\ IncludedTables = {}
      BY <3>3, <2>1, <2>2, NestedRoots
    <3> QED
      BY <3>1, <3>2, <3>3
  <2>3. ~RootsNested(i) => Copies(i) <= 1
    BY <2>2, CopiesCounted
  <2>4. Wanted(i) => Copies(i) >= 1
    BY ListedRows, OtherRows, CopiesCounted
  <2>5. Excluded(i) /\ ~SpelledOtherwise(i) => Copies(i) = 0
    BY ExcludedRows, CopiesCounted
  <2> QED
    BY <2>3, <2>4, <2>5
<1> QED
  BY <1>1, SelectionInductive, PTL

-----------------------------------------------------------------------------
(* Definitions                                                             *)

\* A table is in the metadata file or comes with its extension.
There(i) == T[i].member \/ metadataTables[i] > 0

LEMMA DefinitionWritten ==
  ASSUME SelectionIInv, pc = "done", OrdinaryList, NEW i \in Oids, Retrieved(i),
         IF Filtered THEN AtLeast7 \/ ~InnerPartition(i) ELSE ~Skipped(i)
  PROVE  There(i)
<1>1. world \in Worlds
  BY DEF SelectionIInv
<1>2. T[i].config => T[i].member
  BY <1>1, TableSound
<1>3. T[i].external => ~T[i].parted
  BY <1>1, TableSound
<1>4. CASE ~T[i].config
  <2>1. MetadataEntries(i) > 0
    <3>1. CASE Filtered
      <4>1. CASE AtLeast7
        BY <1>4, <3>1, <4>1 DEF MetadataEntries
      <4>2. CASE ~AtLeast7 /\ T[i].parent = 0
        <5>1. Level(i) \notin {"l", "i"}
          BY <4>2 DEF Level
        <5> QED
          BY <1>4, <3>1, <5>1 DEF MetadataEntries
      <4>3. CASE ~AtLeast7 /\ T[i].parent # 0
        <5>1. T[i].external
          BY <3>1, <4>3 DEF InnerPartition
        <5>2. Level(i) = "l"
          BY <4>3, <5>1, <1>3 DEF Level
        <5> QED
          BY <1>4, <3>1, <5>1, <5>2 DEF MetadataEntries
      <4> QED
        BY <4>1, <4>2, <4>3
    <3>2. CASE ~Filtered
      BY <1>4, <3>2 DEF MetadataEntries
    <3> QED
      BY <3>1, <3>2
  <2> QED
    BY <2>1, FinalLists DEF There
<1> QED
  BY <1>2, <1>4 DEF There

\* With a list the definitions of all that is found are there.
LEMMA ListedThere ==
  ASSUME SelectionIInv, pc = "done", OrdinaryList, IncludedTables # {},
         NEW i \in expandedIncludeOids, AtLeast7 \/ ~InnerPartition(i)
  PROVE  There(i)
<1>1. Listed
  BY DEF Listed
<1>2. /\ IncludedRelationFqns = {j \in expandedIncludeOids : ~T[j].member}
      /\ IncludedRelationFqns \subseteq Oids /\ Filtered
  BY <1>1, ListFilter
<1>3. CASE T[i].member
  BY <1>3 DEF There
<1>4. CASE ~T[i].member
  <2>1. Retrieved(i) /\ i \in Oids
    BY <1>2, <1>4 DEF Retrieved
  <2> QED
    BY <2>1, <1>2, DefinitionWritten
<1> QED
  BY <1>3, <1>4

\* Roots are found with their partitions.
LEMMA RootsFound ==
  ASSUME world \in Worlds, NEW S \in SUBSET Oids, ParentsFound(S)
  PROVE  \A i \in S : Root(i) \in S
<1> DEFINE P == {i \in Oids : i \in S => Root(i) \in S}
<1>1. ASSUME NEW i \in Oids, \A j \in DependsOn(i) : j \in P PROVE i \in P
  <2> SUFFICES ASSUME i \in S PROVE Root(i) \in S
    OBVIOUS
  <2>1. CASE T[i].parent = 0
    BY <2>1, RootUnfolds
  <2>2. CASE T[i].parent # 0
    <3>1. T[i].parent \in S /\ T[i].parent \in P
      BY <2>2, <1>1 DEF ParentsFound, DependsOn
    <3>2. Root(i) = Root(T[i].parent)
      BY <2>2, RootUnfolds
    <3> QED
      BY <3>1, <3>2
  <2> QED
    BY <2>1, <2>2
<1>2. Oids \subseteq P
  <2> HIDE DEF P
  <2> QED
    BY <1>1, TableInduction
<1> QED
  BY <1>2

LEMMA ListedMetadata ==
  ASSUME SelectionIInv, pc = "done", OrdinaryList, IncludedTables # {}, ~world.noInherits,
         NEW i \in Oids, Retrieved(i)
  PROVE  /\ There(IF AtLeast7 THEN i ELSE Root(i))
         /\ T[i].parent # 0 => There(IF AtLeast7 THEN T[i].parent ELSE Root(i))
         /\ AtLeast7 \/ AskedOrAncestor(i) => \A j \in T[i].inherits : There(j)
<1> DEFINE E == expandedIncludeOids
<1>1. world \in Worlds /\ Listed /\ passes = <<>> /\ <<>> \in Later
  BY DEF SelectionIInv, Listed, PassesInv, Later
<1>2. /\ E \subseteq Oids /\ AncestorsFound(E) /\ ParentsFound(E)
      /\ AtLeast7 => \A j \in E : DependsOn(j) \subseteq E
  BY <1>1 DEF SelectionIInv, PassesInv
<1>3. i \in E
  BY <1>1, ListFilter DEF Retrieved
<1>4. Root(i) \in E /\ ~InnerPartition(Root(i))
  BY <1>1, <1>2, <1>3, RootsFound, RootFacts DEF InnerPartition
<1>5. There(IF AtLeast7 THEN i ELSE Root(i))
  BY <1>3, <1>4, ListedThere
<1>6. ASSUME T[i].parent # 0 PROVE There(IF AtLeast7 THEN T[i].parent ELSE Root(i))
  <2>1. T[i].parent \in E
    BY <1>2, <1>3, <1>6 DEF ParentsFound
  <2> QED
    BY <2>1, <1>4, ListedThere
<1>7. ASSUME AtLeast7 \/ AskedOrAncestor(i), NEW j \in T[i].inherits PROVE There(j)
  <2>1. j \in E
    BY <1>2, <1>3, <1>7 DEF DependsOn, AncestorsFound
  <2>2. ~InnerPartition(j)
    BY <1>1, TableSound DEF InnerPartition
  <2> QED
    BY <2>1, <2>2, ListedThere
<1> QED
  BY <1>5, <1>6, <1>7

\* Without one, those of a partition that is retrieved up to its root.
LEMMA OtherThere ==
  ASSUME SelectionIInv, pc = "done", OrdinaryList, IncludedTables = {},
         NEW i \in Oids, SchemaFilterClause(i), \A name \in ExcludedTables : name.oid # i,
         \/ world.leaf /\ \A name \in ExcludedTables : name.oid # Root(i)
         \/ ~world.leaf /\ ~Skipped(i),
         AtLeast7 \/ ~InnerPartition(i)
  PROVE  There(i)
<1>1. Listed
  BY DEF Listed
<1>2. i \notin ExcludedRelationFqns /\ (Filtered <=> world.leaf)
  BY <1>1, NoListFilter
<1>3. CASE T[i].member
  BY <1>3 DEF There
<1>4. CASE ~T[i].member
  <2>1. Retrieved(i)
    BY <1>2, <1>4 DEF Retrieved
  <2> QED
    BY <2>1, <1>2, DefinitionWritten
<1> QED
  BY <1>3, <1>4

LEMMA OtherMetadata ==
  ASSUME SelectionIInv, pc = "done", OrdinaryList, IncludedTables = {},
         NEW i \in Oids, Retrieved(i)
  PROVE  /\ HasData(i) /\ ~SkipDataBackup(i) => There(IF AtLeast7 THEN i ELSE Root(i))
         /\ /\ T[i].parent # 0 /\ MetadataEntries(i) > 0 /\ ~T[i].config /\ ~SpelledOtherwise(i)
            /\ ~(~AtLeast7 /\ ~world.leaf /\ T[i].external /\ Excluded(i))
            => There(IF AtLeast7 THEN T[i].parent ELSE Root(i))
<1>1. world \in Worlds /\ Listed /\ Started /\ pc # "validate"
  BY DEF SelectionIInv, Listed, Started
<1>2. /\ Filtered <=> world.leaf
      /\ \A j \in Oids : j \in ExcludedRelationFqns <=>
           \E name \in ExcludedTables : name.oid = j \/ (world.leaf /\ name.oid = Root(j))
  BY <1>1, NoListFilter
<1>3. SchemaFilterClause(i) /\ i \notin ExcludedRelationFqns
  BY DEF Retrieved
<1>4. /\ Root(i) \in Oids /\ T[Root(i)].parent = 0 /\ Root(Root(i)) = Root(i)
      /\ T[Root(i)].schema = T[i].schema /\ i # 0 /\ ~InnerPartition(Root(i))
      /\ ~Skipped(Root(i))
  BY <1>1, WorldFacts, RootFacts DEF InnerPartition, Skipped, Attached
<1>5. SchemaFilterClause(Root(i))
  BY <1>3, <1>4 DEF SchemaFilterClause
<1>6. \A name \in ExcludedTables : name.oid # i /\ (world.leaf => name.oid # Root(i))
  BY <1>2, <1>3
<1>7. world.leaf => There(Root(i))
  BY <1>4, <1>5, <1>6, OtherThere
<1>8. ASSUME HasData(i), ~SkipDataBackup(i) PROVE There(IF AtLeast7 THEN i ELSE Root(i))
  <2>1. CASE AtLeast7
    <3>1. world.leaf \/ ~Skipped(i)
      BY <1>2, <1>8 DEF HasData
    <3> QED
      BY <2>1, <3>1, <1>3, <1>6, OtherThere
  <2>2. CASE ~AtLeast7 /\ world.leaf
    BY <2>2, <1>7
  <2>3. CASE ~AtLeast7 /\ ~world.leaf
    <3>1. world.version = 6 /\ (T[i].foreign \/ T[i].config => T[i].parent = 0)
      BY <2>3, <1>1, WorldFacts, TableSound DEF AtLeast7
    <3>2. ~T[i].external
      BY <1>8 DEF SkipDataBackup
    <3>3. T[i].parent = 0
      BY <2>3, <3>1, <3>2 DEF Retrieved, InnerPartition
    <3>4. Root(i) = i
      BY <3>3, <1>1, RootUnfolds
    <3> QED
      BY <2>3, <3>4, <1>3, <1>4, <1>6, OtherThere
  <2> QED
    BY <2>1, <2>2, <2>3
<1>9. ASSUME T[i].parent # 0, MetadataEntries(i) > 0, ~T[i].config, ~SpelledOtherwise(i),
             ~(~AtLeast7 /\ ~world.leaf /\ T[i].external /\ Excluded(i))
      PROVE  There(IF AtLeast7 THEN T[i].parent ELSE Root(i))
  <2>1. CASE AtLeast7
    <3> DEFINE p == T[i].parent
    <3>1. p \in Oids /\ T[p].parted /\ Root(p) = Root(i) /\ T[p].schema = T[i].schema
      BY <1>1, <1>9, TableSound, RootUnfolds
    <3>2. SchemaFilterClause(p)
      BY <3>1, <1>3 DEF SchemaFilterClause
    <3>3. \A name \in ExcludedTables : name.oid # Root(i)
      <4>1. CASE world.leaf
        BY <4>1, <1>6
      <4>2. CASE ~world.leaf
        <5>1. ~Skipped(i)
          BY <4>2, <1>2, <1>9 DEF MetadataEntries
        <5> QED
          BY <4>2, <5>1, <2>1, <1>9 DEF SpelledOtherwise, Skipped, Attached
      <4> QED
        BY <4>1, <4>2
    <3>4. ASSUME NEW name \in ExcludedTables, name.oid = p PROVE FALSE
      <4>1. p # 0 /\ Level(p) # "i"
        BY <1>1, <1>9, <3>4, AcceptedNames
      <4>2. T[p].parent = 0
        BY <3>1, <4>1 DEF Level
      <4>3. p = Root(i)
        BY <1>1, <3>1, <4>2, RootUnfolds
      <4> QED
        BY <4>3, <3>3, <3>4
    <3>5. ~Skipped(p)
      BY <3>1, <3>3 DEF Skipped
    <3> QED
      BY <2>1, <3>1, <3>2, <3>3, <3>4, <3>5, OtherThere
  <2>2. CASE ~AtLeast7 /\ world.leaf
    BY <2>2, <1>7
  <2>3. CASE ~AtLeast7 /\ ~world.leaf
    <3>1. world.version = 6 /\ (T[i].foreign \/ T[i].config => T[i].parent = 0)
      BY <2>3, <1>1, WorldFacts, TableSound DEF AtLeast7
    <3>2. T[i].external
      BY <2>3, <3>1, <1>9 DEF Retrieved, InnerPartition
    <3>3. ~Excluded(i)
      BY <2>3, <3>2, <1>9
    <3>4. \A name \in ExcludedTables : name.oid # Root(i)
      BY <3>3 DEF Excluded
    <3> QED
      BY <2>3, <3>4, <1>4, <1>5, OtherThere
  <2> QED
    BY <2>1, <2>2, <2>3
<1> QED
  BY <1>8, <1>9

\* No statement of the metadata file refers to a table that is not in it.
THEOREM MetadataComplete == SelectionSpec => []MetadataClosed
<1>1. SelectionIInv => MetadataClosed
  <2> SUFFICES ASSUME SelectionIInv, pc = "done", ~world.noInherits, OrdinaryList,
                      NEW i \in Oids
               PROVE  /\ dataTables[i] > 0 => There(IF AtLeast7 THEN i ELSE Root(i))
                      /\ metadataTables[i] > 0 =>
                           /\ /\ T[i].parent # 0
                              /\ ~(SpelledOtherwise(i) \/
                                   (~AtLeast7 /\ ~world.leaf /\ T[i].external /\ Excluded(i)))
                              => There(IF AtLeast7 THEN T[i].parent ELSE Root(i))
                           /\ IncludedTables # {} /\ (AtLeast7 \/ AskedOrAncestor(i)) =>
                                \A j \in T[i].inherits : There(j)
    BY DEF MetadataClosed, There
  <2>1. /\ dataTables[i] > 0 => Copied(i) /\ ~IsQDOnly(i)
        /\ metadataTables[i] > 0 => Retrieved(i) /\ MetadataEntries(i) > 0
    BY FinalLists
  <2>2. CASE IncludedTables # {}
    BY <2>1, <2>2, ListedMetadata DEF Copied
  <2>3. CASE IncludedTables = {}
    <3>1. MetadataEntries(i) > 0 => ~T[i].config
      BY DEF MetadataEntries
    <3> QED
      BY <2>1, <2>3, <3>1, OtherMetadata DEF Copied
  <2> QED
    BY <2>2, <2>3
<1> QED
  BY <1>1, SelectionInductive, PTL
=============================================================================
