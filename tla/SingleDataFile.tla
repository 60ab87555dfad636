--------------------------- MODULE SingleDataFile ---------------------------
(***************************************************************************)
(* gpbackup --single-data-file on one segment: the connections of          *)
(* BackupDataForAllTables (backup/data.go) send each table through a named *)
(* pipe of its own, and one gpbackup_helper (helper/backup_helper.go)      *)
(* reads the pipes in the order of the oid list into one data file, noting *)
(* in the segment TOC where each table begins and ends.                    *)
(*                                                                         *)
(* A COPY runs "test -p PIPE && cat - > PIPE" on the segment: opening the  *)
(* pipe blocks until its other end is opened, and COPY is over when its    *)
(* bytes are in the pipe, which holds Capacity of them.  Backups have a    *)
(* synchronized snapshot here, and the tables in "locked" are those an     *)
(* ACCESS EXCLUSIVE request is queued for: their LOCK ... NOWAIT fails.    *)
(* BackupData.tla has the rest of the data phase's scheduling; a failed    *)
(* COPY here just fails the backup.                                        *)
(***************************************************************************)
EXTENDS Integers, Sequences, FiniteSets, FiniteSetsExt

CONSTANTS
  NumTables,   \* tables to back up, in the order of the oid list
  NumWorkers,  \* connections 1..NumWorkers; connection 0 does deferred tables
  Sizes,       \* the bytes of each table
  MaxLocked,   \* how many tables may be locked by others
  Faults       \* failures of the helper that may happen

Tables   == 1 .. NumTables
Conns    == 0 .. NumWorkers
Workers  == 1 .. NumWorkers
Capacity == 1
FaultKinds == {"error", "crash"}

ASSUME SizeAssumptions ==
  /\ NumTables \in Nat \ {0}
  /\ NumWorkers \in Nat \ {0}
  /\ Sizes \in [Tables -> Nat]
  /\ MaxLocked \in Nat
  /\ Faults \subseteq FaultKinds

VARIABLES
  plugin,       \* a storage plugin is used
  locked,       \* tables whose LOCK ... NOWAIT fails
  next,         \* the first table still in the tasks channel
  tableState,   \* oidMap
  deferredNext, \* the table the deferred worker's loop is at
  onTable,      \* the table each connection copies
  stage,        \* how far its COPY command is
  written,      \* the bytes of each table written so far
  isErrored,    \* a COPY failed
  mainPc,
  pipe,         \* each table's pipe
  inPipe,       \* the bytes in it
  stray,        \* tables whose bytes went to a regular file
  helperPc,
  helperAt,     \* index in the oid list
  reading,      \* the table whose pipe the helper has open, or 0
  released,     \* the pipe DoCleanup opened and closed, not yet removed
  dataFile,     \* which table each byte belongs to
  toc,          \* <<start, end>> of each table, in order
  tocWritten,
  errorFile

connVars   == <<next, tableState, deferredNext, onTable, stage, written,
                isErrored>>
pipeVars   == <<pipe, inPipe, stray>>
helperVars == <<helperPc, helperAt, reading, released, dataFile, toc,
                tocWritten, errorFile>>
inputVars  == <<plugin, locked>>
vars == <<inputVars, connVars, mainPc, pipeVars, helperVars>>

TypeOK ==
  /\ plugin \in BOOLEAN
  /\ locked \in SUBSET Tables
  /\ next \in 1 .. NumTables + 1
  /\ tableState \in [Tables -> {"Unknown", "Deferred", "Complete"}]
  /\ deferredNext \in 1 .. NumTables + 1
  /\ onTable \in [Conns -> 0 .. NumTables]
  /\ stage \in [Conns -> {"idle", "test", "open", "blocked", "write"}]
  /\ written \in [Tables -> Nat]
  /\ isErrored \in BOOLEAN
  /\ mainPc \in {"copying", "check", "remove", "found", "await", "ok", "failed"}
  /\ pipe \in [Tables -> {"none", "fifo", "removed"}]
  /\ inPipe \in [Tables -> 0 .. Capacity]
  /\ stray \in SUBSET Tables
  /\ helperPc \in {"create", "open", "read", "finish", "done", "error",
                   "cleanup", "gone"}
  /\ helperAt \in 1 .. NumTables + 1
  /\ reading \in 0 .. NumTables
  /\ released \in 0 .. NumTables
  /\ dataFile \in Seq(Tables)
  /\ toc \in Seq(Nat \X Nat)
  /\ tocWritten \in BOOLEAN
  /\ errorFile \in BOOLEAN

\* Mutant: connection 0, which also copies tables, is not counted.
QueueOfWorkers == Min({NumWorkers, NumTables})

\* CreateInitialSegmentPipes returns the number of pipes it made, which is the
\* helper's --copy-queue-size.
copyQueue == Min({NumWorkers + 1, NumTables})

Init ==
  /\ plugin \in BOOLEAN
  /\ locked \in {s \in SUBSET Tables : Cardinality(s) <= MaxLocked}
  /\ next = 1
  /\ tableState = [t \in Tables |-> "Unknown"]
  /\ deferredNext = 1
  /\ onTable = [c \in Conns |-> 0]
  /\ stage = [c \in Conns |-> "idle"]
  /\ written = [t \in Tables |-> 0]
  /\ isErrored = FALSE
  /\ mainPc = "copying"
  /\ pipe = [t \in Tables |-> IF t <= copyQueue THEN "fifo" ELSE "none"]
  /\ inPipe = [t \in Tables |-> 0]
  /\ stray = {}
  /\ helperPc = "create"
  /\ helperAt = 1
  /\ reading = 0
  /\ released = 0
  /\ dataFile = <<>>
  /\ toc = <<>>
  /\ tocWritten = FALSE
  /\ errorFile = FALSE

-----------------------------------------------------------------------------
(* Connections                                                             *)

Copies(c, t) ==
  /\ onTable' = [onTable EXCEPT ![c] = t]
  /\ stage' = [stage EXCEPT ![c] = "test"]
GoCopy(c, from, to) ==
  /\ stage[c] = from
  /\ stage' = [stage EXCEPT ![c] = to]
CopySucceeds(c) ==
  /\ stage' = [stage EXCEPT ![c] = "idle"]
  /\ tableState' = [tableState EXCEPT ![onTable[c]] = "Complete"]

\* A worker takes the next table: it defers the table if it cannot lock it.
TakeTable(w) ==
  /\ stage[w] = "idle" /\ ~isErrored
  /\ next <= NumTables
  /\ next' = next + 1
  /\ IF next \in locked
     THEN /\ tableState' = [tableState EXCEPT ![next] = "Deferred"]
          /\ UNCHANGED <<onTable, stage>>
     ELSE Copies(w, next) /\ UNCHANGED tableState
  /\ UNCHANGED <<inputVars, deferredNext, written, isErrored, mainPc, pipeVars,
                 helperVars>>

DeferredCopies ==
  /\ stage[0] = "idle" /\ ~isErrored
  /\ deferredNext <= NumTables
  /\ tableState[deferredNext] = "Deferred"
  /\ Copies(0, deferredNext)
  /\ UNCHANGED <<inputVars, next, tableState, deferredNext, written, isErrored,
                 mainPc, pipeVars, helperVars>>

DeferredMovesOn ==
  /\ stage[0] = "idle" /\ ~isErrored
  /\ deferredNext <= NumTables
  /\ tableState[deferredNext] = "Complete"
  /\ deferredNext' = deferredNext + 1
  /\ UNCHANGED <<inputVars, next, tableState, onTable, stage, written,
                 isErrored, mainPc, pipeVars, helperVars>>

\* test -p: "Pipe not found" fails the COPY, and with it the backup.
TestPipe(c) ==
  /\ stage[c] = "test"
  /\ IF pipe[onTable[c]] = "fifo"
     THEN GoCopy(c, "test", "open") /\ UNCHANGED isErrored
     ELSE GoCopy(c, "test", "idle") /\ isErrored' = TRUE
  /\ UNCHANGED <<inputVars, next, tableState, deferredNext, onTable, written,
                 mainPc, pipeVars, helperVars>>

\* The shell's redirection opens the pipe.
OpenPipe(c) ==
  /\ GoCopy(c, "open", "blocked")
  /\ pipe[onTable[c]] = "fifo"
  /\ UNCHANGED <<inputVars, next, tableState, deferredNext, onTable, written,
                 isErrored, mainPc, pipeVars, helperVars>>

\* If the pipe was removed after the test, it creates a regular file instead.
OpenRegularFile(c) ==
  /\ stage[c] = "open"
  /\ pipe[onTable[c]] = "removed"
  /\ stray' = stray \cup {onTable[c]}
  /\ CopySucceeds(c)
  /\ UNCHANGED <<inputVars, next, deferredNext, onTable, written, isErrored,
                 mainPc, pipe, inPipe, helperVars>>

WritePipe(c) ==
  LET t == onTable[c] IN
  /\ stage[c] = "write"
  /\ reading = t
  /\ written[t] < Sizes[t]
  /\ inPipe[t] < Capacity
  /\ inPipe' = [inPipe EXCEPT ![t] = @ + 1]
  /\ written' = [written EXCEPT ![t] = @ + 1]
  /\ UNCHANGED <<inputVars, next, tableState, deferredNext, onTable, stage,
                 isErrored, mainPc, pipe, stray, helperVars>>

\* The pipe has no reader any more.
BrokenPipe(c) ==
  LET t == onTable[c] IN
  /\ GoCopy(c, "write", "idle")
  /\ reading # t
  /\ written[t] < Sizes[t]
  /\ isErrored' = TRUE
  /\ UNCHANGED <<inputVars, next, tableState, deferredNext, onTable, written,
                 mainPc, pipeVars, helperVars>>

\* COPY closes its end with its last bytes possibly still unread.
CopyEnds(c) ==
  /\ stage[c] = "write"
  /\ written[onTable[c]] = Sizes[onTable[c]]
  /\ CopySucceeds(c)
  /\ UNCHANGED <<inputVars, next, deferredNext, onTable, written, isErrored,
                 mainPc, pipeVars, helperVars>>

Copy(c) ==
  \/ TestPipe(c) \/ OpenPipe(c) \/ OpenRegularFile(c)
  \/ WritePipe(c) \/ BrokenPipe(c) \/ CopyEnds(c)

-----------------------------------------------------------------------------
(* gpbackup's main goroutine                                               *)

GoMain(from, to) ==
  /\ mainPc = from
  /\ mainPc' = to
  /\ UNCHANGED <<inputVars, connVars, pipeVars>>

CopiesDone ==
  /\ next = NumTables + 1 /\ \A w \in Workers : stage[w] = "idle"
  /\ deferredNext = NumTables + 1
  /\ GoMain("copying", "check")
  /\ UNCHANGED helperVars

CopyFailed ==
  /\ isErrored
  /\ GoMain("copying", "failed")
  /\ UNCHANGED helperVars

\* CheckAgentErrorsOnSegments: "if ls F; then echo error; fi; rm -f F"
LookForErrorFile ==
  /\ GoMain("check", IF errorFile THEN "found" ELSE "remove")
  /\ UNCHANGED helperVars

RemoveErrorFile ==
  /\ \/ GoMain("found", "failed")
     \/ GoMain("remove", IF plugin THEN "await" ELSE "ok")
  /\ errorFile' = FALSE
  /\ UNCHANGED <<helperPc, helperAt, reading, released, dataFile, toc,
                 tocWritten>>

\* Mutant: the first look does not wait for either file.
NoWaitForSegmentTOC ==
  /\ GoMain("await", IF errorFile THEN "failed" ELSE "ok")
  /\ UNCHANGED helperVars

\* BackupSegmentTOCs: wait for one of the files, succeed if it is the TOC.
AwaitSegmentTOC ==
  /\ tocWritten \/ errorFile
  /\ GoMain("await", IF tocWritten THEN "ok" ELSE "failed")
  /\ UNCHANGED helperVars

\* DoCleanup's CleanUpSegmentHelperProcesses sends SIGUSR1 to a helper that is
\* still there.
StopHelper ==
  /\ mainPc \in {"ok", "failed"}
  /\ helperPc \in {"create", "open", "read", "finish"}
  /\ helperPc' = "error"
  /\ UNCHANGED <<inputVars, connVars, mainPc, pipeVars, helperAt, reading,
                 released, dataFile, toc, tocWritten, errorFile>>

Main ==
  \/ CopiesDone \/ CopyFailed \/ LookForErrorFile \/ RemoveErrorFile
  \/ AwaitSegmentTOC

-----------------------------------------------------------------------------
(* gpbackup_helper: doBackupAgent and DoCleanup                            *)

GoHelper(from, to) ==
  /\ helperPc = from
  /\ helperPc' = to
  /\ UNCHANGED <<inputVars, mainPc>>

\* At each table the helper makes the pipe that comes copyQueue tables later.
HelperCreates ==
  /\ GoHelper("create", "open")
  /\ pipe' = [t \in Tables |-> IF t = helperAt + copyQueue THEN "fifo"
                               ELSE pipe[t]]
  /\ UNCHANGED <<connVars, inPipe, stray, helperAt, reading, released,
                 dataFile, toc, tocWritten, errorFile>>

\* The helper's open and a COPY's meet.
HelperOpens ==
  \E c \in Conns :
    /\ stage[c] = "blocked" /\ onTable[c] = helperAt
    /\ GoHelper("open", "read")
    /\ stage' = [stage EXCEPT ![c] = "write"]
    /\ reading' = helperAt
    /\ UNCHANGED <<next, tableState, deferredNext, onTable, written, isErrored,
                   pipeVars, helperAt, released, dataFile, toc, tocWritten,
                   errorFile>>

HelperReads ==
  /\ GoHelper("read", "read")
  /\ inPipe[reading] > 0
  /\ inPipe' = [inPipe EXCEPT ![reading] = @ - 1]
  /\ dataFile' = Append(dataFile, reading)
  /\ UNCHANGED <<connVars, pipe, stray, helperAt, reading, released, toc,
                 tocWritten, errorFile>>

lastRead == IF toc = <<>> THEN 0 ELSE toc[Len(toc)][2]

\* Mutant: every entry starts where the file does.
EntryFromZero ==
  /\ GoHelper("read", IF helperAt = NumTables THEN "finish" ELSE "create")
  /\ inPipe[reading] = 0
  /\ \A c \in Conns : ~(stage[c] = "write" /\ onTable[c] = reading)
  /\ toc' = Append(toc, <<0, Len(dataFile)>>)
  /\ pipe' = [pipe EXCEPT ![reading] = "removed"]
  /\ helperAt' = helperAt + 1
  /\ reading' = 0
  /\ UNCHANGED <<connVars, inPipe, stray, released, dataFile, tocWritten,
                 errorFile>>

\* End of file: no writer is left and the pipe is empty.
EndOfTable ==
  /\ GoHelper("read", IF helperAt = NumTables THEN "finish" ELSE "create")
  /\ inPipe[reading] = 0
  /\ \A c \in Conns : ~(stage[c] = "write" /\ onTable[c] = reading)
  /\ toc' = Append(toc, <<lastRead, Len(dataFile)>>)
  /\ pipe' = [pipe EXCEPT ![reading] = "removed"]
  /\ helperAt' = helperAt + 1
  /\ reading' = 0
  /\ UNCHANGED <<connVars, inPipe, stray, released, dataFile, tocWritten,
                 errorFile>>

\* The plugin's command is waited for and the segment TOC is written.
HelperFinishes ==
  /\ GoHelper("finish", "done")
  /\ tocWritten' = TRUE
  /\ UNCHANGED <<connVars, pipeVars, helperAt, reading, released, dataFile,
                 toc, errorFile>>

\* Mutant: the error is not reported before the clean-up.
FailSilently ==
  /\ "error" \in Faults
  /\ \E pc \in {"create", "read", "finish"} : GoHelper(pc, "cleanup")
  /\ UNCHANGED <<connVars, pipeVars, helperAt, reading, released, dataFile,
                 toc, tocWritten, errorFile>>

HelperFails ==
  /\ "error" \in Faults
  /\ \E pc \in {"create", "read", "finish"} : GoHelper(pc, "error")
  /\ UNCHANGED <<connVars, pipeVars, helperAt, reading, released, dataFile,
                 toc, tocWritten, errorFile>>

HelperCrashes ==
  /\ "crash" \in Faults
  /\ \E pc \in {"create", "open", "read", "finish"} : GoHelper(pc, "gone")
  /\ reading' = 0
  /\ UNCHANGED <<connVars, pipeVars, helperAt, released, dataFile, toc,
                 tocWritten, errorFile>>

WriteErrorFile ==
  /\ GoHelper("error", "cleanup")
  /\ errorFile' = TRUE
  /\ UNCHANGED <<connVars, pipeVars, helperAt, reading, released, dataFile,
                 toc, tocWritten>>

\* Opening and closing a pipe lets a COPY that blocks on it go on.
ReleasePipe ==
  \E t \in Tables :
    /\ GoHelper("cleanup", "cleanup")
    /\ released = 0 /\ pipe[t] = "fifo"
    /\ released' = t
    /\ stage' = [c \in Conns |-> IF stage[c] = "blocked" /\ onTable[c] = t
                                 THEN "write" ELSE stage[c]]
    /\ UNCHANGED <<next, tableState, deferredNext, onTable, written, isErrored,
                   pipeVars, helperAt, reading, dataFile, toc, tocWritten,
                   errorFile>>

RemovePipe ==
  /\ GoHelper("cleanup", "cleanup")
  /\ released # 0
  /\ pipe' = [pipe EXCEPT ![released] = "removed"]
  /\ released' = 0
  /\ UNCHANGED <<connVars, inPipe, stray, helperAt, reading, dataFile, toc,
                 tocWritten, errorFile>>

HelperExits ==
  /\ GoHelper("cleanup", "gone")
  /\ \A t \in Tables : pipe[t] # "fifo"
  /\ reading' = 0
  /\ UNCHANGED <<connVars, pipeVars, helperAt, released, dataFile, toc,
                 tocWritten, errorFile>>

Helper ==
  \/ HelperCreates \/ HelperOpens \/ HelperReads \/ EndOfTable
  \/ HelperFinishes \/ WriteErrorFile \/ ReleasePipe \/ RemovePipe
  \/ HelperExits

Next ==
  \/ \E w \in Workers : TakeTable(w)
  \/ DeferredCopies \/ DeferredMovesOn
  \/ \E c \in Conns : Copy(c)
  \/ Main
  \/ Helper \/ HelperFails \/ HelperCrashes \/ StopHelper

\* gpbackup's goroutines, the COPY commands and the helper are processes or
\* threads that run whenever they are not blocked.
Fairness ==
  /\ \A w \in Workers : WF_vars(TakeTable(w))
  /\ WF_vars(DeferredCopies \/ DeferredMovesOn)
  /\ \A c \in Conns : WF_vars(Copy(c))
  /\ WF_vars(Main)
  /\ WF_vars(Helper)

Spec == Init /\ [][Next]_vars /\ Fairness

-----------------------------------------------------------------------------
(* Properties                                                              *)

Running      == mainPc \notin {"ok", "failed"}
HelperFailed == helperPc \in {"error", "cleanup", "gone"}

\* The segment TOC's entries follow each other without gaps, each delimits the
\* bytes of its own table, and all of them if COPY reported success.
EntriesDelimit ==
  \A t \in 1 .. Len(toc) :
    LET start == toc[t][1]
        end   == toc[t][2]
    IN /\ start = (IF t = 1 THEN 0 ELSE toc[t - 1][2])
       /\ \A i \in start + 1 .. end : dataFile[i] = t
       /\ tableState[t] = "Complete" /\ t \notin stray => end - start = Sizes[t]

AllRead == Len(toc) = NumTables /\ \A t \in Tables : toc[t][2] - toc[t][1] = Sizes[t]

\* With a plugin, a successful backup has a complete data file and its TOC on
\* the segment, whatever the helper met (BackupSegmentTOCs waits for it).
PluginSuccessComplete == plugin /\ mainPc = "ok" => tocWritten /\ AllRead

\* Without one, a helper's failure can only go unnoticed when every table but
\* the last is in the data file: earlier the remaining COPYs wait for a helper
\* whose error file is there before it lets them go.
OnlyTailAtRisk ==
  mainPc = "ok" => Len(toc) >= NumTables - 1

\* A helper that does not fail leads to a successful backup although another
\* session blocks a table: no COPY waits for a pipe the helper will not read.
\* When it blocks two, the worker may come to a table whose pipe is not made
\* yet: the helper waits for the first deferred one, and the COPY fails.
BackupSucceeds ==
  Cardinality(locked) <= 1 /\ [](Running => ~HelperFailed) => <>(mainPc = "ok")
=============================================================================
