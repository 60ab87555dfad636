---------------------------- MODULE RestoreHelper ----------------------------
(***************************************************************************)
(* gprestore of a single-data-file backup on one segment: the connections  *)
(* of restoreDataFromTimestamp (restore/data.go) each load every           *)
(* NumConns-th table, one COPY per batch, from named pipes that one        *)
(* gpbackup_helper (helper/restore_helper.go) fills in the order of the    *)
(* oid list.  Restoring to fewer segments, a segment reads the data files  *)
(* of several old ones: one batch and one reader for each.                 *)
(*                                                                         *)
(* A COPY runs "(wait until PIPE or the error file is there) && cat PIPE". *)
(* The helper opens a pipe without blocking and tries again until the COPY *)
(* has it open.  With --on-error-continue a COPY that failed leaves a skip *)
(* file, and the helper passes over its table.                             *)
(*                                                                         *)
(* Data is counted, not stored: pos is how far a reader is in its stream,  *)
(* and a byte is right if its position belongs to the table whose pipe it  *)
(* is written to.                                                          *)
(***************************************************************************)
EXTENDS Integers, Sequences, FiniteSets, FiniteSetsExt, SequencesExt

CONSTANTS
  Sizes,     \* bytes per batch of each table in the data file, in file order
  Entries,   \* the tables to restore, in file order
  Batches,   \* rounds a table takes
  NumConns,  \* connections, numbered from 1
  Setups,    \* [reader, replicated, files, latest], see setup below
  Faults     \* failures that may happen

FaultKinds == {"copy", "read"}
Tables == DOMAIN Sizes
Conns  == 1 .. NumConns
BatchNumbers == 0 .. Batches - 1

\* Sums(f)[n] is f[1] + ... + f[n].
Sums(f) ==
  LET sum[n \in 0 .. Len(f)] == IF n = 0 THEN 0 ELSE sum[n - 1] + f[n]
  IN  sum

EndByte  == Sums(Sizes)
FileSize == EndByte[Len(Sizes)]

ASSUME RestoreAssumptions ==
  /\ Sizes \in Seq(Nat)
  /\ Entries \in Seq(Tables) /\ Entries # <<>>
  /\ \A i, j \in DOMAIN Entries : i < j => Entries[i] < Entries[j]
  /\ Batches \in Nat \ {0}
  /\ NumConns \in Nat \ {0}
  /\ \A s \in Setups : /\ s.reader \in {"seekable", "discard", "subset"}
                       /\ s.replicated \subseteq Tables
                       /\ s.files \in {Batches - 1, Batches}
                       /\ s.latest \in BOOLEAN
  /\ Faults \subseteq FaultKinds

VARIABLES
  setup,            \* reader: the kind of the readers
                    \* replicated: the replicated tables
                    \* files: data files, one for each of the first batches
                    \* latest: this backup is the restore plan's last
  onErrorContinue,  \* --on-error-continue
  entry,            \* index into Entries of each connection
  batch,            \* its batch of that table
  stage,            \* how far its COPY is
  rows,             \* what each table's COPYs loaded
  status,           \* what became of each table
  cancelled,        \* the shared context is cancelled
  pipe,             \* the pipe of each <<table, batch>>
  skipFiles,        \* tables with a skip file
  errorFile,        \* the helper's error file
  helperPc,
  at,               \* index into the oid list
  skipOid,          \* the table the helper passes over, or 0
  pos,              \* how far each batch's reader is in its stream
  lastByte,         \* how far the helper believes it is
  discardErr,       \* a reader failed while it discarded
  copied,           \* bytes of this pipe taken from the reader
  wasSigpiped,      \* a pipe broke while the helper wrote to it
  lastError,        \* some table had an error
  hit               \* tables a reader failed on

inputVars  == <<setup, onErrorContinue>>
connVars   == <<entry, batch, stage, rows, status, cancelled>>
fileVars   == <<pipe, skipFiles, errorFile>>
readerVars == <<pos, lastByte, discardErr, hit>>
loopVars   == <<helperPc, at, skipOid, copied, wasSigpiped, lastError>>
vars == <<inputVars, connVars, fileVars, readerVars, loopVars>>

Restored == {Entries[i] : i \in DOMAIN Entries}
Pipes    == Restored \X BatchNumbers

TypeOK ==
  /\ setup \in Setups
  /\ onErrorContinue \in BOOLEAN
  /\ entry \in [Conns -> 1 .. Len(Entries) + NumConns]
  /\ batch \in [Conns -> BatchNumbers]
  /\ stage \in [Conns -> {"idle", "check", "found", "remove", "test", "open",
                          "blocked", "reading", "eof", "failed", "done"}]
  /\ rows \in [Restored -> Nat]
  /\ status \in [Restored -> {"todo", "restored", "copyFailed", "short",
                              "agentFailed"}]
  /\ cancelled \in BOOLEAN
  /\ pipe \in [Pipes -> {"none", "fifo", "released", "removed"}]
  /\ skipFiles \subseteq Restored
  /\ errorFile \in BOOLEAN
  /\ helperPc \in {"create", "open", "position", "copy", "failed", "error",
                   "cleanup", "gone"}
  /\ at \in Nat
  /\ skipOid \in Restored \cup {0}
  /\ pos \in [BatchNumbers -> 0 .. FileSize]
  /\ lastByte \in [BatchNumbers -> 0 .. FileSize]
  /\ discardErr \subseteq BatchNumbers
  /\ copied \in Nat
  /\ wasSigpiped \in BOOLEAN
  /\ lastError \in BOOLEAN
  /\ hit \subseteq Restored

-----------------------------------------------------------------------------
(* The oid list and the data                                               *)

\* We don't want duplicate data for replicated tables: one batch only.
BatchesFor(s, t) == IF t \in s.replicated THEN 1 ELSE Batches
BatchesOf(t) == BatchesFor(setup, t)

\* The oid list: every table's batches one after another.
OidList ==
  [s \in Setups |->
     FlattenSeq([i \in DOMAIN Entries |->
                   [b \in 1 .. BatchesFor(s, Entries[i]) |->
                      <<Entries[i], b - 1>>]])]
oidWithBatchList == OidList[setup]

copyQueue == Min({NumConns * Batches, Len(oidWithBatchList)})

InFile(b, t) == IF b < setup.files THEN Sizes[t] ELSE 0

\* A subset reader's stream holds the tables of its own batch's oid list only.
StreamTables(s, b) ==
  IF s.reader = "subset" THEN {t \in Restored : b < BatchesFor(s, t)}
  ELSE Tables
StreamEnd ==
  [s \in Setups |-> [b \in BatchNumbers |->
     Sums([t \in Tables |-> IF t \in StreamTables(s, b) THEN Sizes[t] ELSE 0])]]
StreamStart(b, t) == StreamEnd[setup][b][t - 1]
StreamSize(b)     == StreamEnd[setup][b][Len(Sizes)]

Init ==
  /\ setup \in Setups
  /\ onErrorContinue \in BOOLEAN
  /\ entry = [c \in Conns |-> c]
  /\ batch = [c \in Conns |-> 0]
  /\ stage = [c \in Conns |-> "idle"]
  /\ rows = [t \in Restored |-> 0]
  /\ status = [t \in Restored |-> "todo"]
  /\ cancelled = FALSE
  /\ pipe = [p \in Pipes |->
               IF \E i \in 1 .. copyQueue : oidWithBatchList[i] = p
               THEN "fifo" ELSE "none"]
  /\ skipFiles = {}
  /\ errorFile = FALSE
  /\ helperPc = "create"
  /\ at = 1
  /\ skipOid = 0
  /\ pos = [b \in BatchNumbers |-> 0]
  /\ lastByte = [b \in BatchNumbers |-> 0]
  /\ discardErr = {}
  /\ copied = 0
  /\ wasSigpiped = FALSE
  /\ lastError = FALSE
  /\ hit = {}

-----------------------------------------------------------------------------
(* A connection of restoreDataFromTimestamp                                *)

Entry(c) == Entries[entry[c]]
Pipe(c)  == <<Entry(c), batch[c]>>
Exists(p) == pipe[p] \in {"fifo", "released"}
Go(c, from, to) ==
  /\ stage[c] = from
  /\ stage' = [stage EXCEPT ![c] = to]

NextTable(c) ==
  /\ ~cancelled
  /\ entry[c] <= Len(Entries)
  /\ Go(c, "idle", "check")
  /\ batch' = [batch EXCEPT ![c] = 0]
  /\ UNCHANGED <<inputVars, entry, rows, status, cancelled, fileVars,
                 readerVars, loopVars>>

Stops(c) ==
  /\ cancelled \/ entry[c] > Len(Entries)
  /\ Go(c, "idle", "done")
  /\ UNCHANGED <<inputVars, entry, batch, rows, status, cancelled, fileVars,
                 readerVars, loopVars>>

Ends(how) ==
  \/ how = "agentFailed"
  \/ how # "restored" /\ ~onErrorContinue

\* Mutant: the connection goes on with the next table of the list.
FinishInOrder(c, how) ==
  /\ status' = [status EXCEPT ![Entry(c)] = how]
  /\ entry' = [entry EXCEPT ![c] = @ + 1]
  /\ cancelled' = (cancelled \/ Ends(how))
  /\ stage' = [stage EXCEPT ![c] =
                 IF Ends(how)
                 THEN "done" ELSE "idle"]

\* The table is over: an error cancels the others' unless it may be passed
\* over, and one of the helper is never passed over.
Finish(c, how) ==
  /\ status' = [status EXCEPT ![Entry(c)] = how]
  /\ entry' = [entry EXCEPT ![c] = @ + NumConns]
  /\ cancelled' = (cancelled \/ Ends(how))
  /\ stage' = [stage EXCEPT ![c] =
                 IF Ends(how)
                 THEN "done" ELSE "idle"]

\* The file names hold the timestamp of globalFPInfo, the latest backup's: for
\* another of the restore plan they are not its helper's.
ErrorFileSeen == setup.latest /\ errorFile

\* CheckAgentErrorsOnSegments: "if ls F; then echo error; fi; rm -f F"
LookForErrorFile(c) ==
  /\ Go(c, "check", IF ErrorFileSeen THEN "found" ELSE "remove")
  /\ UNCHANGED <<inputVars, entry, batch, rows, status, cancelled, fileVars,
                 readerVars, loopVars>>

RemoveErrorFile(c) ==
  /\ \/ stage[c] = "found" /\ Finish(c, "agentFailed")
     \/ Go(c, "remove", "test") /\ UNCHANGED <<entry, status, cancelled>>
  /\ errorFile' = (errorFile /\ ~setup.latest)
  /\ UNCHANGED <<inputVars, batch, rows, pipe, skipFiles, readerVars, loopVars>>

WaitForPipe(c) ==
  /\ Go(c, "test", "open")
  /\ ErrorFileSeen \/ Exists(Pipe(c))
  /\ UNCHANGED <<inputVars, entry, batch, rows, status, cancelled, fileVars,
                 readerVars, loopVars>>

OpenPipe(c) ==
  /\ Go(c, "open", IF Exists(Pipe(c)) THEN "blocked" ELSE "failed")
  /\ UNCHANGED <<inputVars, entry, batch, rows, status, cancelled, fileVars,
                 readerVars, loopVars>>

InCopy == {"test", "open", "blocked", "reading"}

\* A cancelled context ends the COPY, running or about to run.
CopyCancelled(c) ==
  /\ cancelled
  /\ stage[c] \in InCopy /\ Go(c, stage[c], "failed")
  /\ UNCHANGED <<inputVars, entry, batch, rows, status, cancelled, fileVars,
                 readerVars, loopVars>>

\* COPY fails by itself, before or after its program has opened the pipe.
CopyFails(c) ==
  /\ "copy" \in Faults
  /\ stage[c] \in InCopy /\ Go(c, stage[c], "failed")
  /\ UNCHANGED <<inputVars, entry, batch, rows, status, cancelled, fileVars,
                 readerVars, loopVars>>

\* The wait for the pipe is given up after 300 seconds: "Pipe not found".
PipeTimesOut(c) ==
  /\ Go(c, "test", "failed")
  /\ ~Exists(Pipe(c))
  /\ UNCHANGED <<inputVars, entry, batch, rows, status, cancelled, fileVars,
                 readerVars, loopVars>>

\* Mutant: no skip file is written.
NoSkipFile(c) ==
  /\ stage[c] = "failed"
  /\ Finish(c, "copyFailed")
  /\ UNCHANGED <<inputVars, batch, rows, fileVars, readerVars, loopVars>>

CreateSkipFile(c) ==
  /\ stage[c] = "failed"
  /\ skipFiles' = IF onErrorContinue /\ setup.latest
                  THEN skipFiles \cup {Entry(c)} ELSE skipFiles
  /\ Finish(c, "copyFailed")
  /\ UNCHANGED <<inputVars, batch, rows, pipe, errorFile, readerVars, loopVars>>

\* Expected(t) is what all batches of t hold, Loaded(t)[n] what its first n do.
Loaded(t)   == Sums([n \in 1 .. Batches |-> InFile(n - 1, t)])
Expected(t) == Loaded(t)[BatchesOf(t)]

\* COPY is over: the next batch, or the check of the number of rows.
CopyEnds(c) ==
  /\ stage[c] = "eof"
  /\ IF batch[c] + 1 < BatchesOf(Entry(c))
     THEN /\ batch' = [batch EXCEPT ![c] = @ + 1]
          /\ Go(c, "eof", "check")
          /\ UNCHANGED <<entry, status, cancelled>>
     ELSE /\ UNCHANGED batch
          /\ Finish(c, IF rows[Entry(c)] = Expected(Entry(c)) THEN "restored"
                       ELSE "short")
  /\ UNCHANGED <<inputVars, rows, fileVars, readerVars, loopVars>>

Conn(c) ==
  \/ NextTable(c) \/ Stops(c) \/ LookForErrorFile(c) \/ RemoveErrorFile(c)
  \/ WaitForPipe(c) \/ OpenPipe(c) \/ CopyCancelled(c) \/ CreateSkipFile(c)
  \/ CopyEnds(c) \/ PipeTimesOut(c)

-----------------------------------------------------------------------------
(* The helper: doRestoreAgentInternal                                      *)

Oid      == oidWithBatchList[at][1]
BatchNum == oidWithBatchList[at][2]
Current  == <<Oid, BatchNum>>
Size     == InFile(BatchNum, Oid)
Start    == EndByte[Oid - 1]

\* Connections whose cat has p open, or waits for its writer.
ReadersOf(p) ==
  {c \in Conns : stage[c] \in {"blocked", "reading"} /\ Pipe(c) = p}

\* The writer of p is closed: what it wrote is there, and the COPY is over.
CloseWriter(p) ==
  /\ stage' = [c \in Conns |-> IF c \in ReadersOf(p) THEN "eof" ELSE stage[c]]
  /\ rows' = IF ReadersOf(p) = {} THEN rows
             ELSE [rows EXCEPT ![p[1]] = @ + copied]
CloseAndDelete(p) ==
  /\ CloseWriter(p)
  /\ pipe' = [pipe EXCEPT ![p] = "removed"]

\* The end of the loop: an error is kept for later, or ends the helper.
Advance(err) ==
  /\ lastError' = (lastError \/ err)
  /\ copied' = 0
  /\ IF err /\ ~onErrorContinue
     THEN helperPc' = "error" /\ UNCHANGED at
     ELSE /\ at' = at + 1
          /\ helperPc' = IF at < Len(oidWithBatchList) THEN "create"
                         ELSE IF lastError \/ err THEN "error" ELSE "cleanup"

\* The pipe copyQueue places ahead is created, unless its table is skipped.
HelperCreates ==
  /\ helperPc = "create"
  /\ LET ahead == at + copyQueue
     IN  IF /\ ahead <= Len(oidWithBatchList)
            /\ oidWithBatchList[ahead][1] # skipOid
         THEN pipe' = [pipe EXCEPT ![oidWithBatchList[ahead]] = "fifo"]
         ELSE UNCHANGED pipe
  /\ IF Oid = skipOid THEN Advance(FALSE)
     ELSE helperPc' = "open" /\ UNCHANGED <<at, copied, lastError>>
  /\ UNCHANGED <<inputVars, connVars, skipFiles, errorFile, readerVars, skipOid,
                 wasSigpiped>>

\* A pipe that is not there is a hard error.
HelperOpens ==
  /\ helperPc = "open"
  /\ IF pipe[Current] # "fifo"
     THEN helperPc' = "failed" /\ UNCHANGED stage
     ELSE \E c \in ReadersOf(Current) :
            /\ stage' = [stage EXCEPT ![c] = "reading"]
            /\ helperPc' = "position"
  /\ UNCHANGED <<inputVars, entry, batch, rows, status, cancelled, fileVars,
                 readerVars, at, skipOid, copied, wasSigpiped, lastError>>

\* The batches whose stream gives up the bytes of the table passed over.
DiscardFrom(first) ==
  IF setup.reader = "subset" THEN {b \in BatchNumbers : first <= b /\ b < setup.files}
  ELSE {}

\* discardData fails at the end of the stream, and ever after.
DiscardFails(b) == b \in discardErr \/ pos[b] + Sizes[Oid] > StreamSize(b)

\* No COPY has the pipe open, and there is a skip file.
HelperSkips ==
  LET discards == DiscardFrom(BatchNum)
      failing  == {b \in discards : DiscardFails(b)}
      err      == discards # {} /\ Max(discards) \in failing
      deleted  == {b \in BatchNumbers :
                     BatchNum <= b /\ b < BatchNum + copyQueue}
  IN
  /\ helperPc = "open"
  /\ pipe[Current] = "fifo" /\ ReadersOf(Current) = {}
  /\ onErrorContinue /\ Oid \in skipFiles
  /\ skipOid' = Oid
  /\ pos' = [b \in BatchNumbers |->
               IF b \notin discards \/ b \in discardErr THEN pos[b]
               ELSE Min({pos[b] + Sizes[Oid], StreamSize(b)})]
  /\ discardErr' = discardErr \cup failing
  /\ pipe' = [p \in Pipes |-> IF p[1] = Oid /\ p[2] \in deleted THEN "removed"
                              ELSE pipe[p]]
  /\ Advance(err)
  /\ UNCHANGED <<inputVars, connVars, skipFiles, errorFile, lastByte, hit,
                 wasSigpiped>>

\* positionReader: relative to where the helper believes the reader is.
HelperPositions ==
  /\ helperPc = "position"
  /\ pos' = IF setup.reader = "subset" \/ BatchNum >= setup.files THEN pos
            ELSE [pos EXCEPT ![BatchNum] = @ + Start - lastByte[BatchNum]]
  /\ helperPc' = "copy"
  /\ UNCHANGED <<inputVars, connVars, fileVars, lastByte, discardErr, hit, at,
                 skipOid, copied, wasSigpiped, lastError>>

\* Always hard quit if data reader has issues.
PositionFails ==
  /\ helperPc = "position" /\ "read" \in Faults
  /\ setup.reader # "subset" /\ BatchNum < setup.files
  /\ helperPc' = "failed"
  /\ UNCHANGED <<inputVars, connVars, fileVars, readerVars, at, skipOid, copied,
                 wasSigpiped, lastError>>

Dead  == BatchNum \in discardErr
AtEnd == pos[BatchNum] = StreamSize(BatchNum)
Copying == helperPc = "copy" /\ copied < Size

\* A byte goes into the writer's buffer, and to the COPY if it is there.
HelperCopies ==
  /\ Copying /\ ~Dead /\ ~AtEnd
  /\ pos' = [pos EXCEPT ![BatchNum] = @ + 1]
  /\ copied' = copied + 1
  /\ UNCHANGED <<inputVars, connVars, fileVars, lastByte, discardErr, hit,
                 helperPc, at, skipOid, wasSigpiped, lastError>>

\* Mutant: lastByte keeps the end of the table before.
ForgetLastByte == UNCHANGED lastByte

\* What the reader gave before the error counts.
NoteLastByte ==
  lastByte' = [lastByte EXCEPT ![BatchNum] = Start + copied]

\* Copying stops short: a subset reader must still be rid of the rest.
CopyStops ==
  /\ NoteLastByte
  /\ CloseAndDelete(Current)
  /\ Advance(TRUE)
  /\ UNCHANGED <<inputVars, entry, batch, status, cancelled, skipFiles,
                 errorFile, skipOid>>

RestDiscarded == setup.reader = "subset" /\ onErrorContinue
DiscardRest ==
  LET end == pos[BatchNum] + Size - copied
  IN  /\ pos' = [pos EXCEPT ![BatchNum] = Min({end, StreamSize(BatchNum)})]
      /\ discardErr' = IF end > StreamSize(BatchNum)
                       THEN discardErr \cup {BatchNum} ELSE discardErr

\* COPY is gone: the write fails, and SIGPIPE is noted for good.
BrokenPipe ==
  /\ Copying /\ ~Dead /\ copied > 0
  /\ ReadersOf(Current) = {}
  /\ wasSigpiped' = TRUE
  /\ IF RestDiscarded THEN DiscardRest ELSE UNCHANGED <<pos, discardErr>>
  /\ CopyStops
  /\ UNCHANGED hit

\* The reader fails; a subset reader's stream may be lost with it, unless it is
\* at its end: after EOF nothing is discarded.
ReadFails ==
  /\ Copying
  /\ Dead \/ AtEnd \/ "read" \in Faults
  /\ hit' = hit \cup {Oid}
  /\ IF Dead \/ AtEnd \/ ~RestDiscarded THEN UNCHANGED <<pos, discardErr>>
     ELSE \/ DiscardRest
          \/ discardErr' = discardErr \cup {BatchNum} /\ UNCHANGED pos
  /\ CopyStops
  /\ UNCHANGED wasSigpiped

\* Mutant: the last byte is not copied.
EndsTableEarly ==
  /\ helperPc = "copy" /\ copied + 1 >= Size
  /\ lastByte' = [lastByte EXCEPT ![BatchNum] = IF BatchNum < setup.files
                                                THEN EndByte[Oid] ELSE @]
  /\ CloseAndDelete(Current)
  /\ Advance(FALSE)
  /\ UNCHANGED <<inputVars, entry, batch, status, cancelled, skipFiles,
                 errorFile, pos, discardErr, hit, skipOid, wasSigpiped>>

\* All is in the buffer: flushing it may break the pipe, which is only logged,
\* but without --on-error-continue SIGPIPE ends the helper.
HelperEndsTable ==
  /\ helperPc = "copy" /\ copied = Size
  /\ lastByte' = [lastByte EXCEPT ![BatchNum] = IF BatchNum < setup.files
                                                THEN EndByte[Oid] ELSE @]
  /\ CloseAndDelete(Current)
  /\ \/ Advance(FALSE) /\ UNCHANGED wasSigpiped
     \/ /\ ReadersOf(Current) = {} /\ Size > 0
        /\ wasSigpiped' = TRUE
        /\ IF onErrorContinue THEN Advance(FALSE)
           ELSE helperPc' = "error" /\ UNCHANGED <<at, copied, lastError>>
  /\ UNCHANGED <<inputVars, entry, batch, status, cancelled, skipFiles,
                 errorFile, pos, discardErr, hit, skipOid>>

\* doRestoreAgentCleanup closes the writer that is still open.
HelperClosesWriter ==
  /\ helperPc = "failed"
  /\ CloseWriter(Current)
  /\ helperPc' = "error"
  /\ UNCHANGED <<inputVars, entry, batch, status, cancelled, fileVars,
                 readerVars, at, skipOid, copied, wasSigpiped, lastError>>

HelperWritesErrorFile ==
  /\ helperPc = "error"
  /\ errorFile' = TRUE
  /\ helperPc' = "cleanup"
  /\ UNCHANGED <<inputVars, connVars, pipe, skipFiles, readerVars, at, skipOid,
                 copied, wasSigpiped, lastError>>

\* DoCleanup takes the pipes that are left by name, here in the list's order.
Leftover == {i \in DOMAIN oidWithBatchList : Exists(oidWithBatchList[i])}
FirstLeft(p) == Leftover # {} /\ p = oidWithBatchList[Min(Leftover)]

\* It opens and closes a pipe, so that a COPY that waits ends, but not after a
\* SIGPIPE, ...
HelperReleases(p) ==
  /\ helperPc = "cleanup" /\ FirstLeft(p) /\ pipe[p] = "fifo"
  /\ stage' = [c \in Conns |-> IF c \in ReadersOf(p) /\ ~wasSigpiped THEN "eof"
                               ELSE stage[c]]
  /\ pipe' = [pipe EXCEPT ![p] = "released"]
  /\ UNCHANGED <<inputVars, entry, batch, rows, status, cancelled, skipFiles,
                 errorFile, readerVars, loopVars>>

\* ... and then removes it.
HelperRemoves(p) ==
  /\ helperPc = "cleanup" /\ FirstLeft(p) /\ pipe[p] = "released"
  /\ pipe' = [pipe EXCEPT ![p] = "removed"]
  /\ UNCHANGED <<inputVars, connVars, skipFiles, errorFile, readerVars, loopVars>>

HelperLeaves ==
  /\ helperPc = "cleanup"
  /\ Leftover = {}
  /\ skipFiles' = {}
  /\ helperPc' = "gone"
  /\ UNCHANGED <<inputVars, connVars, pipe, errorFile, readerVars, at, skipOid,
                 copied, wasSigpiped, lastError>>

Cleanup ==
  \/ \E p \in Pipes : HelperReleases(p) \/ HelperRemoves(p)
  \/ HelperLeaves
Helper ==
  \/ HelperCreates \/ HelperOpens \/ HelperSkips \/ HelperPositions
  \/ HelperCopies \/ BrokenPipe \/ HelperEndsTable \/ HelperClosesWriter
  \/ HelperWritesErrorFile \/ Cleanup

AllDone == \A c \in Conns : stage[c] = "done"

\* DoCleanup of gprestore sends SIGUSR1 to a helper that is still there.
StopHelper ==
  /\ AllDone
  /\ helperPc \notin {"error", "cleanup", "gone"}
  /\ helperPc' = "error"
  /\ UNCHANGED <<inputVars, connVars, fileVars, readerVars, at, skipOid, copied,
                 wasSigpiped, lastError>>

Over == AllDone /\ helperPc = "gone" /\ UNCHANGED vars

Next ==
  \/ \E c \in Conns : Conn(c) \/ CopyFails(c)
  \/ Helper \/ PositionFails \/ ReadFails \/ StopHelper \/ Over

Fairness ==
  /\ \A c \in Conns : WF_vars(Conn(c))
  /\ WF_vars(Helper)
  /\ WF_vars(Copying /\ (Dead \/ AtEnd) /\ ReadFails)

Spec == Init /\ [][Next]_vars /\ Fairness

-----------------------------------------------------------------------------
(* Properties                                                              *)

Bad == {"copyFailed", "short", "agentFailed"}
HardFailed ==
  /\ helperPc \in {"failed", "error", "cleanup", "gone"}
  /\ at <= Len(oidWithBatchList)

\* A replicated table is in the first batch's list and stream only, but a skip
\* discards its size from the later ones too, if a subset plugin feeds them:
\* what comes after it is shifted.
Shifted == setup.reader = "subset" /\ setup.replicated \cap skipFiles # {}

\* A byte written to a table's pipe is one of that table's, whatever was
\* skipped, broken off or read badly before, but for replicated tables that a
\* subset plugin feeds (Shifted): the reader's position and what the helper
\* believes of it never part.
RightBytes ==
  helperPc = "copy" /\ BatchNum < setup.files /\ ~Dead /\ ~Shifted
    => pos[BatchNum] = StreamStart(BatchNum, Oid) + copied

\* As long as nothing has failed, the copy queue holds every pipe a COPY may
\* look for: none has to wait, let alone for 300 seconds.
NothingFailed ==
  /\ \A t \in Restored : status[t] \notin Bad
  /\ \A c \in Conns : stage[c] # "failed"
PipesInTime ==
  NothingFailed /\ ~HardFailed
    => \A c \in Conns : stage[c] = "test" => pipe[Pipe(c)] = "fifo"

\* No table fails for another's sake.  With --on-error-continue a COPY that
\* fails harms its own table only: the others are not short, unless reading
\* them failed, and see no helper error; and before any failure each has its
\* pipe in time.
FailuresContained ==
  /\ PipesInTime
  /\ onErrorContinue /\ discardErr = {} /\ ~HardFailed /\ ~Shifted
       => \A t \in Restored : /\ status[t] # "agentFailed"
                              /\ status[t] = "short" => t \in hit

\* A restore that reports no error has loaded all the rows of every table.
AllRestored ==
  AllDone /\ (\A t \in Restored : status[t] \notin Bad)
    => \A t \in Restored : rows[t] = Expected(t)

\* Unless the helper itself breaks down, every connection gets to the end of
\* its tables: no COPY and no helper waits for ever for the other.  For an older
\* backup of the restore plan, whose helper looks for a skip file of another
\* timestamp, this is so when no COPY fails.
NoneFailed == \A t \in Restored : status[t] # "copyFailed"
RestoreEnds == [](~HardFailed /\ (setup.latest \/ NoneFailed)) => <>AllDone
=============================================================================
