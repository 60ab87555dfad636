------------------------ MODULE SingleDataFileProofs ------------------------
(***************************************************************************)
(* Proofs about SingleDataFile, for every number of tables and workers,    *)
(* all sizes and every set of faults.                                      *)
(***************************************************************************)
EXTENDS SingleDataFile, TLAPS

-----------------------------------------------------------------------------
(* The inductive invariant                                                 *)

\* TypeOK in three parts.
ConnTypes ==
  /\ next \in 1 .. NumTables + 1
  /\ tableState \in [Tables -> {"Unknown", "Deferred", "Complete"}]
  /\ deferredNext \in 1 .. NumTables + 1
  /\ onTable \in [Conns -> 0 .. NumTables]
  /\ stage \in [Conns -> {"idle", "test", "open", "blocked", "write"}]
  /\ written \in [Tables -> Nat]
  /\ isErrored \in BOOLEAN
FileTypes ==
  /\ plugin \in BOOLEAN
  /\ locked \in SUBSET Tables
  /\ mainPc \in {"copying", "check", "remove", "found", "await", "ok", "failed"}
  /\ pipe \in [Tables -> {"none", "fifo", "removed"}]
  /\ inPipe \in [Tables -> 0 .. Capacity]
  /\ stray \in SUBSET Tables
  /\ tocWritten \in BOOLEAN
  /\ errorFile \in BOOLEAN
HelperTypes ==
  /\ helperPc \in {"create", "open", "read", "finish", "done", "error",
                   "cleanup", "gone"}
  /\ helperAt \in 1 .. NumTables + 1
  /\ reading \in 0 .. NumTables
  /\ released \in 0 .. NumTables
  /\ dataFile \in Seq(Tables)
  /\ toc \in Seq(Nat \X Nat)

\* The helper's place in the oid list, and what it has open there.
PlaceInv ==
  /\ helperAt = Len(toc) + 1
  /\ reading \in {0, helperAt}
  /\ helperPc = "read" => reading = helperAt
  /\ helperPc \in {"create", "open", "finish", "done"} => reading = 0
  /\ helperPc \in {"create", "open"} => helperAt <= NumTables
  /\ helperPc \in {"finish", "done"} => helperAt = NumTables + 1
  /\ tocWritten <=> helperPc = "done"

\* Each connection has a table of its own: a worker one it has taken from the
\* channel, connection 0 the deferred one its loop is at.
OwnerInv ==
  /\ \A c \in Conns : stage[c] # "idle" =>
       onTable[c] \in Tables /\ onTable[c] < next
  /\ \A t \in Tables : t >= next => tableState[t] = "Unknown"
  /\ \A w \in Workers : stage[w] # "idle" => tableState[onTable[w]] = "Unknown"
  /\ \A v, w \in Workers : stage[v] # "idle" /\ stage[w] # "idle" /\ v # w =>
       onTable[v] # onTable[w]
  /\ stage[0] # "idle" => /\ onTable[0] = deferredNext
                          /\ tableState[deferredNext] = "Deferred"
  /\ \A t \in Tables : t < deferredNext => tableState[t] = "Complete"

\* The tables the helper has opened the pipe of.
Served(t) == t < helperAt \/ reading = t

\* Their COPY has the pipe open or is over, and no other COPY will come.
ServedInv ==
  \A t \in Tables : Served(t) =>
    /\ \/ tableState[t] = "Complete" \/ isErrored
       \/ \E c \in Conns : stage[c] = "write" /\ onTable[c] = t
    /\ \A c \in Conns : stage[c] \notin {"idle", "write"} => onTable[c] # t

\* The bytes of each table: the ones in the data file are where the TOC says,
\* or follow its last entry, and the others are in the pipe.
EntriesInv ==
  /\ \A t \in 1 .. Len(toc) :
       /\ toc[t][1] = (IF t = 1 THEN 0 ELSE toc[t - 1][2])
       /\ toc[t][1] <= toc[t][2] /\ toc[t][2] <= lastRead
       /\ \A i \in toc[t][1] + 1 .. toc[t][2] : dataFile[i] = t
  /\ lastRead <= Len(dataFile)
  /\ \A i \in lastRead + 1 .. Len(dataFile) : dataFile[i] = helperAt
CountInv ==
  \A t \in Tables :
    /\ t < helperAt => inPipe[t] = 0 /\ written[t] = toc[t][2] - toc[t][1]
    /\ t = helperAt => written[t] = inPipe[t] + Len(dataFile) - lastRead
    /\ t > helperAt => inPipe[t] = 0 /\ written[t] = 0

\* A COPY reports success when all bytes are written, or to a regular file.
CompleteInv ==
  \A t \in Tables : tableState[t] = "Complete" /\ t \notin stray =>
    written[t] = Sizes[t]

\* Before the helper's clean-up only pipes that are done with are removed.
PipeInv ==
  helperPc \notin {"cleanup", "gone"} =>
    /\ \A t \in Tables : pipe[t] = "removed" => t < helperAt
    /\ stray = {}

\* Main goes on after the last table; with a plugin it waits for the TOC.
MainInv ==
  /\ mainPc \in {"check", "remove", "await", "ok"} =>
       next = NumTables + 1 /\ deferredNext = NumTables + 1
  /\ plugin /\ mainPc = "ok" => tocWritten

\* Without an error file, which main has not looked at or did not find, no COPY
\* has got ahead of the helper.
TailInv ==
  /\ mainPc \in {"copying", "check"} /\ ~errorFile =>
       /\ helperPc # "cleanup"
       /\ \A t \in Tables : pipe[t] = "removed" => t < helperAt
       /\ \A c \in Conns : stage[c] = "write" => onTable[c] <= helperAt
       /\ \A t \in Tables : tableState[t] = "Complete" => t <= helperAt
  /\ mainPc \in {"remove", "await", "ok"} => helperAt >= NumTables

IInv == /\ TypeOK /\ PlaceInv /\ OwnerInv /\ ServedInv /\ EntriesInv /\ CountInv
        /\ CompleteInv /\ PipeInv /\ MainInv /\ TailInv

-----------------------------------------------------------------------------
(* The steps                                                               *)

\* TypeOK is its three parts, now and in the next state.
LEMMA TypeParts ==
  /\ TypeOK <=> ConnTypes /\ FileTypes /\ HelperTypes
  /\ TypeOK' <=> ConnTypes' /\ FileTypes' /\ HelperTypes'
BY DEF TypeOK, ConnTypes, FileTypes, HelperTypes

\* Connection 0 is not a worker; tables are numbers.
LEMMA Sets ==
  /\ 0 \in Conns /\ 0 \notin Workers
  /\ \A w \in Workers : w \in Conns
  /\ \A c \in Conns : c = 0 \/ c \in Workers
  /\ \A t \in Tables : t \in Nat /\ t # 0
BY SizeAssumptions DEF Conns, Workers, Tables

\* Changing one value of a function keeps its type.
LEMMA ExceptType ==
  ASSUME NEW S, NEW T, NEW f \in [S -> T], NEW x, NEW v, x \in S => v \in T
  PROVE  [f EXCEPT ![x] = v] \in [S -> T]
OBVIOUS

\* Connections keep the types of what they know.
LEMMA ConnTypesStep ==
  ASSUME ConnTypes, [Next]_vars
  PROVE  ConnTypes'
<1>1. ASSUME UNCHANGED <<next, tableState, deferredNext, onTable, stage,
                          written, isErrored>>
      PROVE  ConnTypes'
  BY <1>1 DEF ConnTypes
<1>2. CASE CopiesDone \/ CopyFailed \/ LookForErrorFile \/ RemoveErrorFile \/
      AwaitSegmentTOC \/ HelperCreates
  BY <1>1, <1>2 DEF CopiesDone, CopyFailed, LookForErrorFile, RemoveErrorFile,
     AwaitSegmentTOC, HelperCreates, GoCopy, GoMain, GoHelper, inputVars,
     connVars, pipeVars, helperVars
<1>3. CASE HelperReads \/ EndOfTable \/ HelperFinishes \/ WriteErrorFile \/
      RemovePipe \/ HelperExits
  BY <1>1, <1>3 DEF HelperReads, EndOfTable, HelperFinishes, WriteErrorFile,
     RemovePipe, HelperExits, GoCopy, GoMain, GoHelper, inputVars, connVars,
     pipeVars, helperVars
<1>4. CASE HelperFails \/ HelperCrashes \/ StopHelper
  BY <1>1, <1>4 DEF HelperFails, HelperCrashes, StopHelper, GoCopy, GoMain,
     GoHelper, inputVars, connVars, pipeVars, helperVars
<1>5. CASE UNCHANGED vars
  BY <1>1, <1>5 DEF vars, inputVars, connVars, pipeVars, helperVars
<1> USE SizeAssumptions DEF ConnTypes, Tables, Conns, Workers, GoCopy, GoMain,
   GoHelper, inputVars, connVars, pipeVars, helperVars
<1>6. ASSUME NEW w \in Workers, TakeTable(w)
      PROVE  ConnTypes'
  <2>1. next \in Tables /\ next' \in 1 .. NumTables + 1 /\ w \in Conns
    BY <1>6 DEF TakeTable
  <2>2. tableState' \in [Tables -> {"Unknown", "Deferred", "Complete"}]
    BY <1>6 DEF TakeTable
  <2>3. onTable' \in [Conns -> 0 .. NumTables]
    <3>1. next \in 0 .. NumTables
      BY <2>1 DEF Tables
    <3> HIDE DEF Conns, Workers
    <3>2. CASE next \in locked
      BY <1>6, <3>2 DEF TakeTable
    <3>3. CASE next \notin locked
      BY <1>6, <3>1, <3>3, ExceptType, SMTT(30) DEF TakeTable, Copies
    <3> QED
      BY <3>2, <3>3
  <2>4. stage' \in [Conns -> {"idle", "test", "open", "blocked", "write"}]
    BY <1>6 DEF TakeTable, Copies
  <2>5. UNCHANGED <<deferredNext, written, isErrored>>
    BY <1>6 DEF TakeTable
  <2> QED
    BY <2>1, <2>2, <2>3, <2>4, <2>5
<1>7. CASE DeferredCopies
  BY <1>7 DEF DeferredCopies, Copies
<1>8. CASE DeferredMovesOn
  BY <1>8 DEF DeferredMovesOn
<1>9. ASSUME NEW c \in Conns, TestPipe(c)
      PROVE  ConnTypes'
  BY <1>9 DEF TestPipe
<1>10. ASSUME NEW c \in Conns, OpenPipe(c)
      PROVE  ConnTypes'
  BY <1>10 DEF OpenPipe
<1>11. ASSUME NEW c \in Conns, OpenRegularFile(c)
      PROVE  ConnTypes'
  BY <1>11 DEF OpenRegularFile, CopySucceeds
<1>12. ASSUME NEW c \in Conns, WritePipe(c)
      PROVE  ConnTypes'
  <2> HIDE DEF Conns, Workers, Tables
  <2> DEFINE t == onTable[c]
  <2>1. written' = [written EXCEPT ![t] = written[t] + 1]
    BY <1>12 DEF WritePipe
  <2>2. t \in Tables => written[t] + 1 \in Nat
    OBVIOUS
  <2>3. written' \in [Tables -> Nat]
    BY <2>1, <2>2, ExceptType
  <2>4. UNCHANGED <<next, tableState, deferredNext, onTable, stage, isErrored>>
    BY <1>12 DEF WritePipe
  <2> QED
    BY <2>3, <2>4
<1>13. ASSUME NEW c \in Conns, BrokenPipe(c)
      PROVE  ConnTypes'
  BY <1>13 DEF BrokenPipe
<1>14. ASSUME NEW c \in Conns, CopyEnds(c)
      PROVE  ConnTypes'
  BY <1>14 DEF CopyEnds, CopySucceeds
<1>15. CASE HelperOpens
  BY <1>15 DEF HelperOpens
<1>16. CASE ReleasePipe
  BY <1>16 DEF ReleasePipe
<1> QED
  BY <1>2, <1>3, <1>4, <1>5, <1>6, <1>7, <1>8, <1>9, <1>10, <1>11, <1>12,
     <1>13, <1>14, <1>15, <1>16 DEF Next, Copy, Main, Helper

\* Main, the pipes and the files keep their types.
LEMMA FileTypesStep ==
  ASSUME ConnTypes, FileTypes, HelperTypes, OwnerInv, [Next]_vars
  PROVE  FileTypes'
<1>1. ASSUME UNCHANGED <<plugin, locked, mainPc, pipe, inPipe, stray,
                          tocWritten, errorFile>>
      PROVE  FileTypes'
  BY <1>1 DEF FileTypes
<1>2. CASE (\E w \in Workers : TakeTable(w)) \/ DeferredCopies \/
      DeferredMovesOn \/ (\E c \in Conns : TestPipe(c)) \/ (\E c \in Conns :
      OpenPipe(c)) \/ (\E c \in Conns : BrokenPipe(c))
  BY <1>1, <1>2 DEF TakeTable, Copies, DeferredCopies, DeferredMovesOn,
     TestPipe, OpenPipe, BrokenPipe, GoCopy, GoMain, GoHelper, inputVars,
     connVars, pipeVars, helperVars
<1>3. CASE (\E c \in Conns : CopyEnds(c)) \/ HelperOpens \/ ReleasePipe \/
      HelperExits \/ HelperFails \/ HelperCrashes
  BY <1>1, <1>3 DEF CopyEnds, CopySucceeds, HelperOpens, ReleasePipe,
     HelperExits, HelperFails, HelperCrashes, GoCopy, GoMain, GoHelper,
     inputVars, connVars, pipeVars, helperVars
<1>4. CASE StopHelper
  BY <1>1, <1>4 DEF StopHelper, GoCopy, GoMain, GoHelper, inputVars, connVars,
     pipeVars, helperVars
<1>5. CASE UNCHANGED vars
  BY <1>1, <1>5 DEF vars, inputVars, connVars, pipeVars, helperVars
<1> USE SizeAssumptions DEF FileTypes, ConnTypes, HelperTypes, Tables, Conns,
   Workers, Capacity, GoCopy, GoMain, GoHelper, inputVars, connVars, pipeVars,
   helperVars
<1>6. ASSUME NEW c \in Conns, OpenRegularFile(c)
      PROVE  FileTypes'
  <2>1. onTable[c] \in Tables
    BY <1>6, Sets DEF OpenRegularFile, OwnerInv
  <2> QED
    BY <1>6, <2>1 DEF OpenRegularFile
<1>7. ASSUME NEW c \in Conns, WritePipe(c)
      PROVE  FileTypes'
  <2> HIDE DEF Conns, Workers, Tables
  <2> DEFINE t == onTable[c]
  <2>1. inPipe' = [inPipe EXCEPT ![t] = inPipe[t] + 1] /\ inPipe[t] < Capacity
    BY <1>7 DEF WritePipe
  <2>2. t \in Tables => inPipe[t] \in 0 .. Capacity
    OBVIOUS
  <2> HIDE DEF t
  <2>4. t \in Tables => inPipe[t] + 1 \in 0 .. Capacity
    BY <2>1, <2>2
  <2>3. inPipe' \in [Tables -> 0 .. Capacity]
    BY <2>1, <2>4, ExceptType
  <2> QED
    BY <1>7, <2>3 DEF WritePipe
<1>8. CASE CopiesDone
  BY <1>8 DEF CopiesDone
<1>9. CASE CopyFailed
  BY <1>9 DEF CopyFailed
<1>10. CASE LookForErrorFile
  BY <1>10 DEF LookForErrorFile
<1>11. CASE RemoveErrorFile
  BY <1>11 DEF RemoveErrorFile
<1>12. CASE AwaitSegmentTOC
  BY <1>12 DEF AwaitSegmentTOC
<1>13. CASE HelperCreates
  BY <1>13 DEF HelperCreates
<1>14. CASE HelperReads
  <2> HIDE DEF Conns, Workers, Tables
  <2>1. inPipe' = [inPipe EXCEPT ![reading] = inPipe[reading] - 1] /\
          inPipe[reading] > 0
    BY <1>14 DEF HelperReads
  <2>2. reading \in Tables => inPipe[reading] - 1 \in 0 .. Capacity
    BY <2>1
  <2>3. inPipe' \in [Tables -> 0 .. Capacity]
    BY <2>1, <2>2, ExceptType
  <2> QED
    BY <1>14, <2>3 DEF HelperReads
<1>15. CASE EndOfTable
  BY <1>15 DEF EndOfTable
<1>16. CASE HelperFinishes
  BY <1>16 DEF HelperFinishes
<1>17. CASE WriteErrorFile
  BY <1>17 DEF WriteErrorFile
<1>18. CASE RemovePipe
  BY <1>18 DEF RemovePipe
<1> QED
  BY <1>2, <1>3, <1>4, <1>5, <1>6, <1>7, <1>8, <1>9, <1>10, <1>11, <1>12,
     <1>13, <1>14, <1>15, <1>16, <1>17, <1>18 DEF Next, Copy, Main, Helper

\* The helper goes through the oid list table by table.
LEMMA PlaceInvStep ==
  ASSUME FileTypes, HelperTypes, PlaceInv, [Next]_vars
  PROVE  PlaceInv'
<1>1. ASSUME UNCHANGED <<helperAt, toc, reading, helperPc, tocWritten>>
      PROVE  PlaceInv'
  BY <1>1 DEF PlaceInv
<1>2. CASE (\E w \in Workers : TakeTable(w)) \/ DeferredCopies \/
      DeferredMovesOn \/ (\E c \in Conns : TestPipe(c)) \/ (\E c \in Conns :
      OpenPipe(c)) \/ (\E c \in Conns : OpenRegularFile(c))
  BY <1>1, <1>2 DEF TakeTable, Copies, DeferredCopies, DeferredMovesOn,
     TestPipe, OpenPipe, OpenRegularFile, CopySucceeds, GoCopy, GoMain,
     GoHelper, inputVars, connVars, pipeVars, helperVars
<1>3. CASE (\E c \in Conns : WritePipe(c)) \/ (\E c \in Conns : BrokenPipe(c))
      \/ (\E c \in Conns : CopyEnds(c)) \/ CopiesDone \/ CopyFailed \/
      LookForErrorFile
  BY <1>1, <1>3 DEF WritePipe, BrokenPipe, CopyEnds, CopySucceeds, CopiesDone,
     CopyFailed, LookForErrorFile, GoCopy, GoMain, GoHelper, inputVars,
     connVars, pipeVars, helperVars
<1>4. CASE RemoveErrorFile \/ AwaitSegmentTOC
  BY <1>1, <1>4 DEF RemoveErrorFile, AwaitSegmentTOC, GoCopy, GoMain, GoHelper,
     inputVars, connVars, pipeVars, helperVars
<1>5. CASE UNCHANGED vars
  BY <1>1, <1>5 DEF vars, inputVars, connVars, pipeVars, helperVars
<1> USE SizeAssumptions DEF PlaceInv, FileTypes, HelperTypes, Tables, GoCopy,
   GoMain, GoHelper, inputVars, connVars, pipeVars, helperVars
<1>6. CASE HelperCreates
  BY <1>6 DEF HelperCreates
<1>7. CASE HelperOpens
  BY <1>7 DEF HelperOpens
<1>8. CASE HelperReads
  BY <1>8 DEF HelperReads
<1>9. CASE EndOfTable
  BY <1>9 DEF EndOfTable
<1>10. CASE HelperFinishes
  BY <1>10 DEF HelperFinishes
<1>11. CASE WriteErrorFile
  BY <1>11 DEF WriteErrorFile
<1>12. CASE ReleasePipe
  BY <1>12 DEF ReleasePipe
<1>13. CASE RemovePipe
  BY <1>13 DEF RemovePipe
<1>14. CASE HelperExits
  BY <1>14 DEF HelperExits
<1>15. CASE HelperFails
  BY <1>15 DEF HelperFails
<1>16. CASE HelperCrashes
  BY <1>16 DEF HelperCrashes
<1>17. CASE StopHelper
  BY <1>17 DEF StopHelper
<1> QED
  BY <1>2, <1>3, <1>4, <1>5, <1>6, <1>7, <1>8, <1>9, <1>10, <1>11, <1>12,
     <1>13, <1>14, <1>15, <1>16, <1>17 DEF Next, Copy, Main, Helper

\* The helper keeps the types of what it knows.
LEMMA HelperTypesStep ==
  ASSUME FileTypes, HelperTypes, PlaceInv, [Next]_vars
  PROVE  HelperTypes'
<1>1. ASSUME UNCHANGED <<helperPc, helperAt, reading, released, dataFile, toc>>
      PROVE  HelperTypes'
  BY <1>1 DEF HelperTypes
<1>2. CASE (\E w \in Workers : TakeTable(w)) \/ DeferredCopies \/
      DeferredMovesOn \/ (\E c \in Conns : TestPipe(c)) \/ (\E c \in Conns :
      OpenPipe(c)) \/ (\E c \in Conns : OpenRegularFile(c))
  BY <1>1, <1>2 DEF TakeTable, Copies, DeferredCopies, DeferredMovesOn,
     TestPipe, OpenPipe, OpenRegularFile, CopySucceeds, GoCopy, GoMain,
     GoHelper, inputVars, connVars, pipeVars, helperVars
<1>3. CASE (\E c \in Conns : WritePipe(c)) \/ (\E c \in Conns : BrokenPipe(c))
      \/ (\E c \in Conns : CopyEnds(c)) \/ CopiesDone \/ CopyFailed \/
      LookForErrorFile
  BY <1>1, <1>3 DEF WritePipe, BrokenPipe, CopyEnds, CopySucceeds, CopiesDone,
     CopyFailed, LookForErrorFile, GoCopy, GoMain, GoHelper, inputVars,
     connVars, pipeVars, helperVars
<1>4. CASE RemoveErrorFile \/ AwaitSegmentTOC
  BY <1>1, <1>4 DEF RemoveErrorFile, AwaitSegmentTOC, GoCopy, GoMain, GoHelper,
     inputVars, connVars, pipeVars, helperVars
<1>5. CASE UNCHANGED vars
  BY <1>1, <1>5 DEF vars, inputVars, connVars, pipeVars, helperVars
<1> USE SizeAssumptions DEF HelperTypes, FileTypes, PlaceInv, Tables, GoCopy,
   GoMain, GoHelper, inputVars, connVars, pipeVars, helperVars
<1>6. CASE HelperCreates
  BY <1>6 DEF HelperCreates
<1>7. CASE HelperOpens
  BY <1>7 DEF HelperOpens
<1>8. CASE HelperReads
  BY <1>8 DEF HelperReads
<1>9. CASE EndOfTable
  <2>1. Len(dataFile) \in Nat /\ lastRead \in Nat
    BY DEF lastRead
  <2>2. toc' \in Seq(Nat \X Nat)
    BY <1>9, <2>1 DEF EndOfTable
  <2> QED
    BY <1>9, <2>2 DEF EndOfTable
<1>10. CASE HelperFinishes
  BY <1>10 DEF HelperFinishes
<1>11. CASE WriteErrorFile
  BY <1>11 DEF WriteErrorFile
<1>12. CASE ReleasePipe
  BY <1>12 DEF ReleasePipe
<1>13. CASE RemovePipe
  BY <1>13 DEF RemovePipe
<1>14. CASE HelperExits
  BY <1>14 DEF HelperExits
<1>15. CASE HelperFails
  BY <1>15 DEF HelperFails
<1>16. CASE HelperCrashes
  BY <1>16 DEF HelperCrashes
<1>17. CASE StopHelper
  BY <1>17 DEF StopHelper
<1> QED
  BY <1>2, <1>3, <1>4, <1>5, <1>6, <1>7, <1>8, <1>9, <1>10, <1>11, <1>12,
     <1>13, <1>14, <1>15, <1>16, <1>17 DEF Next, Copy, Main, Helper

\* No action but TakeTable and DeferredCopies makes a connection busy.
LEMMA OwnersStay ==
  ASSUME ConnTypes, OwnerInv,
         UNCHANGED <<next, deferredNext, onTable, tableState>>,
         \A c \in Conns : stage'[c] # "idle" => stage[c] # "idle"
  PROVE  OwnerInv'
BY Sets DEF ConnTypes, OwnerInv

\* A connection whose COPY succeeds gives up its table, which is complete.
LEMMA OwnerSucceeds ==
  ASSUME ConnTypes, OwnerInv, NEW c \in Conns, CopySucceeds(c),
         stage[c] # "idle",
         UNCHANGED <<next, deferredNext, onTable>>
  PROVE  OwnerInv'
<1> DEFINE u == onTable[c]
<1>1. u \in Tables /\ u < next /\ next \in Nat /\ deferredNext \in Nat
  BY SizeAssumptions DEF OwnerInv, ConnTypes
<1>2. /\ \A t \in Tables : tableState'[t] =
           IF t = u THEN "Complete" ELSE tableState[t]
      /\ \A d \in Conns : stage'[d] = IF d = c THEN "idle" ELSE stage[d]
  BY DEF ConnTypes, CopySucceeds
<1>3. \A d \in Conns : d # c /\ stage[d] # "idle" => onTable[d] # u
  BY Sets DEF OwnerInv
<1> QED
  <2>1. \A d \in Conns : stage'[d] # "idle" =>
          onTable'[d] \in Tables /\ onTable'[d] < next'
    BY <1>1, <1>2, <1>3, Sets DEF OwnerInv
  <2>2. \A t \in Tables : t >= next' => tableState'[t] = "Unknown"
    BY <1>1, <1>2, <1>3, Sets DEF OwnerInv
  <2>3. \A v \in Workers : stage'[v] # "idle" =>
          tableState'[onTable'[v]] = "Unknown"
    BY <1>1, <1>2, <1>3, Sets DEF OwnerInv
  <2>4. \A v, x \in Workers : stage'[v] # "idle" /\ stage'[x] # "idle" /\
          v # x =>
       onTable'[v] # onTable'[x]
    BY <1>1, <1>2, <1>3, Sets DEF OwnerInv
  <2>5. stage'[0] # "idle" => /\ onTable'[0] = deferredNext'
                               /\ tableState'[deferredNext'] = "Deferred"
    BY <1>1, <1>2, <1>3, Sets DEF OwnerInv
  <2>6. \A t \in Tables : t < deferredNext' => tableState'[t] = "Complete"
    BY <1>1, <1>2, <1>3, Sets DEF OwnerInv
  <2> QED BY <2>1, <2>2, <2>3, <2>4, <2>5, <2>6 DEF OwnerInv

\* A worker that takes a table gets one nobody has.
LEMMA OwnerTakes ==
  ASSUME ConnTypes, OwnerInv, NEW w \in Workers, TakeTable(w)
  PROVE  OwnerInv'
<1>1. next \in Tables /\ next' = next+1 /\ next \in Nat /\ deferredNext \in Nat
  BY SizeAssumptions DEF TakeTable, ConnTypes, Tables
<1>0. \A d \in Conns : stage[d] # "idle" =>
        onTable[d] \in Tables /\ onTable[d] \in Nat /\ onTable[d] < next
  BY Sets DEF OwnerInv
<1>2. stage[w] = "idle"
  BY DEF TakeTable
<1>3. tableState[next] = "Unknown"
  BY <1>1 DEF OwnerInv
<1>4. \A d \in Conns : stage[d] # "idle" => onTable[d] # next
  BY <1>1 DEF OwnerInv
<1>5. CASE next \in locked
  <2>1. /\ \A t \in Tables : tableState'[t] =
             IF t = next THEN "Deferred" ELSE tableState[t]
        /\ UNCHANGED <<stage, onTable, deferredNext>>
    BY <1>5 DEF ConnTypes, TakeTable
  <2> QED
  <3>1. \A d \in Conns : stage'[d] # "idle" =>
          onTable'[d] \in Tables /\ onTable'[d] < next'
    BY <1>0, <1>1, <2>1
  <3>2. \A t \in Tables : t >= next' => tableState'[t] = "Unknown"
    BY <1>1, <1>2, <1>3, <1>4, <2>1, Sets DEF OwnerInv
  <3>3. \A v \in Workers : stage'[v] # "idle" =>
          tableState'[onTable'[v]] = "Unknown"
    BY <1>0, <1>1, <1>3, <2>1, Sets DEF OwnerInv
  <3>4. \A v, x \in Workers : stage'[v] # "idle" /\ stage'[x] # "idle" /\
          v # x =>
       onTable'[v] # onTable'[x]
    BY <1>1, <1>2, <1>3, <1>4, <2>1, Sets DEF OwnerInv
  <3>5. stage'[0] # "idle" => /\ onTable'[0] = deferredNext'
                               /\ tableState'[deferredNext'] = "Deferred"
    BY <1>1, <1>2, <1>3, <1>4, <2>1, Sets DEF OwnerInv
  <3>6. \A t \in Tables : t < deferredNext' => tableState'[t] = "Complete"
    BY <1>1, <1>2, <1>3, <1>4, <2>1, Sets DEF OwnerInv
  <3> QED BY <3>1, <3>2, <3>3, <3>4, <3>5, <3>6 DEF OwnerInv
<1>6. CASE next \notin locked
  <2>1. /\ \A d \in Conns : stage'[d] = IF d = w THEN "test" ELSE stage[d]
        /\ \A d \in Conns : onTable'[d] = IF d = w THEN next ELSE onTable[d]
        /\ UNCHANGED <<tableState, deferredNext>>
    BY <1>6, Sets DEF ConnTypes, TakeTable, Copies
  <2> QED
  <3>1. \A d \in Conns : stage'[d] # "idle" =>
          onTable'[d] \in Tables /\ onTable'[d] < next'
    BY <1>0, <1>1, <2>1
  <3>2. \A t \in Tables : t >= next' => tableState'[t] = "Unknown"
    BY <1>1, <1>2, <1>3, <1>4, <2>1, Sets DEF OwnerInv
  <3>3. \A v \in Workers : stage'[v] # "idle" =>
          tableState'[onTable'[v]] = "Unknown"
    BY <1>1, <1>2, <1>3, <1>4, <2>1, Sets DEF OwnerInv
  <3>4. \A v, x \in Workers : stage'[v] # "idle" /\ stage'[x] # "idle" /\
          v # x =>
       onTable'[v] # onTable'[x]
    BY <1>1, <1>2, <1>3, <1>4, <2>1, Sets DEF OwnerInv
  <3>5. stage'[0] # "idle" => /\ onTable'[0] = deferredNext'
                               /\ tableState'[deferredNext'] = "Deferred"
    BY <1>1, <1>2, <1>3, <1>4, <2>1, Sets DEF OwnerInv
  <3>6. \A t \in Tables : t < deferredNext' => tableState'[t] = "Complete"
    BY <1>1, <1>2, <1>3, <1>4, <2>1, Sets DEF OwnerInv
  <3> QED BY <3>1, <3>2, <3>3, <3>4, <3>5, <3>6 DEF OwnerInv
<1> QED
  BY <1>5, <1>6

\* No two connections copy one table.
LEMMA OwnerInvStep ==
  ASSUME ConnTypes, OwnerInv, [Next]_vars
  PROVE  OwnerInv'
<1>1. ASSUME UNCHANGED <<next, tableState, deferredNext, onTable, stage>>
      PROVE  OwnerInv'
  BY <1>1 DEF OwnerInv
<1>2. CASE (\E c \in Conns : WritePipe(c)) \/ CopiesDone \/ CopyFailed \/
      LookForErrorFile \/ RemoveErrorFile \/ AwaitSegmentTOC
  BY <1>1, <1>2 DEF WritePipe, CopiesDone, CopyFailed, LookForErrorFile,
     RemoveErrorFile, AwaitSegmentTOC, GoCopy, GoMain, GoHelper, inputVars,
     connVars, pipeVars, helperVars
<1>3. CASE HelperCreates \/ HelperReads \/ EndOfTable \/ HelperFinishes \/
      WriteErrorFile \/ RemovePipe
  BY <1>1, <1>3 DEF HelperCreates, HelperReads, EndOfTable, HelperFinishes,
     WriteErrorFile, RemovePipe, GoCopy, GoMain, GoHelper, inputVars, connVars,
     pipeVars, helperVars
<1>4. CASE HelperExits \/ HelperFails \/ HelperCrashes \/ StopHelper
  BY <1>1, <1>4 DEF HelperExits, HelperFails, HelperCrashes, StopHelper,
     GoCopy, GoMain, GoHelper, inputVars, connVars, pipeVars, helperVars
<1>5. CASE UNCHANGED vars
  BY <1>1, <1>5 DEF vars, inputVars, connVars, pipeVars, helperVars
<1> USE DEF GoCopy, GoMain, GoHelper, inputVars, connVars, pipeVars, helperVars
<1>6. ASSUME NEW w \in Workers, TakeTable(w)
      PROVE  OwnerInv'
  BY <1>6, OwnerTakes
<1>7. ASSUME NEW c \in Conns, TestPipe(c)
      PROVE  OwnerInv'
  <2>1. \A d \in Conns : stage'[d] # "idle" => stage[d] # "idle"
    BY <1>7 DEF TestPipe, ConnTypes
  <2> QED
    BY <1>7, <2>1, OwnersStay DEF TestPipe
<1>8. ASSUME NEW c \in Conns, OpenPipe(c)
      PROVE  OwnerInv'
  <2>1. \A d \in Conns : stage'[d] # "idle" => stage[d] # "idle"
    BY <1>8 DEF OpenPipe, ConnTypes
  <2> QED
    BY <1>8, <2>1, OwnersStay DEF OpenPipe
<1>9. ASSUME NEW c \in Conns, OpenRegularFile(c)
      PROVE  OwnerInv'
  BY <1>9, OwnerSucceeds DEF OpenRegularFile
<1>10. ASSUME NEW c \in Conns, BrokenPipe(c)
      PROVE  OwnerInv'
  <2>1. \A d \in Conns : stage'[d] # "idle" => stage[d] # "idle"
    BY <1>10 DEF BrokenPipe, ConnTypes
  <2> QED
    BY <1>10, <2>1, OwnersStay DEF BrokenPipe
<1>11. ASSUME NEW c \in Conns, CopyEnds(c)
      PROVE  OwnerInv'
  BY <1>11, OwnerSucceeds DEF CopyEnds
<1>12. CASE HelperOpens
  <2>1. \A d \in Conns : stage'[d] # "idle" => stage[d] # "idle"
    BY <1>12 DEF HelperOpens, ConnTypes
  <2> QED
    BY <1>12, <2>1, OwnersStay DEF HelperOpens
<1>13. CASE ReleasePipe
  <2>1. \A d \in Conns : stage'[d] # "idle" => stage[d] # "idle"
    BY <1>13 DEF ReleasePipe, ConnTypes
  <2> QED
    BY <1>13, <2>1, OwnersStay DEF ReleasePipe
<1> USE SizeAssumptions DEF OwnerInv, ConnTypes, Tables, Conns, Workers,
   GoCopy, GoMain, GoHelper, inputVars, connVars, pipeVars, helperVars
<1>14. CASE DeferredCopies
  BY <1>14 DEF DeferredCopies, Copies
<1>15. CASE DeferredMovesOn
  BY <1>15 DEF DeferredMovesOn
<1> QED
  BY <1>2, <1>3, <1>4, <1>5, <1>6, <1>7, <1>8, <1>9, <1>10, <1>11, <1>12,
     <1>13, <1>14, <1>15 DEF Next, Copy, Main, Helper

\* A table has one COPY at a time.
LEMMA OneCopy ==
  ASSUME ConnTypes, OwnerInv, NEW c \in Conns, NEW d \in Conns,
         stage[c] # "idle", stage[d] # "idle", onTable[c] = onTable[d]
  PROVE  c = d
<1>1. ASSUME NEW w \in Workers, stage[w] # "idle", stage[0] # "idle",
             onTable[w] = onTable[0]
      PROVE  FALSE
  BY <1>1 DEF OwnerInv
<1> QED
  BY <1>1, Sets DEF OwnerInv

\* What keeps ServedInv while the helper stays at its table and no connection
\* begins a COPY: one that ends has completed its table or failed.
LEMMA ServedStays ==
  ASSUME ServedInv, UNCHANGED <<helperAt, reading, onTable>>,
         isErrored => isErrored',
         \A t \in Tables :
           tableState[t] = "Complete" => tableState'[t] = "Complete",
         \A c \in Conns : stage'[c] \notin {"idle", "write"} =>
           stage[c] \notin {"idle", "write"},
         \A c \in Conns : stage[c] = "write" =>
           \/ stage'[c] = "write" \/ isErrored'
           \/ tableState'[onTable[c]] = "Complete"
  PROVE  ServedInv'
<1> SUFFICES ASSUME NEW t \in Tables, Served(t)'
             PROVE  /\ \/ tableState'[t] = "Complete" \/ isErrored'
                       \/ \E c \in Conns : stage'[c] = "write" /\
                            onTable'[c] = t
                    /\ \A c \in Conns :
                         stage'[c] \notin {"idle", "write"} => onTable'[c] # t
  BY DEF ServedInv
<1>1. Served(t)
  BY DEF Served
<1>2. \A c \in Conns : stage[c] \notin {"idle", "write"} => onTable[c] # t
  BY <1>1 DEF ServedInv
<1>3. CASE tableState[t] = "Complete" \/ isErrored
  BY <1>2, <1>3
<1>4. CASE \E c \in Conns : stage[c] = "write" /\ onTable[c] = t
  BY <1>2, <1>4
<1> QED
  BY <1>1, <1>3, <1>4 DEF ServedInv

\* A table that no connection copies and that is not complete is not served.
LEMMA NotServed ==
  ASSUME ServedInv, NEW u \in Tables, tableState[u] # "Complete", ~isErrored,
         \A c \in Conns : stage[c] # "idle" => onTable[c] # u
  PROVE  ~Served(u)
BY DEF ServedInv

\* A connection that begins the COPY of such a table leaves ServedInv true.
LEMMA ServedTakes ==
  ASSUME ConnTypes, OwnerInv, ServedInv, NEW u \in Tables, NEW d \in Conns,
         ~Served(u), stage[d] = "idle", Copies(d, u),
         UNCHANGED <<helperAt, reading, isErrored, tableState>>
  PROVE  ServedInv'
<1>1. \A c \in Conns : /\ stage'[c] = IF c = d THEN "test" ELSE stage[c]
                       /\ onTable'[c] = IF c = d THEN u ELSE onTable[c]
  BY DEF Copies, ConnTypes
<1> SUFFICES ASSUME NEW t \in Tables, Served(t)'
             PROVE  /\ \/ tableState'[t] = "Complete" \/ isErrored'
                       \/ \E c \in Conns : stage'[c] = "write" /\
                            onTable'[c] = t
                    /\ \A c \in Conns :
                         stage'[c] \notin {"idle", "write"} => onTable'[c] # t
  BY DEF ServedInv
<1>2. Served(t) /\ t # u
  BY DEF Served
<1>3. \A c \in Conns : stage'[c] \notin {"idle", "write"} => onTable'[c] # t
  BY <1>1, <1>2 DEF ServedInv
<1>4. \/ tableState[t] = "Complete" \/ isErrored
      \/ \E c \in Conns : stage[c] = "write" /\ onTable[c] = t
  BY <1>2 DEF ServedInv
<1>5. (\E c \in Conns : stage[c] = "write" /\ onTable[c] = t) =>
        \E c \in Conns : stage'[c] = "write" /\ onTable'[c] = t
  BY <1>1
<1> QED
  BY <1>3, <1>4, <1>5

\* A table whose pipe the helper has opened keeps its COPY, or has had it.
LEMMA ServedInvStep ==
  ASSUME ConnTypes, HelperTypes, PlaceInv, OwnerInv, ServedInv, [Next]_vars
  PROVE  ServedInv'
<1>1. ASSUME UNCHANGED <<helperAt, reading, onTable, stage, tableState,
                          isErrored>>
      PROVE  ServedInv'
  BY <1>1 DEF ServedInv, Served
<1>2. CASE DeferredMovesOn \/ (\E c \in Conns : WritePipe(c)) \/ CopiesDone \/
      CopyFailed \/ LookForErrorFile \/ RemoveErrorFile
  BY <1>1, <1>2 DEF DeferredMovesOn, WritePipe, CopiesDone, CopyFailed,
     LookForErrorFile, RemoveErrorFile, GoCopy, GoMain, GoHelper, inputVars,
     connVars, pipeVars, helperVars
<1>3. CASE AwaitSegmentTOC \/ HelperCreates \/ HelperReads \/ HelperFinishes \/
      WriteErrorFile \/ RemovePipe
  BY <1>1, <1>3 DEF AwaitSegmentTOC, HelperCreates, HelperReads,
     HelperFinishes, WriteErrorFile, RemovePipe, GoCopy, GoMain, GoHelper,
     inputVars, connVars, pipeVars, helperVars
<1>4. CASE HelperFails \/ StopHelper
  BY <1>1, <1>4 DEF HelperFails, StopHelper, GoCopy, GoMain, GoHelper,
     inputVars, connVars, pipeVars, helperVars
<1>5. CASE UNCHANGED vars
  BY <1>1, <1>5 DEF vars, inputVars, connVars, pipeVars, helperVars
<1> USE DEF GoCopy, GoMain, GoHelper, inputVars, connVars, pipeVars, helperVars
<1>6. ASSUME NEW w \in Workers, TakeTable(w)
      PROVE  ServedInv'
  <2>1. next \in Tables /\ w \in Conns /\ stage[w] = "idle" /\ ~isErrored
    BY <1>6, Sets, SizeAssumptions DEF TakeTable, ConnTypes, Tables
  <2>2. tableState[next] = "Unknown"
    BY <2>1, Sets DEF OwnerInv
  <2>3. \A c \in Conns : stage[c] # "idle" => onTable[c] # next
    BY <2>1, Sets DEF OwnerInv
  <2>4. ~Served(next)
    BY <2>1, <2>2, <2>3, NotServed
  <2>5. CASE next \in locked
    <3>1. \A t \in Tables : tableState'[t] =
            IF t = next THEN "Deferred" ELSE tableState[t]
      BY <1>6, <2>5 DEF TakeTable, ConnTypes
    <3>2. UNCHANGED <<onTable, stage, isErrored, helperAt, reading>>
      BY <1>6, <2>5 DEF TakeTable
    <3> QED
      BY <2>4, <3>1, <3>2 DEF ServedInv, Served
  <2>6. CASE next \notin locked
    <3>1. Copies(w, next)
      BY <1>6, <2>6 DEF TakeTable
    <3>2. UNCHANGED <<tableState, isErrored, helperAt, reading>>
      BY <1>6, <2>6 DEF TakeTable
    <3> QED
      BY <2>1, <2>4, <3>1, <3>2, ServedTakes
  <2> QED
    BY <2>5, <2>6
<1>7. CASE DeferredCopies
  <2>1. deferredNext \in Tables /\ 0 \in Conns /\ stage[0] = "idle" /\
          ~isErrored
    BY <1>7, Sets, SizeAssumptions DEF DeferredCopies, ConnTypes, Tables
  <2>2. tableState[deferredNext] = "Deferred"
    BY <1>7 DEF DeferredCopies
  <2>3. \A d \in Conns : stage[d] # "idle" => onTable[d] # deferredNext
    BY <2>1, <2>2, Sets DEF OwnerInv
  <2>4. ~Served(deferredNext)
    BY <2>1, <2>2, <2>3, NotServed
  <2> QED
    BY <1>7, <2>1, <2>4, ServedTakes DEF DeferredCopies
<1>8. ASSUME NEW c \in Conns, TestPipe(c)
      PROVE  ServedInv'
  <2>1. stage[c] = "test"
    BY <1>8 DEF TestPipe
  <2>2. \E s \in {"open", "idle"} : stage' = [stage EXCEPT ![c] = s]
    BY <1>8 DEF TestPipe
  <2>3. \A d \in Conns : d # c => stage'[d] = stage[d]
    BY <2>2 DEF ConnTypes
  <2>4. stage'[c] \in {"open", "idle"}
    BY <2>2 DEF ConnTypes
  <2> QED
    BY <1>8, <2>1, <2>3, <2>4, ServedStays DEF TestPipe
<1>9. ASSUME NEW c \in Conns, OpenPipe(c)
      PROVE  ServedInv'
  <2>1. stage[c] = "open"
    BY <1>9 DEF OpenPipe
  <2>2. \E s \in {"blocked"} : stage' = [stage EXCEPT ![c] = s]
    BY <1>9 DEF OpenPipe
  <2>3. \A d \in Conns : d # c => stage'[d] = stage[d]
    BY <2>2 DEF ConnTypes
  <2>4. stage'[c] \in {"blocked"}
    BY <2>2 DEF ConnTypes
  <2> QED
    BY <1>9, <2>1, <2>3, <2>4, ServedStays DEF OpenPipe
<1>10. ASSUME NEW c \in Conns, OpenRegularFile(c)
      PROVE  ServedInv'
  <2>1. onTable[c] \in Tables /\ stage[c] = "open"
    BY <1>10 DEF OpenRegularFile, OwnerInv
  <2>2. /\ \A t \in Tables : tableState'[t] =
             IF t = onTable[c] THEN "Complete" ELSE tableState[t]
        /\ \A d \in Conns : stage'[d] = IF d = c THEN "idle" ELSE stage[d]
    BY <1>10 DEF OpenRegularFile, CopySucceeds, ConnTypes
  <2> QED
    BY <1>10, <2>1, <2>2, ServedStays DEF OpenRegularFile
<1>11. ASSUME NEW c \in Conns, BrokenPipe(c)
      PROVE  ServedInv'
  <2>1. \A d \in Conns : stage'[d] = IF d = c THEN "idle" ELSE stage[d]
    BY <1>11 DEF BrokenPipe, ConnTypes
  <2> QED
    BY <1>11, <2>1, ServedStays DEF BrokenPipe
<1>12. ASSUME NEW c \in Conns, CopyEnds(c)
      PROVE  ServedInv'
  <2>1. onTable[c] \in Tables /\ stage[c] = "write"
    BY <1>12 DEF CopyEnds, OwnerInv
  <2>2. /\ \A t \in Tables : tableState'[t] =
             IF t = onTable[c] THEN "Complete" ELSE tableState[t]
        /\ \A d \in Conns : stage'[d] = IF d = c THEN "idle" ELSE stage[d]
    BY <1>12 DEF CopyEnds, CopySucceeds, ConnTypes
  <2> QED
    BY <1>12, <2>1, <2>2, ServedStays DEF CopyEnds
<1>13. CASE HelperOpens
  <2>1. PICK c \in Conns : /\ stage[c] = "blocked" /\ onTable[c] = helperAt
                           /\ stage' = [stage EXCEPT ![c] = "write"]
    BY <1>13 DEF HelperOpens
  <2>2. /\ reading = 0 /\ reading' = helperAt /\ helperPc = "open"
        /\ UNCHANGED <<tableState, isErrored, onTable, helperAt>>
    BY <1>13 DEF HelperOpens, PlaceInv
  <2>3. \A d \in Conns : stage'[d] = IF d = c THEN "write" ELSE stage[d]
    BY <2>1 DEF ConnTypes
  <2>4. helperAt \in Nat
    BY SizeAssumptions DEF HelperTypes
  <2>5. \A d \in Conns : stage[d] # "idle" /\ onTable[d] = helperAt => d = c
    BY <2>1, OneCopy
  <2> SUFFICES ASSUME NEW t \in Tables, Served(t)'
               PROVE  /\ \/ tableState'[t] = "Complete" \/ isErrored'
                         \/ \E d \in Conns : stage'[d] = "write" /\
                              onTable'[d] = t
                      /\ \A d \in Conns :
                           stage'[d] \notin {"idle", "write"} => onTable'[d] # t
    BY DEF ServedInv
  <2>6. CASE t = helperAt
    BY <2>1, <2>2, <2>3, <2>5, <2>6
  <2>7. CASE t # helperAt
    <3>1. Served(t)
      BY <2>2, <2>7 DEF Served
    <3>2. \A d \in Conns : stage[d] \notin {"idle", "write"} => onTable[d] # t
      BY <3>1 DEF ServedInv
    <3>3. \/ tableState[t] = "Complete" \/ isErrored
          \/ \E d \in Conns : stage[d] = "write" /\ onTable[d] = t
      BY <3>1 DEF ServedInv
    <3> QED
      BY <2>1, <2>2, <2>3, <3>2, <3>3
  <2> QED
    BY <2>6, <2>7
<1>14. CASE EndOfTable
  <2>1. reading = helperAt /\ helperAt' = helperAt + 1 /\ reading' = 0 /\
          helperAt \in Nat
    BY <1>14, SizeAssumptions DEF EndOfTable, PlaceInv, HelperTypes
  <2>2. \A t \in Tables : Served(t)' => Served(t)
    BY <2>1, Sets DEF Served
  <2> QED
    BY <1>14, <2>2 DEF EndOfTable, connVars, ServedInv
<1>15. CASE ReleasePipe
  <2>1. PICK t \in Tables : stage' = [d \in Conns |->
          IF stage[d] = "blocked" /\ onTable[d] = t THEN "write" ELSE stage[d]]
    BY <1>15 DEF ReleasePipe
  <2>2. \A d \in Conns :
          stage'[d] = stage[d] \/ (stage[d] = "blocked" /\ stage'[d] = "write")
    BY <2>1
  <2> QED
    BY <1>15, <2>2, ServedStays DEF ReleasePipe
<1>16. CASE HelperExits
  <2>1. \A t \in Tables : Served(t)' => Served(t)
    BY <1>16, Sets DEF HelperExits, Served
  <2> QED
    BY <1>16, <2>1 DEF HelperExits, connVars, ServedInv
<1>17. CASE HelperCrashes
  <2>1. \A t \in Tables : Served(t)' => Served(t)
    BY <1>17, Sets DEF HelperCrashes, Served
  <2> QED
    BY <1>17, <2>1 DEF HelperCrashes, connVars, ServedInv
<1> QED
  BY <1>2, <1>3, <1>4, <1>5, <1>6, <1>7, <1>8, <1>9, <1>10, <1>11, <1>12,
     <1>13, <1>14, <1>15, <1>16, <1>17 DEF Next, Copy, Main, Helper

\* The table a connection is busy with is not complete.
LEMMA BusyIncomplete ==
  ASSUME OwnerInv, NEW c \in Conns, stage[c] # "idle"
  PROVE  onTable[c] \in Tables /\ tableState[onTable[c]] # "Complete"
BY Sets DEF OwnerInv

\* While the helper reads a pipe it is at a table, and the numbers it compares
\* are numbers.
LEMMA HelperPlace ==
  ASSUME HelperTypes, PlaceInv
  PROVE  /\ Len(toc) \in Nat /\ Len(dataFile) \in Nat /\ lastRead \in Nat
         /\ helperAt \in Nat /\ helperAt = Len(toc) + 1
         /\ reading # 0 => reading = helperAt /\ helperAt \in Tables
         /\ helperPc = "read" => reading # 0
         /\ lastRead = IF Len(toc) = 0 THEN 0 ELSE toc[Len(toc)][2]
         /\ \A t \in 1 .. Len(toc) :
              t \in Nat /\ toc[t] \in Nat \X Nat /\ toc[t][1] \in Nat /\
                toc[t][2] \in Nat
<1>1. toc = <<>> <=> Len(toc) = 0
  BY DEF HelperTypes
<1>2. \A t \in 1 .. Len(toc) :
        t \in Nat /\ toc[t] \in Nat \X Nat /\ toc[t][1] \in Nat /\
          toc[t][2] \in Nat
  BY DEF HelperTypes
<1>3. lastRead \in Nat
  BY <1>1, <1>2 DEF lastRead, HelperTypes
<1>4. /\ Len(toc) \in Nat /\ Len(dataFile) \in Nat /\ helperAt \in Nat
      /\ helperAt = Len(toc) + 1
      /\ reading # 0 => reading = helperAt /\ helperAt \in Tables
      /\ helperPc = "read" => reading # 0
  BY SizeAssumptions DEF HelperTypes, PlaceInv, Tables
<1> QED
  BY <1>1, <1>2, <1>3, <1>4 DEF lastRead

\* The data file grows at its end only, and an entry is made where it ends.
LEMMA EntriesInvStep ==
  ASSUME HelperTypes, PlaceInv, EntriesInv, [Next]_vars
  PROVE  EntriesInv'
<1>1. ASSUME UNCHANGED <<toc, dataFile, helperAt>>
      PROVE  EntriesInv'
  BY <1>1 DEF EntriesInv, lastRead
<1>2. CASE (\E w \in Workers : TakeTable(w)) \/ DeferredCopies \/
      DeferredMovesOn \/ (\E c \in Conns : TestPipe(c)) \/ (\E c \in Conns :
      OpenPipe(c)) \/ (\E c \in Conns : OpenRegularFile(c))
  BY <1>1, <1>2 DEF TakeTable, Copies, DeferredCopies, DeferredMovesOn,
     TestPipe, OpenPipe, OpenRegularFile, CopySucceeds, GoCopy, GoMain,
     GoHelper, inputVars, connVars, pipeVars, helperVars
<1>3. CASE (\E c \in Conns : WritePipe(c)) \/ (\E c \in Conns : BrokenPipe(c))
      \/ (\E c \in Conns : CopyEnds(c)) \/ CopiesDone \/ CopyFailed \/
      LookForErrorFile
  BY <1>1, <1>3 DEF WritePipe, BrokenPipe, CopyEnds, CopySucceeds, CopiesDone,
     CopyFailed, LookForErrorFile, GoCopy, GoMain, GoHelper, inputVars,
     connVars, pipeVars, helperVars
<1>4. CASE RemoveErrorFile \/ AwaitSegmentTOC \/ HelperCreates \/ HelperOpens
      \/ HelperFinishes \/ WriteErrorFile
  BY <1>1, <1>4 DEF RemoveErrorFile, AwaitSegmentTOC, HelperCreates,
     HelperOpens, HelperFinishes, WriteErrorFile, GoCopy, GoMain, GoHelper,
     inputVars, connVars, pipeVars, helperVars
<1>5. CASE ReleasePipe \/ RemovePipe \/ HelperExits \/ HelperFails \/
      HelperCrashes \/ StopHelper
  BY <1>1, <1>5 DEF ReleasePipe, RemovePipe, HelperExits, HelperFails,
     HelperCrashes, StopHelper, GoCopy, GoMain, GoHelper, inputVars, connVars,
     pipeVars, helperVars
<1>6. CASE UNCHANGED vars
  BY <1>1, <1>6 DEF vars, inputVars, connVars, pipeVars, helperVars
<1> USE DEF GoCopy, GoMain, GoHelper, inputVars, connVars, pipeVars, helperVars
<1>7. CASE HelperReads
  <2>1. /\ reading = helperAt /\ helperAt \in Tables /\
             UNCHANGED <<toc, helperAt>>
        /\ dataFile' = Append(dataFile, helperAt)
    BY <1>7, HelperPlace DEF HelperReads
  <2>2. lastRead' = lastRead
    BY <2>1 DEF lastRead
  <2>3. /\ Len(dataFile') = Len(dataFile) + 1
        /\ \A i \in 1 .. Len(dataFile) : dataFile'[i] = dataFile[i]
        /\ dataFile'[Len(dataFile) + 1] = helperAt
    BY <2>1 DEF HelperTypes
  <2>4. ASSUME NEW t \in 1 .. Len(toc)
        PROVE  \A i \in toc[t][1] + 1 .. toc[t][2] : dataFile'[i] = t
    <3>1. toc[t][2] <= Len(dataFile) /\
            \A i \in toc[t][1] + 1 .. toc[t][2] : dataFile[i] = t
      BY HelperPlace DEF EntriesInv
    <3> TAKE i \in toc[t][1] + 1 .. toc[t][2]
    <3>2. i \in 1 .. Len(dataFile)
      BY <3>1, HelperPlace
    <3> QED
      BY <2>3, <3>1, <3>2
  <2>5. \A i \in lastRead + 1 .. Len(dataFile') : dataFile'[i] = helperAt
    BY <2>3, HelperPlace DEF EntriesInv
  <2>6. lastRead <= Len(dataFile')
    BY <2>3, HelperPlace DEF EntriesInv
  <2> QED
    BY <2>1, <2>2, <2>4, <2>5, <2>6 DEF EntriesInv
<1>8. CASE EndOfTable
  <2> DEFINE n == Len(toc) + 1
             e == <<lastRead, Len(dataFile)>>
  <2>1. /\ helperAt = n /\ helperAt' = n + 1 /\ n \in Nat
        /\ toc' = Append(toc, e) /\ UNCHANGED dataFile
    BY <1>8, HelperPlace DEF EndOfTable
  <2>2. /\ Len(toc') = n /\ toc'[n] = e
        /\ \A t \in 1 .. Len(toc) : toc'[t] = toc[t]
    BY <2>1, HelperPlace DEF HelperTypes
  <2>3. lastRead' = Len(dataFile)
    BY <2>1, <2>2 DEF lastRead, HelperTypes
  <2> HIDE DEF n
  <2>4. ASSUME NEW t \in 1 .. Len(toc)
        PROVE  /\ toc'[t][1] = (IF t = 1 THEN 0 ELSE toc'[t - 1][2])
               /\ toc'[t][1] <= toc'[t][2] /\ toc'[t][2] <= lastRead'
               /\ \A i \in toc'[t][1] + 1 .. toc'[t][2] : dataFile'[i] = t
    <3>1. /\ toc[t][1] = (IF t = 1 THEN 0 ELSE toc[t - 1][2])
          /\ toc[t][1] <= toc[t][2] /\ toc[t][2] <= lastRead
          /\ \A i \in toc[t][1] + 1 .. toc[t][2] : dataFile[i] = t
      BY DEF EntriesInv
    <3>2. t = 1 \/ t - 1 \in 1 .. Len(toc)
      BY HelperPlace
    <3>3. toc[t][2] <= Len(dataFile)
      BY <3>1, HelperPlace DEF EntriesInv
    <3> QED
      BY <2>1, <2>2, <2>3, <3>1, <3>2, <3>3
  <2>5. /\ toc'[n][1] = (IF n = 1 THEN 0 ELSE toc'[n - 1][2])
        /\ toc'[n][1] <= toc'[n][2] /\ toc'[n][2] <= lastRead'
        /\ \A i \in toc'[n][1] + 1 .. toc'[n][2] : dataFile'[i] = n
    <3>1. n = 1 \/ (n - 1 = Len(toc) /\ Len(toc) \in 1 .. Len(toc))
      BY HelperPlace DEF n
    <3>2. lastRead = IF n = 1 THEN 0 ELSE toc'[n - 1][2]
      BY <2>2, <3>1, HelperPlace DEF n
    <3>3. lastRead <= Len(dataFile) /\
            \A i \in lastRead + 1 .. Len(dataFile) : dataFile[i] = n
      BY <2>1 DEF EntriesInv
    <3> QED
      BY <2>1, <2>2, <2>3, <3>2, <3>3, HelperPlace
  <2>6. \A t \in 1 .. Len(toc') : t = n \/ t \in 1 .. Len(toc)
    BY <2>2, HelperPlace DEF n
  <2>7. lastRead' <= Len(dataFile') /\
          \A i \in lastRead' + 1 .. Len(dataFile') : FALSE
    BY <2>1, <2>3, HelperPlace
  <2> QED
    BY <2>4, <2>5, <2>6, <2>7 DEF EntriesInv
<1> QED
  BY <1>2, <1>3, <1>4, <1>5, <1>6, <1>7, <1>8 DEF Next, Copy, Main, Helper

\* Every byte written is in the pipe or in the data file.
LEMMA CountInvStep ==
  ASSUME ConnTypes, FileTypes, HelperTypes, PlaceInv, OwnerInv, CountInv,
         [Next]_vars
  PROVE  CountInv'
<1>1. ASSUME UNCHANGED <<helperAt, inPipe, written, toc, dataFile>>
      PROVE  CountInv'
  BY <1>1 DEF CountInv, lastRead
<1>2. CASE (\E w \in Workers : TakeTable(w)) \/ DeferredCopies \/
      DeferredMovesOn \/ (\E c \in Conns : TestPipe(c)) \/ (\E c \in Conns :
      OpenPipe(c)) \/ (\E c \in Conns : OpenRegularFile(c))
  BY <1>1, <1>2 DEF TakeTable, Copies, DeferredCopies, DeferredMovesOn,
     TestPipe, OpenPipe, OpenRegularFile, CopySucceeds, GoCopy, GoMain,
     GoHelper, inputVars, connVars, pipeVars, helperVars
<1>3. CASE (\E c \in Conns : BrokenPipe(c)) \/ (\E c \in Conns : CopyEnds(c))
      \/ CopiesDone \/ CopyFailed \/ LookForErrorFile \/ RemoveErrorFile
  BY <1>1, <1>3 DEF BrokenPipe, CopyEnds, CopySucceeds, CopiesDone, CopyFailed,
     LookForErrorFile, RemoveErrorFile, GoCopy, GoMain, GoHelper, inputVars,
     connVars, pipeVars, helperVars
<1>4. CASE AwaitSegmentTOC \/ HelperCreates \/ HelperOpens \/ HelperFinishes \/
      WriteErrorFile \/ ReleasePipe
  BY <1>1, <1>4 DEF AwaitSegmentTOC, HelperCreates, HelperOpens,
     HelperFinishes, WriteErrorFile, ReleasePipe, GoCopy, GoMain, GoHelper,
     inputVars, connVars, pipeVars, helperVars
<1>5. CASE RemovePipe \/ HelperExits \/ HelperFails \/ HelperCrashes \/
      StopHelper
  BY <1>1, <1>5 DEF RemovePipe, HelperExits, HelperFails, HelperCrashes,
     StopHelper, GoCopy, GoMain, GoHelper, inputVars, connVars, pipeVars,
     helperVars
<1>6. CASE UNCHANGED vars
  BY <1>1, <1>6 DEF vars, inputVars, connVars, pipeVars, helperVars
<1> USE DEF GoCopy, GoMain, GoHelper, inputVars, connVars, pipeVars, helperVars
<1>7. ASSUME NEW c \in Conns, WritePipe(c)
      PROVE  CountInv'
  <2> DEFINE t == onTable[c]
  <2>1. t \in Tables /\ reading = t /\ t = helperAt
    BY <1>7, BusyIncomplete, HelperPlace, Sets DEF WritePipe
  <2>2. /\ inPipe' = [inPipe EXCEPT ![t] = inPipe[t] + 1]
        /\ written' = [written EXCEPT ![t] = written[t] + 1]
    BY <1>7 DEF WritePipe
  <2>3. \A s \in Tables :
          /\ inPipe'[s] = IF s = t THEN inPipe[s] + 1 ELSE inPipe[s]
          /\ written'[s] = IF s = t THEN written[s] + 1 ELSE written[s]
    BY <2>1, <2>2 DEF FileTypes, ConnTypes
  <2>4. UNCHANGED <<toc, dataFile, helperAt, lastRead>>
    BY <1>7 DEF WritePipe, lastRead
  <2>5. \A s \in Tables : inPipe[s] \in Nat
    BY DEF FileTypes, Capacity
  <2> QED
    BY <2>1, <2>3, <2>4, <2>5, HelperPlace, Sets DEF CountInv
<1>8. CASE HelperReads
  <2>1. /\ reading = helperAt /\ helperAt \in Tables /\
             UNCHANGED <<toc, helperAt, written>>
        /\ dataFile' = Append(dataFile, helperAt)
        /\ inPipe' = [inPipe EXCEPT ![helperAt] = inPipe[helperAt] - 1]
    BY <1>8, HelperPlace DEF HelperReads, connVars
  <2>2. lastRead' = lastRead
    BY <2>1 DEF lastRead
  <2>3. Len(dataFile') = Len(dataFile) + 1
    BY <2>1 DEF HelperTypes
  <2>4. \A s \in Tables :
          /\ inPipe'[s] = IF s = helperAt THEN inPipe[s] - 1 ELSE inPipe[s]
          /\ inPipe[s] \in Nat
    BY <2>1 DEF FileTypes, Capacity
  <2>5. ASSUME NEW t \in Tables
        PROVE  /\ t < helperAt =>
                    inPipe'[t] = 0 /\ written[t] = toc[t][2] - toc[t][1]
               /\ t = helperAt =>
                    written[t] = inPipe'[t] + Len(dataFile') - lastRead
               /\ t > helperAt => inPipe'[t] = 0 /\ written[t] = 0
    <3>1. /\ t < helperAt => inPipe[t] = 0 /\ written[t] = toc[t][2] - toc[t][1]
          /\ t = helperAt => written[t] = inPipe[t] + Len(dataFile) - lastRead
          /\ t > helperAt => inPipe[t] = 0 /\ written[t] = 0
      BY DEF CountInv
    <3>2. CASE t = helperAt
      <4>1. /\ inPipe'[t] = inPipe[t] - 1 /\ inPipe[t] \in Nat
            /\ written[t] = inPipe[t] + Len(dataFile) - lastRead
        BY <2>4, <3>1, <3>2
      <4>2. Len(dataFile) \in Nat /\ lastRead \in Nat /\ helperAt \in Nat
        BY HelperPlace
      <4> QED
        BY <2>3, <3>2, <4>1, <4>2
    <3>3. CASE t # helperAt
      BY <2>4, <3>1, <3>3
    <3> QED
      BY <3>2, <3>3
  <2> QED
    BY <2>1, <2>2, <2>5 DEF CountInv
<1>9. CASE EndOfTable
  <2> DEFINE n == Len(toc) + 1
             e == <<lastRead, Len(dataFile)>>
  <2>1. /\ helperAt = n /\ helperAt' = n + 1 /\ n \in Nat /\ n \in Tables
        /\ toc' = Append(toc, e) /\ UNCHANGED <<dataFile, written, inPipe>>
        /\ inPipe[n] = 0
    BY <1>9, HelperPlace DEF EndOfTable, connVars
  <2>2. /\ Len(toc') = n /\ toc'[n] = e
        /\ \A t \in 1 .. Len(toc) : toc'[t] = toc[t]
    BY <2>1, HelperPlace DEF HelperTypes
  <2>3. lastRead' = Len(dataFile)
    BY <2>1, <2>2 DEF lastRead, HelperTypes
  <2>4. \A t \in Tables : t < n => t \in 1 .. Len(toc)
    BY Sets, HelperPlace
  <2>5. written[n] = Len(dataFile) - lastRead
    BY <2>1, HelperPlace DEF CountInv
  <2> HIDE DEF n
  <2>6. ASSUME NEW t \in Tables
        PROVE  /\ t < n + 1 =>
                    inPipe[t] = 0 /\ written[t] = toc'[t][2] - toc'[t][1]
               /\ t = n + 1 =>
                    written[t] = inPipe[t] + Len(dataFile) - Len(dataFile)
               /\ t > n + 1 => inPipe[t] = 0 /\ written[t] = 0
    <3>1. CASE t = n
      BY <2>1, <2>2, <2>5, <3>1, HelperPlace
    <3>2. CASE t < n
      BY <2>1, <2>2, <2>4, <3>2, Sets DEF CountInv
    <3>3. CASE t > n
      BY <2>1, <3>3, Sets, HelperPlace DEF CountInv
    <3>4. t = n \/ t < n \/ t > n
      BY <2>1, Sets
    <3> QED
      BY <3>1, <3>2, <3>3, <3>4
  <2> QED
    BY <2>1, <2>3, <2>6 DEF CountInv
<1> QED
  BY <1>2, <1>3, <1>4, <1>5, <1>6, <1>7, <1>8, <1>9 DEF Next, Copy, Main,
     Helper

\* A table becomes complete with its last byte and gets no other one.
LEMMA CompleteInvStep ==
  ASSUME ConnTypes, OwnerInv, CompleteInv, [Next]_vars
  PROVE  CompleteInv'
<1>1. ASSUME UNCHANGED <<tableState, stray, written>>
      PROVE  CompleteInv'
  BY <1>1 DEF CompleteInv
<1>2. CASE DeferredCopies \/ DeferredMovesOn \/ (\E c \in Conns : TestPipe(c))
      \/ (\E c \in Conns : OpenPipe(c)) \/ (\E c \in Conns : BrokenPipe(c)) \/
      CopiesDone
  BY <1>1, <1>2 DEF DeferredCopies, Copies, DeferredMovesOn, TestPipe,
     OpenPipe, BrokenPipe, CopiesDone, GoCopy, GoMain, GoHelper, inputVars,
     connVars, pipeVars, helperVars
<1>3. CASE CopyFailed \/ LookForErrorFile \/ RemoveErrorFile \/ AwaitSegmentTOC
      \/ HelperCreates \/ HelperOpens
  BY <1>1, <1>3 DEF CopyFailed, LookForErrorFile, RemoveErrorFile,
     AwaitSegmentTOC, HelperCreates, HelperOpens, GoCopy, GoMain, GoHelper,
     inputVars, connVars, pipeVars, helperVars
<1>4. CASE HelperReads \/ EndOfTable \/ HelperFinishes \/ WriteErrorFile \/
      ReleasePipe \/ RemovePipe
  BY <1>1, <1>4 DEF HelperReads, EndOfTable, HelperFinishes, WriteErrorFile,
     ReleasePipe, RemovePipe, GoCopy, GoMain, GoHelper, inputVars, connVars,
     pipeVars, helperVars
<1>5. CASE HelperExits \/ HelperFails \/ HelperCrashes \/ StopHelper
  BY <1>1, <1>5 DEF HelperExits, HelperFails, HelperCrashes, StopHelper,
     GoCopy, GoMain, GoHelper, inputVars, connVars, pipeVars, helperVars
<1>6. CASE UNCHANGED vars
  BY <1>1, <1>6 DEF vars, inputVars, connVars, pipeVars, helperVars
<1> USE DEF GoCopy, GoMain, GoHelper, inputVars, connVars, pipeVars, helperVars
<1>7. ASSUME NEW w \in Workers, TakeTable(w)
      PROVE  CompleteInv'
  <2>1. \A t \in Tables : tableState'[t] = "Complete" =>
          tableState[t] = "Complete"
    BY <1>7 DEF TakeTable, ConnTypes
  <2> QED
    BY <1>7, <2>1 DEF TakeTable, CompleteInv
<1>8. ASSUME NEW c \in Conns, OpenRegularFile(c)
      PROVE  CompleteInv'
  <2>1. \A t \in Tables : tableState'[t] = "Complete" =>
          tableState[t] = "Complete" \/ t = onTable[c]
    BY <1>8 DEF OpenRegularFile, CopySucceeds, ConnTypes
  <2> QED
    BY <1>8, <2>1 DEF OpenRegularFile, CompleteInv
<1>9. ASSUME NEW c \in Conns, WritePipe(c)
      PROVE  CompleteInv'
  <2>1. \A t \in Tables : t # onTable[c] => written'[t] = written[t]
    BY <1>9 DEF WritePipe, ConnTypes
  <2>2. tableState[onTable[c]] # "Complete"
    BY <1>9, BusyIncomplete DEF WritePipe
  <2> QED
    BY <1>9, <2>1, <2>2 DEF WritePipe, CompleteInv
<1>10. ASSUME NEW c \in Conns, CopyEnds(c)
      PROVE  CompleteInv'
  <2>1. \A t \in Tables : tableState'[t] = "Complete" =>
          tableState[t] = "Complete" \/ t = onTable[c]
    BY <1>10 DEF CopyEnds, CopySucceeds, ConnTypes
  <2> QED
    BY <1>10, <2>1 DEF CopyEnds, CompleteInv
<1> QED
  BY <1>2, <1>3, <1>4, <1>5, <1>6, <1>7, <1>8, <1>9, <1>10 DEF Next, Copy,
     Main, Helper

\* Before its clean-up the helper removes a pipe when its table is done.
LEMMA PipeInvStep ==
  ASSUME FileTypes, HelperTypes, PlaceInv, OwnerInv, ServedInv, PipeInv,
         [Next]_vars
  PROVE  PipeInv'
<1>1. ASSUME UNCHANGED <<helperPc, pipe, helperAt, stray>>
      PROVE  PipeInv'
  BY <1>1 DEF PipeInv
<1>2. CASE (\E w \in Workers : TakeTable(w)) \/ DeferredCopies \/
      DeferredMovesOn \/ (\E c \in Conns : TestPipe(c)) \/ (\E c \in Conns :
      OpenPipe(c)) \/ (\E c \in Conns : WritePipe(c))
  BY <1>1, <1>2 DEF TakeTable, Copies, DeferredCopies, DeferredMovesOn,
     TestPipe, OpenPipe, WritePipe, GoCopy, GoMain, GoHelper, inputVars,
     connVars, pipeVars, helperVars
<1>3. CASE (\E c \in Conns : BrokenPipe(c)) \/ (\E c \in Conns : CopyEnds(c))
      \/ CopiesDone \/ CopyFailed \/ LookForErrorFile \/ RemoveErrorFile
  BY <1>1, <1>3 DEF BrokenPipe, CopyEnds, CopySucceeds, CopiesDone, CopyFailed,
     LookForErrorFile, RemoveErrorFile, GoCopy, GoMain, GoHelper, inputVars,
     connVars, pipeVars, helperVars
<1>4. CASE AwaitSegmentTOC
  BY <1>1, <1>4 DEF AwaitSegmentTOC, GoCopy, GoMain, GoHelper, inputVars,
     connVars, pipeVars, helperVars
<1>5. CASE UNCHANGED vars
  BY <1>1, <1>5 DEF vars, inputVars, connVars, pipeVars, helperVars
<1> USE DEF GoCopy, GoMain, GoHelper, inputVars, connVars, pipeVars, helperVars
<1>6. ASSUME NEW c \in Conns, OpenRegularFile(c)
      PROVE  PipeInv'
  <2>1. onTable[c] \in Tables /\ stage[c] = "open" /\
          pipe[onTable[c]] = "removed"
    BY <1>6, BusyIncomplete DEF OpenRegularFile
  <2>2. ~(onTable[c] < helperAt)
    BY <2>1 DEF ServedInv, Served
  <2> QED
    BY <1>6, <2>1, <2>2 DEF OpenRegularFile, PipeInv
<1>7. CASE HelperCreates
  <2>1. \A t \in Tables : pipe'[t] = "removed" => pipe[t] = "removed"
    BY <1>7 DEF HelperCreates
  <2> QED
    BY <1>7, <2>1 DEF HelperCreates, PipeInv
<1>8. CASE EndOfTable
  <2>1. reading = helperAt /\ helperAt' = helperAt + 1 /\ helperAt \in Nat
    BY <1>8, HelperPlace DEF EndOfTable
  <2>2. \A t \in Tables : pipe'[t] = "removed" =>
          t = reading \/ pipe[t] = "removed"
    BY <1>8 DEF EndOfTable, FileTypes
  <2> QED
    BY <1>8, <2>1, <2>2, Sets DEF EndOfTable, PipeInv
<1> USE SizeAssumptions DEF PipeInv, GoCopy, GoMain, GoHelper, inputVars,
   connVars, pipeVars, helperVars
<1>9. CASE HelperOpens
  BY <1>9 DEF HelperOpens
<1>10. CASE HelperReads
  BY <1>10 DEF HelperReads
<1>11. CASE HelperFinishes
  BY <1>11 DEF HelperFinishes
<1>12. CASE WriteErrorFile
  BY <1>12 DEF WriteErrorFile
<1>13. CASE ReleasePipe
  BY <1>13 DEF ReleasePipe
<1>14. CASE RemovePipe
  BY <1>14 DEF RemovePipe
<1>15. CASE HelperExits
  BY <1>15 DEF HelperExits
<1>16. CASE HelperFails
  BY <1>16 DEF HelperFails
<1>17. CASE HelperCrashes
  BY <1>17 DEF HelperCrashes
<1>18. CASE StopHelper
  BY <1>18 DEF StopHelper
<1> QED
  BY <1>2, <1>3, <1>4, <1>5, <1>6, <1>7, <1>8, <1>9, <1>10, <1>11, <1>12,
     <1>13, <1>14, <1>15, <1>16, <1>17, <1>18 DEF Next, Copy, Main, Helper

\* Main goes on when all tables have been given out.
LEMMA MainInvStep ==
  ASSUME ConnTypes, FileTypes, MainInv, [Next]_vars
  PROVE  MainInv'
<1>1. ASSUME UNCHANGED <<mainPc, next, deferredNext, plugin, tocWritten>>
      PROVE  MainInv'
  BY <1>1 DEF MainInv
<1>2. CASE DeferredCopies \/ (\E c \in Conns : TestPipe(c)) \/ (\E c \in Conns
      : OpenPipe(c)) \/ (\E c \in Conns : OpenRegularFile(c)) \/ (\E c \in
      Conns : WritePipe(c)) \/ (\E c \in Conns : BrokenPipe(c))
  BY <1>1, <1>2 DEF DeferredCopies, Copies, TestPipe, OpenPipe,
     OpenRegularFile, CopySucceeds, WritePipe, BrokenPipe, GoCopy, GoMain,
     GoHelper, inputVars, connVars, pipeVars, helperVars
<1>3. CASE (\E c \in Conns : CopyEnds(c)) \/ HelperCreates \/ HelperOpens \/
      HelperReads \/ EndOfTable \/ WriteErrorFile
  BY <1>1, <1>3 DEF CopyEnds, CopySucceeds, HelperCreates, HelperOpens,
     HelperReads, EndOfTable, WriteErrorFile, GoCopy, GoMain, GoHelper,
     inputVars, connVars, pipeVars, helperVars
<1>4. CASE ReleasePipe \/ RemovePipe \/ HelperExits \/ HelperFails \/
      HelperCrashes \/ StopHelper
  BY <1>1, <1>4 DEF ReleasePipe, RemovePipe, HelperExits, HelperFails,
     HelperCrashes, StopHelper, GoCopy, GoMain, GoHelper, inputVars, connVars,
     pipeVars, helperVars
<1>5. CASE UNCHANGED vars
  BY <1>1, <1>5 DEF vars, inputVars, connVars, pipeVars, helperVars
<1> USE SizeAssumptions DEF MainInv, ConnTypes, FileTypes, GoCopy, GoMain,
   GoHelper, inputVars, connVars, pipeVars, helperVars
<1>6. ASSUME NEW w \in Workers, TakeTable(w)
      PROVE  MainInv'
  BY <1>6 DEF TakeTable, Copies
<1>7. CASE DeferredMovesOn
  BY <1>7 DEF DeferredMovesOn
<1>8. CASE CopiesDone
  BY <1>8 DEF CopiesDone
<1>9. CASE CopyFailed
  BY <1>9 DEF CopyFailed
<1>10. CASE LookForErrorFile
  BY <1>10 DEF LookForErrorFile
<1>11. CASE RemoveErrorFile
  BY <1>11 DEF RemoveErrorFile
<1>12. CASE AwaitSegmentTOC
  BY <1>12 DEF AwaitSegmentTOC
<1>13. CASE HelperFinishes
  BY <1>13 DEF HelperFinishes
<1> QED
  BY <1>2, <1>3, <1>4, <1>5, <1>6, <1>7, <1>8, <1>9, <1>10, <1>11, <1>12, <1>13
     DEF Next, Copy, Main, Helper

\* What keeps TailInv while only connections move: none begins to write and no
\* table becomes complete.
LEMMA TailStays ==
  ASSUME TailInv, UNCHANGED <<mainPc, errorFile, helperPc, pipe, helperAt>>,
         \A c \in Conns : stage'[c] = "write" =>
           stage[c] = "write" /\ onTable'[c] = onTable[c],
         \A t \in Tables :
           tableState'[t] = "Complete" => tableState[t] = "Complete"
  PROVE  TailInv'
BY DEF TailInv

\* A connection whose COPY succeeds on a table the helper has come to leaves
\* TailInv true.
LEMMA TailSucceeds ==
  ASSUME ConnTypes, TailInv, NEW c \in Conns, CopySucceeds(c),
         UNCHANGED <<mainPc, errorFile, helperPc, pipe, helperAt, onTable>>,
         onTable[c] \in Tables,
         mainPc \in {"copying", "check"} /\ ~errorFile => onTable[c] <= helperAt
  PROVE  TailInv'
<1>1. /\ \A t \in Tables : tableState'[t] =
              IF t = onTable[c] THEN "Complete" ELSE tableState[t]
      /\ \A d \in Conns : stage'[d] = IF d = c THEN "idle" ELSE stage[d]
  BY DEF CopySucceeds, ConnTypes
<1> QED
  BY <1>1 DEF TailInv

\* Without an error file no COPY gets ahead of the helper.
LEMMA TailInvStep ==
  ASSUME ConnTypes, FileTypes, HelperTypes, PlaceInv, OwnerInv, MainInv,
         TailInv, [Next]_vars
  PROVE  TailInv'
<1>1. ASSUME UNCHANGED <<mainPc, errorFile, helperPc, pipe, helperAt, stage,
                          onTable, tableState>>
      PROVE  TailInv'
  BY <1>1 DEF TailInv
<1>2. CASE DeferredMovesOn \/ (\E c \in Conns : WritePipe(c))
  BY <1>1, <1>2 DEF DeferredMovesOn, WritePipe, GoCopy, GoMain, GoHelper,
     inputVars, connVars, pipeVars, helperVars
<1>3. CASE UNCHANGED vars
  BY <1>1, <1>3 DEF vars, inputVars, connVars, pipeVars, helperVars
<1> USE DEF GoCopy, GoMain, GoHelper, inputVars, connVars, pipeVars, helperVars
<1>4. ASSUME NEW w \in Workers, TakeTable(w)
      PROVE  TailInv'
  <2>1. \A d \in Conns : stage'[d] = "write" =>
          stage[d] = "write" /\ onTable'[d] = onTable[d]
    BY <1>4, Sets DEF TakeTable, Copies, ConnTypes
  <2>2. \A t \in Tables : tableState'[t] = "Complete" =>
          tableState[t] = "Complete"
    BY <1>4 DEF TakeTable, ConnTypes
  <2> QED
    BY <1>4, <2>1, <2>2, TailStays DEF TakeTable
<1>5. CASE DeferredCopies
  <2>1. \A d \in Conns : stage'[d] = "write" =>
          stage[d] = "write" /\ onTable'[d] = onTable[d]
    BY <1>5, Sets DEF DeferredCopies, Copies, ConnTypes
  <2>2. \A t \in Tables : tableState'[t] = "Complete" =>
          tableState[t] = "Complete"
    BY <1>5 DEF DeferredCopies, ConnTypes
  <2> QED
    BY <1>5, <2>1, <2>2, TailStays DEF DeferredCopies
<1>6. ASSUME NEW c \in Conns, TestPipe(c)
      PROVE  TailInv'
  <2>1. \A d \in Conns : stage'[d] = "write" =>
          stage[d] = "write" /\ onTable'[d] = onTable[d]
    BY <1>6, Sets DEF TestPipe, ConnTypes
  <2>2. \A t \in Tables : tableState'[t] = "Complete" =>
          tableState[t] = "Complete"
    BY <1>6 DEF TestPipe, ConnTypes
  <2> QED
    BY <1>6, <2>1, <2>2, TailStays DEF TestPipe
<1>7. ASSUME NEW c \in Conns, OpenPipe(c)
      PROVE  TailInv'
  <2>1. \A d \in Conns : stage'[d] = "write" =>
          stage[d] = "write" /\ onTable'[d] = onTable[d]
    BY <1>7, Sets DEF OpenPipe, ConnTypes
  <2>2. \A t \in Tables : tableState'[t] = "Complete" =>
          tableState[t] = "Complete"
    BY <1>7 DEF OpenPipe, ConnTypes
  <2> QED
    BY <1>7, <2>1, <2>2, TailStays DEF OpenPipe
<1>8. ASSUME NEW c \in Conns, OpenRegularFile(c)
      PROVE  TailInv'
  <2>1. onTable[c] \in Tables /\ pipe[onTable[c]] = "removed"
    BY <1>8, BusyIncomplete DEF OpenRegularFile
  <2>2. mainPc \in {"copying", "check"} /\ ~errorFile => onTable[c] <= helperAt
    BY <2>1, HelperPlace, Sets DEF TailInv
  <2> QED
    BY <1>8, <2>1, <2>2, TailSucceeds DEF OpenRegularFile
<1>9. ASSUME NEW c \in Conns, BrokenPipe(c)
      PROVE  TailInv'
  <2>1. \A d \in Conns : stage'[d] = "write" =>
          stage[d] = "write" /\ onTable'[d] = onTable[d]
    BY <1>9, Sets DEF BrokenPipe, ConnTypes
  <2>2. \A t \in Tables : tableState'[t] = "Complete" =>
          tableState[t] = "Complete"
    BY <1>9 DEF BrokenPipe, ConnTypes
  <2> QED
    BY <1>9, <2>1, <2>2, TailStays DEF BrokenPipe
<1>10. ASSUME NEW c \in Conns, CopyEnds(c)
      PROVE  TailInv'
  <2>1. onTable[c] \in Tables
    BY <1>10, BusyIncomplete DEF CopyEnds
  <2> QED
    BY <1>10, <2>1, TailSucceeds DEF CopyEnds, TailInv
<1>11. CASE LookForErrorFile
  <2>1. deferredNext = NumTables + 1
    BY <1>11 DEF LookForErrorFile, MainInv
  <2>2. NumTables \in Tables /\ NumTables < deferredNext
    BY <2>1, SizeAssumptions DEF Tables
  <2>3. tableState[NumTables] = "Complete"
    BY <2>2 DEF OwnerInv
  <2> QED
    BY <1>11, <2>2, <2>3, HelperPlace, Sets DEF LookForErrorFile, TailInv
<1>12. CASE HelperCreates
  <2>1. \A t \in Tables : pipe'[t] = "removed" => pipe[t] = "removed"
    BY <1>12 DEF HelperCreates
  <2> QED
    BY <1>12, <2>1 DEF HelperCreates, TailInv, connVars
<1>13. CASE HelperOpens
  <2>1. \A d \in Conns : stage'[d] = "write" =>
          stage[d] = "write" \/ onTable[d] = helperAt
    BY <1>13 DEF HelperOpens, ConnTypes
  <2> QED
    BY <1>13, <2>1, HelperPlace DEF HelperOpens, TailInv
<1>14. CASE EndOfTable
  <2>1. reading = helperAt /\ helperAt' = helperAt + 1 /\ helperAt \in Nat
    BY <1>14, HelperPlace DEF EndOfTable
  <2>2. \A t \in Tables : pipe'[t] = "removed" =>
          t = reading \/ pipe[t] = "removed"
    BY <1>14 DEF EndOfTable, FileTypes
  <2>3. \A c \in Conns : stage[c] = "write" => onTable[c] \in Nat
    BY BusyIncomplete, Sets
  <2> QED
    BY <1>14, <2>1, <2>2, <2>3, Sets, SizeAssumptions DEF EndOfTable, TailInv,
       connVars
<1> USE SizeAssumptions DEF TailInv, GoCopy, GoMain, GoHelper, inputVars,
   connVars, pipeVars, helperVars
<1>15. CASE CopiesDone
  BY <1>15 DEF CopiesDone
<1>16. CASE CopyFailed
  BY <1>16 DEF CopyFailed
<1>17. CASE RemoveErrorFile
  BY <1>17 DEF RemoveErrorFile
<1>18. CASE AwaitSegmentTOC
  BY <1>18 DEF AwaitSegmentTOC
<1>19. CASE HelperReads
  BY <1>19 DEF HelperReads
<1>20. CASE HelperFinishes
  BY <1>20 DEF HelperFinishes
<1>21. CASE WriteErrorFile
  BY <1>21 DEF WriteErrorFile
<1>22. CASE ReleasePipe
  BY <1>22 DEF ReleasePipe
<1>23. CASE RemovePipe
  BY <1>23 DEF RemovePipe
<1>24. CASE HelperExits
  BY <1>24 DEF HelperExits
<1>25. CASE HelperFails
  BY <1>25 DEF HelperFails
<1>26. CASE HelperCrashes
  BY <1>26 DEF HelperCrashes
<1>27. CASE StopHelper
  BY <1>27 DEF StopHelper
<1> QED
  BY <1>2, <1>3, <1>4, <1>5, <1>6, <1>7, <1>8, <1>9, <1>10, <1>11, <1>12,
     <1>13, <1>14, <1>15, <1>16, <1>17, <1>18, <1>19, <1>20, <1>21, <1>22,
     <1>23, <1>24, <1>25, <1>26, <1>27 DEF Next, Copy, Main, Helper

-----------------------------------------------------------------------------
(* The theorems                                                            *)

\* TypeOK is kept.
LEMMA TypeOKStep ==
  ASSUME TypeOK, PlaceInv, OwnerInv, [Next]_vars
  PROVE  TypeOK'
BY TypeParts, ConnTypesStep, FileTypesStep, HelperTypesStep

\* Together the parts are inductive.
LEMMA IInvStep == IInv /\ [Next]_vars => IInv'
<1> SUFFICES ASSUME IInv, [Next]_vars
             PROVE  IInv'
  OBVIOUS
<1>1. ConnTypes /\ FileTypes /\ HelperTypes
  BY TypeParts DEF IInv
<1>2. TypeOK' /\ PlaceInv' /\ OwnerInv' /\ ServedInv'
  BY <1>1, TypeOKStep, PlaceInvStep, OwnerInvStep, ServedInvStep DEF IInv
<1>3. EntriesInv' /\ CountInv' /\ CompleteInv' /\ PipeInv'
  BY <1>1, EntriesInvStep, CountInvStep, CompleteInvStep, PipeInvStep DEF IInv
<1>4. MainInv' /\ TailInv'
  BY <1>1, MainInvStep, TailInvStep DEF IInv
<1> QED
  BY <1>2, <1>3, <1>4 DEF IInv

\* The invariant holds before the first COPY.
LEMMA IInvInit == Init => IInv
<1> SUFFICES ASSUME Init
             PROVE  IInv
  OBVIOUS
<1> USE DEF Init
<1>1. toc = <<>> /\ dataFile = <<>> /\ Len(toc) = 0 /\ Len(dataFile) = 0
      /\ NumTables \in Nat /\ NumTables >= 1
  BY SizeAssumptions
<1>2. lastRead = 0
  BY <1>1 DEF lastRead
<1>3. locked \in SUBSET Tables /\
        pipe \in [Tables -> {"none", "fifo", "removed"}]
      /\ \A t \in Tables : pipe[t] # "removed"
  OBVIOUS
<1>4. ConnTypes
  <2>1. next \in 1 .. NumTables + 1 /\ deferredNext \in 1 .. NumTables + 1
    BY <1>1
  <2>2. 0 \in 0 .. NumTables
    BY <1>1
  <2>3. onTable \in [Conns -> 0 .. NumTables]
    BY <2>2
  <2> QED
    BY <2>1, <2>3 DEF ConnTypes
<1>5. FileTypes
  <2>1. 0 \in 0 .. Capacity
    BY DEF Capacity
  <2>2. inPipe \in [Tables -> 0 .. Capacity]
    BY <2>1
  <2> QED
    BY <1>3, <2>2 DEF FileTypes
<1>6. HelperTypes
  BY <1>1 DEF HelperTypes
<1>7. PlaceInv
  BY <1>1 DEF PlaceInv
<1>8. OwnerInv
  BY Sets DEF OwnerInv
<1>9. ServedInv
  BY Sets DEF ServedInv, Served, Tables
<1>10. EntriesInv
  BY <1>1, <1>2 DEF EntriesInv
<1>11. CountInv
  BY <1>1, <1>2, Sets DEF CountInv, Tables
<1>12. CompleteInv /\ PipeInv /\ MainInv
  BY <1>3 DEF CompleteInv, PipeInv, MainInv
<1>13. TailInv
  BY <1>3 DEF TailInv
<1> QED
  BY <1>4, <1>5, <1>6, <1>7, <1>8, <1>9, <1>10, <1>11, <1>12, <1>13, TypeParts
     DEF IInv

\* The inductive invariant holds in every reachable state.
THEOREM Inductive == Spec => []IInv
BY IInvInit, IInvStep, PTL DEF Spec

\* Type correctness of the backup into one data file.
THEOREM TypeCorrect == Spec => []TypeOK
<1>1. IInv => TypeOK
  BY DEF IInv
<1> QED
  BY <1>1, Inductive, PTL

\* The entries of the segment TOC (segmentTOC.AddSegmentDataEntry) follow each
\* other without gaps, each delimits bytes of its own table only, and all of
\* them if COPY reported success: for any sizes, faults and interleavings.
THEOREM EntriesCorrect == Spec => []EntriesDelimit
<1>1. ASSUME IInv
      PROVE  EntriesDelimit
  <2>1. HelperTypes /\ PlaceInv /\ EntriesInv /\ CountInv /\ CompleteInv
    BY <1>1, TypeParts DEF IInv
  <2> SUFFICES ASSUME NEW t \in 1 .. Len(toc)
               PROVE  /\ toc[t][1] = (IF t = 1 THEN 0 ELSE toc[t - 1][2])
                      /\ \A i \in toc[t][1] + 1 .. toc[t][2] : dataFile[i] = t
                      /\ tableState[t] = "Complete" /\ t \notin stray =>
                           toc[t][2] - toc[t][1] = Sizes[t]
    BY DEF EntriesDelimit
  <2>2. t \in Tables /\ t < helperAt
    BY <2>1, HelperPlace, SizeAssumptions DEF HelperTypes, Tables
  <2>3. written[t] = toc[t][2] - toc[t][1]
    BY <2>1, <2>2 DEF CountInv
  <2> QED
    BY <2>1, <2>2, <2>3 DEF EntriesInv, CompleteInv
<1> QED
  BY <1>1, Inductive, PTL

\* A backup with a plugin that reports success has a segment TOC and a data
\* file with all bytes of all tables, whatever the helper met.
THEOREM PluginBackupComplete == Spec => []PluginSuccessComplete
<1>1. ASSUME IInv
      PROVE  PluginSuccessComplete
  <2> SUFFICES ASSUME plugin, mainPc = "ok"
               PROVE  tocWritten /\ AllRead
    BY DEF PluginSuccessComplete
  <2>1. HelperTypes /\ PlaceInv /\ OwnerInv /\ CountInv /\ CompleteInv /\
          PipeInv
    BY <1>1, TypeParts DEF IInv
  <2>2. tocWritten /\ deferredNext = NumTables + 1
    BY <1>1 DEF IInv, MainInv
  <2>3. helperPc = "done" /\ helperAt = NumTables + 1 /\ Len(toc) = NumTables
    BY <2>1, <2>2, SizeAssumptions, HelperPlace DEF PlaceInv
  <2>4. stray = {}
    BY <2>1, <2>3 DEF PipeInv
  <2>5. \A t \in Tables : t < helperAt /\ t < deferredNext
    BY <2>2, <2>3, SizeAssumptions DEF Tables
  <2>6. \A t \in Tables : written[t] = Sizes[t]
    BY <2>1, <2>4, <2>5 DEF OwnerInv, CompleteInv
  <2>7. \A t \in Tables : written[t] = toc[t][2] - toc[t][1]
    BY <2>1, <2>5 DEF CountInv
  <2> QED
    BY <2>2, <2>3, <2>6, <2>7 DEF AllRead
<1> QED
  BY <1>1, Inductive, PTL

\* Without a plugin a backup reports success only when all tables but the last
\* are in the data file.
THEOREM SuccessLosesLastOnly == Spec => []OnlyTailAtRisk
<1>1. ASSUME IInv
      PROVE  OnlyTailAtRisk
  <2>1. HelperTypes /\ PlaceInv /\ TailInv
    BY <1>1, TypeParts DEF IInv
  <2> QED
    BY <2>1, HelperPlace, SizeAssumptions DEF TailInv, OnlyTailAtRisk
<1> QED
  BY <1>1, Inductive, PTL

=============================================================================
