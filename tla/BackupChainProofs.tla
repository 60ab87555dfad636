-------------------------- MODULE BackupChainProofs --------------------------
(***************************************************************************)
(* Proofs about BackupChain, for any tables, filters and numbers of        *)
(* backups, changes and faults: a restore plan, however long the chain of  *)
(* incremental backups behind it, gives each table exactly the rows of     *)
(* the backup's own snapshot.                                              *)
(***************************************************************************)
EXTENDS BackupChain, FiniteSetTheorems, TLAPS

-----------------------------------------------------------------------------
(* The inductive invariant                                                 *)

Early == Unlocked \cup {"none"}                        \* there is no plan
Late  == {"updating", "updatingFailure", "ended"}      \* no file is written

\* The files of b hold what its plan assigns to b itself.
DataComplete(b) ==
  /\ DOMAIN data[b] = BackupSet(b)
  /\ \A t \in BackupSet(b) : data[b][t] = ContentSeen(b, t)

\* What a process has done at each stage.  A process that fails or is
\* terminated may leave a TOC with part of its data, or a config file, but
\* not both of them.
FilesInv ==
  \A b \in Timestamps :
    /\ pc[b] \in Early =>
         plan[b] = NoFunction /\ ao[b] = NoFunction /\ dataset[b] = {}
    /\ tocFile[b] => pc[b] \notin Early \cup {"planned", "copied"}
    /\ configFile[b] => pc[b] \in Late
    /\ status[b] = "Success" => pc[b] = "ended"
    /\ base[b] # NoBase => pc[base[b]] \in Late
    /\ dataset[b] \subseteq TablesOf(b)
    /\ pc[b] \in {"copied", "written"} => DataComplete(b)
    /\ tocFile[b] /\ (configFile[b] \/ pc[b] = "failing") => DataComplete(b)

\* A state of a table: the DDL that made it has taken place, and a table that
\* was not modified since is empty.
Sound(v) == /\ v.lastDDL \in 1 .. tick
            /\ v.content <= tick /\ v.modcount <= tick
            /\ v.modcount = 0 => v.content = Empty

\* What incremental backups rely on: the counters tell contents apart.
Same(v, w) ==
  v.lastDDL = w.lastDDL /\ v.modcount = w.modcount => v.content = w.content

\* A table that was not re-created has been modified as often as in any
\* snapshot, or more.
VersionsInv ==
  /\ \A t \in DOMAIN db : Sound(db[t])
  /\ \A b \in Timestamps :
       /\ \A t \in DOMAIN snap[b] : Sound(snap[b][t])
       /\ \A t \in DOMAIN snap[b] \cap DOMAIN db :
            /\ snap[b][t].lastDDL = db[t].lastDDL =>
                 snap[b][t].modcount <= db[t].modcount
            /\ Same(snap[b][t], db[t])
       /\ \A c \in Timestamps : \A t \in DOMAIN snap[b] \cap DOMAIN snap[c] :
            Same(snap[b][t], snap[c][t])

\* A plan deals each table of the backup to one backup that saw the same rows
\* and was to store them.  All but the backup itself are over, and what they
\* have of a TOC is complete.
PlanInv ==
  \A b \in Timestamps :
    /\ \A t \in dataset[b] : \E c \in DOMAIN plan[b] : t \in plan[b][c]
    /\ \A c \in DOMAIN plan[b] : plan[b][c] \subseteq dataset[b]
    /\ dataset[b] # {} => b \in DOMAIN plan[b]
    /\ \A c, d \in DOMAIN plan[b] : c # d => plan[b][c] \cap plan[b][d] = {}
    /\ \A c \in DOMAIN plan[b] : \A t \in plan[b][c] :
         t \in BackupSet(c) /\ ContentSeen(c, t) = ContentSeen(b, t)
    /\ \A c \in DOMAIN plan[b] \ {b} :
         pc[c] \in Late /\ (tocFile[c] => DataComplete(c))

\* The entry of an append-optimized table in the snapshot of b.
EntrySeen(b, t) ==
  [modcount |-> IF t \in replaced[b] THEN 0 ELSE snap[b][t].modcount,
   lastDDL  |-> snap[b][t].lastDDL]

\* A backup's entries are those of its snapshot.  What it does not store was
\* the same in the backup it is based on.
BaseInv ==
  \A b \in Timestamps :
    /\ \A t \in DOMAIN ao[b] : t \in dataset[b] /\ ao[b][t] = EntrySeen(b, t)
    /\ base[b] # NoBase =>
         \A t \in dataset[b] \ BackupSet(b) :
           t \in dataset[base[b]] /\ ContentSeen(base[b], t) = ContentSeen(b, t)

\* The families of partial functions that TypeOK describes member by member.
DomainsInv == /\ DOMAIN snap = Timestamps /\ DOMAIN data = Timestamps
              /\ DOMAIN plan = Timestamps /\ DOMAIN ao = Timestamps

IInv == TypeOK /\ DomainsInv /\ FilesInv /\ VersionsInv /\ PlanInv /\ BaseInv

-----------------------------------------------------------------------------
(* Backups whose plan is made, and backups that are over                   *)

\* What a backup knows of the database and of other backups is settled when
\* its plan is made, or when it ends without one.
LEMMA Frozen ==
  ASSUME TypeOK, DomainsInv, [Next]_vars,
         NEW x \in Timestamps, pc[x] \notin Early
  PROVE  /\ pc'[x] \notin Early
         /\ plan'[x] = plan[x] /\ ao'[x] = ao[x] /\ dataset'[x] = dataset[x]
         /\ snap'[x] = snap[x] /\ replaced'[x] = replaced[x]
         /\ base'[x] = base[x] /\ sig'[x] = sig[x]
<1> DEFINE Kept ==
          /\ pc'[x] \notin Early
          /\ plan'[x] = plan[x] /\ ao'[x] = ao[x] /\ dataset'[x] = dataset[x]
          /\ snap'[x] = snap[x] /\ replaced'[x] = replaced[x]
          /\ base'[x] = base[x] /\ sig'[x] = sig[x]
<1> USE DEF TypeOK, DomainsInv, Early, Unlocked, envVars, dbVars, fileVars,
        processVars
<1>1. ASSUME NEW b \in Timestamps, DoSetup(b)
      PROVE  Kept
  BY <1>1 DEF DoSetup, GoTo
<1>2. ASSUME NEW b \in Timestamps, GetTargetBackupTimestamp(b)
      PROVE  Kept
  BY <1>2 DEF GetTargetBackupTimestamp, GoTo
<1>3. ASSUME NEW b \in Timestamps, PlanBackup(b)
      PROVE  Kept
  BY <1>3 DEF PlanBackup, GoTo
<1>4. ASSUME NEW b \in Timestamps, BackupTableData(b)
      PROVE  Kept
  BY <1>4 DEF BackupTableData, GoTo
<1>5. ASSUME NEW b \in Timestamps, WriteTOC(b)
      PROVE  Kept
  BY <1>5 DEF WriteTOC, GoTo
<1>6. ASSUME NEW b \in Timestamps, Fail(b)
      PROVE  Kept
  BY <1>6 DEF Fail, GoTo, Fault
<1>7. ASSUME NEW b \in Timestamps, WriteConfig(b)
      PROVE  Kept
  BY <1>7 DEF WriteConfig, GoTo, Fault
<1>8. ASSUME NEW b \in Timestamps, UpdateHistory(b)
      PROVE  Kept
  BY <1>8 DEF UpdateHistory, GoTo, Fault
<1>9. ASSUME NEW b \in Timestamps, Terminate(b)
      PROVE  Kept
  BY <1>9 DEF Terminate, GoTo, Fault
<1>10. ASSUME NEW b \in Timestamps, Kill(b)
      PROVE  Kept
  BY <1>10 DEF Kill, GoTo, Fault
<1>11. ASSUME NEW b \in Timestamps, Delete(b)
      PROVE  Kept
  BY <1>11 DEF Delete, Fault
<1>12. ASSUME NEW t \in Tables, Modify(t)
      PROVE  Kept
  BY <1>12 DEF Modify, ChangeTo
<1>13. ASSUME NEW t \in Tables, Recreate(t)
      PROVE  Kept
  BY <1>13 DEF Recreate, ChangeTo, Hide
<1>14. ASSUME NEW t \in Tables, Drop(t)
      PROVE  Kept
  BY <1>14 DEF Drop, ChangeTo, Hide
<1>15. ASSUME NEW t \in Tables, Create(t)
      PROVE  Kept
  BY <1>15 DEF Create, ChangeTo
<1>16. ASSUME UNCHANGED vars
      PROVE  Kept
  BY <1>16 DEF vars
<1> QED
  BY <1>1, <1>2, <1>3, <1>4, <1>5, <1>6, <1>7, <1>8, <1>9, <1>10, <1>11, <1>12,
     <1>13, <1>14, <1>15, <1>16 DEF Next, Gpbackup

\* A backup that is over gets no more files and keeps those it has until it is
\* deleted.
LEMMA LateStable ==
  ASSUME TypeOK, DomainsInv, [Next]_vars,
         NEW x \in Timestamps, pc[x] \in Late
  PROVE  /\ pc'[x] \in Late
         /\ configFile'[x] => configFile[x]
         /\ tocFile'[x] => tocFile[x] /\ data'[x] = data[x]
         /\ pc[x] = "ended" => pc'[x] = "ended" /\ status'[x] = status[x]
<1> DEFINE Kept ==
          /\ pc'[x] \in Late
          /\ configFile'[x] => configFile[x]
          /\ tocFile'[x] => tocFile[x] /\ data'[x] = data[x]
          /\ pc[x] = "ended" => pc'[x] = "ended" /\ status'[x] = status[x]
<1> USE DEF TypeOK, DomainsInv, Late, Running, envVars, dbVars, fileVars,
        processVars
<1>1. ASSUME NEW b \in Timestamps, DoSetup(b)
      PROVE  Kept
  BY <1>1 DEF DoSetup, GoTo
<1>2. ASSUME NEW b \in Timestamps, GetTargetBackupTimestamp(b)
      PROVE  Kept
  BY <1>2 DEF GetTargetBackupTimestamp, GoTo
<1>3. ASSUME NEW b \in Timestamps, PlanBackup(b)
      PROVE  Kept
  BY <1>3 DEF PlanBackup, GoTo
<1>4. ASSUME NEW b \in Timestamps, BackupTableData(b)
      PROVE  Kept
  BY <1>4 DEF BackupTableData, GoTo
<1>5. ASSUME NEW b \in Timestamps, WriteTOC(b)
      PROVE  Kept
  BY <1>5 DEF WriteTOC, GoTo
<1>6. ASSUME NEW b \in Timestamps, Fail(b)
      PROVE  Kept
  BY <1>6 DEF Fail, GoTo, Fault
<1>7. ASSUME NEW b \in Timestamps, WriteConfig(b)
      PROVE  Kept
  BY <1>7 DEF WriteConfig, GoTo, Fault
<1>8. ASSUME NEW b \in Timestamps, UpdateHistory(b)
      PROVE  Kept
  BY <1>8 DEF UpdateHistory, GoTo, Fault
<1>9. ASSUME NEW b \in Timestamps, Terminate(b)
      PROVE  Kept
  BY <1>9 DEF Terminate, GoTo, Fault
<1>10. ASSUME NEW b \in Timestamps, Kill(b)
      PROVE  Kept
  BY <1>10 DEF Kill, GoTo, Fault
<1>11. ASSUME NEW b \in Timestamps, Delete(b)
      PROVE  Kept
  BY <1>11 DEF Delete, Fault
<1>12. ASSUME NEW t \in Tables, Modify(t)
      PROVE  Kept
  BY <1>12 DEF Modify, ChangeTo
<1>13. ASSUME NEW t \in Tables, Recreate(t)
      PROVE  Kept
  BY <1>13 DEF Recreate, ChangeTo, Hide
<1>14. ASSUME NEW t \in Tables, Drop(t)
      PROVE  Kept
  BY <1>14 DEF Drop, ChangeTo, Hide
<1>15. ASSUME NEW t \in Tables, Create(t)
      PROVE  Kept
  BY <1>15 DEF Create, ChangeTo
<1>16. ASSUME UNCHANGED vars
      PROVE  Kept
  BY <1>16 DEF vars
<1> QED
  BY <1>1, <1>2, <1>3, <1>4, <1>5, <1>6, <1>7, <1>8, <1>9, <1>10, <1>11, <1>12,
     <1>13, <1>14, <1>15, <1>16 DEF Next, Gpbackup

\* Until PlanBackup there is no plan.
LEMMA EarlyStable ==
  ASSUME TypeOK, DomainsInv, [Next]_vars,
         NEW x \in Timestamps, pc[x] \in Early, ~PlanBackup(x)
  PROVE  /\ plan'[x] = plan[x] /\ ao'[x] = ao[x] /\ dataset'[x] = dataset[x]
         /\ pc'[x] \notin {"planned", "copied", "written"}
<1> DEFINE Kept ==
          /\ plan'[x] = plan[x] /\ ao'[x] = ao[x] /\ dataset'[x] = dataset[x]
          /\ pc'[x] \notin {"planned", "copied", "written"}
<1> USE DEF TypeOK, DomainsInv, Early, Unlocked, envVars, dbVars, fileVars,
        processVars
<1>1. ASSUME NEW b \in Timestamps, DoSetup(b)
      PROVE  Kept
  BY <1>1 DEF DoSetup, GoTo
<1>2. ASSUME NEW b \in Timestamps, GetTargetBackupTimestamp(b)
      PROVE  Kept
  BY <1>2 DEF GetTargetBackupTimestamp, GoTo
<1>3. ASSUME NEW b \in Timestamps, PlanBackup(b)
      PROVE  Kept
  <2>1. b # x
    BY <1>3
  <2> QED
    BY <1>3, <2>1 DEF PlanBackup, GoTo
<1>4. ASSUME NEW b \in Timestamps, BackupTableData(b)
      PROVE  Kept
  BY <1>4 DEF BackupTableData, GoTo
<1>5. ASSUME NEW b \in Timestamps, WriteTOC(b)
      PROVE  Kept
  BY <1>5 DEF WriteTOC, GoTo
<1>6. ASSUME NEW b \in Timestamps, Fail(b)
      PROVE  Kept
  BY <1>6 DEF Fail, GoTo, Fault
<1>7. ASSUME NEW b \in Timestamps, WriteConfig(b)
      PROVE  Kept
  BY <1>7 DEF WriteConfig, GoTo, Fault
<1>8. ASSUME NEW b \in Timestamps, UpdateHistory(b)
      PROVE  Kept
  BY <1>8 DEF UpdateHistory, GoTo, Fault
<1>9. ASSUME NEW b \in Timestamps, Terminate(b)
      PROVE  Kept
  BY <1>9 DEF Terminate, GoTo, Fault
<1>10. ASSUME NEW b \in Timestamps, Kill(b)
      PROVE  Kept
  BY <1>10 DEF Kill, GoTo, Fault
<1>11. ASSUME NEW b \in Timestamps, Delete(b)
      PROVE  Kept
  BY <1>11 DEF Delete, Fault
<1>12. ASSUME NEW t \in Tables, Modify(t)
      PROVE  Kept
  BY <1>12 DEF Modify, ChangeTo
<1>13. ASSUME NEW t \in Tables, Recreate(t)
      PROVE  Kept
  BY <1>13 DEF Recreate, ChangeTo, Hide
<1>14. ASSUME NEW t \in Tables, Drop(t)
      PROVE  Kept
  BY <1>14 DEF Drop, ChangeTo, Hide
<1>15. ASSUME NEW t \in Tables, Create(t)
      PROVE  Kept
  BY <1>15 DEF Create, ChangeTo
<1>16. ASSUME UNCHANGED vars
      PROVE  Kept
  BY <1>16 DEF vars
<1> QED
  BY <1>1, <1>2, <1>3, <1>4, <1>5, <1>6, <1>7, <1>8, <1>9, <1>10, <1>11, <1>12,
     <1>13, <1>14, <1>15, <1>16 DEF Next, Gpbackup

-----------------------------------------------------------------------------
(* The steps preserve the parts of the invariant                           *)

\* The families stay families.
LEMMA DomainsStep ==
  ASSUME DomainsInv, [Next]_vars
  PROVE  DomainsInv'
<1> USE DEF DomainsInv, envVars, dbVars, fileVars, processVars
<1>1. ASSUME NEW b \in Timestamps, DoSetup(b)
      PROVE  DomainsInv'
  BY <1>1 DEF DoSetup, GoTo
<1>2. ASSUME NEW b \in Timestamps, GetTargetBackupTimestamp(b)
      PROVE  DomainsInv'
  BY <1>2 DEF GetTargetBackupTimestamp, GoTo
<1>3. ASSUME NEW b \in Timestamps, PlanBackup(b)
      PROVE  DomainsInv'
  BY <1>3 DEF PlanBackup, GoTo
<1>4. ASSUME NEW b \in Timestamps, BackupTableData(b)
      PROVE  DomainsInv'
  BY <1>4 DEF BackupTableData, GoTo
<1>5. ASSUME NEW b \in Timestamps, WriteTOC(b)
      PROVE  DomainsInv'
  BY <1>5 DEF WriteTOC, GoTo
<1>6. ASSUME NEW b \in Timestamps, Fail(b)
      PROVE  DomainsInv'
  BY <1>6 DEF Fail, GoTo, Fault
<1>7. ASSUME NEW b \in Timestamps, WriteConfig(b)
      PROVE  DomainsInv'
  BY <1>7 DEF WriteConfig, GoTo, Fault
<1>8. ASSUME NEW b \in Timestamps, UpdateHistory(b)
      PROVE  DomainsInv'
  BY <1>8 DEF UpdateHistory, GoTo, Fault
<1>9. ASSUME NEW b \in Timestamps, Terminate(b)
      PROVE  DomainsInv'
  BY <1>9 DEF Terminate, GoTo, Fault
<1>10. ASSUME NEW b \in Timestamps, Kill(b)
      PROVE  DomainsInv'
  BY <1>10 DEF Kill, GoTo, Fault
<1>11. ASSUME NEW b \in Timestamps, Delete(b)
      PROVE  DomainsInv'
  BY <1>11 DEF Delete, Fault
<1>12. ASSUME NEW t \in Tables, Modify(t)
      PROVE  DomainsInv'
  BY <1>12 DEF Modify, ChangeTo
<1>13. ASSUME NEW t \in Tables, Recreate(t)
      PROVE  DomainsInv'
  BY <1>13 DEF Recreate, ChangeTo, Hide
<1>14. ASSUME NEW t \in Tables, Drop(t)
      PROVE  DomainsInv'
  BY <1>14 DEF Drop, ChangeTo, Hide
<1>15. ASSUME NEW t \in Tables, Create(t)
      PROVE  DomainsInv'
  BY <1>15 DEF Create, ChangeTo
<1>16. ASSUME UNCHANGED vars
      PROVE  DomainsInv'
  BY <1>16 DEF vars
<1> QED
  BY <1>1, <1>2, <1>3, <1>4, <1>5, <1>6, <1>7, <1>8, <1>9, <1>10, <1>11, <1>12,
     <1>13, <1>14, <1>15, <1>16 DEF Next, Gpbackup

\* TypeOK in three parts.
StageTypes ==
  /\ faults \in 0 .. MaxFaults
  /\ pc \in [Timestamps -> Running \cup {"none", "ended"}]
  /\ kind \in [Timestamps -> {"full", "data-only", "incremental"}]
  /\ sig \in [Timestamps -> Signatures]
  /\ base \in [Timestamps -> Timestamps \cup {NoBase}]
  /\ replaced \in [Timestamps -> SUBSET Tables]
  /\ dataset \in [Timestamps -> SUBSET Tables]
  /\ tocFile \in [Timestamps -> BOOLEAN]
  /\ configFile \in [Timestamps -> BOOLEAN]
  /\ status \in [Timestamps -> {"none", "In Progress", "Success", "Failure"}]
  /\ deleted \in [Timestamps -> BOOLEAN]
DbTypes ==
  /\ tick \in Ticks
  /\ IsPartial(db, Tables, TableState)
  /\ \A b \in Timestamps : IsPartial(snap[b], Tables, TableState)
FileTypes ==
  \A b \in Timestamps : /\ IsPartial(plan[b], Timestamps, SUBSET Tables)
                        /\ IsPartial(ao[b], AOTables, AOEntry)
                        /\ IsPartial(data[b], Tables, Ticks)

\* The parts make up the whole.
LEMMA TypeParts == TypeOK <=> StageTypes /\ DbTypes /\ FileTypes
BY DEF TypeOK, StageTypes, DbTypes, FileTypes

\* The tables of a backup are tables.
LEMMA TablesOfFacts ==
  ASSUME StageTypes, DbTypes, NEW b \in Timestamps
  PROVE  TablesOf(b) \subseteq Tables /\ TablesOf(b) \subseteq DOMAIN snap[b]
BY SignatureAssumption DEF StageTypes, DbTypes, IsPartial, TablesOf

\* What a backup stores are tables of its snapshot, with proper contents.
LEMMA StoredFacts ==
  ASSUME StageTypes, DbTypes, FilesInv, PlanInv, NEW b \in Timestamps
  PROVE  /\ BackupSet(b) \subseteq dataset[b]
         /\ dataset[b] \subseteq Tables /\ dataset[b] \subseteq DOMAIN snap[b]
         /\ \A t \in dataset[b] : ContentSeen(b, t) \in Ticks
<1>1. dataset[b] \subseteq TablesOf(b)
  BY DEF FilesInv
<1>2. dataset[b] \subseteq Tables /\ dataset[b] \subseteq DOMAIN snap[b]
  BY <1>1, TablesOfFacts
<1>3. BackupSet(b) \subseteq dataset[b]
  BY DEF BackupSet, PlanInv
<1>4. \A t \in dataset[b] : ContentSeen(b, t) \in Ticks
  <2>1. \A t \in DOMAIN snap[b] : snap[b][t].content \in Ticks
    BY DEF DbTypes, IsPartial, TableState
  <2>2. Empty \in Ticks
    BY BoundsAssumption DEF Empty, Ticks
  <2> QED
    BY <1>2, <2>1, <2>2 DEF ContentSeen
<1> QED
  BY <1>2, <1>3, <1>4

\* What other sessions do to a table: it is modified, gone, or new and empty.
LEMMA Changed ==
  ASSUME DbTypes, VersionsInv, NEW t \in Tables,
         Modify(t) \/ Recreate(t) \/ Drop(t) \/ Create(t)
  PROVE  /\ tick' = tick + 1 /\ tick \in Nat /\ tick' \in Ticks /\ snap' = snap
         /\ IsPartial(db', Tables, TableState)
         /\ \A u \in DOMAIN db' :
              \/ u \in DOMAIN db /\ db'[u] = db[u]
              \/ /\ u \in DOMAIN db /\ db'[u].lastDDL = db[u].lastDDL
                 /\ db'[u].modcount = db[u].modcount + 1
                 /\ db'[u].content = tick + 1
              \/ /\ db'[u].lastDDL = tick + 1 /\ db'[u].modcount = 0
                 /\ db'[u].content = Empty
<1> DEFINE Fresh == [content |-> Empty, modcount |-> 0, lastDDL |-> tick + 1]
<1>1. /\ tick' = tick + 1 /\ tick \in Nat /\ tick' \in Ticks /\ snap' = snap
      /\ tick' \in Nat /\ tick' <= MaxTick /\ MaxTick \in Nat
  BY BoundsAssumption
     DEF DbTypes, Ticks, Modify, Recreate, Drop, Create, ChangeTo
<1>2. DOMAIN db \subseteq Tables /\ \A u \in DOMAIN db : db[u] \in TableState
  BY DEF DbTypes, IsPartial
<1>3. Fresh \in TableState
  BY <1>1 DEF TableState, Ticks, Empty
<1> HIDE DEF Fresh
<1>4. CASE Modify(t)
  <2> DEFINE new == [content |-> tick + 1, modcount |-> db[t].modcount + 1,
                 lastDDL |-> db[t].lastDDL]
  <2>1. /\ t \in DOMAIN db
        /\ db' = [db EXCEPT ![t].content = tick + 1, ![t].modcount = @ + 1]
    BY <1>4 DEF Modify, ChangeTo
  <2>2. db[t].modcount \in Nat /\ db[t].modcount <= tick /\ db[t] \in TableState
    BY <2>1, <1>2 DEF VersionsInv, Sound, TableState
  <2>3. /\ new \in TableState /\ new.lastDDL = db[t].lastDDL
        /\ new.modcount = db[t].modcount + 1 /\ new.content = tick + 1
    BY <1>1, <2>2 DEF TableState, Ticks
  <2>4. /\ DOMAIN db' = DOMAIN db
        /\ \A u \in DOMAIN db : u # t => db'[u] = db[u]
    BY <2>1
  <2>5. db'[t] = new
    <3> DEFINE one == [db EXCEPT ![t].content = tick + 1]
    <3>1. one[t] = [content |-> tick + 1, modcount |-> db[t].modcount,
                    lastDDL |-> db[t].lastDDL]
      BY <2>1, <2>2 DEF TableState
    <3>2. db' = [one EXCEPT ![t].modcount = @ + 1] /\ t \in DOMAIN one
      BY <2>1
    <3> HIDE DEF one
    <3>3. db'[t] = [one[t] EXCEPT !.modcount = @ + 1]
      BY <3>2
    <3> QED
      BY <3>1, <3>3
  <2> HIDE DEF new
  <2>6. IsPartial(db', Tables, TableState)
    <3>1. db' = [u \in DOMAIN db |-> db'[u]]
      BY <2>1
    <3> QED
      BY <1>2, <2>3, <2>4, <2>5, <3>1 DEF IsPartial
  <2> QED
    BY <1>1, <2>1, <2>3, <2>4, <2>5, <2>6
<1>5. CASE Recreate(t)
  <2>1. t \in DOMAIN db /\ db' = [db EXCEPT ![t] = Fresh]
    BY <1>5 DEF Recreate, ChangeTo, Fresh
  <2>2. IsPartial(db', Tables, TableState)
    BY <1>2, <1>3, <2>1 DEF IsPartial
  <2> QED
    BY <1>1, <2>1, <2>2 DEF Fresh
<1>6. CASE Drop(t)
  <2>1. db' = [u \in DOMAIN db \ {t} |-> db[u]]
    BY <1>6 DEF Drop, ChangeTo
  <2>2. IsPartial(db', Tables, TableState)
    BY <1>2, <2>1 DEF IsPartial
  <2> QED
    BY <1>1, <2>1, <2>2
<1>7. CASE Create(t)
  <2>1. /\ t \notin DOMAIN db
        /\ db' = [u \in DOMAIN db \cup {t} |-> IF u = t THEN Fresh ELSE db[u]]
    BY <1>7 DEF Create, ChangeTo, Fresh
  <2>2. IsPartial(db', Tables, TableState)
    BY <1>2, <1>3, <2>1 DEF IsPartial
  <2> QED
    BY <1>1, <2>1, <2>2 DEF Fresh
<1> QED
  BY <1>4, <1>5, <1>6, <1>7

\* What says how far each process is keeps its type.
LEMMA StageTypesStep ==
  ASSUME StageTypes, DbTypes, [Next]_vars
  PROVE  StageTypes'
<1>1. Fault => faults' \in 0 .. MaxFaults
  <2>1. faults \in 0 .. MaxFaults /\ MaxFaults \in Nat
    BY BoundsAssumption DEF StageTypes
  <2> QED
    BY <2>1 DEF Fault
<1> USE DEF StageTypes, Running, envVars, dbVars, fileVars, processVars
<1>2. ASSUME NEW b \in Timestamps, DoSetup(b)
      PROVE  StageTypes'
  <2>1. PICK k \in {"full", "data-only", "incremental"}, s \in Signatures :
          kind' = [kind EXCEPT ![b] = k] /\ sig' = [sig EXCEPT ![b] = s]
    BY <1>2 DEF DoSetup
  <2>2. /\ kind' \in [Timestamps -> {"full", "data-only", "incremental"}]
        /\ sig' \in [Timestamps -> Signatures]
    BY <2>1
  <2> QED
    BY <1>2, <2>2 DEF DoSetup, GoTo
<1>3. ASSUME NEW b \in Timestamps, GetTargetBackupTimestamp(b)
      PROVE  StageTypes'
  <2>1. LatestMatchingBackup(b) \cup ValidFromTimestamps(b) \subseteq Timestamps
    BY DEF LatestMatchingBackup, Candidates, ValidFromTimestamps
  <2>2. \/ base' = base
        \/ \E c \in Timestamps : base' = [base EXCEPT ![b] = c]
    BY <1>3, <2>1 DEF GetTargetBackupTimestamp
  <2>3. base' \in [Timestamps -> Timestamps \cup {NoBase}]
    BY <2>2
  <2> QED
    BY <1>3, <2>3 DEF GetTargetBackupTimestamp, GoTo
<1>4. ASSUME NEW b \in Timestamps, PlanBackup(b)
      PROVE  StageTypes'
  <2>1. TablesOf(b) \subseteq Tables
    BY TablesOfFacts
  <2> QED
    BY <1>4, <2>1 DEF PlanBackup, GoTo
<1>5. ASSUME NEW b \in Timestamps, BackupTableData(b)
      PROVE  StageTypes'
  BY <1>1, <1>5 DEF BackupTableData, GoTo
<1>6. ASSUME NEW b \in Timestamps, WriteTOC(b)
      PROVE  StageTypes'
  BY <1>1, <1>6 DEF WriteTOC, GoTo
<1>7. ASSUME NEW b \in Timestamps, Fail(b)
      PROVE  StageTypes'
  BY <1>1, <1>7 DEF Fail, GoTo
<1>8. ASSUME NEW b \in Timestamps, WriteConfig(b)
      PROVE  StageTypes'
  BY <1>1, <1>8 DEF WriteConfig, GoTo
<1>9. ASSUME NEW b \in Timestamps, UpdateHistory(b)
      PROVE  StageTypes'
  <2>1. FinalStatus(b) \in {"none", "Success", "Failure"}
    BY DEF FinalStatus
  <2>2. status' \in [Timestamps -> {"none", "In Progress", "Success",
          "Failure"}]
    BY <1>9, <2>1 DEF UpdateHistory
  <2> QED
    BY <1>9, <1>1, <2>2 DEF UpdateHistory, GoTo
<1>10. ASSUME NEW b \in Timestamps, Terminate(b)
      PROVE  StageTypes'
  <2>1. faults' \in 0 .. MaxFaults
    BY <1>10, <1>1 DEF Terminate
  <2>2. pc' \in [Timestamps -> Running \cup {"none", "ended"}]
    BY <1>10 DEF Terminate, GoTo
  <2>3. tocFile' \in [Timestamps -> BOOLEAN]
    BY <1>10 DEF Terminate
  <2>4. status' \in [Timestamps -> {"none", "In Progress", "Success",
          "Failure"}]
    BY <1>10, ZenonT(60) DEF Terminate
  <2> QED
    BY <1>10, <2>1, <2>2, <2>3, <2>4 DEF Terminate
<1>11. ASSUME NEW b \in Timestamps, Kill(b)
      PROVE  StageTypes'
  BY <1>1, <1>11 DEF Kill, GoTo
<1>12. ASSUME NEW b \in Timestamps, Delete(b)
      PROVE  StageTypes'
  BY <1>1, <1>12 DEF Delete
<1>13. ASSUME NEW t \in Tables, Modify(t)
      PROVE  StageTypes'
  BY <1>1, <1>13 DEF Modify, ChangeTo
<1>14. ASSUME NEW t \in Tables, Recreate(t)
      PROVE  StageTypes'
  BY <1>1, <1>14 DEF Recreate, ChangeTo, Hide
<1>15. ASSUME NEW t \in Tables, Drop(t)
      PROVE  StageTypes'
  BY <1>1, <1>15 DEF Drop, ChangeTo, Hide
<1>16. ASSUME NEW t \in Tables, Create(t)
      PROVE  StageTypes'
  BY <1>1, <1>16 DEF Create, ChangeTo
<1>17. ASSUME UNCHANGED vars
      PROVE  StageTypes'
  BY <1>1, <1>17 DEF vars
<1> QED
  BY <1>2, <1>3, <1>4, <1>5, <1>6, <1>7, <1>8, <1>9, <1>10, <1>11, <1>12,
     <1>13, <1>14, <1>15, <1>16, <1>17 DEF Next, Gpbackup

\* So do the database and the snapshots.
LEMMA DbTypesStep ==
  ASSUME DbTypes, DomainsInv, VersionsInv, [Next]_vars
  PROVE  DbTypes'
<1> USE DEF envVars, dbVars, fileVars, processVars
<1>1. ASSUME NEW b \in Timestamps, DoSetup(b)
      PROVE  DbTypes'
  BY <1>1 DEF DoSetup, GoTo, DbTypes, DomainsInv, IsPartial
<1>2. ASSUME NEW b \in Timestamps, GetTargetBackupTimestamp(b)
      PROVE  DbTypes'
  BY <1>2 DEF GetTargetBackupTimestamp, GoTo, DbTypes, DomainsInv, IsPartial
<1>3. ASSUME NEW b \in Timestamps, PlanBackup(b)
      PROVE  DbTypes'
  BY <1>3 DEF PlanBackup, GoTo, DbTypes, DomainsInv, IsPartial
<1>4. ASSUME NEW b \in Timestamps, BackupTableData(b)
      PROVE  DbTypes'
  BY <1>4 DEF BackupTableData, GoTo, DbTypes, DomainsInv, IsPartial
<1>5. ASSUME NEW b \in Timestamps, WriteTOC(b)
      PROVE  DbTypes'
  BY <1>5 DEF WriteTOC, GoTo, DbTypes, DomainsInv, IsPartial
<1>6. ASSUME NEW b \in Timestamps, Fail(b)
      PROVE  DbTypes'
  BY <1>6 DEF Fail, GoTo, Fault, DbTypes, DomainsInv, IsPartial
<1>7. ASSUME NEW b \in Timestamps, WriteConfig(b)
      PROVE  DbTypes'
  BY <1>7 DEF WriteConfig, GoTo, Fault, DbTypes, DomainsInv, IsPartial
<1>8. ASSUME NEW b \in Timestamps, UpdateHistory(b)
      PROVE  DbTypes'
  BY <1>8 DEF UpdateHistory, GoTo, Fault, DbTypes, DomainsInv, IsPartial
<1>9. ASSUME NEW b \in Timestamps, Terminate(b)
      PROVE  DbTypes'
  BY <1>9 DEF Terminate, GoTo, Fault, DbTypes, DomainsInv, IsPartial
<1>10. ASSUME NEW b \in Timestamps, Kill(b)
      PROVE  DbTypes'
  BY <1>10 DEF Kill, GoTo, Fault, DbTypes, DomainsInv, IsPartial
<1>11. ASSUME NEW b \in Timestamps, Delete(b)
      PROVE  DbTypes'
  BY <1>11 DEF Delete, Fault, DbTypes, DomainsInv, IsPartial
<1>12. ASSUME NEW t \in Tables, Modify(t)
      PROVE  DbTypes'
  <2>1. tick' \in Ticks /\ snap' = snap /\ IsPartial(db', Tables, TableState)
    BY <1>12, Changed
  <2> QED
    BY <2>1 DEF DbTypes
<1>13. ASSUME NEW t \in Tables, Recreate(t)
      PROVE  DbTypes'
  <2>1. tick' \in Ticks /\ snap' = snap /\ IsPartial(db', Tables, TableState)
    BY <1>13, Changed
  <2> QED
    BY <2>1 DEF DbTypes
<1>14. ASSUME NEW t \in Tables, Drop(t)
      PROVE  DbTypes'
  <2>1. tick' \in Ticks /\ snap' = snap /\ IsPartial(db', Tables, TableState)
    BY <1>14, Changed
  <2> QED
    BY <2>1 DEF DbTypes
<1>15. ASSUME NEW t \in Tables, Create(t)
      PROVE  DbTypes'
  <2>1. tick' \in Ticks /\ snap' = snap /\ IsPartial(db', Tables, TableState)
    BY <1>15, Changed
  <2> QED
    BY <2>1 DEF DbTypes
<1>16. ASSUME UNCHANGED vars
      PROVE  DbTypes'
  BY <1>16 DEF vars, DbTypes, DomainsInv, IsPartial
<1> QED
  BY <1>1, <1>2, <1>3, <1>4, <1>5, <1>6, <1>7, <1>8, <1>9, <1>10, <1>11, <1>12,
     <1>13, <1>14, <1>15, <1>16 DEF Next, Gpbackup

\* The function without arguments has any type.
LEMMA NoPartial == \A S, R : IsPartial(NoFunction, S, R)
BY DEF IsPartial, NoFunction

\* So do the plans and the files.
LEMMA FileTypesStep ==
  ASSUME StageTypes, DbTypes, FileTypes, DomainsInv, FilesInv, PlanInv,
         [Next]_vars
  PROVE  FileTypes'
<1> USE DEF DomainsInv, envVars, dbVars, fileVars, processVars
<1>1. ASSUME NEW b \in Timestamps, DoSetup(b)
      PROVE  FileTypes'
  BY <1>1 DEF DoSetup, GoTo, FileTypes
<1>2. ASSUME NEW b \in Timestamps, GetTargetBackupTimestamp(b)
      PROVE  FileTypes'
  BY <1>2 DEF GetTargetBackupTimestamp, GoTo, FileTypes
<1>3. ASSUME NEW b \in Timestamps, PlanBackup(b)
      PROVE  FileTypes'
  <2>1. IsPartial(CurrentAO(b), AOTables, AOEntry)
    <3>1. IsPartial(AOMetadata(b), AOTables, AOEntry)
      <4>1. \A t \in TablesOf(b) : snap[b][t] \in TableState
        BY TablesOfFacts DEF DbTypes, IsPartial
      <4>2. \A t \in TablesOf(b) : EntrySeen(b, t) \in AOEntry
        BY <4>1, BoundsAssumption DEF EntrySeen, AOEntry, TableState
      <4>3. AOMetadata(b) = [t \in AOTables \cap TablesOf(b) |-> EntrySeen(b,
              t)]
        BY DEF AOMetadata, EntrySeen
      <4> QED
        BY <4>2, <4>3 DEF IsPartial
    <3> QED
      BY <3>1, NoPartial DEF CurrentAO
  <2>2. IsPartial(RestorePlanFor(b), Timestamps, SUBSET Tables)
    <3> DEFINE old == IF base[b] = NoBase THEN NoFunction ELSE plan[base[b]]
    <3>1. ChangedTables(b) \subseteq Tables
      BY TablesOfFacts DEF ChangedTables, FilterTablesForIncremental
    <3>2. IsPartial(old, Timestamps, SUBSET Tables)
      BY NoPartial DEF FileTypes, StageTypes
    <3> HIDE DEF old
    <3>3. \A S \in SUBSET Tables : \A all :
            IsPartial(PopulateRestorePlan(S, old, all, b), Timestamps,
              SUBSET Tables)
      BY <3>2 DEF PopulateRestorePlan, IsPartial
    <3> QED
      BY <3>1, <3>3, NoPartial DEF RestorePlanFor, old
  <2>3. \A x \in Timestamps :
          /\ ao'[x] = IF x = b THEN CurrentAO(b) ELSE ao[x]
          /\ plan'[x] = IF x = b THEN RestorePlanFor(b) ELSE plan[x]
          /\ data'[x] = data[x]
    BY <1>3 DEF PlanBackup
  <2> QED
    BY <2>1, <2>2, <2>3 DEF FileTypes
<1>4. ASSUME NEW b \in Timestamps, BackupTableData(b)
      PROVE  FileTypes'
  <2> DEFINE new == [t \in BackupSet(b) |-> ContentSeen(b, t)]
  <2>1. IsPartial(new, Tables, Ticks)
    BY StoredFacts DEF IsPartial
  <2>2. \A x \in Timestamps : data'[x] = IF x = b THEN new ELSE data[x]
    BY <1>4 DEF BackupTableData
  <2>3. UNCHANGED <<plan, ao>>
    BY <1>4 DEF BackupTableData
  <2> QED
    BY <2>1, <2>2, <2>3 DEF FileTypes
<1>5. ASSUME NEW b \in Timestamps, WriteTOC(b)
      PROVE  FileTypes'
  BY <1>5 DEF WriteTOC, GoTo, FileTypes
<1>6. ASSUME NEW b \in Timestamps, Fail(b)
      PROVE  FileTypes'
  BY <1>6 DEF Fail, GoTo, Fault, FileTypes
<1>7. ASSUME NEW b \in Timestamps, WriteConfig(b)
      PROVE  FileTypes'
  BY <1>7 DEF WriteConfig, GoTo, Fault, FileTypes
<1>8. ASSUME NEW b \in Timestamps, UpdateHistory(b)
      PROVE  FileTypes'
  BY <1>8 DEF UpdateHistory, GoTo, Fault, FileTypes
<1>9. ASSUME NEW b \in Timestamps, Terminate(b)
      PROVE  FileTypes'
  <2>1. \A S \in SUBSET BackupSet(b) :
          IsPartial([t \in S |-> ContentSeen(b, t)], Tables, Ticks)
    BY StoredFacts DEF IsPartial
  <2>2. \A x \in Timestamps \ {b} : data'[x] = data[x]
    BY <1>9 DEF Terminate
  <2>3. \/ data'[b] = data[b]
        \/ \E S \in SUBSET BackupSet(b) :
             data'[b] = [t \in S |-> ContentSeen(b, t)]
    BY <1>9 DEF Terminate
  <2>4. IsPartial(data'[b], Tables, Ticks)
    BY <2>1, <2>3 DEF FileTypes
  <2>5. UNCHANGED <<plan, ao>>
    BY <1>9 DEF Terminate
  <2> QED
    BY <2>2, <2>4, <2>5 DEF FileTypes
<1>10. ASSUME NEW b \in Timestamps, Kill(b)
      PROVE  FileTypes'
  BY <1>10 DEF Kill, GoTo, Fault, FileTypes
<1>11. ASSUME NEW b \in Timestamps, Delete(b)
      PROVE  FileTypes'
  <2>1. \A x \in Timestamps : data'[x] = IF x = b THEN NoFunction ELSE data[x]
    BY <1>11 DEF Delete
  <2>2. UNCHANGED <<plan, ao>>
    BY <1>11 DEF Delete
  <2> QED
    BY <2>1, <2>2, NoPartial DEF FileTypes
<1>12. ASSUME NEW t \in Tables, Modify(t)
      PROVE  FileTypes'
  BY <1>12 DEF Modify, ChangeTo, FileTypes
<1>13. ASSUME NEW t \in Tables, Recreate(t)
      PROVE  FileTypes'
  BY <1>13 DEF Recreate, ChangeTo, Hide, FileTypes
<1>14. ASSUME NEW t \in Tables, Drop(t)
      PROVE  FileTypes'
  BY <1>14 DEF Drop, ChangeTo, Hide, FileTypes
<1>15. ASSUME NEW t \in Tables, Create(t)
      PROVE  FileTypes'
  BY <1>15 DEF Create, ChangeTo, FileTypes
<1>16. ASSUME UNCHANGED vars
      PROVE  FileTypes'
  BY <1>16 DEF vars, FileTypes
<1> QED
  BY <1>1, <1>2, <1>3, <1>4, <1>5, <1>6, <1>7, <1>8, <1>9, <1>10, <1>11, <1>12,
     <1>13, <1>14, <1>15, <1>16 DEF Next, Gpbackup

\* What a settled backup saw and has to store does not change.
LEMMA SeenStays ==
  ASSUME TypeOK, DomainsInv, [Next]_vars, NEW x \in Timestamps,
         pc[x] \notin Early
  PROVE  /\ BackupSet(x)' = BackupSet(x)
         /\ \A t : ContentSeen(x, t)' = ContentSeen(x, t)
         /\ \A t : EntrySeen(x, t)' = EntrySeen(x, t)
         /\ DataComplete(x) /\ data'[x] = data[x] => DataComplete(x)'
<1>1. plan'[x] = plan[x] /\ snap'[x] = snap[x] /\ replaced'[x] = replaced[x]
  BY Frozen
<1>2. BackupSet(x)' = BackupSet(x)
  BY <1>1 DEF BackupSet
<1>3. \A t : ContentSeen(x, t)' = ContentSeen(x, t)
  BY <1>1 DEF ContentSeen
<1>4. \A t : EntrySeen(x, t)' = EntrySeen(x, t)
  BY <1>1 DEF EntrySeen
<1>5. ASSUME DataComplete(x), data'[x] = data[x]
      PROVE  DataComplete(x)'
  BY <1>2, <1>3, <1>5 DEF DataComplete
<1> QED
  BY <1>2, <1>3, <1>4, <1>5

\* The files and the row of a backup say how far it came.
LEMMA FlagsStep ==
  ASSUME TypeOK, DomainsInv, FilesInv, [Next]_vars, NEW x \in Timestamps
  PROVE  /\ tocFile'[x] => pc'[x] \notin Early \cup {"planned", "copied"}
         /\ configFile'[x] => pc'[x] \in Late
         /\ status'[x] = "Success" => pc'[x] = "ended"
<1> DEFINE Kept ==
          /\ tocFile'[x] => pc'[x] \notin Early \cup {"planned", "copied"}
          /\ configFile'[x] => pc'[x] \in Late
          /\ status'[x] = "Success" => pc'[x] = "ended"
<1>1. /\ tocFile[x] => pc[x] \notin Early \cup {"planned", "copied"}
      /\ configFile[x] => pc[x] \in Late
      /\ status[x] = "Success" => pc[x] = "ended"
  BY DEF FilesInv
<1>2. /\ pc \in [Timestamps -> Running \cup {"none", "ended"}]
      /\ DOMAIN tocFile = Timestamps /\ DOMAIN configFile = Timestamps
      /\ DOMAIN status = Timestamps
  BY DEF TypeOK
<1> USE DEF Early, Unlocked, Late, Running, envVars, dbVars, fileVars,
      processVars
<1>3. ASSUME NEW b \in Timestamps, DoSetup(b)
      PROVE  Kept
  BY <1>1, <1>2, <1>3 DEF DoSetup, GoTo
<1>4. ASSUME NEW b \in Timestamps, GetTargetBackupTimestamp(b)
      PROVE  Kept
  BY <1>1, <1>2, <1>4 DEF GetTargetBackupTimestamp, GoTo
<1>5. ASSUME NEW b \in Timestamps, PlanBackup(b)
      PROVE  Kept
  BY <1>1, <1>2, <1>5 DEF PlanBackup, GoTo
<1>6. ASSUME NEW b \in Timestamps, BackupTableData(b)
      PROVE  Kept
  BY <1>1, <1>2, <1>6 DEF BackupTableData, GoTo
<1>7. ASSUME NEW b \in Timestamps, WriteTOC(b)
      PROVE  Kept
  BY <1>1, <1>2, <1>7 DEF WriteTOC, GoTo
<1>8. ASSUME NEW b \in Timestamps, Fail(b)
      PROVE  Kept
  BY <1>1, <1>2, <1>8 DEF Fail, GoTo, Fault
<1>9. ASSUME NEW b \in Timestamps, WriteConfig(b)
      PROVE  Kept
  BY <1>1, <1>2, <1>9 DEF WriteConfig, GoTo, Fault
<1>10. ASSUME NEW b \in Timestamps, UpdateHistory(b)
      PROVE  Kept
  <2>1. FinalStatus(b) = "Success" =>
          status[b] = "Success" \/ pc[b] = "updating"
    BY DEF FinalStatus
  <2>2. status'[x] = "Success" => status[x] = "Success" \/ x = b
    BY <1>10, <1>2, <2>1 DEF UpdateHistory
  <2>3. pc'[x] = IF x = b THEN "ended" ELSE pc[x]
    BY <1>10, <1>2 DEF UpdateHistory, GoTo
  <2> QED
    BY <1>10, <1>1, <2>2, <2>3 DEF UpdateHistory
<1>11. ASSUME NEW b \in Timestamps, Terminate(b)
      PROVE  Kept
  <2>1. pc'[x] = IF x = b THEN "ended" ELSE pc[x]
    BY <1>11, <1>2 DEF Terminate, GoTo
  <2>2. x # b => tocFile'[x] = tocFile[x] /\ status'[x] = status[x]
    BY <1>11, <1>2 DEF Terminate
  <2> QED
    BY <1>11, <1>1, <2>1, <2>2 DEF Terminate
<1>12. ASSUME NEW b \in Timestamps, Kill(b)
      PROVE  Kept
  BY <1>1, <1>2, <1>12 DEF Kill, GoTo, Fault
<1>13. ASSUME NEW b \in Timestamps, Delete(b)
      PROVE  Kept
  BY <1>1, <1>2, <1>13 DEF Delete, Fault
<1>14. ASSUME NEW t \in Tables, Modify(t)
      PROVE  Kept
  BY <1>1, <1>2, <1>14 DEF Modify, ChangeTo
<1>15. ASSUME NEW t \in Tables, Recreate(t)
      PROVE  Kept
  BY <1>1, <1>2, <1>15 DEF Recreate, ChangeTo, Hide
<1>16. ASSUME NEW t \in Tables, Drop(t)
      PROVE  Kept
  BY <1>1, <1>2, <1>16 DEF Drop, ChangeTo, Hide
<1>17. ASSUME NEW t \in Tables, Create(t)
      PROVE  Kept
  BY <1>1, <1>2, <1>17 DEF Create, ChangeTo
<1>18. ASSUME UNCHANGED vars
      PROVE  Kept
  BY <1>1, <1>2, <1>18 DEF vars
<1> QED
  BY <1>3, <1>4, <1>5, <1>6, <1>7, <1>8, <1>9, <1>10, <1>11, <1>12, <1>13,
     <1>14, <1>15, <1>16, <1>17, <1>18 DEF Next, Gpbackup

\* A backup that another one is based on is over.
LEMMA BasesStep ==
  ASSUME TypeOK, DomainsInv, FilesInv, [Next]_vars, NEW x \in Timestamps,
         base'[x] # NoBase
  PROVE  base'[x] \in Timestamps /\ pc[base'[x]] \in Late /\
         pc'[base'[x]] \in Late
<1> DEFINE Kept == base'[x] = base[x]
                     \/ (base'[x] \in Timestamps /\ pc[base'[x]] \in Late)
<1>1. DOMAIN base = Timestamps
  BY DEF TypeOK
<1> USE DEF envVars, dbVars, fileVars, processVars
<1>2. ASSUME NEW b \in Timestamps, DoSetup(b)
      PROVE  Kept
  BY <1>1, <1>2 DEF DoSetup, GoTo
<1>3. ASSUME NEW b \in Timestamps, GetTargetBackupTimestamp(b)
      PROVE  Kept
  <2>1. \A c \in LatestMatchingBackup(b) \cup ValidFromTimestamps(b) :
          c \in Timestamps /\ pc[c] \in Late
    BY DEF LatestMatchingBackup, Candidates, ValidFromTimestamps, FilesInv, Late
  <2> QED
    BY <1>3, <1>1, <2>1 DEF GetTargetBackupTimestamp
<1>4. ASSUME NEW b \in Timestamps, PlanBackup(b)
      PROVE  Kept
  BY <1>1, <1>4 DEF PlanBackup, GoTo
<1>5. ASSUME NEW b \in Timestamps, BackupTableData(b)
      PROVE  Kept
  BY <1>1, <1>5 DEF BackupTableData, GoTo
<1>6. ASSUME NEW b \in Timestamps, WriteTOC(b)
      PROVE  Kept
  BY <1>1, <1>6 DEF WriteTOC, GoTo
<1>7. ASSUME NEW b \in Timestamps, Fail(b)
      PROVE  Kept
  BY <1>1, <1>7 DEF Fail, GoTo, Fault
<1>8. ASSUME NEW b \in Timestamps, WriteConfig(b)
      PROVE  Kept
  BY <1>1, <1>8 DEF WriteConfig, GoTo, Fault
<1>9. ASSUME NEW b \in Timestamps, UpdateHistory(b)
      PROVE  Kept
  BY <1>1, <1>9 DEF UpdateHistory, GoTo, Fault
<1>10. ASSUME NEW b \in Timestamps, Terminate(b)
      PROVE  Kept
  BY <1>1, <1>10 DEF Terminate, GoTo, Fault
<1>11. ASSUME NEW b \in Timestamps, Kill(b)
      PROVE  Kept
  BY <1>1, <1>11 DEF Kill, GoTo, Fault
<1>12. ASSUME NEW b \in Timestamps, Delete(b)
      PROVE  Kept
  BY <1>1, <1>12 DEF Delete, Fault
<1>13. ASSUME NEW t \in Tables, Modify(t)
      PROVE  Kept
  BY <1>1, <1>13 DEF Modify, ChangeTo
<1>14. ASSUME NEW t \in Tables, Recreate(t)
      PROVE  Kept
  BY <1>1, <1>14 DEF Recreate, ChangeTo, Hide
<1>15. ASSUME NEW t \in Tables, Drop(t)
      PROVE  Kept
  BY <1>1, <1>15 DEF Drop, ChangeTo, Hide
<1>16. ASSUME NEW t \in Tables, Create(t)
      PROVE  Kept
  BY <1>1, <1>16 DEF Create, ChangeTo
<1>17. ASSUME UNCHANGED vars
      PROVE  Kept
  BY <1>1, <1>17 DEF vars
<1>18. Kept
  BY <1>2, <1>3, <1>4, <1>5, <1>6, <1>7, <1>8, <1>9, <1>10, <1>11, <1>12,
     <1>13, <1>14, <1>15, <1>16, <1>17 DEF Next, Gpbackup
<1>19. base[x] # NoBase => base[x] \in Timestamps /\ pc[base[x]] \in Late
  BY DEF TypeOK, FilesInv
<1>20. base'[x] \in Timestamps /\ pc[base'[x]] \in Late
  BY <1>18, <1>19
<1> QED
  BY <1>20, LateStable

\* Where complete data comes from.
LEMMA DataStep ==
  ASSUME TypeOK, DomainsInv, FilesInv, [Next]_vars, NEW x \in Timestamps
  PROVE  /\ pc'[x] \in {"copied", "written"} =>
              \/ pc[x] \in {"copied", "written"} /\ data'[x] = data[x]
              \/ /\ pc[x] = "planned"
                 /\ data'[x] = [t \in BackupSet(x) |-> ContentSeen(x, t)]
         /\ tocFile'[x] /\ (configFile'[x] \/ pc'[x] = "failing") =>
              /\ data'[x] = data[x]
              /\ \/ pc[x] \in {"copied", "written"}
                 \/ tocFile[x] /\ (configFile[x] \/ pc[x] = "failing")
<1> DEFINE Kept ==
          /\ pc'[x] \in {"copied", "written"} =>
               \/ pc[x] \in {"copied", "written"} /\ data'[x] = data[x]
               \/ /\ pc[x] = "planned"
                  /\ data'[x] = [t \in BackupSet(x) |-> ContentSeen(x, t)]
          /\ tocFile'[x] /\ (configFile'[x] \/ pc'[x] = "failing") =>
               /\ data'[x] = data[x]
               /\ \/ pc[x] \in {"copied", "written"}
                  \/ tocFile[x] /\ (configFile[x] \/ pc[x] = "failing")
<1>1. /\ tocFile[x] => pc[x] \notin Early \cup {"planned", "copied"}
      /\ configFile[x] => pc[x] \in Late
  BY DEF FilesInv
<1>2. /\ pc \in [Timestamps -> Running \cup {"none", "ended"}]
      /\ DOMAIN tocFile = Timestamps /\ DOMAIN configFile = Timestamps
      /\ DOMAIN data = Timestamps
  BY DEF TypeOK, DomainsInv
<1> USE DEF Early, Unlocked, Late, Running, envVars, dbVars, fileVars,
      processVars
<1>3. ASSUME NEW b \in Timestamps, DoSetup(b)
      PROVE  Kept
  BY <1>1, <1>2, <1>3 DEF DoSetup, GoTo
<1>4. ASSUME NEW b \in Timestamps, GetTargetBackupTimestamp(b)
      PROVE  Kept
  BY <1>1, <1>2, <1>4 DEF GetTargetBackupTimestamp, GoTo
<1>5. ASSUME NEW b \in Timestamps, PlanBackup(b)
      PROVE  Kept
  BY <1>1, <1>2, <1>5 DEF PlanBackup, GoTo
<1>6. ASSUME NEW b \in Timestamps, BackupTableData(b)
      PROVE  Kept
  BY <1>1, <1>2, <1>6 DEF BackupTableData, GoTo
<1>7. ASSUME NEW b \in Timestamps, WriteTOC(b)
      PROVE  Kept
  BY <1>1, <1>2, <1>7 DEF WriteTOC, GoTo
<1>8. ASSUME NEW b \in Timestamps, Fail(b)
      PROVE  Kept
  BY <1>1, <1>2, <1>8 DEF Fail, GoTo, Fault
<1>9. ASSUME NEW b \in Timestamps, WriteConfig(b)
      PROVE  Kept
  BY <1>1, <1>2, <1>9 DEF WriteConfig, GoTo, Fault
<1>10. ASSUME NEW b \in Timestamps, UpdateHistory(b)
      PROVE  Kept
  BY <1>1, <1>2, <1>10 DEF UpdateHistory, GoTo, Fault
<1>11. ASSUME NEW b \in Timestamps, Terminate(b)
      PROVE  Kept
  <2>1. pc'[x] = IF x = b THEN "ended" ELSE pc[x]
    BY <1>11, <1>2 DEF Terminate, GoTo
  <2>2. x # b => tocFile'[x] = tocFile[x] /\ data'[x] = data[x]
    BY <1>11, <1>2 DEF Terminate
  <2>3. configFile' = configFile /\ pc[b] \notin Late
    BY <1>11 DEF Terminate
  <2> QED
    BY <1>11, <1>1, <2>1, <2>2, <2>3
<1>12. ASSUME NEW b \in Timestamps, Kill(b)
      PROVE  Kept
  BY <1>1, <1>2, <1>12 DEF Kill, GoTo, Fault
<1>13. ASSUME NEW b \in Timestamps, Delete(b)
      PROVE  Kept
  BY <1>1, <1>2, <1>13 DEF Delete, Fault
<1>14. ASSUME NEW t \in Tables, Modify(t)
      PROVE  Kept
  BY <1>1, <1>2, <1>14 DEF Modify, ChangeTo
<1>15. ASSUME NEW t \in Tables, Recreate(t)
      PROVE  Kept
  BY <1>1, <1>2, <1>15 DEF Recreate, ChangeTo, Hide
<1>16. ASSUME NEW t \in Tables, Drop(t)
      PROVE  Kept
  BY <1>1, <1>2, <1>16 DEF Drop, ChangeTo, Hide
<1>17. ASSUME NEW t \in Tables, Create(t)
      PROVE  Kept
  BY <1>1, <1>2, <1>17 DEF Create, ChangeTo
<1>18. ASSUME UNCHANGED vars
      PROVE  Kept
  BY <1>1, <1>2, <1>18 DEF vars
<1> QED
  BY <1>3, <1>4, <1>5, <1>6, <1>7, <1>8, <1>9, <1>10, <1>11, <1>12, <1>13,
     <1>14, <1>15, <1>16, <1>17, <1>18 DEF Next, Gpbackup

\* The stages, files and data of the backups fit together.
LEMMA FilesInvStep ==
  ASSUME TypeOK, DomainsInv, FilesInv, [Next]_vars
  PROVE  FilesInv'
<1>1. ASSUME NEW x \in Timestamps, pc'[x] \in Early
      PROVE  plan'[x] = NoFunction /\ ao'[x] = NoFunction /\ dataset'[x] = {}
  <2>1. pc[x] \in Early
    BY <1>1, Frozen
  <2>2. ~PlanBackup(x)
    BY <1>1 DEF PlanBackup, GoTo, TypeOK, Early, Unlocked
  <2> QED
    BY <2>1, <2>2, EarlyStable DEF FilesInv
<1>2. ASSUME NEW x \in Timestamps
      PROVE  dataset'[x] \subseteq TablesOf(x)'
  <2>1. CASE pc[x] \notin Early
    <3>1. /\ dataset'[x] = dataset[x]
          /\ snap'[x] = snap[x] /\ sig'[x] = sig[x]
      BY <2>1, Frozen
    <3> QED
      BY <3>1 DEF FilesInv, TablesOf
  <2>2. CASE pc[x] \in Early /\ ~PlanBackup(x)
    BY <2>2, EarlyStable DEF FilesInv
  <2>3. CASE PlanBackup(x)
    <3>1. dataset'[x] = TablesOf(x) /\ sig' = sig /\ snap' = snap
      BY <2>3 DEF PlanBackup, TypeOK
    <3> QED
      BY <3>1 DEF TablesOf
  <2> QED
    BY <2>1, <2>2, <2>3
<1>3. ASSUME NEW x \in Timestamps,
             \/ pc'[x] \in {"copied", "written"}
             \/ tocFile'[x] /\ (configFile'[x] \/ pc'[x] = "failing")
      PROVE  DataComplete(x)'
  <2>1. CASE /\ pc[x] = "planned"
             /\ data'[x] = [t \in BackupSet(x) |-> ContentSeen(x, t)]
    <3>1. /\ BackupSet(x)' = BackupSet(x)
          /\ \A t : ContentSeen(x, t)' = ContentSeen(x, t)
      BY <2>1, SeenStays DEF Early, Unlocked
    <3> QED
      BY <2>1, <3>1 DEF DataComplete
  <2>2. CASE /\ data'[x] = data[x]
             /\ \/ pc[x] \in {"copied", "written"}
                \/ tocFile[x] /\ (configFile[x] \/ pc[x] = "failing")
    <3>1. DataComplete(x)
      BY <2>2 DEF FilesInv
    <3>2. pc[x] \notin Early
      BY <2>2 DEF FilesInv, Early, Unlocked
    <3> QED
      BY <2>2, <3>1, <3>2, SeenStays
  <2> QED
    BY <1>3, <2>1, <2>2, DataStep
<1>4. ASSUME NEW x \in Timestamps
      PROVE  /\ tocFile'[x] => pc'[x] \notin Early \cup {"planned", "copied"}
             /\ configFile'[x] => pc'[x] \in Late
             /\ status'[x] = "Success" => pc'[x] = "ended"
             /\ base'[x] # NoBase => pc'[base'[x]] \in Late
  BY FlagsStep, BasesStep
<1> QED
  BY <1>1, <1>2, <1>3, <1>4 DEF FilesInv

\* What the database was holds on while time goes on.
LEMMA SoundStays == ASSUME NEW v, Sound(v), tick \in Nat,
                           tick' = tick \/ tick' = tick + 1,
                           v.content \in Nat, v.modcount \in Nat
                    PROVE  Sound(v)'
BY DEF Sound

\* The counters of a table go on telling its contents apart: a modification
\* counts on from what every snapshot has, and a new table has a new DDL time.
LEMMA VersionsInvStep ==
  ASSUME TypeOK, DomainsInv, VersionsInv, [Next]_vars
  PROVE  VersionsInv'
<1>1. /\ tick \in Nat /\ DbTypes
      /\ \A u \in DOMAIN db : db[u].content \in Nat /\ db[u].modcount \in Nat
      /\ \A x \in Timestamps : \A u \in DOMAIN snap[x] :
           snap[x][u].content \in Nat /\ snap[x][u].modcount \in Nat
  BY TypeParts DEF DbTypes, IsPartial, TableState, Ticks
<1>2. ASSUME UNCHANGED <<db, tick, snap>>
      PROVE  VersionsInv'
  BY <1>2 DEF VersionsInv, Sound, Same
<1>3. ASSUME NEW b \in Timestamps, DoSetup(b)
      PROVE  VersionsInv'
  <2>1. /\ db' = db /\ tick' = tick
        /\ \A x \in Timestamps : snap'[x] = IF x = b THEN db ELSE snap[x]
    BY <1>3 DEF DoSetup, envVars, dbVars, DomainsInv
  <2>2. \A v : Sound(v)' <=> Sound(v)
    BY <2>1 DEF Sound
  <2>3. ASSUME NEW x \in Timestamps, NEW u \in DOMAIN snap'[x]
        PROVE  Sound(snap[x][u])'
    BY <2>1, <2>2 DEF VersionsInv
  <2>4. ASSUME NEW x \in Timestamps, NEW u \in DOMAIN snap'[x] \cap DOMAIN db'
        PROVE  /\ snap'[x][u].lastDDL = db'[u].lastDDL =>
                    snap'[x][u].modcount <= db'[u].modcount
               /\ Same(snap'[x][u], db'[u])
    BY <1>1, <2>1 DEF VersionsInv, Same
  <2>5. ASSUME NEW x \in Timestamps, NEW y \in Timestamps,
               NEW u \in DOMAIN snap'[x] \cap DOMAIN snap'[y]
        PROVE  Same(snap'[x][u], snap'[y][u])
    BY <2>1 DEF VersionsInv, Same
  <2>6. \A u \in DOMAIN db' : Sound(db[u])'
    BY <2>1, <2>2 DEF VersionsInv
  <2> QED
    BY <2>3, <2>4, <2>5, <2>6 DEF VersionsInv, Same
<1>4. ASSUME NEW t \in Tables, Modify(t) \/ Recreate(t) \/ Drop(t) \/ Create(t)
      PROVE  VersionsInv'
  <2>1. tick' = tick + 1 /\ snap' = snap
    BY <1>1, <1>4, Changed
  <2>2. \A u \in DOMAIN db' :
          \/ u \in DOMAIN db /\ db'[u] = db[u]
          \/ /\ u \in DOMAIN db /\ db'[u].lastDDL = db[u].lastDDL
             /\ db'[u].modcount = db[u].modcount + 1
             /\ db'[u].content = tick + 1
          \/ /\ db'[u].lastDDL = tick + 1 /\ db'[u].modcount = 0
             /\ db'[u].content = Empty
    BY <1>1, <1>4, Changed
  <2>3. \A u \in DOMAIN db' : Sound(db[u])'
    <3> SUFFICES ASSUME NEW u \in DOMAIN db'
                 PROVE  Sound(db[u])'
      OBVIOUS
    <3>1. u \in DOMAIN db => /\ db[u].lastDDL \in 1 .. tick
                             /\ db[u].content <= tick /\ db[u].modcount <= tick
                             /\ db[u].modcount = 0 => db[u].content = Empty
      BY DEF VersionsInv, Sound
    <3> QED
      BY <1>1, <2>1, <2>2, <3>1 DEF Sound, Empty
  <2>4. ASSUME NEW x \in Timestamps, NEW u \in DOMAIN snap'[x]
        PROVE  Sound(snap[x][u])'
    BY <1>1, <2>1, SoundStays DEF VersionsInv
  <2>5. ASSUME NEW x \in Timestamps, NEW u \in DOMAIN snap'[x] \cap DOMAIN db'
        PROVE  /\ snap'[x][u].lastDDL = db'[u].lastDDL =>
                    snap'[x][u].modcount <= db'[u].modcount
               /\ Same(snap'[x][u], db'[u])
    <3> DEFINE v == snap[x][u]
    <3>1. v.lastDDL \in 1 .. tick /\ v.modcount \in Nat /\ snap'[x][u] = v
      BY <1>1, <2>1 DEF VersionsInv, Sound
    <3>2. u \in DOMAIN db =>
            /\ db[u].modcount \in Nat
            /\ v.lastDDL = db[u].lastDDL => v.modcount <= db[u].modcount
            /\ Same(v, db[u])
      BY <1>1, <2>1 DEF VersionsInv
    <3> HIDE DEF v
    <3> QED
      BY <1>1, <2>2, <3>1, <3>2 DEF Same
  <2> QED
    BY <2>1, <2>3, <2>4, <2>5 DEF VersionsInv, Same
<1>5. ASSUME NEW b \in Timestamps, Gpbackup(b) \/ Delete(b), ~DoSetup(b)
      PROVE  UNCHANGED <<db, tick, snap>>
  BY <1>5
     DEF Gpbackup, GetTargetBackupTimestamp, PlanBackup, BackupTableData,
         WriteTOC, Fail, WriteConfig, UpdateHistory, Terminate, Kill, Delete,
         envVars, dbVars, processVars
<1>6. CASE UNCHANGED vars
  BY <1>2, <1>6 DEF vars, envVars, processVars
<1> QED
  BY <1>2, <1>3, <1>4, <1>5, <1>6 DEF Next, Gpbackup

\* An append-optimized table whose counters agree in two backups had the same
\* rows in both.
LEMMA SameEntry ==
  ASSUME VersionsInv, NEW a \in Timestamps, NEW b \in Timestamps,
         NEW t \in DOMAIN snap[a] \cap DOMAIN snap[b],
         EntrySeen(a, t) = EntrySeen(b, t)
  PROVE  ContentSeen(a, t) = ContentSeen(b, t)
<1>1. /\ snap[a][t].lastDDL = snap[b][t].lastDDL
      /\ (IF t \in replaced[a] THEN 0 ELSE snap[a][t].modcount)
           = (IF t \in replaced[b] THEN 0 ELSE snap[b][t].modcount)
  BY DEF EntrySeen
<1>2. /\ snap[a][t].modcount = 0 => snap[a][t].content = Empty
      /\ snap[b][t].modcount = 0 => snap[b][t].content = Empty
      /\ Same(snap[a][t], snap[b][t])
  BY DEF VersionsInv, Sound
<1> QED
  BY <1>1, <1>2 DEF Same, ContentSeen

\* A table that an incremental backup does not store is one of its base's,
\* unchanged.
LEMMA UnchangedSince ==
  ASSUME TypeOK, FilesInv, VersionsInv, BaseInv, NEW b \in Timestamps,
         NEW t \in TablesOf(b), t \notin ChangedTables(b)
  PROVE  /\ base[b] # NoBase /\ t \in dataset[base[b]]
         /\ ContentSeen(base[b], t) = ContentSeen(b, t)
<1> DEFINE a == base[b]
<1>1. a # NoBase /\ a \in Timestamps
  BY DEF ChangedTables, TypeOK
<1>2. StageTypes /\ DbTypes
  BY TypeParts
<1>3. t \in DOMAIN CurrentAO(b) /\ AOEntryOf(ao[a], t) = CurrentAO(b)[t]
  BY <1>1 DEF ChangedTables, FilterTablesForIncremental
<1>4. CurrentAO(b)[t] = EntrySeen(b, t) /\ t \in DOMAIN snap[b]
  <2>1. CurrentAO(b) = AOMetadata(b)
    BY <1>3 DEF CurrentAO, NoFunction
  <2> QED
    BY <1>2, <1>3, <2>1, TablesOfFacts DEF AOMetadata, EntrySeen
<1>5. t \in DOMAIN ao[a]
  <2>1. EntrySeen(b, t).lastDDL # 0
    BY <1>4, <1>2 DEF VersionsInv, Sound, EntrySeen, DbTypes, Ticks
  <2> QED
    BY <1>3, <1>4, <2>1 DEF AOEntryOf, ZeroEntry
<1>6. t \in dataset[a] /\ ao[a][t] = EntrySeen(a, t)
  BY <1>1, <1>5 DEF BaseInv
<1>7. t \in DOMAIN snap[a]
  BY <1>1, <1>2, <1>6, TablesOfFacts DEF FilesInv
<1>8. EntrySeen(a, t) = EntrySeen(b, t)
  BY <1>3, <1>4, <1>5, <1>6 DEF AOEntryOf
<1> QED
  BY <1>1, <1>4, <1>6, <1>7, <1>8, SameEntry

\* PlanBackup makes a plan of its own and touches nobody else's.
LEMMA PlanMade ==
  ASSUME TypeOK, DomainsInv, FilesInv, NEW b \in Timestamps, PlanBackup(b)
  PROVE  /\ pc[b] \in Early
         /\ plan'[b] = RestorePlanFor(b) /\ ao'[b] = CurrentAO(b)
         /\ dataset'[b] = TablesOf(b)
         /\ \A x \in Timestamps \ {b} :
              /\ pc'[x] = pc[x] /\ plan'[x] = plan[x] /\ ao'[x] = ao[x]
              /\ dataset'[x] = dataset[x] /\ BackupSet(x)' = BackupSet(x)
              /\ DataComplete(x) => DataComplete(x)'
         /\ UNCHANGED <<tocFile, base>>
         /\ \A x, t : ContentSeen(x, t)' = ContentSeen(x, t)
         /\ \A x, t : EntrySeen(x, t)' = EntrySeen(x, t)
<1>1. /\ pc[b] \in Early
      /\ plan' = [plan EXCEPT ![b] = RestorePlanFor(b)]
      /\ ao' = [ao EXCEPT ![b] = CurrentAO(b)]
      /\ dataset' = [dataset EXCEPT ![b] = TablesOf(b)]
      /\ pc' = [pc EXCEPT ![b] = "planned"]
      /\ UNCHANGED <<snap, replaced, data, tocFile, base>>
  BY DEF PlanBackup, GoTo, Early, Unlocked
<1>2. /\ DOMAIN plan = Timestamps /\ DOMAIN ao = Timestamps
      /\ DOMAIN dataset = Timestamps /\ DOMAIN pc = Timestamps
  BY DEF DomainsInv, TypeOK
<1>3. /\ \A x, t : ContentSeen(x, t)' = ContentSeen(x, t)
      /\ \A x, t : EntrySeen(x, t)' = EntrySeen(x, t)
  BY <1>1 DEF ContentSeen, EntrySeen
<1>4. \A x \in Timestamps \ {b} : plan'[x] = plan[x] /\
        BackupSet(x)' = BackupSet(x)
  BY <1>1, <1>2 DEF BackupSet
<1>5. \A x \in Timestamps \ {b} : DataComplete(x) => DataComplete(x)'
  BY <1>1, <1>3, <1>4 DEF DataComplete
<1> QED
  BY <1>1, <1>2, <1>3, <1>4, <1>5

\* A plan assigns each table of the backup to the one that has its rows: the
\* backup itself for what has changed, the base's plan knows the others.
LEMMA PlanInvStep ==
  ASSUME TypeOK, DomainsInv, FilesInv, VersionsInv, PlanInv, BaseInv,
         [Next]_vars
  PROVE  PlanInv'
<1> DEFINE Dealt(b, p, S) ==
             /\ \A t \in S : \E c \in DOMAIN p : t \in p[c]
             /\ \A c \in DOMAIN p : p[c] \subseteq S
             /\ S # {} => b \in DOMAIN p
             /\ \A c, d \in DOMAIN p : c # d => p[c] \cap p[d] = {}
           Supplied(b, p) ==
             /\ \A c \in DOMAIN p : \A t \in p[c] :
                  t \in BackupSet(c) /\ ContentSeen(c, t) = ContentSeen(b, t)
             /\ \A c \in DOMAIN p \ {b} :
                  pc[c] \in Late /\ (tocFile[c] => DataComplete(c))
<1>1. \A b \in Timestamps : Dealt(b, plan[b], dataset[b]) /\
        Supplied(b, plan[b])
  BY DEF PlanInv
<1>2. \A b \in Timestamps : DOMAIN plan[b] \subseteq Timestamps
  BY DEF TypeOK, IsPartial
<1>3. \A b \in Timestamps : pc[b] \in Late => pc[b] \notin Early
  BY DEF Late, Early, Unlocked
<1>4. ASSUME NEW b \in Timestamps, pc[b] \notin Early
      PROVE  Dealt(b, plan'[b], dataset'[b]) /\ Supplied(b, plan[b])'
  <2>1. plan'[b] = plan[b] /\ dataset'[b] = dataset[b]
    BY <1>4, Frozen
  <2>2. Supplied(b, plan[b])
    BY <1>1
  <2>3. ASSUME NEW c \in DOMAIN plan[b], NEW t \in plan[b][c]
        PROVE  t \in BackupSet(c)' /\ ContentSeen(c, t)' = ContentSeen(b, t)'
    <3>1. c \in Timestamps /\ pc[c] \notin Early
      BY <1>2, <1>3, <1>4, <2>2
    <3> QED
      BY <1>4, <2>2, <3>1, SeenStays
  <2>4. ASSUME NEW c \in DOMAIN plan[b] \ {b}
        PROVE  pc'[c] \in Late /\ (tocFile'[c] => DataComplete(c)')
    <3>1. c \in Timestamps /\ pc[c] \in Late /\ pc[c] \notin Early
      BY <1>2, <1>3, <2>2
    <3>2. /\ pc'[c] \in Late
          /\ tocFile'[c] => tocFile[c] /\ data'[c] = data[c]
      BY <3>1, LateStable
    <3> QED
      BY <2>2, <3>1, <3>2, SeenStays
  <2> QED
    BY <1>1, <2>1, <2>3, <2>4
<1>5. ASSUME NEW b \in Timestamps, pc[b] \in Early, ~PlanBackup(b)
      PROVE  Dealt(b, plan'[b], dataset'[b]) /\ Supplied(b, plan[b])'
  <2>1. plan'[b] = NoFunction /\ dataset'[b] = {}
    BY <1>5, EarlyStable DEF FilesInv
  <2> QED
    BY <2>1 DEF NoFunction
<1>6. ASSUME NEW b \in Timestamps, PlanBackup(b)
      PROVE  Dealt(b, plan'[b], dataset'[b]) /\ Supplied(b, plan[b])'
  <2> DEFINE a == base[b]
             all == TablesOf(b)
             changed == ChangedTables(b)
             old == IF a = NoBase THEN NoFunction ELSE plan[a]
             new == PopulateRestorePlan(changed, old, all, b)
  <2>1. CASE all = {}
    <3>1. plan'[b] = NoFunction /\ dataset'[b] = {}
      BY <1>6, <2>1, PlanMade DEF RestorePlanFor
    <3> QED
      BY <3>1 DEF NoFunction
  <2>2. CASE all # {}
    <3>1. plan'[b] = new /\ dataset'[b] = all
      BY <1>6, <2>2, PlanMade DEF RestorePlanFor
    <3>2. changed \subseteq all
      BY DEF ChangedTables, FilterTablesForIncremental
    <3>3. \A t \in all \ changed :
            /\ a # NoBase /\ t \in dataset[a]
            /\ ContentSeen(a, t) = ContentSeen(b, t)
      BY UnchangedSince
    <3>4. a # NoBase => /\ a \in Timestamps /\ pc[a] \in Late
                        /\ DataComplete(a)
      <4> SUFFICES ASSUME a # NoBase
                   PROVE  a \in Timestamps /\ pc[a] \in Late /\ DataComplete(a)
        OBVIOUS
      <4>1. a \in Timestamps
        BY DEF TypeOK
      <4>2. pc[a] \in Late
        BY DEF FilesInv
      <4>3. tocFile[a] /\ configFile[a]
        BY <1>6, <2>2 DEF PlanBackup
      <4> QED
        BY <4>1, <4>2, <4>3 DEF FilesInv
    <3>5. DOMAIN new = DOMAIN old \cup {b} /\ new[b] = changed
      BY DEF PopulateRestorePlan
    <3>6. \A c \in DOMAIN old \ {b} : new[c] = (old[c] \ changed) \cap all
      BY DEF PopulateRestorePlan
    <3>7. \A c \in DOMAIN old :
            /\ a # NoBase /\ c \in DOMAIN plan[a] /\ old[c] = plan[a][c]
            /\ c \in Timestamps /\ pc[c] \in Late /\ c # b
            /\ tocFile[c] => DataComplete(c)
      <4> SUFFICES ASSUME NEW c \in DOMAIN old
                   PROVE  /\ a # NoBase /\ c \in DOMAIN plan[a]
                          /\ old[c] = plan[a][c]
                          /\ c \in Timestamps /\ pc[c] \in Late /\ c # b
                          /\ tocFile[c] => DataComplete(c)
        OBVIOUS
      <4>1. a # NoBase /\ c \in DOMAIN plan[a] /\ old[c] = plan[a][c]
        BY DEF NoFunction
      <4>2. c \in Timestamps /\ pc[c] \in Late /\
              (tocFile[c] => DataComplete(c))
        BY <1>1, <1>2, <3>4, <4>1
      <4> QED
        BY <1>3, <1>6, <4>1, <4>2, PlanMade
    <3>8. a # NoBase => /\ Dealt(a, old, dataset[a]) /\ Supplied(a, old)
      BY <1>1, <3>4
    <3> HIDE DEF new, old, changed, all, a
    <3>9. \A t \in all : \E c \in DOMAIN new : t \in new[c]
      <4> SUFFICES ASSUME NEW t \in all, t \notin changed
                   PROVE  \E c \in DOMAIN new : t \in new[c]
        BY <3>5
      <4>1. PICK c \in DOMAIN old : t \in old[c]
        BY <3>3, <3>8
      <4> QED
        BY <3>5, <3>6, <3>7, <4>1
    <3>10. Dealt(b, new, all)
      BY <3>2, <3>5, <3>6, <3>7, <3>8, <3>9
    <3>11. ASSUME NEW c \in DOMAIN new, NEW t \in new[c]
           PROVE  t \in BackupSet(c)' /\ ContentSeen(c, t)' = ContentSeen(b, t)'
      <4>1. CASE c = b
        <5>1. BackupSet(b)' = changed
          BY <3>1, <3>5 DEF BackupSet
        <5> QED
          BY <3>5, <4>1, <5>1
      <4>2. CASE c # b
        <5>1. c \in DOMAIN old /\ t \in old[c] /\ t \in all \ changed
          BY <3>5, <3>6, <4>2
        <5>2. t \in BackupSet(c) /\ ContentSeen(c, t) = ContentSeen(a, t)
          BY <3>7, <3>8, <5>1
        <5>3. ContentSeen(c, t) = ContentSeen(b, t)
          BY <3>3, <5>1, <5>2
        <5> QED
          BY <1>6, <3>7, <5>1, <5>2, <5>3, PlanMade
      <4> QED
        BY <4>1, <4>2
    <3>12. ASSUME NEW c \in DOMAIN new \ {b}
           PROVE  pc'[c] \in Late /\ (tocFile'[c] => DataComplete(c)')
      BY <1>6, <3>5, <3>7, PlanMade
    <3> QED
      BY <3>1, <3>10, <3>11, <3>12
  <2> QED
    BY <2>1, <2>2
<1>7. \A b \in Timestamps : Dealt(b, plan'[b], dataset'[b]) /\
        Supplied(b, plan[b])'
  BY <1>4, <1>5, <1>6
<1> QED
  BY <1>7 DEF PlanInv

\* What a backup leaves to its base stays what it was.
LEMMA BaseInvStep ==
  ASSUME TypeOK, DomainsInv, FilesInv, VersionsInv, PlanInv, BaseInv,
         [Next]_vars
  PROVE  BaseInv'
<1> DEFINE Entries(b) == \A t \in DOMAIN ao[b] :
                           t \in dataset[b] /\ ao[b][t] = EntrySeen(b, t)
           Left(b) == base[b] # NoBase =>
             \A t \in dataset[b] \ BackupSet(b) :
               /\ t \in dataset[base[b]]
               /\ ContentSeen(base[b], t) = ContentSeen(b, t)
<1>1. \A b \in Timestamps : Entries(b) /\ Left(b)
  BY DEF BaseInv
<1>2. ASSUME NEW b \in Timestamps, pc[b] \notin Early
      PROVE  Entries(b)' /\ Left(b)'
  <2>1. /\ ao'[b] = ao[b] /\ dataset'[b] = dataset[b] /\ base'[b] = base[b]
        /\ BackupSet(b)' = BackupSet(b)
        /\ \A t : ContentSeen(b, t)' = ContentSeen(b, t)
        /\ \A t : EntrySeen(b, t)' = EntrySeen(b, t)
    BY <1>2, Frozen, SeenStays
  <2>2. base[b] # NoBase => base[b] \in Timestamps /\ pc[base[b]] \notin Early
    BY DEF TypeOK, FilesInv, Late, Early, Unlocked
  <2>3. ASSUME NEW a \in Timestamps, pc[a] \notin Early
        PROVE  /\ dataset'[a] = dataset[a]
               /\ \A t : ContentSeen(a, t)' = ContentSeen(a, t)
    BY <2>3, Frozen, SeenStays
  <2>4. Entries(b)'
    BY <1>1, <2>1
  <2>5. Left(b)'
    <3> SUFFICES ASSUME base'[b] # NoBase, NEW t \in dataset'[b] \ BackupSet(b)'
                 PROVE  /\ t \in dataset'[base'[b]]
                        /\ ContentSeen(base[b], t)' = ContentSeen(b, t)'
      OBVIOUS
    <3>1. base[b] # NoBase /\ t \in dataset[b] \ BackupSet(b)
      BY <2>1
    <3>2. PICK a \in Timestamps : a = base[b] /\ pc[a] \notin Early
      BY <2>2, <3>1
    <3>3. t \in dataset[a] /\ ContentSeen(a, t) = ContentSeen(b, t)
      BY <1>1, <3>1, <3>2
    <3>4. /\ ContentSeen(a, t)' = ContentSeen(a, t) /\ dataset'[a] = dataset[a]
          /\ ContentSeen(b, t)' = ContentSeen(b, t) /\ base'[b] = a
      BY <2>1, <2>3, <3>2
    <3>5. ContentSeen(base[b], t)' = ContentSeen(a, t)'
      BY <3>4 DEF ContentSeen
    <3> QED
      BY <3>3, <3>4, <3>5
  <2> QED
    BY <2>4, <2>5
<1>3. ASSUME NEW b \in Timestamps, pc[b] \in Early, ~PlanBackup(b)
      PROVE  Entries(b)' /\ Left(b)'
  <2>1. ao'[b] = NoFunction /\ dataset'[b] = {}
    BY <1>3, EarlyStable DEF FilesInv
  <2> QED
    BY <2>1 DEF NoFunction
<1>4. ASSUME NEW b \in Timestamps, PlanBackup(b)
      PROVE  Entries(b)' /\ Left(b)'
  <2>1. ASSUME NEW t \in DOMAIN CurrentAO(b)
        PROVE  t \in TablesOf(b) /\ CurrentAO(b)[t] = EntrySeen(b, t)
    <3>1. CurrentAO(b) = AOMetadata(b)
      BY <2>1 DEF CurrentAO, NoFunction
    <3> QED
      BY <2>1, <3>1 DEF AOMetadata, EntrySeen
  <2>2. Entries(b)'
    BY <1>4, <2>1, PlanMade
  <2>3. ASSUME NEW t \in TablesOf(b) \ BackupSet(b)'
        PROVE  t \notin ChangedTables(b)
    <3>1. plan'[b] = PopulateRestorePlan(ChangedTables(b),
                       IF base[b] = NoBase THEN NoFunction ELSE plan[base[b]],
                       TablesOf(b), b)
      BY <1>4, <2>3, PlanMade DEF RestorePlanFor
    <3>2. BackupSet(b)' = ChangedTables(b)
      BY <3>1 DEF BackupSet, PopulateRestorePlan
    <3> QED
      BY <2>3, <3>2
  <2>4. ASSUME base[b] # NoBase
        PROVE  dataset'[base[b]] = dataset[base[b]]
    <3>1. base[b] \in Timestamps
      BY <2>4 DEF TypeOK
    <3>2. pc[base[b]] \in Late /\ pc[b] \in Early
      BY <1>4, <2>4, PlanMade DEF FilesInv
    <3>3. base[b] # b
      BY <3>2 DEF Late, Early, Unlocked
    <3> QED
      BY <1>4, <3>1, <3>3, PlanMade
  <2>5. base' = base /\ dataset'[b] = TablesOf(b)
    BY <1>4, PlanMade
  <2>6. Left(b)'
    <3> SUFFICES ASSUME base'[b] # NoBase, NEW t \in dataset'[b] \ BackupSet(b)'
                 PROVE  /\ t \in dataset'[base'[b]]
                        /\ ContentSeen(base[b], t)' = ContentSeen(b, t)'
      OBVIOUS
    <3>1. t \in TablesOf(b) \ ChangedTables(b) /\ base[b] # NoBase
      BY <2>3, <2>5
    <3>2. t \in dataset[base[b]] /\ ContentSeen(base[b], t) = ContentSeen(b, t)
      BY <3>1, UnchangedSince
    <3>3. UNCHANGED <<snap, replaced, base>>
      BY <1>4 DEF PlanBackup
    <3>4. /\ ContentSeen(base[b], t)' = ContentSeen(base[b], t)
          /\ ContentSeen(b, t)' = ContentSeen(b, t)
      BY <3>3 DEF ContentSeen
    <3> QED
      BY <2>4, <2>5, <3>1, <3>2, <3>4
  <2> QED
    BY <2>2, <2>6
<1>5. \A b \in Timestamps : Entries(b)' /\ Left(b)'
  BY <1>2, <1>3, <1>4
<1> QED
  BY <1>5 DEF BaseInv

\* The invariant is inductive.
LEMMA IInvStep == IInv /\ [Next]_vars => IInv'
<1> SUFFICES ASSUME IInv, [Next]_vars
             PROVE  IInv'
  OBVIOUS
<1>1. TypeOK /\ DomainsInv /\ FilesInv /\ VersionsInv /\ PlanInv /\ BaseInv
  BY DEF IInv
<1>2. StageTypes' /\ DbTypes' /\ FileTypes'
  BY <1>1, TypeParts, StageTypesStep, DbTypesStep, FileTypesStep
<1>3. TypeOK'
  BY <1>2 DEF TypeOK, StageTypes, DbTypes, FileTypes
<1>4. DomainsInv' /\ FilesInv' /\ VersionsInv' /\ PlanInv' /\ BaseInv'
  BY <1>1, DomainsStep, FilesInvStep, VersionsInvStep, PlanInvStep, BaseInvStep
<1> QED
  BY <1>3, <1>4 DEF IInv

\* It holds before the first backup.
LEMMA IInvInit == Init => IInv
<1> SUFFICES ASSUME Init
             PROVE  IInv
  OBVIOUS
<1>1. StageTypes
  <2>1. (CHOOSE s \in Signatures : TRUE) \in Signatures
    BY SignatureAssumption
  <2> QED
    BY <2>1, BoundsAssumption DEF Init, StageTypes
<1>2. DbTypes
  <2>1. tick \in Ticks
    BY BoundsAssumption DEF Init, Ticks
  <2>2. [content |-> 1, modcount |-> 1, lastDDL |-> 1] \in TableState
    BY BoundsAssumption DEF TableState, Ticks
  <2>3. IsPartial(db, Tables, TableState)
    BY <2>2 DEF Init, IsPartial
  <2>4. \A b \in Timestamps : snap[b] = NoFunction
    BY DEF Init
  <2> QED
    BY <2>1, <2>3, <2>4, NoPartial DEF DbTypes
<1>3. FileTypes
  <2>1. \A b \in Timestamps :
          plan[b] = NoFunction /\ ao[b] = NoFunction /\ data[b] = NoFunction
    BY DEF Init
  <2> QED
    BY <2>1, NoPartial DEF FileTypes
<1>4. DomainsInv
  BY DEF Init, DomainsInv
<1>5. FilesInv
  BY DEF Init, FilesInv, Early, Late
<1>6. VersionsInv
  BY DEF Init, VersionsInv, Sound, Same, NoFunction
<1>7. PlanInv /\ BaseInv
  BY DEF Init, PlanInv, BaseInv, NoFunction
<1> QED
  BY <1>1, <1>2, <1>3, <1>4, <1>5, <1>6, <1>7, TypeParts DEF IInv

-----------------------------------------------------------------------------
(* What gprestore finds                                                    *)

\* Whether a filter lets a table pass: a root stands for its leaves.
Named(F, t) == t \in F \/ (PartitionRoot[t] # NoRoot /\ PartitionRoot[t] \in F)
Passes(include, exclude, t) ==
  IF include # {} THEN Named(include, t) ELSE ~Named(exclude, t)

\* GetDataEntriesMatching takes what is planned and passes the filter.
LEMMA Matching ==
  ASSUME NEW c, DOMAIN data[c] \subseteq Tables, NEW include, NEW exclude, NEW S
  PROVE  DataEntriesMatching(c, include, exclude, S)
           = {t \in DOMAIN data[c] \cap S : Passes(include, exclude, t)}
<1>1. CASE include # {}
  <2>1. IncludeSet(include \cup LeafPartitions(include, c))
          = include \cup LeafPartitions(include, c)
    BY <1>1 DEF IncludeSet
  <2> QED
    BY <1>1, <2>1 DEF DataEntriesMatching, LeafPartitions, Passes, Named
<1>2. CASE include = {}
  BY <1>2 DEF DataEntriesMatching, ExcludeSet, LeafPartitions, Passes, Named
<1> QED
  BY <1>1, <1>2

\* The files of a restorable backup have what its plan says.
LEMMA PlanSupplied ==
  ASSUME IInv, NEW b \in Timestamps, Restorable(b), NEW c \in DOMAIN plan[b]
  PROVE  /\ DOMAIN data[c] \subseteq Tables
         /\ plan[b][c] \subseteq DOMAIN data[c] /\
              plan[b][c] \subseteq dataset[b]
         /\ \A t \in plan[b][c] : data[c][t] = ContentSeen(b, t)
<1>1. c \in Timestamps
  BY DEF IInv, TypeOK, IsPartial
<1>2. DataComplete(c)
  <2>1. CASE c = b
    BY <2>1 DEF Restorable, IInv, FilesInv
  <2>2. CASE c # b
    BY <2>2 DEF Restorable, IInv, PlanInv
  <2> QED
    BY <2>1, <2>2
<1>3. \A t \in plan[b][c] : t \in BackupSet(c) /\
        ContentSeen(c, t) = ContentSeen(b, t)
  BY DEF IInv, PlanInv
<1>4. DOMAIN data[c] \subseteq Tables
  BY <1>1 DEF IInv, TypeOK, IsPartial
<1>5. plan[b][c] \subseteq dataset[b]
  BY DEF IInv, PlanInv
<1> QED
  BY <1>2, <1>3, <1>4, <1>5 DEF DataComplete

\* A table that passes comes from one data file, that of the backup the plan
\* assigns it to.
LEMMA OneSource ==
  ASSUME IInv, NEW b \in Timestamps, Restorable(b), NEW t \in Tables,
         NEW include, NEW exclude
  PROVE  IF t \in dataset[b] /\ Passes(include, exclude, t)
         THEN \E c \in DOMAIN plan[b] :
                /\ RestoredFrom(b, t, include, exclude, FALSE) = {c}
                /\ t \in plan[b][c] /\ data[c][t] = ContentSeen(b, t)
         ELSE RestoredFrom(b, t, include, exclude, FALSE) = {}
<1>1. RestoredFrom(b, t, include, exclude, FALSE)
        = {c \in DOMAIN plan[b] : t \in plan[b][c] /\
          Passes(include, exclude, t)}
  <2>1. \A c \in DOMAIN plan[b] :
          t \in DataEntriesMatching(c, include, exclude, plan[b][c])
            <=> t \in plan[b][c] /\ Passes(include, exclude, t)
    BY PlanSupplied, Matching
  <2> QED
    BY <2>1 DEF RestoredFrom, RestorePlanEntries
<1>2. \A c \in DOMAIN plan[b] : plan[b][c] \subseteq dataset[b]
  BY PlanSupplied
<1>3. CASE t \in dataset[b] /\ Passes(include, exclude, t)
  <2>1. PICK c \in DOMAIN plan[b] : t \in plan[b][c]
    BY <1>3 DEF IInv, PlanInv
  <2>2. \A d \in DOMAIN plan[b] : t \in plan[b][d] => d = c
    BY <2>1 DEF IInv, PlanInv
  <2>3. RestoredFrom(b, t, include, exclude, FALSE) = {c}
    BY <1>1, <1>3, <2>1, <2>2
  <2> QED
    BY <1>3, <2>1, <2>3, PlanSupplied
<1>4. CASE ~(t \in dataset[b] /\ Passes(include, exclude, t))
  BY <1>1, <1>2, <1>4
<1> QED
  BY <1>3, <1>4

\* Which tables a filtered restore touches.
LEMMA Touched ==
  ASSUME IInv, NEW b \in Timestamps, Restorable(b), NEW include, NEW exclude
  PROVE  RestoredTables(b, include, exclude, FALSE)
           = {t \in dataset[b] : Passes(include, exclude, t)}
<1>1. dataset[b] \subseteq Tables
  BY DEF IInv, TypeOK
<1> QED
  BY <1>1, OneSource DEF RestoredTables

\* Without filters every table passes.
LEMMA AllPass == \A t : Passes({}, {}, t)
BY DEF Passes, Named

-----------------------------------------------------------------------------
(* The theorems                                                            *)

\* The inductive invariant holds in every reachable state.
THEOREM Inductive == Spec => []IInv
BY IInvInit, IInvStep, PTL DEF Spec

\* Type correctness of databases, backups and their files.
THEOREM TypeCorrect == Spec => []TypeOK
<1>1. IInv => TypeOK
  BY DEF IInv
<1> QED
  BY <1>1, Inductive, PTL

\* In an invariant state a restorable backup gives its own snapshot.
LEMMA SnapshotThere == IInv => RestoreIsSnapshot
<1> SUFFICES ASSUME IInv, NEW b \in Timestamps, Restorable(b)
             PROVE  /\ RestoredTables(b, {}, {}, FALSE) = dataset[b]
                    /\ \A t \in dataset[b] :
                         /\ Cardinality(RestoredFrom(b, t, {}, {}, FALSE)) = 1
                         /\ RestoredContent(b, t, FALSE) = ContentSeen(b, t)
  BY DEF RestoreIsSnapshot
<1>1. RestoredTables(b, {}, {}, FALSE) = dataset[b]
  BY Touched, AllPass
<1>2. ASSUME NEW t \in dataset[b]
      PROVE  /\ Cardinality(RestoredFrom(b, t, {}, {}, FALSE)) = 1
             /\ RestoredContent(b, t, FALSE) = ContentSeen(b, t)
  <2>1. t \in Tables
    BY <1>2 DEF IInv, TypeOK
  <2>2. PICK c \in DOMAIN plan[b] :
          /\ RestoredFrom(b, t, {}, {}, FALSE) = {c}
          /\ data[c][t] = ContentSeen(b, t)
    BY <1>2, <2>1, OneSource, AllPass
  <2>3. Cardinality({c}) = 1
    BY FS_Singleton
  <2>4. (CHOOSE d \in {c} : TRUE) = c
    OBVIOUS
  <2> QED
    BY <2>2, <2>3, <2>4 DEF RestoredContent
<1> QED
  BY <1>1, <1>2

\* However long the chain of a backup is and whatever became of the other
\* backups, a restore gives each table once, with the rows of its snapshot.
THEOREM SnapshotRestored == Spec => []RestoreIsSnapshot
BY SnapshotThere, Inductive, PTL

\* Filters on tables and partition roots select the same tables anywhere in a
\* chain, and a leaf brings the definition of its root.
THEOREM FilterRespected == Spec => []FilteredRestore
<1>1. ASSUME IInv
      PROVE  FilteredRestore
  <2> SUFFICES ASSUME NEW b \in Timestamps, Restorable(b),
                      NEW F \in SUBSET
                        (Tables \cup (Range(PartitionRoot) \ {NoRoot}))
               PROVE  LET named == {t \in dataset[b] : t \in F \/
                      PartitionRoot[t] \in F}
                      IN  /\ F # {} => RestoredTables(b, F, {}, FALSE) = named
                          /\ RestoredTables(b, {}, F,
                               FALSE) = dataset[b] \ named
                          /\ \A t \in F \cap dataset[b] :
                               PartitionRoot[t] # NoRoot =>
                                 PartitionRoot[t] \in IncludedPartitionRoots(b,
                                   F)
    BY DEF FilteredRestore
  <2> USE <1>1
  <2> DEFINE named == {t \in dataset[b] : t \in F \/ PartitionRoot[t] \in F}
  <2>1. NoRoot \notin F
    BY PartitionAssumption
  <2>2. \A t : Named(F, t) <=> t \in F \/ PartitionRoot[t] \in F
    BY <2>1 DEF Named
  <2>3. ASSUME F # {}
        PROVE  RestoredTables(b, F, {}, FALSE) = named
    <3>1. RestoredTables(b, F, {},
            FALSE) = {t \in dataset[b] : Passes(F, {}, t)}
      BY Touched
    <3>2. \A t : Passes(F, {}, t) <=> t \in F \/ PartitionRoot[t] \in F
      BY <2>2, <2>3 DEF Passes
    <3> QED
      BY <3>1, <3>2
  <2>4. RestoredTables(b, {}, F, FALSE) = dataset[b] \ named
    <3>1. RestoredTables(b, {}, F,
            FALSE) = {t \in dataset[b] : Passes({}, F, t)}
      BY Touched
    <3>2. \A t : Passes({}, F, t) <=> ~(t \in F \/ PartitionRoot[t] \in F)
      BY <2>2 DEF Passes
    <3> QED
      BY <3>1, <3>2
  <2>5. ASSUME NEW t \in F \cap dataset[b], PartitionRoot[t] # NoRoot
        PROVE  PartitionRoot[t] \in IncludedPartitionRoots(b, F)
    <3>1. PICK c \in DOMAIN plan[b] : t \in plan[b][c]
      BY <2>5 DEF IInv, PlanInv
    <3>2. t \in DOMAIN data[c]
      BY <3>1, PlanSupplied
    <3> QED
      BY <2>5, <3>1, <3>2 DEF IncludedPartitionRoots
  <2> QED
    BY <2>3, <2>4, <2>5
<1> QED
  BY <1>1, Inductive, PTL

\* gprestore --incremental takes a database from the base to the backup.
THEOREM IncrementalRestored == Spec => []IncrementalRestoreAdvances
<1>1. ASSUME IInv
      PROVE  IncrementalRestoreAdvances
  <2> SUFFICES ASSUME NEW b \in Timestamps, base[b] # NoBase, Restorable(b),
                      Restorable(base[b]),
                      IncrementalStateVerified(b, dataset[base[b]]),
                      NEW t \in dataset[b]
               PROVE  /\ t \in dataset[base[b]]
                      /\ RestoredOnto(b, ContentOf(base[b]))[t]
                           = ContentSeen(b, t)
    BY DEF IncrementalRestoreAdvances
  <2> USE <1>1
  <2>1. t \in dataset[base[b]]
    BY DEF IncrementalStateVerified, IInv, BaseInv
  <2>2. RestoredOnto(b, ContentOf(base[b]))[t]
          = IF t \in RestoredTables(b, {}, {}, TRUE) THEN
            RestoredContent(b, t, TRUE)
            ELSE ContentSeen(base[b], t)
    BY <2>1 DEF RestoredOnto, ContentOf
  <2>3. b \in DOMAIN plan[b] /\ t \in Tables
    BY DEF IInv, PlanInv, TypeOK
  <2>4. RestoredFrom(b, t, {}, {}, TRUE) =
          IF t \in BackupSet(b) THEN {b} ELSE {}
    <3>1. t \in DataEntriesMatching(b, {}, {}, plan[b][b]) <=> t \in plan[b][b]
      BY <2>3, PlanSupplied, Matching, AllPass
    <3> QED
      BY <2>3, <3>1 DEF RestoredFrom, RestorePlanEntries, BackupSet
  <2>5. CASE t \in BackupSet(b)
    <3>1. RestoredFrom(b, t, {}, {}, TRUE) = {b}
      BY <2>4, <2>5
    <3>2. (CHOOSE c \in {b} : TRUE) = b
      OBVIOUS
    <3>3. RestoredContent(b, t, TRUE) = data[b][t]
      BY <3>1, <3>2 DEF RestoredContent
    <3>4. data[b][t] = ContentSeen(b, t)
      BY <2>3, <2>5, PlanSupplied DEF BackupSet
    <3> QED
      BY <2>2, <2>3, <3>1, <3>3, <3>4, <2>1 DEF RestoredTables
  <2>6. CASE t \notin BackupSet(b)
    <3>1. t \notin RestoredTables(b, {}, {}, TRUE)
      BY <2>4, <2>6 DEF RestoredTables
    <3>2. ContentSeen(base[b], t) = ContentSeen(b, t)
      BY <2>6 DEF IInv, BaseInv
    <3> QED
      BY <2>1, <2>2, <3>1, <3>2
  <2> QED
    BY <2>5, <2>6
<1> QED
  BY <1>1, Inductive, PTL

-----------------------------------------------------------------------------
(* The refinement of Archive                                               *)

\* Who makes files appear and disappear, and when a backup has begun.
LEMMA FileSteps ==
  ASSUME TypeOK, DomainsInv, [Next]_vars, NEW x \in Timestamps
  PROVE  /\ configFile'[x] /\ ~configFile[x] => WriteConfig(x)
         /\ (\A y \in Timestamps : ~Delete(y)) /\ pc[x] \in Late =>
              tocFile'[x] = tocFile[x] /\ (configFile[x] => configFile'[x])
         /\ pc'[x] = "none" => pc[x] = "none" /\ snap'[x] = snap[x]
         /\ pc[x] = "none" => DoSetup(x) \/ pc'[x] = "none"
         /\ pc[x] # "none" => snap'[x] = snap[x]
<1> DEFINE Kept ==
          /\ configFile'[x] /\ ~configFile[x] => WriteConfig(x)
          /\ (\A y \in Timestamps : ~Delete(y)) /\ pc[x] \in Late =>
               tocFile'[x] = tocFile[x] /\ (configFile[x] => configFile'[x])
          /\ pc'[x] = "none" => pc[x] = "none" /\ snap'[x] = snap[x]
          /\ pc[x] = "none" => DoSetup(x) \/ pc'[x] = "none"
          /\ pc[x] # "none" => snap'[x] = snap[x]
<1>1. /\ pc \in [Timestamps -> Running \cup {"none", "ended"}]
      /\ DOMAIN tocFile = Timestamps /\ DOMAIN configFile = Timestamps
      /\ DOMAIN snap = Timestamps
  BY DEF TypeOK, DomainsInv
<1> USE DEF Late, Running, envVars, dbVars, fileVars, processVars
<1>2. ASSUME NEW b \in Timestamps, DoSetup(b)
      PROVE  Kept
  BY <1>1, <1>2 DEF DoSetup, GoTo
<1>3. ASSUME NEW b \in Timestamps, GetTargetBackupTimestamp(b)
      PROVE  Kept
  BY <1>1, <1>3 DEF GetTargetBackupTimestamp, GoTo
<1>4. ASSUME NEW b \in Timestamps, PlanBackup(b)
      PROVE  Kept
  BY <1>1, <1>4 DEF PlanBackup, GoTo
<1>5. ASSUME NEW b \in Timestamps, BackupTableData(b)
      PROVE  Kept
  BY <1>1, <1>5 DEF BackupTableData, GoTo
<1>6. ASSUME NEW b \in Timestamps, WriteTOC(b)
      PROVE  Kept
  BY <1>1, <1>6 DEF WriteTOC, GoTo
<1>7. ASSUME NEW b \in Timestamps, Fail(b)
      PROVE  Kept
  BY <1>1, <1>7 DEF Fail, GoTo, Fault
<1>8. ASSUME NEW b \in Timestamps, WriteConfig(b)
      PROVE  Kept
  BY <1>1, <1>8 DEF WriteConfig, GoTo, Fault
<1>9. ASSUME NEW b \in Timestamps, UpdateHistory(b)
      PROVE  Kept
  BY <1>1, <1>9 DEF UpdateHistory, GoTo, Fault
<1>10. ASSUME NEW b \in Timestamps, Terminate(b)
      PROVE  Kept
  BY <1>1, <1>10 DEF Terminate, GoTo, Fault
<1>11. ASSUME NEW b \in Timestamps, Kill(b)
      PROVE  Kept
  BY <1>1, <1>11 DEF Kill, GoTo, Fault
<1>12. ASSUME NEW b \in Timestamps, Delete(b)
      PROVE  Kept
  BY <1>1, <1>12 DEF Delete, Fault
<1>13. ASSUME NEW t \in Tables, Modify(t)
      PROVE  Kept
  BY <1>1, <1>13 DEF Modify, ChangeTo
<1>14. ASSUME NEW t \in Tables, Recreate(t)
      PROVE  Kept
  BY <1>1, <1>14 DEF Recreate, ChangeTo, Hide
<1>15. ASSUME NEW t \in Tables, Drop(t)
      PROVE  Kept
  BY <1>1, <1>15 DEF Drop, ChangeTo, Hide
<1>16. ASSUME NEW t \in Tables, Create(t)
      PROVE  Kept
  BY <1>1, <1>16 DEF Create, ChangeTo
<1>17. ASSUME UNCHANGED vars
      PROVE  Kept
  BY <1>1, <1>17 DEF vars
<1> QED
  BY <1>2, <1>3, <1>4, <1>5, <1>6, <1>7, <1>8, <1>9, <1>10, <1>11, <1>12,
     <1>13, <1>14, <1>15, <1>16, <1>17 DEF Next, Gpbackup

\* The archive of a restorable backup is what it saw of its tables.
LEMMA ArchiveIs ==
  ASSUME IInv, NEW b \in Timestamps
  PROVE  archive[b] = IF Restorable(b) THEN {ContentOf(b)} ELSE {}
<1> SUFFICES ASSUME Restorable(b)
             PROVE  [t \in RestoredTables(b, {}, {}, FALSE) |->
                       RestoredContent(b, t, FALSE)] = ContentOf(b)
  BY DEF archive
<1> QED
  BY SnapshotThere DEF RestoreIsSnapshot, ContentOf

\* A backup becomes restorable by its config file alone.
LEMMA RestorableSteps ==
  ASSUME IInv, [Next]_vars, NEW x \in Timestamps
  PROVE  /\ Restorable(x) => ContentOf(x)' = ContentOf(x)
         /\ Restorable(x)' /\ ~Restorable(x) => WriteConfig(x)
         /\ Restorable(x) /\ ~Restorable(x)' => \E y \in Timestamps : Delete(y)
<1> USE DEF IInv
<1>1. \A y \in Timestamps : pc[y] \in Late => pc[y] \notin Early
  BY DEF Late, Early, Unlocked
<1>2. ASSUME pc[x] \in Late
      PROVE  /\ plan'[x] = plan[x] /\ dataset'[x] = dataset[x]
             /\ \A t : ContentSeen(x, t)' = ContentSeen(x, t)
             /\ \A c \in DOMAIN plan[x] : c \in Timestamps /\ pc[c] \in Late
  <2>1. /\ plan'[x] = plan[x] /\ dataset'[x] = dataset[x]
        /\ \A t : ContentSeen(x, t)' = ContentSeen(x, t)
    BY <1>1, <1>2, Frozen, SeenStays
  <2>2. DOMAIN plan[x] \subseteq Timestamps
    BY DEF TypeOK, IsPartial
  <2>3. \A c \in DOMAIN plan[x] \ {x} : pc[c] \in Late
    BY DEF PlanInv
  <2> QED
    BY <1>2, <2>1, <2>2, <2>3
<1>3. ASSUME Restorable(x)
      PROVE  ContentOf(x)' = ContentOf(x)
  <2>1. pc[x] \in Late
    BY <1>3 DEF Restorable, FilesInv
  <2> QED
    BY <1>2, <2>1 DEF ContentOf
<1>4. ASSUME Restorable(x)', ~WriteConfig(x)
      PROVE  Restorable(x)
  <2>1. configFile[x] /\ pc[x] \in Late
    BY <1>4, FileSteps DEF Restorable, FilesInv
  <2>2. tocFile[x] /\ \A c \in DOMAIN plan[x] : tocFile[c]
    BY <1>2, <1>4, <2>1, LateStable DEF Restorable
  <2> QED
    BY <2>1, <2>2 DEF Restorable
<1>5. ASSUME Restorable(x), \A y \in Timestamps : ~Delete(y)
      PROVE  Restorable(x)'
  <2>1. configFile[x] /\ pc[x] \in Late
    BY <1>5 DEF Restorable, FilesInv
  <2>2. configFile'[x] /\ tocFile'[x] /\ \A c \in DOMAIN plan[x] : tocFile'[c]
    BY <1>2, <1>5, <2>1, FileSteps DEF Restorable
  <2> QED
    BY <1>2, <2>1, <2>2 DEF Restorable
<1> QED
  BY <1>3, <1>4, <1>5

\* A database is one for Archive, too.
LEMMA RowsTyped == ASSUME TypeOK
                   PROVE  DOMAIN rows \subseteq Tables
                          /\ \A t \in DOMAIN rows : rows[t] \in Ticks
BY DEF TypeOK, rows, IsPartial, TableState

\* A step writes the config of one backup, begins one or deletes one.
LEMMA OneAtATime ==
  ASSUME TypeOK, NEW b \in Timestamps
  PROVE  /\ DoSetup(b) => \A y \in Timestamps : ~Delete(y) /\ ~WriteConfig(y)
         /\ WriteConfig(b) => \A y \in Timestamps :
              ~Delete(y) /\ ~DoSetup(y) /\ (y # b => ~WriteConfig(y))
         /\ Delete(b) => \A y \in Timestamps : ~DoSetup(y) /\ ~WriteConfig(y)
<1>1. DOMAIN pc = Timestamps
  BY DEF TypeOK
<1>2. \A y \in Timestamps :
        /\ DoSetup(y) => pc[y] = "none" /\ pc' = [pc EXCEPT ![y] = "setup"]
        /\ WriteConfig(y) =>
             /\ pc[y] \in {"written", "failing"}
             /\ \E p \in {"updating", "updatingFailure"} :
                  pc' = [pc EXCEPT ![y] = p]
        /\ Delete(y) => pc' = pc
  BY DEF DoSetup, WriteConfig, Delete, GoTo, processVars
<1>3. \A y \in Timestamps :
        /\ DoSetup(y) => /\ pc[y] = "none" /\ pc'[y] = "setup"
                         /\ \A z \in Timestamps \ {y} : pc'[z] = pc[z]
        /\ WriteConfig(y) => /\ pc[y] \in {"written", "failing"}
                             /\ pc'[y] \in {"updating", "updatingFailure"}
                             /\ \A z \in Timestamps \ {y} : pc'[z] = pc[z]
        /\ Delete(y) => pc' = pc
  BY <1>1, <1>2
<1> QED
  BY <1>3

\* The archives of an invariant state.
LEMMA ArchivesAre == IInv => \A x \in Timestamps :
                       archive[x] = IF Restorable(x) THEN {ContentOf(x)} ELSE {}
BY ArchiveIs

\* The rows of a typed state.
LEMMA RowsAre == TypeOK => /\ DOMAIN rows \subseteq Tables
                           /\ \A t \in DOMAIN rows : rows[t] \in Ticks
BY RowsTyped

\* Every step is a step of Archive or leaves it alone.
LEMMA PromiseStep == IInv /\ [Next]_vars => [Promise!Next]_(Promise!vars)
<1> SUFFICES ASSUME IInv, [Next]_vars
             PROVE  [Promise!Next]_(Promise!vars)
  OBVIOUS
<1>1. /\ IInv' /\ TypeOK /\ DomainsInv /\ TypeOK'
  BY IInvStep DEF IInv
<1>2. \A x \in Timestamps :
        archive[x] = IF Restorable(x) THEN {ContentOf(x)} ELSE {}
  BY ArchiveIs
<1>3. (\A x \in Timestamps :
         archive[x] = IF Restorable(x) THEN {ContentOf(x)} ELSE {})'
  BY <1>1, ArchivesAre, PTL
<1>4. /\ archive = [x \in Timestamps |-> archive[x]]
      /\ archive' = [x \in Timestamps |-> archive'[x]]
  BY DEF archive
<1>5. ASSUME NEW x \in Timestamps
      PROVE  \/ archive'[x] = archive[x]
             \/ archive'[x] = {} /\ \E y \in Timestamps : Delete(y)
             \/ WriteConfig(x) /\ archive[x] = {} /\
                  archive'[x] = {ContentOf(x)'}
  BY <1>2, <1>3, RestorableSteps
<1>6. ASSUME \A x \in Timestamps : ~DoSetup(x)
      PROVE  seen' = seen
  <2>1. \A x \in Timestamps :
          /\ pc'[x] = "none" <=> pc[x] = "none"
          /\ pc[x] # "none" => snap'[x] = snap[x]
    BY <1>1, <1>6, FileSteps
  <2> QED
    BY <2>1 DEF seen
<1>7. ASSUME NEW b \in Timestamps, DoSetup(b)
      PROVE  Promise!Begin(b)
  <2>1. UNCHANGED rows
    BY <1>7 DEF DoSetup, rows, envVars, dbVars
  <2>2. \A x \in Timestamps : archive'[x] = archive[x]
    BY <1>1, <1>5, <1>7, OneAtATime
  <2>3. seen[b] = {}
    BY <1>7 DEF DoSetup, seen
  <2>4. seen' = [seen EXCEPT ![b] = {rows}]
    <3>1. \A x \in Timestamps :
            /\ pc'[x] = IF x = b THEN "setup" ELSE pc[x]
            /\ snap'[x] = IF x = b THEN db ELSE snap[x]
      BY <1>1, <1>7 DEF DoSetup, GoTo, TypeOK, DomainsInv
    <3> QED
      BY <3>1 DEF seen, rows
  <2> QED
    BY <1>4, <2>1, <2>2, <2>3, <2>4 DEF Promise!Begin
<1>8. ASSUME NEW b \in Timestamps, WriteConfig(b)
      PROVE  UNCHANGED Promise!vars \/ Promise!Finish(b)
  <2>1. UNCHANGED rows
    BY <1>8 DEF WriteConfig, rows, dbVars
  <2>2. UNCHANGED seen
    BY <1>1, <1>6, <1>8, OneAtATime
  <2>3. \A x \in Timestamps \ {b} : archive'[x] = archive[x]
    BY <1>1, <1>5, <1>8, OneAtATime
  <2>4. CASE archive'[b] = archive[b]
    BY <1>4, <2>1, <2>2, <2>3, <2>4 DEF Promise!vars
  <2>5. CASE archive[b] = {} /\ archive'[b] = {ContentOf(b)'}
    <3> DEFINE d == [t \in DOMAIN snap[b] |-> snap[b][t].content]
    <3>1. seen[b] = {d}
      BY <1>8 DEF WriteConfig, seen
    <3>2. UNCHANGED <<dataset, snap, replaced>>
      BY <1>8 DEF WriteConfig
    <3>3. ContentOf(b)' = ContentOf(b)
      BY <3>2 DEF ContentOf, ContentSeen
    <3>4. dataset[b] \subseteq DOMAIN snap[b] /\ dataset[b] \subseteq Tables
          /\ replaced[b] \subseteq Tables
      BY DEF IInv, FilesInv, TypeOK, TablesOf
    <3>5. ContentOf(b)
            = [t \in dataset[b] |-> IF t \in replaced[b] THEN Empty ELSE d[t]]
      BY <3>4 DEF ContentOf, ContentSeen
    <3> HIDE DEF d
    <3>6. archive' = [archive EXCEPT ![b] = {ContentOf(b)}]
      BY <1>4, <2>3, <2>5, <3>3
    <3>7. DOMAIN d = DOMAIN snap[b]
      BY DEF d
    <3>8. \E S, Truncated \in SUBSET Tables :
            /\ S \subseteq DOMAIN d
            /\ archive' = [archive EXCEPT
                 ![b] = {[t \in S |-> IF t \in Truncated THEN Empty ELSE d[t]]}]
      <4> USE <3>4
      <4> WITNESS dataset[b] \in SUBSET Tables, replaced[b] \in SUBSET Tables
      <4> QED
        BY <3>5, <3>6, <3>7
    <3> QED
      BY <2>1, <2>2, <2>5, <3>1, <3>8 DEF Promise!Finish
  <2> QED
    BY <1>1, <1>5, <1>8, <2>4, <2>5, OneAtATime
<1>9. ASSUME NEW b \in Timestamps, Delete(b)
      PROVE  UNCHANGED Promise!vars \/
             \E B \in SUBSET Timestamps : Promise!Lose(B)
  <2> DEFINE lost == {x \in Timestamps : archive'[x] # archive[x]}
  <2>1. UNCHANGED rows
    BY <1>9 DEF Delete, rows, dbVars
  <2>2. UNCHANGED seen
    BY <1>1, <1>6, <1>9, OneAtATime
  <2>3. \A x \in Timestamps : ~WriteConfig(x)
    BY <1>1, <1>9, OneAtATime
  <2>4. archive' = [x \in Timestamps |-> IF x \in lost THEN {} ELSE archive[x]]
    BY <1>4, <1>5, <2>3
  <2>5. CASE lost = {}
    BY <1>4, <2>1, <2>2, <2>4, <2>5 DEF Promise!vars
  <2>6. CASE lost # {}
    BY <2>1, <2>2, <2>4, <2>6 DEF Promise!Lose
  <2> QED
    BY <2>5, <2>6
<1>10. ASSUME \A x \in Timestamps : ~DoSetup(x) /\ ~WriteConfig(x) /\ ~Delete(x)
       PROVE  Promise!Change
  <2>1. UNCHANGED <<seen, archive>>
    BY <1>4, <1>5, <1>6, <1>10
  <2>2. (/\ DOMAIN rows \subseteq Tables
         /\ \A t \in DOMAIN rows : rows[t] \in Ticks)'
    BY <1>1, RowsAre, PTL
  <2> QED
    BY <2>1, <2>2 DEF Promise!Change, Promise!IsDatabase
<1> QED
  BY <1>7, <1>8, <1>9, <1>10 DEF Promise!Next

\* The files of all backups together keep what they promise: a step of any
\* process never alters an archive that is there.
THEOREM ArchivesKept == Spec => KeepsArchive
<1>1. Init => Promise!Init
  <2> SUFFICES ASSUME Init
               PROVE  Promise!Init
    OBVIOUS
  <2>1. TypeOK
    BY IInvInit DEF IInv
  <2>2. seen = [b \in Timestamps |-> {}]
    BY DEF Init, seen
  <2>3. archive = [b \in Timestamps |-> {}]
    BY DEF Init, archive, Restorable
  <2> QED
    BY <2>1, <2>2, <2>3, RowsTyped DEF Promise!Init, Promise!IsDatabase
<1> QED
  BY <1>1, PromiseStep, Inductive, PTL DEF Spec, KeepsArchive, Promise!Spec

==============================================================================
