-------------------------- MODULE CheckMigrateProofs --------------------------
(***************************************************************************)
(* Proofs about CheckMigrate, for any clusters and any number of           *)
(* statements and connections that fail: the exit code tells what the      *)
(* checks found, and whether all of them were made.                        *)
(***************************************************************************)
EXTENDS CheckMigrate, FiniteSetTheorems, TLAPS

-----------------------------------------------------------------------------
(* The inductive invariant                                                 *)

\* The databases in the order in which they are checked.
Order == IF world.database = None THEN world.databases ELSE <<world.database>>
Gone  == Len(Order) - Len(left)

\* The names of databases there may be.
Databases == UNION {ToSet(w.databases) : w \in Worlds}

\* A check finds something in a database.
Finds(db, c) == IF c = checkRequiredLibraries
                THEN ToSet(world.libraries[db]) \cap world.refused # {}
                ELSE Results(db, c) # {}
Verdict(l)   == IF l \in world.refused THEN "missing" ELSE "present"

\* Stages of a database, and those of one check in it.
Checking   == {"query", "libraries", "reset"}
Counting   == {"check", "query", "libraries", "reset"}
InDatabase == {"begin-setup", "setup", "check", "query", "libraries", "reset",
               "recover-check", "rollback", "close"}
Looping    == {"database", "begin-setup", "setup", "check", "query",
               "libraries", "reset", "recover-check", "rollback", "close"}

Sessions == [db : Databases \cup {None}, up : BOOLEAN,
             tx : {"none", "open", "aborted"}, trackCounts : BOOLEAN]
Counts == [completed : Nat, failed : Nat, unavailable : Nat, findings : Nat]

CountsInv == summary \in Counts /\ totals \in Counts
TypesInv ==
  /\ world \in Worlds
  /\ failures \in Nat
  /\ found \in Nat
  /\ check \in Nat
  /\ pc = "setup" \/ pc = "recover-check" \/ pc \in Counting => check > 0

\* The session is sound wherever a statement is about to run.
SessionInv ==
  /\ conn \in Sessions
  /\ pc = "begin-setup" => conn.up /\ conn.tx = "none"
  /\ pc = "setup" \/ pc \in Counting => conn.up /\ conn.tx = "open"
  /\ pc \in {"begin-setup", "setup", "check"} => conn.trackCounts

\* Whatever went wrong was a failure; a failed check had one of its own.
FailedInv ==
  /\ summary.failed + totals.failed <= failures
  /\ pc = "recover-check" /\ checkError = "failed" =>
       summary.failed + totals.failed + 1 <= failures
ErrorInv ==
  /\ dbError => failures > 0
  /\ executionError => failures > 0
  /\ targetUp = "lost" => failures > 0
  /\ pc = "recover-check" => failures > 0 /\ checkError \in {"failed", "target"}
  /\ pc \in InDatabase /\ ~conn.up => failures > 0

\* With --target-host there is a session to load libraries in.
TargetInv ==
  /\ targetUp \in {"none", "up", "lost"}
  /\ pc \in Looping \cup {"enumerate"} /\ Target => targetUp # "none"

\* The databases left are the last ones, and the first of them is at hand.
LoopInv ==
  pc \in Looping =>
    /\ left \in Seq(Databases) /\ Gone \in Nat
    /\ \A i \in 1..Len(left) : left[i] = Order[Gone + i]
    /\ pc \in InDatabase => left # <<>> /\ conn.db = Head(left)

\* The check at hand is one of the plan.
RangeInv ==
  /\ pc = "check" => check <= Len(Plan) + 1
  /\ pc \in Checking \cup {"recover-check"} => check <= Len(Plan)

\* The LOAD results are those the target gives.
CacheInv ==
  /\ DOMAIN isLibraryMissing = Libraries
  /\ \A l \in Libraries : isLibraryMissing[l] \in {None, Verdict(l)}

\* What the check at hand has found: the libraries it has still to look at are
\* the last ones.
Loaded == Len(world.libraries[conn.db]) - Len(loading)
FoundInv ==
  /\ pc = "query" => found = 0
  /\ pc = "libraries" =>
       /\ Current = checkRequiredLibraries
       /\ loading \in Seq(Libraries) /\ Loaded \in Nat
       /\ \A i \in 1..Len(loading) :
            loading[i] = world.libraries[conn.db][Loaded + i]
       /\ found = 0 <=> \A i \in 1..Loaded :
            world.libraries[conn.db][i] \notin world.refused
  /\ pc = "reset" => (found = 0 <=> ~Finds(conn.db, Current))

\* What the checks so far have found in the database at hand, as long as no
\* error is known.
Prepared(n) == \A i \in 1..n : SetupQueries[i] \in capabilities
Tallied ==
  /\ summary.completed = check - 1
  /\ summary.failed = 0 /\ summary.unavailable = 0
  /\ summary.findings = 0 <=> \A i \in 1..(check - 1) : ~Finds(conn.db, Plan[i])
SetupInv ==
  /\ pc = "begin-setup" => summary = NoCounts
  /\ ~dbError /\ pc = "setup" =>
       summary = NoCounts /\ check <= Len(SetupQueries) + 1 /\
         Prepared(check - 1)
CheckInv ==
  ~dbError /\ pc \in Counting \cup {"rollback", "close"} =>
    /\ Prepared(Len(SetupQueries))
    /\ Tallied
    /\ pc \in {"rollback", "close"} => check = Len(Plan) + 1

\* The counts of the databases that are done, as long as no error is known.
Before == {"flags", "connect", "target", "enumerate"}
TotalsInv ==
  /\ pc \in Before => totals = NoCounts
  /\ pc \in Looping /\ ~executionError =>
       /\ totals.completed = Gone * Len(Plan)
       /\ totals.failed = 0 /\ totals.unavailable = 0
       /\ totals.findings = 0 <=> \A i \in 1..Gone : ~ProblemIn(Order[i])

\* Before the loop; only the handler acts after a signal.
StartInv ==
  /\ handler # "waiting" => wasTerminated
  /\ pc = "target" => world.sourceVersion = 6
  /\ pc \in {"target", "enumerate"} /\ world.database # None =>
       bootstrap = world.database

\* What a code says of a run that nobody terminates.
Clean == \A db \in Checked : ~ProblemIn(db)
Means(code) ==
  /\ code \in 0..5
  /\ code \in {0, 1} => EverythingCompleted
  /\ code = 0 => Clean
  /\ code = 1 => ~Clean
  /\ code = 2 => world.sourceVersion # 6
  /\ code = 3 => world.sourceVersion = 6 /\ world.targetVersion # 7
  /\ code = 4 => ~(ValidateFlagCombinations /\ world.knownFlags)
  /\ code = 5 => failures > 0

\* Without a signal nothing is closed before the end, so that main does not
\* panic on a connection, and the code main ends with is right.
CodeInv ==
  ~wasTerminated =>
    /\ pc # "exit" => closed = {}
    /\ pc = "recover" => errorCode = 4 /\ Means(errorCode)
    /\ pc \in {"teardown", "exit"} => Means(errorCode)
    /\ exitCode # -1 => Means(exitCode)

IInv == CountsInv /\ TypesInv /\ SessionInv /\ FailedInv /\ ErrorInv
        /\ TargetInv /\ LoopInv /\ RangeInv /\ CacheInv /\ FoundInv
        /\ SetupInv /\ CheckInv /\ TotalsInv /\ StartInv /\ CodeInv
-----------------------------------------------------------------------------
(* The steps, and what does not change with them                           *)

\* The signal handler and steps that change nothing.
Aside == UNCHANGED <<world, pc, bootstrap, targetUp, checkVars, dbVars,
  failures>>

\* Steps of main outside of the loop over the databases.
Leaves == /\ pc' \notin Looping
          /\ UNCHANGED <<world, checkVars, dbVars>>
          /\ failures' \in Nat /\ failures' >= failures
          /\ targetUp' = "lost" => targetUp = "lost"

\* The steps of the loop.
Looped == \/ EnumerateDatabases \/ ConnectToDatabase
          \/ BeginSetup \/ SetUpCapability \/ BeginChecks
          \/ SkipCheck \/ StartCheck \/ RunQuery \/ LoadLibrary
          \/ LibrariesChecked \/ FinishCheck \/ RecoverCheck \/ PlanDone
          \/ RollbackChecks \/ CountDatabase

\* A panic leaves the loop.
LEMMA PanicLeaves == ASSUME failures \in Nat, Panic
                     PROVE  Leaves
BY DEF Panic, Leaves, Looping, InDatabase, Counting, Checking,
   checkVars, dbVars, endVars

\* The steps that panic.
LEMMA PanicSteps ==
  ASSUME NEW p, Panics(p) \/ PanicInCheck \/ PanicOnTarget \/ PanicInEnumerate
  PROVE  Panic
BY DEF Panics, PanicInCheck, PanicOnTarget, PanicInEnumerate

\* Every step is of one of the three kinds.
LEMMA StepKinds ==
  ASSUME IInv, [Next]_vars
  PROVE  Aside \/ Leaves \/ Looped
<1> failures \in Nat
  BY DEF IInv, TypesInv
<1> DEFINE Grown == /\ failures' \in Nat /\ failures' >= failures
                    /\ targetUp' = "lost" => targetUp = "lost"
<1>1. CASE Signal
  BY <1>1 DEF Signal, Aside
<1>2. CASE HandlerCleansUp
  BY <1>2 DEF HandlerCleansUp, Aside
<1>3. CASE HandlerExits
  BY <1>3 DEF HandlerExits, Aside
<1>4. CASE Stopped
  BY <1>4 DEF Stopped, vars, Aside
<1>5. CASE UNCHANGED vars
  BY <1>5 DEF vars, Aside
<1>6. CASE DoFlagValidation
  <2>1. pc' \notin Looping
    BY <1>6 DEF DoFlagValidation, At, Looping, InDatabase, Counting, Checking
  <2>2. UNCHANGED <<world, checkVars, dbVars>>
    BY <1>6 DEF DoFlagValidation
  <2>3. Grown
    BY <1>6 DEF DoFlagValidation, At
  <2> QED
    BY <2>1, <2>2, <2>3 DEF Leaves
<1>7. CASE CreateSourceConnection
  <2>1. pc' \notin Looping
    BY <1>7 DEF CreateSourceConnection, At, Looping, InDatabase, Counting,
       Checking
  <2>2. UNCHANGED <<world, checkVars, dbVars>>
    BY <1>7 DEF CreateSourceConnection
  <2>3. Grown
    BY <1>7, MaxFailuresAssumption DEF CreateSourceConnection, At
  <2> QED
    BY <2>1, <2>2, <2>3 DEF Leaves
<1>8. CASE CreateTargetConnection
  <2>1. pc' \notin Looping
    BY <1>8 DEF CreateTargetConnection, At, Fails, Looping, InDatabase,
       Counting, Checking
  <2>2. UNCHANGED <<world, checkVars, dbVars>>
    BY <1>8 DEF CreateTargetConnection
  <2>3. Grown
    BY <1>8 DEF CreateTargetConnection, At, Fails
  <2> QED
    BY <2>1, <2>2, <2>3 DEF Leaves
<1>9. CASE Summarize
  <2>1. pc' \notin Looping
    BY <1>9 DEF Summarize, At, Looping, InDatabase, Counting, Checking
  <2>2. UNCHANGED <<world, checkVars, dbVars>>
    BY <1>9 DEF Summarize
  <2>3. Grown
    BY <1>9 DEF Summarize, At
  <2> QED
    BY <2>1, <2>2, <2>3 DEF Leaves
<1>10. CASE Recover
  <2>1. pc' \notin Looping
    BY <1>10 DEF Recover, At, Looping, InDatabase, Counting, Checking
  <2>2. UNCHANGED <<world, checkVars, dbVars>>
    BY <1>10 DEF Recover
  <2>3. Grown
    BY <1>10 DEF Recover, At
  <2> QED
    BY <2>1, <2>2, <2>3 DEF Leaves
<1>11. CASE Teardown
  <2>1. pc' \notin Looping
    BY <1>11 DEF Teardown, At, Looping, InDatabase, Counting, Checking
  <2>2. UNCHANGED <<world, checkVars, dbVars>>
    BY <1>11 DEF Teardown
  <2>3. Grown
    BY <1>11 DEF Teardown, At
  <2> QED
    BY <2>1, <2>2, <2>3 DEF Leaves
<1>12. CASE Exit
  <2>1. pc' \notin Looping
    BY <1>12 DEF Exit, At, Looping, InDatabase, Counting, Checking
  <2>2. UNCHANGED <<world, checkVars, dbVars>>
    BY <1>12 DEF Exit
  <2>3. Grown
    BY <1>12 DEF Exit, At
  <2> QED
    BY <2>1, <2>2, <2>3 DEF Leaves
<1>13. CASE PanicInEnumerate \/ PanicOnTarget \/ PanicInCheck \/
         \E p : Panics(p)
  BY <1>13, PanicSteps, PanicLeaves
<1>14. CASE Looped
  BY <1>14
<1> QED
  BY <1>1, <1>2, <1>3, <1>4, <1>5, <1>6, <1>7, <1>8, <1>9, <1>10, <1>11, <1>12,
     <1>13, <1>14 DEF Next, Main, Statement, Looped

\* The clusters and the command line stay what they are.
LEMMA WorldSame ==
  ASSUME IInv, [Next]_vars
  PROVE  world' = world
BY StepKinds DEF Aside, Leaves, Looped, EnumerateDatabases, ConnectToDatabase,
   BeginSetup, SetUpCapability, BeginChecks, SkipCheck, StartCheck, RunQuery,
   LoadLibrary, LibrariesChecked, FinishCheck, RecoverCheck, PlanDone,
   RollbackChecks, CountDatabase

\* And with them what is to be checked, and what there is to be found.
LEMMA Same ==
  ASSUME IInv, [Next]_vars
  PROVE  /\ Order' = Order /\ Plan' = Plan /\ Checked' = Checked
         /\ \A db, c : Finds(db, c)' = Finds(db, c)
         /\ \A db : ProblemIn(db)' = ProblemIn(db)
         /\ \A l : Verdict(l)' = Verdict(l)
BY WorldSame DEF Order, Plan, Checked, Finds, Results, ProblemIn, Verdict,
   Target, Flag

\* What a concatenation holds.
LEMMA Concatenation ==
  ASSUME NEW S, NEW s \in Seq(S), NEW u \in Seq(S)
  PROVE  /\ Len(s \o u) = Len(s) + Len(u)
         /\ \A i \in 1..Len(s) : (s \o u)[i] = s[i]
         /\ \A i \in 1..Len(u) : (s \o u)[Len(s) + i] = u[i]
<1>1. Len(s \o u) = Len(s) + Len(u)
  OBVIOUS
<1>2. \A i \in 1..Len(s) : (s \o u)[i] = s[i]
  OBVIOUS
<1>3. \A i \in 1..Len(u) : (s \o u)[Len(s) + i] = u[i]
  OBVIOUS
<1> QED
  BY <1>1, <1>2, <1>3

\* The checks of a plan.
LEMMA PlanFacts ==
  /\ Len(databaseChecks) = 11 /\ DOMAIN databaseChecks = 1..11
  /\ Len(Plan) = IF Target THEN 12 ELSE 11
  /\ \A i \in 1..11 : Plan[i] = databaseChecks[i]
  /\ Target => Plan[12] = checkRequiredLibraries
<1>1. Len(databaseChecks) = 11 /\ DOMAIN databaseChecks = 1..11
  BY DEF databaseChecks
<1> DEFINE S == {databaseChecks[i] : i \in 1..11} \cup {checkRequiredLibraries}
           last == <<checkRequiredLibraries>>
<1>2. databaseChecks \in Seq(S)
  BY DEF databaseChecks
<1>3. last \in Seq(S) /\ Len(last) = 1 /\ last[1] = checkRequiredLibraries
  OBVIOUS
<1> HIDE DEF S, last
<1>4. CASE Target
  <2>1. Plan = databaseChecks \o last
    BY <1>4 DEF Plan, last
  <2>2. /\ Len(databaseChecks \o last) = Len(databaseChecks) + Len(last)
        /\ \A i \in 1..Len(databaseChecks) :
             (databaseChecks \o last)[i] = databaseChecks[i]
        /\ \A i \in 1..Len(last) :
             (databaseChecks \o last)[Len(databaseChecks) + i] = last[i]
    BY <1>2, <1>3, Concatenation
  <2>3. /\ Len(Plan) = 11 + 1
        /\ \A i \in 1..11 : Plan[i] = databaseChecks[i]
        /\ \A i \in 1..1 : Plan[11 + i] = last[i]
    BY <1>1, <1>3, <2>1, <2>2
  <2>4. Plan[11 + 1] = last[1]
    BY <2>3
  <2> QED
    BY <1>1, <1>3, <1>4, <2>3, <2>4
<1>5. CASE ~Target
  <2>1. Plan = databaseChecks \o << >>
    BY <1>5 DEF Plan
  <2>2. Plan = databaseChecks
    BY <1>2, <2>1
  <2> QED
    BY <1>1, <1>5, <2>2
<1> QED
  BY <1>4, <1>5

\* Every check but the last is about a problem of its own.
LEMMA ChecksFacts ==
  \A i \in 1..11 :
    /\ databaseChecks[i] # checkRequiredLibraries
    /\ databaseChecks[i].capability \in {None, MigrationSupport,
         DataTypeSupport}
<1> DEFINE Proper(c) ==
             /\ c.finds # "library"
             /\ c.capability \in {None, MigrationSupport, DataTypeSupport}
<1>1. /\ Proper(checkMultiColumnListPartitions)
      /\ Proper(checkPlpython2DependentFunctions)
      /\ Proper(checkViewsWithRemovedOperators)
      /\ Proper(checkViewsWithRemovedFunctions)
      /\ Proper(checkViewsWithRemovedTypes)
  BY DEF checkMultiColumnListPartitions, checkPlpython2DependentFunctions,
     checkViewsWithRemovedOperators, checkViewsWithRemovedFunctions,
     checkViewsWithRemovedTypes, Check
<1>2. /\ Proper(checkRemovedDataTypes) /\ Proper(checkMissingAOOptions)
      /\ Proper(checkRestrictedExecuteOnFunctions)
      /\ Proper(checkIncompletePartitionIndexes)
      /\ Proper(checkIncompatibleRangePartitions)
      /\ Proper(checkStatementTriggers)
  BY DEF checkRemovedDataTypes, checkMissingAOOptions,
     checkRestrictedExecuteOnFunctions, checkIncompletePartitionIndexes,
     checkIncompatibleRangePartitions, checkStatementTriggers, Check
<1> HIDE DEF Proper
<1>3. Proper(databaseChecks[1]) /\ Proper(databaseChecks[2])
      /\ Proper(databaseChecks[3]) /\ Proper(databaseChecks[4])
      /\ Proper(databaseChecks[5])
  BY <1>1 DEF databaseChecks
<1>4. Proper(databaseChecks[6]) /\ Proper(databaseChecks[7])
      /\ Proper(databaseChecks[8]) /\ Proper(databaseChecks[9])
      /\ Proper(databaseChecks[10]) /\ Proper(databaseChecks[11])
  BY <1>2 DEF databaseChecks
<1>5. \A i \in 1..11 : Proper(databaseChecks[i])
  BY <1>3, <1>4
<1>6. checkRequiredLibraries.finds = "library"
  BY DEF checkRequiredLibraries, Check
<1> QED
  BY <1>5, <1>6 DEF Proper

\* A database has a problem if one of the checks in the plan finds something.
LEMMA ProblemsFound ==
  \A db : ProblemIn(db) <=> \E i \in 1..Len(Plan) : Finds(db, Plan[i])
<1> SUFFICES ASSUME NEW db
             PROVE  ProblemIn(db) <=> \E i \in 1..Len(Plan) : Finds(db, Plan[i])
  OBVIOUS
<1> DEFINE Refused == ToSet(world.libraries[db]) \cap world.refused # {}
<1>1. ProblemIn(db) <=> \/ \E i \in 1..11 : Results(db, databaseChecks[i]) # {}
                        \/ Target /\ Refused
  BY PlanFacts DEF ProblemIn
<1>2. \A i \in 1..11 :
        Finds(db, Plan[i]) <=> Results(db, databaseChecks[i]) # {}
  BY PlanFacts, ChecksFacts DEF Finds
<1>3. Target => (Finds(db, Plan[12]) <=> Refused)
  BY PlanFacts DEF Finds
<1> HIDE DEF Refused
<1>4. CASE Target
  <2>1. Len(Plan) = 12
    BY <1>4, PlanFacts
  <2>2. \A i \in 1..12 : i \in 1..11 \/ i = 12
    OBVIOUS
  <2> QED
    BY <1>1, <1>2, <1>3, <1>4, <2>1, <2>2
<1>5. CASE ~Target
  BY <1>1, <1>2, <1>5, PlanFacts
<1> QED
  BY <1>4, <1>5

\* A check without a capability, or with that of a setup query that ran.
LEMMA Capable ==
  ASSUME NEW i \in 1..Len(Plan),
         \A j \in 1..Len(SetupQueries) : SetupQueries[j] \in capabilities
  PROVE  Available(Plan[i])
<1>1. MigrationSupport \in capabilities /\ DataTypeSupport \in capabilities
  BY DEF SetupQueries
<1>2. checkRequiredLibraries.capability = None
  BY DEF checkRequiredLibraries, Check
<1> QED
  BY <1>1, <1>2, PlanFacts, ChecksFacts DEF Available

\* What a world is made of.
LEMMA WorldFacts ==
  ASSUME TypesInv
  PROVE  /\ Order \in Seq(Databases) /\ IsInjective(Order)
         /\ Checked = {Order[i] : i \in 1..Len(Order)}
         /\ \A db \in Checked : /\ IsFiniteSet(world.objects[db])
                                /\ world.libraries[db] \in Seq(Libraries)
<1>1. /\ world.databases \in Seq(ToSet(world.databases))
      /\ IsInjective(world.databases)
      /\ world.database \in ToSet(world.databases) \cup {None}
      /\ DOMAIN world.libraries = ToSet(world.databases)
      /\ \A db \in ToSet(world.databases) :
           /\ IsFiniteSet(world.objects[db])
           /\ world.libraries[db] \in Seq(ToSet(world.libraries[db]))
  BY WorldsAssumption DEF TypesInv
<1>2. Checked \subseteq ToSet(world.databases)
  BY <1>1 DEF Checked
<1>3. ToSet(world.databases) \subseteq Databases
  BY DEF Databases, TypesInv
<1>4. world.databases \in Seq(Databases)
  BY <1>1, <1>3
<1>5. ASSUME world.database = None
      PROVE  /\ Order \in Seq(Databases) /\ IsInjective(Order)
             /\ Checked = {Order[i] : i \in 1..Len(Order)}
  <2>1. Order = world.databases /\ Checked = ToSet(world.databases)
    BY <1>5 DEF Order, Checked
  <2>2. DOMAIN world.databases = 1..Len(world.databases)
    BY <1>4
  <2>3. ToSet(world.databases)
          = {world.databases[i] : i \in 1..Len(world.databases)}
    BY <2>2 DEF ToSet
  <2> QED
    BY <1>1, <1>4, <2>1, <2>3
<1>6. ASSUME world.database # None
      PROVE  /\ Order \in Seq(Databases) /\ IsInjective(Order)
             /\ Checked = {Order[i] : i \in 1..Len(Order)}
  <2>1. Order = <<world.database>> /\ Checked = {world.database}
    BY <1>6 DEF Order, Checked
  <2>2. world.database \in Databases
    BY <1>1, <1>3, <1>6
  <2>3. /\ Order \in Seq(Databases) /\ Len(Order) = 1 /\ DOMAIN Order = {1}
        /\ Order[1] = world.database
    BY <2>1, <2>2
  <2>4. IsInjective(Order)
    BY <2>3 DEF IsInjective
  <2>5. Checked = {Order[i] : i \in 1..1}
    BY <2>1, <2>3
  <2> QED
    BY <2>3, <2>4, <2>5
<1>7. ASSUME NEW db \in Checked
      PROVE  /\ IsFiniteSet(world.objects[db])
             /\ world.libraries[db] \in Seq(Libraries)
  <2>1. world.libraries[db] \in Seq(ToSet(world.libraries[db]))
    BY <1>1, <1>2
  <2>2. ToSet(world.libraries[db])
          \in {ToSet(world.libraries[d]) : d \in DOMAIN world.libraries}
    BY <1>1, <1>2
  <2>3. world \in Worlds
    BY DEF TypesInv
  <2>4. UNION {ToSet(world.libraries[d]) : d \in DOMAIN world.libraries}
          \subseteq Libraries
    BY <2>3 DEF Libraries
  <2>5. ToSet(world.libraries[db]) \subseteq Libraries
    BY <2>2, <2>4
  <2> QED
    BY <1>1, <1>2, <2>1, <2>5
<1> QED
  BY <1>5, <1>6, <1>7

\* The database at hand is one of those to be checked.
LEMMA AtHand ==
  ASSUME IInv, pc \in InDatabase
  PROVE  /\ Gone + 1 \in 1..Len(Order) /\ conn.db = Order[Gone + 1]
         /\ conn.db \in Checked
<1>1. /\ left \in Seq(Databases) /\ Gone \in Nat /\ left # <<>> /\
           conn.db = Head(left)
      /\ \A i \in 1..Len(left) : left[i] = Order[Gone + i]
  BY DEF IInv, LoopInv, Looping, InDatabase
<1>2. Order \in Seq(Databases) /\ Checked = {Order[i] : i \in 1..Len(Order)}
  BY WorldFacts DEF IInv
<1>3. Len(left) >= 1 /\ Head(left) = left[1] /\ Gone = Len(Order) - Len(left)
  BY <1>1 DEF Gone
<1> QED
  BY <1>1, <1>2, <1>3

-----------------------------------------------------------------------------
(* Types and sessions                                                      *)

\* The rows of a check's query are counted.
LEMMA ResultsCounted ==
  ASSUME IInv, pc \in InDatabase, NEW c
  PROVE  /\ Cardinality(Results(conn.db, c)) \in Nat
         /\ Cardinality(Results(conn.db, c)) = 0 <=> Results(conn.db, c) = {}
<1>1. IsFiniteSet(world.objects[conn.db])
  BY AtHand, WorldFacts DEF IInv
<1>2. IsFiniteSet(Results(conn.db, c))
  BY <1>1, FS_Subset DEF Results
<1> QED
  BY <1>2, FS_CardinalityType, FS_EmptySet

\* Counters and indexes stay what they are.
LEMMA TypesInvStep ==
  ASSUME IInv, [Next]_vars
  PROVE  TypesInv'
<1> world' = world /\ TypesInv
  BY WorldSame DEF IInv
<1> USE MaxFailuresAssumption DEF TypesInv, Counting, checkVars, dbVars, endVars
<1>1. CASE Aside
  BY <1>1 DEF Aside
<1>2. CASE Leaves
  BY <1>2 DEF Leaves, Looping, InDatabase
<1>3. CASE EnumerateDatabases
  BY <1>3 DEF EnumerateDatabases, At, Fails
<1>4. CASE ConnectToDatabase
  BY <1>4 DEF ConnectToDatabase, At, Fails, NoSession
<1>5. CASE BeginSetup
  BY <1>5 DEF BeginSetup, At, StatementFails, Fails, Broken, StopDatabase
<1>6. CASE SetUpCapability
  BY <1>6 DEF SetUpCapability, At, Fails, Broken, StopDatabase, SetupFailed,
     TransactionOver
<1>7. CASE BeginChecks
  BY <1>7 DEF BeginChecks, At, Fails, Broken, StopDatabase, TransactionOver
<1>8. CASE SkipCheck
  BY <1>8 DEF SkipCheck, At
<1>9. CASE StartCheck
  BY <1>9 DEF StartCheck, At, StatementFails, Fails, Broken, StopChecks
<1>10. CASE RunQuery
  <2>1. pc \in InDatabase
    BY <1>10 DEF RunQuery, At, InDatabase
  <2>2. Cardinality(Results(conn.db, Current)) \in Nat
    BY <2>1, ResultsCounted
  <2> QED
    BY <1>10, <2>2 DEF RunQuery, At, StatementFails, Fails, Broken
<1>11. CASE LoadLibrary
  BY <1>11 DEF LoadLibrary, At, Fails
<1>12. CASE LibrariesChecked
  BY <1>12 DEF LibrariesChecked, At
<1>13. CASE FinishCheck
  BY <1>13 DEF FinishCheck, At, StatementFails, Fails, Broken, StopChecks
<1>14. CASE RecoverCheck
  BY <1>14 DEF RecoverCheck, At, Fails, StopChecks, RolledBackTo
<1>15. CASE PlanDone
  BY <1>15 DEF PlanDone, At
<1>16. CASE RollbackChecks
  BY <1>16 DEF RollbackChecks, At, Fails, TransactionOver
<1>17. CASE CountDatabase
  BY <1>17 DEF CountDatabase, At, NoSession
<1> QED
  BY StepKinds, <1>1, <1>2, <1>3, <1>4, <1>5, <1>6, <1>7, <1>8, <1>9, <1>10,
     <1>11, <1>12, <1>13, <1>14, <1>15, <1>16, <1>17 DEF Looped

\* What a check adds to the counts.
LEMMA CountsAdd ==
  ASSUME NEW r \in Counts, NEW n \in Nat, NEW m \in Nat
  PROVE  /\ LET ok == [r EXCEPT !.completed = @ + 1, !.findings = @ + n]
            IN /\ ok \in Counts /\ ok.completed = r.completed + 1
               /\ ok.findings = r.findings + n
               /\ ok.failed = r.failed /\ ok.unavailable = r.unavailable
         /\ LET bad == [r EXCEPT !.findings = @ + n, !.failed = @ + m]
            IN bad \in Counts /\ bad.failed = r.failed + m
         /\ LET cut == [r EXCEPT !.findings = @ + n]
            IN cut \in Counts /\ cut.failed = r.failed
<1> USE DEF Counts
<1>1. ASSUME NEW s \in Counts, NEW k \in Nat
      PROVE  /\ [s EXCEPT !.completed = k] \in Counts
             /\ [s EXCEPT !.failed = k] \in Counts
             /\ [s EXCEPT !.findings = k] \in Counts
  OBVIOUS
<1>2. LET ok == [r EXCEPT !.completed = @ + 1, !.findings = @ + n]
      IN /\ ok = [[r EXCEPT !.completed = r.completed + 1] EXCEPT
                    !.findings = r.findings + n]
         /\ ok.completed = r.completed + 1 /\ ok.findings = r.findings + n
         /\ ok.failed = r.failed /\ ok.unavailable = r.unavailable
  OBVIOUS
<1>3. LET bad == [r EXCEPT !.findings = @ + n, !.failed = @ + m]
      IN /\ bad = [[r EXCEPT !.findings = r.findings + n] EXCEPT
                     !.failed = r.failed + m]
         /\ bad.failed = r.failed + m
  OBVIOUS
<1>4. LET cut == [r EXCEPT !.findings = @ + n]
      IN cut \in Counts /\ cut.failed = r.failed
  OBVIOUS
<1>5. /\ r.completed + 1 \in Nat /\ r.findings + n \in Nat /\
           r.failed + m \in Nat
  OBVIOUS
<1> HIDE DEF Counts
<1> QED
  BY <1>1, <1>2, <1>3, <1>4, <1>5

\* The counts stay numbers.
LEMMA CountsInvStep ==
  ASSUME IInv, [Next]_vars
  PROVE  CountsInv'
<1> CountsInv /\ found \in Nat
  BY DEF IInv, TypesInv
<1> USE DEF CountsInv, checkVars, dbVars, endVars
<1>1. CASE Aside
  BY <1>1 DEF Aside
<1>2. CASE Leaves
  BY <1>2 DEF Leaves, Looping, InDatabase
<1>3. CASE EnumerateDatabases
  BY <1>3 DEF EnumerateDatabases, At, Fails
<1>4. CASE ConnectToDatabase
  BY <1>4 DEF ConnectToDatabase, At, Fails, NoSession, NoCounts, Counts
<1>5. CASE BeginSetup
  BY <1>5 DEF BeginSetup, At, StatementFails, Fails, Broken, StopDatabase
<1>6. CASE SetUpCapability
  BY <1>6 DEF SetUpCapability, At, Fails, Broken, StopDatabase, SetupFailed,
     TransactionOver
<1>7. CASE BeginChecks
  BY <1>7 DEF BeginChecks, At, Fails, Broken, StopDatabase, TransactionOver
<1>8. CASE SkipCheck
  BY <1>8 DEF SkipCheck, At, NoCounts, Counts
<1>9. CASE StartCheck
  BY <1>9 DEF StartCheck, At, StatementFails, Fails, Broken, StopChecks
<1>10. CASE RunQuery
  BY <1>10 DEF RunQuery, At, StatementFails, Fails, Broken
<1>11. CASE LoadLibrary
  BY <1>11 DEF LoadLibrary, At, Fails
<1>12. CASE LibrariesChecked
  BY <1>12 DEF LibrariesChecked, At
<1>13. CASE FinishCheck
  <2>1. [summary EXCEPT !.completed = @ + 1, !.findings = @ + found] \in Counts
    BY CountsAdd
  <2>2. totals' = totals /\ (\/ summary' = summary
           \/ summary' = [summary EXCEPT !.completed = @ + 1,
                !.findings = @ + found])
    BY <1>13 DEF FinishCheck
  <2> QED
    BY <2>1, <2>2
<1>14. CASE RecoverCheck
  <2>1. /\ totals' = totals
        /\ \E m \in {0, 1} :
             summary' \in {[summary EXCEPT !.findings = @ + found],
                          [summary EXCEPT !.findings = @ + found,
                            !.failed = @ + m]}
    BY <1>14 DEF RecoverCheck
  <2>2. PICK m \in {0, 1} :
               summary' \in {[summary EXCEPT !.findings = @ + found],
                            [summary EXCEPT !.findings = @ + found,
                              !.failed = @ + m]}
    BY <2>1
  <2>3. /\ [summary EXCEPT !.findings = @ + found] \in Counts
        /\ [summary EXCEPT !.findings = @ + found, !.failed = @ + m] \in Counts
    BY CountsAdd, ZenonT(60)
  <2> QED
    BY <2>1, <2>2, <2>3
<1>15. CASE PlanDone
  BY <1>15 DEF PlanDone, At
<1>16. CASE RollbackChecks
  BY <1>16 DEF RollbackChecks, At, Fails, TransactionOver
<1>17. CASE CountDatabase
  BY <1>17 DEF CountDatabase, At, NoSession, NoCounts, Counts
<1> QED
  BY StepKinds, <1>1, <1>2, <1>3, <1>4, <1>5, <1>6, <1>7, <1>8, <1>9, <1>10,
     <1>11, <1>12, <1>13, <1>14, <1>15, <1>16, <1>17 DEF Looped

\* Only a failed statement breaks a session, and the check then recovers it or
\* ends.
LEMMA SessionInvStep ==
  ASSUME IInv, [Next]_vars
  PROVE  SessionInv'
<1> SessionInv
  BY DEF IInv
<1>0. pc = "database" /\ left # <<>> => Head(left) \in Databases
  BY DEF IInv, LoopInv, Looping
<1> USE DEF SessionInv, Sessions, Counting, checkVars, dbVars, endVars
<1>1. CASE Aside
  BY <1>1 DEF Aside
<1>2. CASE Leaves
  BY <1>2 DEF Leaves, Looping, InDatabase
<1>3. CASE EnumerateDatabases
  BY <1>3 DEF EnumerateDatabases, At, Fails
<1>4. CASE ConnectToDatabase
  BY <1>0, <1>4 DEF ConnectToDatabase, At, Fails, NoSession
<1>5. CASE BeginSetup
  BY <1>5 DEF BeginSetup, At, StatementFails, Fails, Broken, StopDatabase
<1>6. CASE SetUpCapability
  BY <1>6 DEF SetUpCapability, At, Fails, Broken, StopDatabase, SetupFailed,
     TransactionOver
<1>7. CASE BeginChecks
  BY <1>7 DEF BeginChecks, At, Fails, Broken, StopDatabase, TransactionOver
<1>8. CASE SkipCheck
  BY <1>8 DEF SkipCheck, At
<1>9. CASE StartCheck
  BY <1>9 DEF StartCheck, At, StatementFails, Fails, Broken, StopChecks
<1>10. CASE RunQuery
  BY <1>10 DEF RunQuery, At, StatementFails, Fails, Broken
<1>11. CASE LoadLibrary
  BY <1>11 DEF LoadLibrary, At, Fails
<1>12. CASE LibrariesChecked
  BY <1>12 DEF LibrariesChecked, At
<1>13. CASE FinishCheck
  BY <1>13 DEF FinishCheck, At, StatementFails, Fails, Broken, StopChecks
<1>14. CASE RecoverCheck
  BY <1>14 DEF RecoverCheck, At, Fails, StopChecks, RolledBackTo
<1>15. CASE PlanDone
  BY <1>15 DEF PlanDone, At
<1>16. CASE RollbackChecks
  BY <1>16 DEF RollbackChecks, At, Fails, TransactionOver
<1>17. CASE CountDatabase
  BY <1>17 DEF CountDatabase, At, NoSession
<1> QED
  BY StepKinds, <1>1, <1>2, <1>3, <1>4, <1>5, <1>6, <1>7, <1>8, <1>9, <1>10,
     <1>11, <1>12, <1>13, <1>14, <1>15, <1>16, <1>17 DEF Looped

-----------------------------------------------------------------------------
(* Failures, and the loop over the databases                               *)

\* What the proofs about failures and counts need to know of the others.
LEMMA StateFacts ==
  ASSUME IInv
  PROVE  /\ failures \in Nat /\ found \in Nat /\ conn \in Sessions
         /\ summary.failed \in Nat /\ totals.failed \in Nat
         /\ pc = "begin-setup" => conn.up /\ conn.tx = "none"
         /\ pc = "setup" \/ pc \in Counting => conn.up /\ conn.tx = "open"
<1>1. /\ failures \in Nat /\ found \in Nat /\ summary \in Counts /\
           totals \in Counts
  BY DEF IInv, TypesInv, CountsInv
<1>2. summary.failed \in Nat /\ totals.failed \in Nat
  BY <1>1 DEF Counts
<1> QED
  BY <1>1, <1>2 DEF IInv, SessionInv

\* The number of failures grows with every failure.
LEMMA FailuresGrow ==
  ASSUME IInv, [Next]_vars
  PROVE  /\ failures' \in Nat /\ failures' >= failures
<1> failures \in Nat
  BY StateFacts
<1>1. CASE Aside
  BY <1>1 DEF Aside
<1>2. CASE Leaves
  BY <1>2 DEF Leaves
<1>3. CASE EnumerateDatabases \/ ConnectToDatabase
  BY <1>3 DEF EnumerateDatabases, ConnectToDatabase, Fails
<1>4. CASE BeginSetup \/ SetUpCapability
  BY <1>4 DEF BeginSetup, SetUpCapability, Fails, StatementFails
<1>5. CASE BeginChecks \/ SkipCheck
  BY <1>5 DEF BeginChecks, SkipCheck, Fails
<1>6. CASE StartCheck \/ RunQuery
  BY <1>6 DEF StartCheck, RunQuery, Fails, StatementFails
<1>7. CASE LoadLibrary \/ LibrariesChecked
  BY <1>7 DEF LoadLibrary, LibrariesChecked, Fails
<1>8. CASE FinishCheck
  BY <1>8 DEF FinishCheck, Fails, StatementFails
<1>9. CASE RecoverCheck
  BY <1>9 DEF RecoverCheck, Fails
<1>10. CASE PlanDone \/ RollbackChecks \/ CountDatabase
  BY <1>10 DEF PlanDone, RollbackChecks, CountDatabase, Fails
<1> QED
  BY StepKinds, <1>1, <1>2, <1>3, <1>4, <1>5, <1>6, <1>7, <1>8, <1>9, <1>10
     DEF Looped

\* A check that fails is counted once, and something has failed for it.
LEMMA FailedInvStep ==
  ASSUME IInv, [Next]_vars
  PROVE  FailedInv'
<1> FailedInv /\ failures \in Nat /\ summary.failed \in Nat /\
      totals.failed \in Nat
  BY StateFacts DEF IInv
<1>0. /\ pc = "begin-setup" => conn.up /\ conn.tx = "none"
      /\ pc = "setup" \/ pc \in Counting => conn.up /\ conn.tx = "open"
  BY StateFacts
<1> USE MaxFailuresAssumption DEF FailedInv, checkVars, dbVars
<1>1. CASE Aside
  BY <1>1 DEF Aside
<1>2. CASE Leaves
  BY <1>2 DEF Leaves, Looping, InDatabase
<1>3. CASE EnumerateDatabases
  BY <1>3 DEF EnumerateDatabases, At, Fails
<1>4. CASE ConnectToDatabase
  BY <1>4 DEF ConnectToDatabase, At, Fails, NoSession, NoCounts
<1>5. CASE BeginSetup
  BY <1>5 DEF BeginSetup, At, StatementFails, Fails, Broken, StopDatabase
<1>6. CASE SetUpCapability
  BY <1>6 DEF SetUpCapability, At, Fails, Broken, StopDatabase, SetupFailed,
     TransactionOver
<1>7. CASE BeginChecks
  BY <1>7 DEF BeginChecks, At, Fails, Broken, StopDatabase, TransactionOver
<1>8. CASE SkipCheck
  BY <1>8 DEF SkipCheck, At, CountsInv, Counts
<1>9. CASE StartCheck
  <2>1. conn.up /\ conn.tx = "open" /\ summary' = summary /\ totals' = totals
    BY <1>9, <1>0 DEF StartCheck, At, Counting
  <2>2. \/ pc' # "recover-check" /\ failures' \in {failures, failures + 1}
        \/ failures' = failures + 1
    BY <1>9, <2>1 DEF StartCheck, StatementFails, Fails, Broken, StopChecks
  <2> QED
    BY <2>1, <2>2
<1>10. CASE RunQuery
  <2>1. conn.up /\ conn.tx = "open" /\ summary' = summary /\ totals' = totals
    BY <1>10, <1>0 DEF RunQuery, At, Counting
  <2>2. \/ pc' # "recover-check" /\ failures' = failures
        \/ failures' = failures + 1
    BY <1>10, <2>1 DEF RunQuery, StatementFails, Fails, Broken
  <2> QED
    BY <2>1, <2>2
<1>11. CASE LoadLibrary
  BY <1>11 DEF LoadLibrary, At, Fails
<1>12. CASE LibrariesChecked
  BY <1>12 DEF LibrariesChecked, At
<1>13. CASE FinishCheck
  <2>1. summary'.failed = summary.failed
    <3>1. summary' \in {summary, [summary EXCEPT !.completed = @ + 1,
                                               !.findings = @ + found]}
      BY <1>13 DEF FinishCheck
    <3>2. summary \in Counts /\ found \in Nat
      BY DEF IInv, CountsInv, TypesInv
    <3>3. [summary EXCEPT !.completed = @ + 1, !.findings = @ + found].failed
            = summary.failed
      BY <3>2, CountsAdd
    <3> QED
      BY <3>1, <3>3
  <2>2. totals' = totals /\ conn.up /\ conn.tx = "open"
    BY <1>13, <1>0 DEF FinishCheck, At, Counting
  <2>3. \/ pc' # "recover-check" /\ failures' \in {failures, failures + 1}
        \/ failures' = failures + 1
    BY <1>13, <2>2 DEF FinishCheck, StatementFails, Fails, Broken, StopChecks
  <2> QED
    BY <2>1, <2>2, <2>3
<1>14. CASE RecoverCheck
  <2>0. checkError \in {"failed", "target"} /\ summary \in Counts /\
          found \in Nat
    BY <1>14 DEF RecoverCheck, At, IInv, ErrorInv, CountsInv, TypesInv
  <2> DEFINE cut    == [summary EXCEPT !.findings = @ + found]
             bad(m) == [summary EXCEPT !.findings = @ + found, !.failed = @ + m]
  <2>1. /\ cut.failed = summary.failed
        /\ bad(0).failed = summary.failed + 0 /\
             bad(1).failed = summary.failed + 1
    BY <2>0 DEF Counts
  <2>2. \/ summary' = cut
        \/ checkError = "failed" /\ summary' = bad(1)
        \/ summary' = bad(0)
    BY <1>14, <2>0 DEF RecoverCheck
  <2>3. /\ pc' # "recover-check" /\ pc = "recover-check" /\ totals' = totals
        /\ failures' \in {failures, failures + 1}
    BY <1>14 DEF RecoverCheck, At, Fails, StopChecks
  <2> HIDE DEF cut, bad
  <2>4. \/ summary'.failed = summary.failed
        \/ checkError = "failed" /\ summary'.failed = summary.failed + 1
    BY <2>1, <2>2
  <2> QED
    BY <2>3, <2>4
<1>15. CASE PlanDone
  BY <1>15 DEF PlanDone, At
<1>16. CASE RollbackChecks
  BY <1>16 DEF RollbackChecks, At, Fails, TransactionOver
<1>17. CASE CountDatabase
  BY <1>17 DEF CountDatabase, At, NoSession, NoCounts, IInv, CountsInv, Counts
<1> QED
  BY StepKinds, <1>1, <1>2, <1>3, <1>4, <1>5, <1>6, <1>7, <1>8, <1>9, <1>10,
     <1>11, <1>12, <1>13, <1>14, <1>15, <1>16, <1>17 DEF Looped

\* Libraries are only looked at with a target.
LEMMA LibrariesOnTarget ==
  ASSUME IInv, pc = "libraries"
  PROVE  targetUp \in {"up", "lost"}
<1>1. /\ Current = checkRequiredLibraries
      /\ check \in Nat /\ check > 0 /\ check <= Len(Plan)
  BY DEF IInv, FoundInv, RangeInv, TypesInv, Counting, Checking
<1>2. check \notin 1..11
  BY <1>1, PlanFacts, ChecksFacts DEF Current
<1>3. Target
  BY <1>1, <1>2, PlanFacts
<1> QED
  BY <1>3 DEF IInv, TargetInv, Looping

\* An error is recorded when something fails.
LEMMA ErrorInvStep ==
  ASSUME IInv, [Next]_vars
  PROVE  ErrorInv'
<1> ErrorInv /\ failures \in Nat
  BY StateFacts DEF IInv
<1>0. /\ pc \in {"begin-setup", "setup", "check", "query", "reset"} => conn.up
      /\ pc \in {"check", "query", "reset"} => conn.tx # "aborted"
      /\ pc = "begin-setup" => conn.tx # "aborted"
      /\ conn \in Sessions
  BY StateFacts DEF Counting
<1> USE DEF ErrorInv, Sessions, InDatabase, Counting, checkVars, dbVars
<1>1. CASE Aside
  BY <1>1 DEF Aside
<1>2. CASE Leaves
  BY <1>2 DEF Leaves, Looping, InDatabase
<1>3. CASE EnumerateDatabases
  BY <1>3 DEF EnumerateDatabases, At, Fails
<1>4. CASE ConnectToDatabase
  <2>1. \/ pc' = "begin-setup" /\ conn'.up /\
             UNCHANGED <<executionError, failures>>
           /\ dbError' = FALSE
        \/ pc' = "database" /\ dbError' = dbError /\ failures' = failures + 1
    BY <1>4 DEF ConnectToDatabase, At, Fails, NoSession
  <2>2. targetUp' = targetUp
    BY <1>4 DEF ConnectToDatabase
  <2> QED
    BY <2>1, <2>2
<1>5. CASE BeginSetup
  BY <1>0, <1>5 DEF BeginSetup, At, StatementFails, Fails, Broken, StopDatabase
<1>6. CASE SetUpCapability
  BY <1>0, <1>6 DEF SetUpCapability, At, Fails, Broken, StopDatabase,
     SetupFailed, TransactionOver
<1>7. CASE BeginChecks
  BY <1>0, <1>7 DEF BeginChecks, At, Fails, Broken, StopDatabase,
     TransactionOver
<1>8. CASE SkipCheck
  BY <1>8 DEF SkipCheck, At
<1>9. CASE StartCheck
  BY <1>0, <1>9 DEF StartCheck, At, StatementFails, Fails, Broken, StopChecks
<1>10. CASE RunQuery
  BY <1>0, <1>10 DEF RunQuery, At, StatementFails, Fails, Broken
<1>11. CASE LoadLibrary
  <2>1. targetUp \in {"up", "lost"}
    BY <1>11 , LibrariesOnTarget DEF LoadLibrary, At
  <2> QED
    BY <1>11, <2>1 DEF LoadLibrary, At, Fails
<1>12. CASE LibrariesChecked
  BY <1>12 DEF LibrariesChecked, At
<1>13. CASE FinishCheck
  BY <1>0, <1>13 DEF FinishCheck, At, StatementFails, Fails, Broken, StopChecks
<1>14. CASE RecoverCheck
  BY <1>0, <1>14 DEF RecoverCheck, At, Fails, StopChecks, RolledBackTo
<1>15. CASE PlanDone
  BY <1>15 DEF PlanDone, At
<1>16. CASE RollbackChecks
  <2>1. /\ pc = "rollback" /\ pc' = "close" /\
             UNCHANGED <<executionError, targetUp>>
        /\ conn.up \in BOOLEAN
    BY <1>16, <1>0 DEF RollbackChecks, At
  <2>2. CASE conn.up /\ conn' = TransactionOver(conn) /\
          UNCHANGED <<dbError, failures>>
    BY <1>0, <2>1, <2>2 DEF TransactionOver
  <2>3. CASE conn.up /\ failures' = failures + 1
    BY <2>1, <2>3
  <2>4. CASE ~conn.up /\ failures' = failures
    BY <2>1, <2>4
  <2> QED
    BY <1>16, <2>2, <2>3, <2>4 DEF RollbackChecks, Fails
<1>17. CASE CountDatabase
  BY <1>17 DEF CountDatabase, At, NoSession
<1> QED
  BY StepKinds, <1>1, <1>2, <1>3, <1>4, <1>5, <1>6, <1>7, <1>8, <1>9, <1>10,
     <1>11, <1>12, <1>13, <1>14, <1>15, <1>16, <1>17 DEF Looped

\* Only a connection to the target and a LOAD change what is known of it.
LEMMA TargetInvStep ==
  ASSUME IInv, [Next]_vars
  PROVE  TargetInv'
<1> TargetInv
  BY DEF IInv
<1> Target' = Target
  BY WorldSame DEF Target, Flag
<1> USE DEF TargetInv, Looping, InDatabase, Counting, Checking
<1>1. CASE targetUp' = targetUp /\
        (pc' = pc \/ pc' \notin Looping \cup {"enumerate"}
                                     \/ pc \in Looping \cup {"enumerate"})
  BY <1>1
<1>2. CASE CreateTargetConnection
  BY <1>2 DEF CreateTargetConnection, At
<1>3. CASE LoadLibrary
  BY <1>3 DEF LoadLibrary, At
<1>4. CASE DoFlagValidation \/ CreateSourceConnection
  BY <1>1, <1>4 DEF DoFlagValidation, CreateSourceConnection
<1>5. CASE Summarize \/ Recover \/ Teardown \/ Exit \/ UNCHANGED vars
  BY <1>1, <1>5 DEF Summarize, Recover, Teardown, Exit, vars
<1>6. CASE Signal \/ HandlerCleansUp \/ HandlerExits \/ Stopped
  BY <1>1, <1>6 DEF Signal, HandlerCleansUp, HandlerExits, Stopped, vars
<1>7. CASE PanicInEnumerate \/ PanicOnTarget \/ PanicInCheck \/ \E p : Panics(p)
  BY <1>1, <1>7, PanicSteps DEF Panic
<1>8. CASE EnumerateDatabases \/ ConnectToDatabase \/ CountDatabase
  BY <1>1, <1>8 DEF EnumerateDatabases, ConnectToDatabase, CountDatabase, At
<1>9. CASE BeginSetup \/ SetUpCapability \/ BeginChecks \/ SkipCheck \/ PlanDone
  BY <1>1, <1>9 DEF BeginSetup, SetUpCapability, BeginChecks, SkipCheck,
     PlanDone, At
<1>10. CASE StartCheck \/ RunQuery \/ LibrariesChecked
  BY <1>1, <1>10 DEF StartCheck, RunQuery, LibrariesChecked, At
<1>11. CASE FinishCheck \/ RecoverCheck \/ RollbackChecks
  BY <1>1, <1>11 DEF FinishCheck, RecoverCheck, RollbackChecks, At
<1> QED
  BY <1>2, <1>3, <1>4, <1>5, <1>6, <1>7, <1>8, <1>9, <1>10, <1>11
     DEF Next, Main, Statement

\* Steps within a database stay in it.
Within == /\ pc \in InDatabase /\ pc' \in InDatabase
          /\ UNCHANGED <<left, totals, executionError>> /\ conn'.db = conn.db

\* The steps of the loop are within a database, or of one of three kinds.
LEMMA LoopKinds ==
  ASSUME IInv, Looped
  PROVE  Within \/ EnumerateDatabases \/ ConnectToDatabase \/ CountDatabase
<1> USE DEF Within, InDatabase, Counting, Checking, checkVars, dbVars, At
<1> conn \in Sessions
  BY StateFacts
<1> USE DEF Sessions
<1>1. CASE BeginSetup
  BY <1>1 DEF BeginSetup, StatementFails, StopDatabase
<1>2. CASE SetUpCapability
  <2>1. conn' = conn \/ \E session \in {conn, [conn EXCEPT !.up = FALSE]} :
                         conn' = TransactionOver(session)
    BY <1>2 DEF SetUpCapability
  <2>2. ASSUME NEW s \in Sessions
        PROVE  TransactionOver(s).db = s.db /\
               [s EXCEPT !.up = FALSE] \in Sessions
               /\ [s EXCEPT !.up = FALSE].db = s.db
               /\ [s EXCEPT !.tx = "open"].db = s.db
    BY DEF TransactionOver
  <2>3. conn'.db = conn.db
    BY <2>1, <2>2
  <2> QED
    BY <1>2, <2>3 DEF SetUpCapability, StopDatabase
<1>3. CASE BeginChecks
  <2>1. \/ conn' = [conn EXCEPT !.tx = "open"]
        \/ \E session \in {conn, [conn EXCEPT !.up = FALSE]} :
             conn' = TransactionOver(session)
    BY <1>3 DEF BeginChecks
  <2>2. ASSUME NEW s \in Sessions
        PROVE  TransactionOver(s).db = s.db /\
               [s EXCEPT !.up = FALSE] \in Sessions
               /\ [s EXCEPT !.up = FALSE].db = s.db
               /\ [s EXCEPT !.tx = "open"].db = s.db
    BY DEF TransactionOver
  <2>3. conn'.db = conn.db
    BY <2>1, <2>2
  <2> QED
    BY <1>3, <2>3 DEF BeginChecks, StopDatabase
<1>4. CASE SkipCheck \/ LibrariesChecked \/ PlanDone \/ LoadLibrary
  BY <1>4 DEF SkipCheck, LibrariesChecked, PlanDone, LoadLibrary
<1>5. CASE StartCheck
  BY <1>5 DEF StartCheck, StatementFails, StopChecks
<1>6. CASE RunQuery
  BY <1>6 DEF RunQuery, StatementFails
<1>7. CASE FinishCheck
  BY <1>7 DEF FinishCheck, StatementFails, StopChecks
<1>8. CASE RecoverCheck
  BY <1>8 DEF RecoverCheck, StopChecks, RolledBackTo
<1>9. CASE RollbackChecks
  BY <1>9 DEF RollbackChecks, TransactionOver
<1> QED
  BY <1>1, <1>2, <1>3, <1>4, <1>5, <1>6, <1>7, <1>8, <1>9 DEF Looped

\* The tail of what is left is what is left after the first database.
LEMMA LeftAfter ==
  ASSUME IInv, pc \in Looping, left # <<>>
  PROVE  /\ Tail(left) \in Seq(Databases) /\ Len(Tail(left)) = Len(left) - 1
         /\ Gone \in Nat /\ Len(left) >= 1 /\ Gone + Len(left) = Len(Order)
         /\ Head(left) = Order[Gone + 1]
         /\ \A i \in 1..Len(Tail(left)) : Tail(left)[i] = Order[Gone + 1 + i]
<1>1. /\ left \in Seq(Databases) /\ Gone \in Nat
      /\ \A i \in 1..Len(left) : left[i] = Order[Gone + i]
  BY DEF IInv, LoopInv
<1>2. Order \in Seq(Databases)
  BY WorldFacts DEF IInv
<1>3. /\ Tail(left) \in Seq(Databases) /\ Len(Tail(left)) = Len(left) - 1
      /\ Len(left) >= 1 /\ Head(left) = left[1]
      /\ \A i \in 1..Len(Tail(left)) : Tail(left)[i] = left[i + 1]
  BY <1>1
<1>4. Gone + Len(left) = Len(Order)
  BY <1>1, <1>2 DEF Gone
<1>5. ASSUME NEW i \in 1..Len(Tail(left))
      PROVE  Tail(left)[i] = Order[Gone + 1 + i]
  <2>1. i + 1 \in 1..Len(left) /\ Gone + (i + 1) = Gone + 1 + i
    BY <1>1, <1>3
  <2> QED
    BY <1>1, <1>3, <2>1
<1>6. Head(left) = Order[Gone + 1]
  BY <1>1, <1>3
<1> QED
  BY <1>1, <1>3, <1>4, <1>5, <1>6

\* Every database is taken once, in its order.
LEMMA LoopInvStep ==
  ASSUME IInv, [Next]_vars
  PROVE  LoopInv'
<1> LoopInv /\ Order' = Order /\ Order \in Seq(Databases)
  BY Same, WorldFacts DEF IInv
<1>1. CASE Aside
  BY <1>1 DEF Aside, LoopInv, Gone, dbVars
<1>2. CASE Leaves
  BY <1>2 DEF Leaves, LoopInv
<1>3. CASE Within
  <2>1. pc \in Looping /\ left' = left /\ Gone' = Gone /\ conn'.db = conn.db
    BY <1>3 DEF Within, Looping, InDatabase, Gone
  <2> QED
    BY <1>3, <2>1 DEF LoopInv, Within
<1>4. CASE EnumerateDatabases
  <2>1. pc' = "teardown" \/ (pc' = "database" /\ left' = Order)
    <3>1. world.database # None => bootstrap = world.database
      BY <1>4 DEF EnumerateDatabases, At, IInv, StartInv
    <3>2. pc' = "teardown" \/ /\ pc' = "database"
                              /\ left' = IF world.database = None THEN
                                   world.databases
                                         ELSE <<bootstrap>>
      BY <1>4 DEF EnumerateDatabases
    <3>3. (IF world.database = None THEN
            world.databases ELSE <<bootstrap>>) = Order
      BY <3>1 DEF Order
    <3> QED
      BY <3>2, <3>3
  <2>2. CASE pc' = "database" /\ left' = Order
    <3>1. Gone' = 0
      BY <2>2 DEF Gone
    <3> QED
      BY <2>2, <3>1 DEF LoopInv, InDatabase, Counting, Checking
  <2> QED
    BY <2>1, <2>2 DEF LoopInv, Looping, InDatabase, Counting, Checking
<1>5. CASE ConnectToDatabase /\ left' = left
  <2>1. /\ pc \in Looping /\ left # <<>> /\ Gone' = Gone
        /\ pc' # "database" => conn'.db = Head(left)
    BY <1>5 DEF ConnectToDatabase, At, Looping, InDatabase, Gone, NoSession
  <2> QED
    BY <1>5, <2>1 DEF LoopInv, InDatabase, Counting, Checking
<1>6. CASE (ConnectToDatabase \/ CountDatabase) /\ left' = Tail(left)
  <2>1. \/ pc \in Looping /\ left # <<>> /\ pc' = "database"
        \/ ConnectToDatabase /\ left' = left
    <3>1. CASE ConnectToDatabase
      BY <3>1 DEF ConnectToDatabase, At, Looping
    <3>2. CASE CountDatabase
      <4>1. pc = "close" /\ pc' = "database"
        BY <3>2 DEF CountDatabase, At
      <4>2. pc \in Looping /\ pc \in InDatabase
        BY <4>1 DEF Looping, InDatabase
      <4> QED
        BY <1>6, <4>1, <4>2 DEF LoopInv
    <3> QED
      BY <1>6, <3>1, <3>2
  <2>2. CASE pc \in Looping /\ left # <<>> /\ pc' = "database"
    <3>1. Gone' = Gone + 1
      BY <1>6, <2>2, LeftAfter DEF Gone
    <3> QED
      BY <1>6, <2>2, <3>1, LeftAfter DEF LoopInv, InDatabase, Counting, Checking
  <2> QED
    BY <1>5, <2>1, <2>2
<1> QED
  BY StepKinds, LoopKinds, <1>1, <1>2, <1>3, <1>4, <1>5, <1>6
     DEF ConnectToDatabase, CountDatabase

-----------------------------------------------------------------------------
(* One check                                                               *)

\* The checks are taken one after the other.
LEMMA RangeInvStep ==
  ASSUME IInv, [Next]_vars
  PROVE  RangeInv'
<1> /\ RangeInv /\ check \in Nat /\ Plan' = Plan
    /\ Len(Plan) \in Nat
  BY Same, PlanFacts DEF IInv, TypesInv
<1> USE DEF RangeInv, Checking
<1>1. CASE pc' \notin Checking \cup {"check", "recover-check"}
  BY <1>1
<1>2. CASE check' = check /\ pc' = pc
  BY <1>2
<1>3. CASE check' = check /\ pc \in Checking /\
        pc' \in Checking \cup {"recover-check"}
  BY <1>3
<1>4. CASE Aside
  BY <1>2, <1>4 DEF Aside, checkVars
<1>5. CASE Leaves
  BY <1>1, <1>5 DEF Leaves, Looping, Counting
<1>6. CASE EnumerateDatabases \/ ConnectToDatabase \/ CountDatabase
  BY <1>1, <1>6 DEF EnumerateDatabases, ConnectToDatabase, CountDatabase, At
<1>7. CASE BeginSetup \/ SetUpCapability \/ PlanDone \/ RollbackChecks
  BY <1>1, <1>7 DEF BeginSetup, SetUpCapability, PlanDone, RollbackChecks, At,
     StopDatabase
<1>8. CASE BeginChecks
  BY <1>1, <1>8 DEF BeginChecks, StopDatabase
<1>9. CASE SkipCheck
  BY <1>9 DEF SkipCheck, At
<1>10. CASE StartCheck
  BY <1>10 DEF StartCheck, At, StopChecks
<1>11. CASE RunQuery \/ LibrariesChecked
  BY <1>3, <1>11 DEF RunQuery, LibrariesChecked, At, checkVars
<1>12. CASE LoadLibrary
  BY <1>3, <1>12 DEF LoadLibrary, At
<1>13. CASE FinishCheck
  BY <1>13 DEF FinishCheck, At, StopChecks
<1>14. CASE RecoverCheck
  BY <1>14 DEF RecoverCheck, At, StopChecks
<1> QED
  BY StepKinds, <1>4, <1>5, <1>6, <1>7, <1>8, <1>9, <1>10, <1>11, <1>12,
     <1>13, <1>14 DEF Looped

\* Steps that leave the results of LOAD alone.
LEMMA CacheKept ==
  ASSUME IInv, [Next]_vars
  PROVE  LoadLibrary \/ isLibraryMissing' = isLibraryMissing
BY StepKinds DEF Aside, Leaves, Looped, EnumerateDatabases, ConnectToDatabase,
   BeginSetup, SetUpCapability, BeginChecks, SkipCheck, StartCheck, RunQuery,
   LibrariesChecked, FinishCheck, RecoverCheck, PlanDone,
   RollbackChecks, CountDatabase, checkVars

\* A LOAD, and what it finds.
LEMMA LoadFacts ==
  ASSUME IInv, LoadLibrary, pc' = "libraries"
  PROVE  /\ Head(loading) \in Libraries /\ loading' = Tail(loading)
         /\ isLibraryMissing' = [isLibraryMissing EXCEPT ![Head(loading)]
                                                    = Verdict(Head(loading))]
         /\ found' = found + (IF Head(loading) \in world.refused THEN 1 ELSE 0)
         /\ check' = check /\ conn' = conn /\ pc = "libraries" /\ loading # <<>>
<1> DEFINE l == Head(loading)
<1>1. pc = "libraries" /\ loading # <<>>
  BY DEF LoadLibrary, At
<1>2. loading \in Seq(Libraries)
  BY <1>1 DEF IInv, FoundInv
<1>3. l \in Libraries
  BY <1>1, <1>2
<1>4. isLibraryMissing[l] \in {None, Verdict(l)}
  BY <1>3 DEF IInv, CacheInv
<1> DEFINE missing == IF isLibraryMissing[l] # None THEN isLibraryMissing[l]
                      ELSE IF l \in world.refused THEN "missing" ELSE "present"
<1>5. missing = Verdict(l)
  BY <1>4 DEF Verdict
<1>6. (missing = "missing") <=> l \in world.refused
  BY <1>5 DEF Verdict
<1>7. /\ isLibraryMissing' = [isLibraryMissing EXCEPT ![l] = missing]
      /\ found' = found + (IF missing = "missing" THEN 1 ELSE 0)
      /\ loading' = Tail(loading)
      /\ check' = check /\ conn' = conn
  BY DEF LoadLibrary, dbVars
<1> QED
  BY <1>1, <1>3, <1>5, <1>6, <1>7

\* A result of LOAD is kept, and is right.
LEMMA CacheInvStep ==
  ASSUME IInv, [Next]_vars
  PROVE  CacheInv'
<1> CacheInv /\ \A l : Verdict(l)' = Verdict(l)
  BY Same DEF IInv
<1>1. CASE isLibraryMissing' = isLibraryMissing
  BY <1>1 DEF CacheInv
<1>2. CASE LoadLibrary /\ pc' = "libraries"
  BY <1>2, LoadFacts DEF CacheInv
<1>3. CASE LoadLibrary /\ pc' # "libraries"
  BY <1>1, <1>3 DEF LoadLibrary, At
<1> QED
  BY CacheKept, <1>1, <1>2, <1>3

\* The steps after which a check is under way.
LEMMA FindingSteps ==
  ASSUME IInv, [Next]_vars, pc' \in Checking
  PROVE  \/ Aside
         \/ StartCheck /\ pc' = "query" /\ found' = 0
         \/ RunQuery /\ pc' # "query"
         \/ LoadLibrary /\ pc' = "libraries"
         \/ LibrariesChecked /\ pc' = "reset"
<1> USE DEF Checking
<1>1. CASE Leaves
  BY <1>1 DEF Leaves, Looping, Counting, InDatabase
<1>2. CASE EnumerateDatabases \/ ConnectToDatabase \/ CountDatabase
  BY <1>2 DEF EnumerateDatabases, ConnectToDatabase, CountDatabase, At
<1>3. CASE BeginSetup \/ SetUpCapability \/ PlanDone \/ RollbackChecks
  BY <1>3 DEF BeginSetup, SetUpCapability, PlanDone, RollbackChecks, At,
     StopDatabase
<1>4. CASE BeginChecks \/ SkipCheck
  BY <1>4 DEF BeginChecks, SkipCheck, At, StopDatabase
<1>5. CASE StartCheck
  BY <1>5 DEF StartCheck, StopChecks
<1>6. CASE RunQuery
  BY <1>6 DEF RunQuery
<1>7. CASE LoadLibrary \/ LibrariesChecked
  BY <1>7 DEF LoadLibrary, LibrariesChecked, At
<1>8. CASE FinishCheck \/ RecoverCheck
  BY <1>8 DEF FinishCheck, RecoverCheck, StopChecks
<1> QED
  BY StepKinds, <1>1, <1>2, <1>3, <1>4, <1>5, <1>6, <1>7, <1>8 DEF Looped

\* The libraries of the database at hand.
LEMMA LibrariesAtHand ==
  ASSUME IInv, pc \in InDatabase
  PROVE  /\ world.libraries[conn.db] \in Seq(Libraries)
         /\ ToSet(world.libraries[conn.db])
              = {world.libraries[conn.db][i] :
                i \in 1..Len(world.libraries[conn.db])}
<1>1. world.libraries[conn.db] \in Seq(Libraries)
  BY AtHand, WorldFacts DEF IInv
<1>2. DOMAIN world.libraries[conn.db] = 1..Len(world.libraries[conn.db])
  BY <1>1
<1> QED
  BY <1>1, <1>2 DEF ToSet

\* What a check finds is what there is.
LEMMA FoundInvStep ==
  ASSUME IInv, [Next]_vars
  PROVE  FoundInv'
<1> /\ FoundInv /\ found \in Nat /\ world' = world /\ Plan' = Plan
    /\ \A db, c : Finds(db, c)' = Finds(db, c)
  BY Same, WorldSame DEF IInv, TypesInv
<1> DEFINE all == world.libraries[conn.db]
<1>1. CASE pc' \notin Checking
  BY <1>1 DEF FoundInv, Checking
<1>2. CASE Aside
  <2>1. UNCHANGED <<pc, found, loading, conn, check>>
    BY <1>2 DEF Aside, checkVars, dbVars
  <2> QED
    BY <2>1 DEF FoundInv, Loaded, Current
<1>3. CASE StartCheck /\ pc' = "query" /\ found' = 0
  BY <1>3 DEF FoundInv
<1>4. CASE RunQuery /\ pc' = "reset"
  <2>1. /\ pc = "query" /\ conn' = conn /\ check' = check /\
             Current # checkRequiredLibraries
        /\ found' = Cardinality(Results(conn.db, Current))
    BY <1>4 DEF RunQuery, At
  <2>2. found' = 0 <=> Results(conn.db, Current) = {}
    BY <2>1, ResultsCounted DEF InDatabase
  <2>3. Finds(conn.db, Current)' = Finds(conn.db, Current)
    BY <2>1 DEF Finds, Current, Results
  <2>4. Finds(conn.db, Current) <=> Results(conn.db, Current) # {}
    BY <2>1 DEF Finds
  <2> QED
    BY <1>4, <2>2, <2>3, <2>4 DEF FoundInv
<1>5. CASE RunQuery /\ pc' = "libraries"
  <2>1. /\ pc = "query" /\ conn' = conn /\ check' = check /\
             Current = checkRequiredLibraries
        /\ loading' = all /\ found' = found
    BY <1>5 DEF RunQuery, At
  <2>2. all \in Seq(Libraries) /\ Loaded' = 0 /\ found = 0
    BY <2>1, LibrariesAtHand DEF Loaded, InDatabase, FoundInv
  <2>3. Current' = checkRequiredLibraries
    BY <2>1 DEF Current
  <2> QED
    BY <1>5, <2>1, <2>2, <2>3 DEF FoundInv
<1>6. CASE LoadLibrary /\ pc' = "libraries"
  <2>1. /\ pc = "libraries" /\ loading' = Tail(loading) /\ loading # <<>>
        /\ conn' = conn /\ check' = check
        /\ found' = found + (IF Head(loading) \in world.refused THEN 1 ELSE 0)
    BY <1>6, LoadFacts
  <2>2. /\ Current = checkRequiredLibraries
        /\ loading \in Seq(Libraries) /\ Loaded \in Nat
        /\ \A i \in 1..Len(loading) : loading[i] = all[Loaded + i]
        /\ found = 0 <=> \A i \in 1..Loaded : all[i] \notin world.refused
    BY <2>1 DEF FoundInv
  <2>3. all \in Seq(Libraries)
    BY <2>1, LibrariesAtHand DEF InDatabase
  <2>4. /\ Tail(loading) \in Seq(Libraries) /\
             Len(Tail(loading)) = Len(loading) - 1
        /\ Len(loading) >= 1 /\ Head(loading) = loading[1]
        /\ \A i \in 1..Len(Tail(loading)) : Tail(loading)[i] = loading[i + 1]
    BY <2>1, <2>2
  <2>5. Loaded' = Loaded + 1
    BY <2>1, <2>3, <2>4 DEF Loaded
  <2>6. Head(loading) = all[Loaded + 1]
    BY <2>2, <2>4
  <2>7. ASSUME NEW i \in 1..Len(Tail(loading))
        PROVE  Tail(loading)[i] = all[Loaded + 1 + i]
    <3>1. i + 1 \in 1..Len(loading) /\ Loaded + (i + 1) = Loaded + 1 + i
      BY <2>2, <2>4
    <3> QED
      BY <2>2, <2>4, <3>1
  <2>8. found' = 0 <=> \A i \in 1..(Loaded + 1) : all[i] \notin world.refused
    <3>1. (\A i \in 1..(Loaded + 1) : all[i] \notin world.refused)
            <=> /\ \A i \in 1..Loaded : all[i] \notin world.refused
                /\ all[Loaded + 1] \notin world.refused
      BY <2>2
    <3>2. found' = 0 <=> found = 0 /\ Head(loading) \notin world.refused
      BY <2>1
    <3> QED
      BY <2>2, <2>6, <3>1, <3>2
  <2>9. all' = all /\ Current' = Current
    BY <2>1 DEF Current
  <2> HIDE DEF all
  <2>10. /\ Current' = checkRequiredLibraries
         /\ loading' \in Seq(Libraries) /\ Loaded' \in Nat
         /\ \A i \in 1..Len(loading') : loading'[i] = all'[Loaded' + i]
         /\ found' = 0 <=> \A i \in 1..Loaded' : all'[i] \notin world'.refused
    BY <2>1, <2>2, <2>4, <2>5, <2>7, <2>8, <2>9
  <2> QED
    BY <1>6, <2>10 DEF FoundInv, all
<1>7. CASE LibrariesChecked /\ pc' = "reset"
  <2>1. /\ pc = "libraries" /\ loading = <<>> /\
             UNCHANGED <<conn, check, found>>
    BY <1>7 DEF LibrariesChecked, At, checkVars, dbVars
  <2>2. /\ all \in Seq(Libraries) /\ ToSet(all) = {all[i] : i \in 1..Len(all)}
    BY <2>1, LibrariesAtHand DEF InDatabase
  <2>3. Loaded = Len(all) /\ Current = checkRequiredLibraries
    BY <2>1, <2>2 DEF Loaded, FoundInv
  <2>4. found = 0 <=> \A i \in 1..Len(all) : all[i] \notin world.refused
    BY <2>1, <2>3 DEF FoundInv
  <2> HIDE DEF all
  <2>5. (\A i \in 1..Len(all) : all[i] \notin world.refused)
          <=> ToSet(all) \cap world.refused = {}
    BY <2>2
  <2>6. Finds(conn.db, Current) <=> ToSet(all) \cap world.refused # {}
    BY <2>3 DEF Finds, all
  <2>7. Finds(conn.db, Current)' = Finds(conn.db, Current)
    BY <2>1 DEF Finds, Current, Results
  <2> QED
    BY <1>7, <2>1, <2>4, <2>5, <2>6, <2>7 DEF FoundInv
<1> QED
  BY FindingSteps, <1>1, <1>2, <1>3, <1>4, <1>5, <1>6, <1>7 DEF Checking,
     RunQuery

-----------------------------------------------------------------------------
(* The checks of one database                                              *)

\* Steps after which the setup of a database is under way.
LEMMA SetupSteps ==
  ASSUME IInv, [Next]_vars, pc' \in {"begin-setup", "setup"}
  PROVE  \/ Aside
         \/ ConnectToDatabase /\ pc' = "begin-setup"
         \/ BeginSetup /\ pc' = "setup"
         \/ SetUpCapability /\ pc' = "setup"
<1>1. CASE Leaves
  BY <1>1 DEF Leaves, Looping
<1>2. CASE EnumerateDatabases \/ CountDatabase \/ PlanDone \/ RollbackChecks
  BY <1>2 DEF EnumerateDatabases, CountDatabase, PlanDone, RollbackChecks
<1>3. CASE ConnectToDatabase \/ BeginSetup
  BY <1>3 DEF ConnectToDatabase, At, BeginSetup, StopDatabase
<1>4. CASE SetUpCapability \/ BeginChecks
  BY <1>4 DEF SetUpCapability, BeginChecks, At, StopDatabase
<1>5. CASE SkipCheck \/ StartCheck \/ RunQuery
  BY <1>5 DEF SkipCheck, StartCheck, RunQuery, At, StopChecks
<1>6. CASE LoadLibrary \/ LibrariesChecked
  BY <1>6 DEF LoadLibrary, LibrariesChecked, At
<1>7. CASE FinishCheck \/ RecoverCheck
  BY <1>7 DEF FinishCheck, RecoverCheck, StopChecks
<1> QED
  BY StepKinds, <1>1, <1>2, <1>3, <1>4, <1>5, <1>6, <1>7 DEF Looped

\* A capability is there when its setup query ran.
LEMMA SetupInvStep ==
  ASSUME IInv, [Next]_vars
  PROVE  SetupInv'
<1> SetupInv /\ check \in Nat
  BY DEF IInv, TypesInv
<1>0. Len(SetupQueries) = 2
  BY DEF SetupQueries
<1>1. CASE pc' \notin {"begin-setup", "setup"}
  BY <1>1 DEF SetupInv
<1>2. CASE Aside
  BY <1>2 DEF Aside, SetupInv, Prepared, checkVars, dbVars
<1>3. CASE ConnectToDatabase /\ pc' = "begin-setup"
  BY <1>3 DEF ConnectToDatabase, At, SetupInv
<1>4. CASE BeginSetup /\ pc' = "setup"
  <2>1. summary' = NoCounts /\ check' = 1
    BY <1>4 DEF BeginSetup, At, SetupInv, StopDatabase
  <2> QED
    BY <1>0, <1>4, <2>1 DEF SetupInv, Prepared
<1>5. CASE SetUpCapability /\ pc' = "setup" /\ ~dbError'
  <2>1. /\ pc = "setup" /\ ~dbError /\ summary' = summary
        /\ check' = check + 1 /\ check <= Len(SetupQueries)
        /\ capabilities' = capabilities \cup {SetupQueries[check]}
    BY <1>5 DEF SetUpCapability, At, StopDatabase, SetupFailed
  <2>2. summary = NoCounts /\
          \A i \in 1..(check - 1) : SetupQueries[i] \in capabilities
    BY <2>1 DEF SetupInv, Prepared
  <2>3. \A i \in 1..((check + 1) - 1) : SetupQueries[i] \in capabilities'
    BY <2>1, <2>2
  <2> QED
    BY <1>0, <1>5, <2>1, <2>2, <2>3 DEF SetupInv, Prepared
<1>6. CASE SetUpCapability /\ pc' = "setup" /\ dbError'
  BY <1>6 DEF SetupInv
<1> QED
  BY SetupSteps, <1>1, <1>2, <1>3, <1>4, <1>5, <1>6

\* Steps after which the checks of a database are under way and nothing failed
\* in it: most leave its counts alone, and end no check.
LEMMA CheckSteps ==
  ASSUME IInv, [Next]_vars, pc' \in Counting \cup {"rollback", "close"},
         ~dbError'
  PROVE  \/ /\ pc \in Counting \cup {"rollback", "close"} /\ ~dbError
            /\ UNCHANGED <<summary, check, capabilities>> /\ conn'.db = conn.db
            /\ \/ pc' \in Counting
               \/ pc \in {"rollback", "close"}
               \/ pc = "check" /\ check > Len(Plan)
         \/ SkipCheck
         \/ BeginChecks /\ pc' = "check"
         \/ FinishCheck /\ pc' = "check"
<1> USE DEF Counting
<1>1. CASE Aside
  <2>1. UNCHANGED <<pc, dbError, summary, check, capabilities, conn>>
    BY <1>1 DEF Aside, checkVars, dbVars
  <2> QED
    BY <2>1
<1>2. CASE Leaves
  BY <1>2 DEF Leaves, Looping
<1>3. CASE EnumerateDatabases \/ ConnectToDatabase \/ CountDatabase
  BY <1>3 DEF EnumerateDatabases, ConnectToDatabase, CountDatabase, At
<1>4. CASE BeginSetup \/ SetUpCapability
  BY <1>4 DEF BeginSetup, SetUpCapability, At, StopDatabase
<1>5. CASE BeginChecks
  BY <1>5 DEF BeginChecks, StopDatabase
<1>6. CASE Within /\ (StartCheck \/ RunQuery)
  <2>1. pc \in {"check", "query"} /\ UNCHANGED <<summary, check, capabilities>>
    BY <1>6 DEF StartCheck, RunQuery, At
  <2>2. pc' \in Counting /\ dbError' = dbError
    BY <1>6 DEF StartCheck, RunQuery, At, StopChecks
  <2> QED
    BY <1>6, <2>1, <2>2 DEF Within
<1>7. CASE Within /\ (LoadLibrary \/ LibrariesChecked)
  <2>1. pc = "libraries" /\ UNCHANGED <<summary, check, capabilities, dbError>>
    BY <1>7 DEF LoadLibrary, LibrariesChecked, At, checkVars, dbVars
  <2>2. pc' \in Counting
    BY <1>7 DEF LoadLibrary, LibrariesChecked, At
  <2> QED
    BY <1>7, <2>1, <2>2 DEF Within
<1>8. CASE FinishCheck \/ RecoverCheck
  BY <1>8 DEF FinishCheck, RecoverCheck, StopChecks
<1>9. CASE Within /\ PlanDone
  BY <1>9 DEF Within, PlanDone, At, checkVars, dbVars
<1>10. CASE Within /\ RollbackChecks
  <2>1. /\ pc = "rollback" /\ UNCHANGED <<summary, check, capabilities>>
        /\ pc' = "close"
    BY <1>10 DEF RollbackChecks, At, checkVars
  <2>2. dbError' = dbError
    BY <1>10 DEF RollbackChecks
  <2> QED
    BY <1>10, <2>1, <2>2 DEF Within
<1>11. CASE SkipCheck
  BY <1>11
<1> QED
  BY StepKinds, LoopKinds, <1>1, <1>2, <1>3, <1>4, <1>5, <1>6, <1>7, <1>8, <1>9,
     <1>10, <1>11 DEF Looped

\* Without an error every check so far is completed, and the findings tell
\* whether one of them found something.
LEMMA CheckInvStep ==
  ASSUME IInv, [Next]_vars
  PROVE  CheckInv'
<1> SUFFICES ASSUME pc' \in Counting \cup {"rollback", "close"}, ~dbError'
             PROVE  /\ Prepared(Len(SetupQueries))'
                    /\ Tallied'
                    /\ pc' \in {"rollback", "close"} => check' = Len(Plan) + 1
  BY Same DEF CheckInv
<1>0. /\ CheckInv /\ check \in Nat /\ Plan' = Plan /\ Len(Plan) \in Nat /\
           world' = world
      /\ \A db, c : Finds(db, c)' = Finds(db, c)
  BY Same, PlanFacts, WorldSame DEF IInv, TypesInv
<1>1. CASE /\ pc \in Counting \cup {"rollback", "close"} /\ ~dbError
           /\ UNCHANGED <<summary, check, capabilities>> /\ conn'.db = conn.db
           /\ \/ pc' \in Counting
              \/ pc \in {"rollback", "close"}
              \/ pc = "check" /\ check > Len(Plan)
  <2>1. Prepared(Len(SetupQueries)) /\ Tallied
    BY <1>0, <1>1 DEF CheckInv
  <2>2. Prepared(Len(SetupQueries))' /\ Tallied'
    <3>1. \A i \in 1..(check - 1) :
            Finds(conn.db, Plan[i])' = Finds(conn.db, Plan[i])
      BY <1>1, <1>0 DEF Finds, Results
    <3> QED
      BY <1>0, <1>1, <2>1, <3>1 DEF Prepared, Tallied
  <2>3. ASSUME pc' \in {"rollback", "close"}
        PROVE  check' = Len(Plan) + 1
    <3>1. CASE pc \in {"rollback", "close"}
      BY <1>0, <1>1, <3>1 DEF CheckInv
    <3>2. CASE pc = "check" /\ check > Len(Plan)
      <4>1. check <= Len(Plan) + 1
        BY <3>2 DEF IInv, RangeInv
      <4> QED
        BY <1>0, <1>1, <3>2, <4>1
    <3> QED
      BY <1>1, <2>3, <3>1, <3>2 DEF Counting
  <2> QED
    BY <2>2, <2>3
<1>2. CASE SkipCheck
  <2>1. /\ pc = "check" /\ ~dbError /\ check <= Len(Plan) /\ ~Available(Current)
    BY <1>2 DEF SkipCheck, At
  <2>2. Prepared(Len(SetupQueries)) /\ check > 0
    BY <2>1, <1>0 DEF CheckInv, Counting, IInv, TypesInv
  <2>3. check \in 1..Len(Plan)
    BY <1>0, <2>1, <2>2
  <2>4. Available(Current)
    BY <2>2, <2>3, Capable DEF Prepared, Current
  <2> QED
    BY <2>1, <2>4
<1>3. CASE BeginChecks /\ pc' = "check"
  <2>1. /\ pc = "setup" /\ ~dbError /\ check > Len(SetupQueries) /\ check' = 1
        /\ summary' = summary /\ capabilities' = capabilities
    BY <1>3 DEF BeginChecks, At, StopDatabase
  <2>2. /\ summary = NoCounts /\ check <= Len(SetupQueries) + 1
        /\ Prepared(check - 1)
    BY <2>1 DEF IInv, SetupInv
  <2>3. Prepared(Len(SetupQueries))
    <3>1. Len(SetupQueries) \in Nat
      BY DEF SetupQueries
    <3>2. check - 1 = Len(SetupQueries)
      BY <1>0, <2>1, <2>2, <3>1
    <3> QED
      BY <2>2, <3>2
  <2>4. Tallied'
    BY <2>1, <2>2 DEF Tallied, NoCounts
  <2> QED
    BY <1>3, <2>1, <2>3, <2>4 DEF Prepared
<1>4. CASE FinishCheck /\ pc' = "check"
  <2>1. /\ pc = "reset" /\ ~dbError /\ check' = check + 1 /\
             capabilities' = capabilities
        /\ summary' = [summary EXCEPT !.completed = @ + 1,
             !.findings = @ + found]
    BY <1>4 DEF FinishCheck, At, StopChecks
  <2>2. /\ Prepared(Len(SetupQueries)) /\ Tallied
    BY <1>0, <2>1 DEF CheckInv, Counting
  <2>3. check > 0 /\ found \in Nat /\ summary \in Counts
    BY <2>1 DEF IInv, TypesInv, Counting, CountsInv
  <2>4. /\ summary'.completed = summary.completed + 1
        /\ summary'.findings = summary.findings + found
        /\ summary'.failed = summary.failed /\
             summary'.unavailable = summary.unavailable
    BY <2>1, <2>3, CountsAdd
  <2>5. found = 0 <=> ~Finds(conn.db, Plan[check])
    BY <2>1 DEF IInv, FoundInv, Current
  <2>6. summary'.findings = 0 <=> \A i \in 1..check : ~Finds(conn.db, Plan[i])
    <3>1. summary.findings \in Nat
      BY <2>3 DEF Counts
    <3>2. summary'.findings = 0 <=> summary.findings = 0 /\ found = 0
      BY <2>3, <2>4, <3>1
    <3>3. summary.findings = 0 <=> \A i \in 1..(check - 1) :
            ~Finds(conn.db, Plan[i])
      BY <2>2 DEF Tallied
    <3>4. \A i \in 1..check : i \in 1..(check - 1) \/ i = check
      BY <1>0, <2>3
    <3>5. check \in 1..check /\ \A i \in 1..(check - 1) : i \in 1..check
      BY <1>0, <2>3
    <3> QED
      BY <2>5, <3>2, <3>3, <3>4, <3>5
  <2>7. conn'.db = conn.db
    BY <1>4, <2>1, LoopKinds DEF Looped, Within, EnumerateDatabases,
       ConnectToDatabase,
       CountDatabase, At
  <2>8. Tallied'
    <3>1. \A i \in 1..check : Finds(conn.db, Plan[i])' = Finds(conn.db, Plan[i])
      BY <1>0, <2>7 DEF Finds, Results
    <3>2. /\ summary'.completed = check' - 1 /\ check' - 1 = check
          /\ summary'.failed = 0 /\ summary'.unavailable = 0
      BY <1>0, <2>1, <2>2, <2>4 DEF Tallied
    <3> QED
      BY <1>0, <2>6, <3>1, <3>2 DEF Tallied
  <2> QED
    BY <1>4, <2>1, <2>2, <2>8 DEF Prepared
<1> QED
  BY CheckSteps, <1>1, <1>2, <1>3, <1>4

-----------------------------------------------------------------------------
(* The counts of all databases                                             *)

\* There are as many databases to check as there are names for them.
LEMMA CheckedCounted ==
  ASSUME TypesInv
  PROVE  Cardinality(Checked) = Len(Order)
<1>1. /\ Order \in Seq(Databases) /\ IsInjective(Order)
      /\ Checked = {Order[i] : i \in 1..Len(Order)}
  BY WorldFacts
<1> DEFINE n == Len(Order)
<1>2. n \in Nat /\ DOMAIN Order = 1..n
  BY <1>1
<1>3. Order \in [1..n -> Checked]
  BY <1>1, <1>2
<1>4. \A db \in Checked : \E i \in 1..n : Order[i] = db
  BY <1>1
<1>5. Order \in Bijection(1..n, Checked)
  BY <1>1, <1>3, <1>4 DEF Bijection, Injection, Surjection
<1>6. ExistsBijection(1..n, Checked)
  BY <1>5 DEF ExistsBijection
<1>7. IsFiniteSet(1..n) /\ Cardinality(1..n) = n
  <2>1. 1 \in Int /\ n \in Int
    BY <1>2
  <2>2. IsFiniteSet(1..n) /\ Cardinality(1..n) = IF 1 > n THEN 0 ELSE n - 1 + 1
    BY <2>1, FS_Interval
  <2> QED
    BY <1>2, <2>2
<1> QED
  BY <1>6, <1>7, FS_Bijection

\* Nothing is counted before the loop.
LEMMA BeforeSteps ==
  ASSUME IInv, [Next]_vars, pc' \in Before
  PROVE  pc \in Before /\ totals' = totals
<1> USE DEF Before
<1>1. CASE Aside
  BY <1>1 DEF Aside, dbVars
<1>2. CASE DoFlagValidation \/ CreateSourceConnection \/ CreateTargetConnection
  BY <1>2 DEF DoFlagValidation, CreateSourceConnection, CreateTargetConnection,
     At, dbVars
<1>3. CASE Summarize \/ Recover \/ Teardown
  BY <1>3 DEF Summarize, Recover, Teardown
<1>4. CASE Exit \/ UNCHANGED vars \/ Signal \/ HandlerCleansUp \/
        HandlerExits \/ Stopped
  BY <1>4 DEF Exit, Signal, HandlerCleansUp, HandlerExits, Stopped, vars, dbVars
<1>5. CASE PanicInEnumerate \/ PanicOnTarget \/ PanicInCheck \/ \E p : Panics(p)
  BY <1>5, PanicSteps DEF Panic
<1>6. CASE Within
  BY <1>6 DEF Within, InDatabase, Counting, Checking
<1>7. CASE EnumerateDatabases \/ ConnectToDatabase \/ CountDatabase
  BY <1>7 DEF EnumerateDatabases, ConnectToDatabase, CountDatabase, At
<1> QED
  BY LoopKinds, <1>2, <1>3, <1>4, <1>5, <1>6, <1>7 DEF Next, Main, Statement,
     Looped

\* All of a database's counts are added to those of the databases before it.
LEMMA CountFacts ==
  ASSUME IInv, CountDatabase
  PROVE  /\ totals'.completed = totals.completed + summary.completed
         /\ totals'.failed = totals.failed + summary.failed
         /\ totals'.unavailable = totals.unavailable + summary.unavailable
         /\ totals'.findings = totals.findings + summary.findings
<1>1. totals' = [k \in DOMAIN totals |-> totals[k] + summary[k]]
  BY DEF CountDatabase
<1>2. totals \in Counts
  BY DEF IInv, CountsInv
<1>3. DOMAIN totals = {"completed", "failed", "unavailable", "findings"}
  BY <1>2 DEF Counts
<1> QED
  BY <1>1, <1>3

\* A database without an error has all its checks completed, and is counted
\* with findings when it has a problem.
LEMMA DatabaseTallied ==
  ASSUME IInv, pc = "close", ~dbError
  PROVE  /\ summary.completed = Len(Plan)
         /\ summary.failed = 0 /\ summary.unavailable = 0
         /\ summary.findings = 0 <=> ~ProblemIn(Order[Gone + 1])
<1>1. Tallied /\ check = Len(Plan) + 1
  BY DEF IInv, CheckInv
<1>2. conn.db = Order[Gone + 1]
  BY AtHand DEF InDatabase
<1>3. (Len(Plan) + 1) - 1 = Len(Plan)
  BY PlanFacts
<1>4. ProblemIn(conn.db) <=> \E i \in 1..Len(Plan) : Finds(conn.db, Plan[i])
  BY ProblemsFound
<1> QED
  BY <1>1, <1>2, <1>3, <1>4 DEF Tallied

\* Without an error the totals tell of every database that is done.
LEMMA TotalsInvStep ==
  ASSUME IInv, [Next]_vars
  PROVE  TotalsInv'
<1>1. pc' \in Before => totals' = NoCounts
  BY BeforeSteps DEF IInv, TotalsInv
<1> SUFFICES ASSUME pc' \in Looping, ~executionError'
             PROVE  /\ totals'.completed = Gone' * Len(Plan)
                    /\ totals'.failed = 0 /\ totals'.unavailable = 0
                    /\ totals'.findings = 0 <=> \A i \in 1..Gone' :
                         ~ProblemIn(Order[i])
  <2>1. Order' = Order /\ Plan' = Plan /\ world' = world
    BY Same, WorldSame
  <2>2. \A i \in 1..Gone' : ProblemIn(Order[i])' = ProblemIn(Order[i])
    BY <2>1 DEF ProblemIn, Results, Target, Flag
  <2>3. (\A i \in 1..Gone : ~ProblemIn(Order[i]))'
          <=> \A i \in 1..Gone' : ~ProblemIn(Order[i])
    BY <2>2
  <2> QED
    BY <1>1, <2>1, <2>3 DEF TotalsInv
<1>2. /\ TotalsInv /\ Order' = Order /\ LoopInv'
      /\ summary.findings \in Nat /\ totals.findings \in Nat
      /\ Len(Plan) \in {11, 12} /\ Order \in Seq(Databases)
  BY Same, LoopInvStep, PlanFacts, WorldFacts DEF IInv, CountsInv, Counts
<1>3. CASE pc \in Looping /\ UNCHANGED <<left, totals, executionError>>
  <2>1. Gone' = Gone
    BY <1>2, <1>3 DEF Gone
  <2> QED
    BY <1>2, <1>3, <2>1 DEF TotalsInv
<1>4. CASE Aside
  BY <1>3, <1>4 DEF Aside, dbVars
<1>5. CASE Leaves
  BY <1>5 DEF Leaves
<1>6. CASE Within
  BY <1>3, <1>6 DEF Within, Looping, InDatabase
<1>7. CASE EnumerateDatabases
  <2>1. pc' = "database" /\ pc = "enumerate" /\ totals' = totals
    BY <1>7 DEF EnumerateDatabases, At, Looping, InDatabase, Counting, Checking
  <2>2. totals' = NoCounts
    BY <1>2, <2>1 DEF TotalsInv, Before
  <2>3. Gone' = 0
    <3>1. world.database # None => bootstrap = world.database
      BY <2>1 DEF IInv, StartInv
    <3>2. left' = IF world.database = None THEN
            world.databases ELSE <<bootstrap>>
      BY <1>7, <2>1 DEF EnumerateDatabases
    <3>3. left' = Order
      BY <3>1, <3>2 DEF Order
    <3> QED
      BY <1>2, <3>3 DEF Gone
  <2> QED
    BY <1>2, <2>2, <2>3 DEF NoCounts
<1>8. CASE ConnectToDatabase
  BY <1>3, <1>8 DEF ConnectToDatabase, At, Looping
<1>9. CASE CountDatabase
  <2>1. /\ pc = "close" /\ ~executionError /\ ~dbError /\ left' = Tail(left)
    BY <1>9 DEF CountDatabase, At
  <2>2. pc \in Looping /\ pc \in InDatabase
    BY <2>1 DEF Looping, InDatabase
  <2>3. left # <<>>
    BY <2>2 DEF IInv, LoopInv
  <2>4. Gone' = Gone + 1 /\ Gone \in Nat
    BY <1>2, <2>1, <2>2, <2>3, LeftAfter DEF Gone
  <2>5. /\ totals.completed = Gone * Len(Plan)
        /\ totals.failed = 0 /\ totals.unavailable = 0
        /\ totals.findings = 0 <=> \A i \in 1..Gone : ~ProblemIn(Order[i])
    BY <1>2, <2>1, <2>2 DEF TotalsInv
  <2>6. totals'.completed = Gone' * Len(Plan)
    <3>1. totals'.completed = Gone * Len(Plan) + Len(Plan)
      BY <1>9, <2>1, <2>5, CountFacts, DatabaseTallied
    <3>2. CASE Len(Plan) = 11
      BY <2>4, <3>1, <3>2
    <3>3. CASE Len(Plan) = 12
      BY <2>4, <3>1, <3>3
    <3> QED
      BY <1>2, <3>2, <3>3
  <2>7. totals'.failed = 0 /\ totals'.unavailable = 0
    BY <1>9, <2>1, <2>5, CountFacts, DatabaseTallied
  <2>8. totals'.findings = 0 <=> \A i \in 1..(Gone + 1) : ~ProblemIn(Order[i])
    <3>1. totals'.findings = 0 <=> totals.findings = 0 /\ summary.findings = 0
      <4>1. summary.findings \in Nat /\ totals.findings \in Nat
        BY <1>2
      <4>2. totals'.findings = totals.findings + summary.findings
        BY <1>9, CountFacts
      <4> QED
        BY <4>1, <4>2
    <3>2. summary.findings = 0 <=> ~ProblemIn(Order[Gone + 1])
      BY <2>1, DatabaseTallied
    <3>3. \A i \in 1..(Gone + 1) : i \in 1..Gone \/ i = Gone + 1
      BY <2>4
    <3>4. Gone + 1 \in 1..(Gone + 1) /\ \A i \in 1..Gone : i \in 1..(Gone + 1)
      BY <2>4
    <3> QED
      BY <2>5, <3>1, <3>2, <3>3, <3>4
  <2> QED
    BY <2>4, <2>6, <2>7, <2>8
<1> QED
  BY StepKinds, LoopKinds, <1>4, <1>5, <1>6, <1>7, <1>8, <1>9

-----------------------------------------------------------------------------
(* The exit code                                                           *)

\* A panic comes from a connection that was closed.
LEMMA PanicMeansClosed ==
  ASSUME PanicInEnumerate \/ PanicOnTarget \/ PanicInCheck
         \/ \E p \in {"begin-setup", "setup", "query", "reset", "recover-check",
                      "rollback"} : Panics(p)
  PROVE  closed # {} /\ pc # "exit"
BY DEF PanicInEnumerate, PanicOnTarget, PanicInCheck, Panics, Closed, At

\* The loop leaves to the summary, and closes nothing.
LEMMA LoopCloses ==
  ASSUME Looped
  PROVE  /\ UNCHANGED endVars /\ exitCode = -1 /\ pc # "exit"
         /\ pc' \in Looping \/ (EnumerateDatabases /\ pc' = "teardown")
<1> USE DEF At, Alive, Looping
<1>1. CASE EnumerateDatabases \/ ConnectToDatabase
  BY <1>1 DEF EnumerateDatabases, ConnectToDatabase
<1>2. CASE BeginSetup
  BY <1>2 DEF BeginSetup, StopDatabase
<1>3. CASE SetUpCapability
  BY <1>3 DEF SetUpCapability, StopDatabase
<1>4. CASE BeginChecks
  BY <1>4 DEF BeginChecks, StopDatabase
<1>5. CASE SkipCheck \/ LibrariesChecked \/ PlanDone
  BY <1>5 DEF SkipCheck, LibrariesChecked, PlanDone
<1>6. CASE StartCheck
  BY <1>6 DEF StartCheck, StopChecks
<1>7. CASE RunQuery
  BY <1>7 DEF RunQuery
<1>8. CASE LoadLibrary
  BY <1>8 DEF LoadLibrary
<1>9. CASE FinishCheck
  BY <1>9 DEF FinishCheck, StopChecks
<1>10. CASE RecoverCheck
  BY <1>10 DEF RecoverCheck, StopChecks
<1>11. CASE RollbackChecks \/ CountDatabase
  BY <1>11 DEF RollbackChecks, CountDatabase
<1> QED
  BY <1>1, <1>2, <1>3, <1>4, <1>5, <1>6, <1>7, <1>8, <1>9, <1>10, <1>11
     DEF Looped

\* The kinds of step that say something about the end.
LEMMA EndKinds ==
  ASSUME IInv, [Next]_vars
  PROVE  \/ DoFlagValidation \/ CreateSourceConnection \/ CreateTargetConnection
         \/ Looped \/ Summarize \/ Recover \/ Teardown \/ Exit
         \/ UNCHANGED vars
         \/ PanicInEnumerate \/ PanicOnTarget \/ PanicInCheck
         \/ \E p \in {"begin-setup", "setup", "query", "reset", "recover-check",
                      "rollback"} : Panics(p)
         \/ Signal \/ HandlerCleansUp \/ HandlerExits
BY DEF Next, Main, Statement, Looped, Stopped

\* Before the loop.
LEMMA StartInvStep ==
  ASSUME IInv, [Next]_vars
  PROVE  StartInv'
<1> StartInv /\ world' = world
  BY WorldSame DEF IInv
<1> USE DEF StartInv
<1>1. CASE DoFlagValidation
  BY <1>1 DEF DoFlagValidation
<1>2. CASE CreateSourceConnection
  <2>1. CASE pc' = "teardown"
    BY <1>2, <2>1 DEF CreateSourceConnection, endVars
  <2>2. CASE pc' # "teardown"
    <3>1. PICK n \in 0..Len(Candidates) :
                 /\ n # Len(Candidates)
                 /\ bootstrap' = Candidates[n + 1]
                 /\ pc' = "target" /\ world.sourceVersion = 6
      BY <1>2, <2>2 DEF CreateSourceConnection
    <3>2. world.database # None => bootstrap' = world.database
      BY <3>1 DEF Candidates
    <3> QED
      BY <1>2, <3>1, <3>2 DEF CreateSourceConnection, endVars
  <2> QED
    BY <2>1, <2>2
<1>3. CASE CreateTargetConnection
  BY <1>3 DEF CreateTargetConnection, At, endVars
<1>4. CASE Looped
  BY <1>4, LoopCloses DEF Looping, endVars
<1>5. CASE Summarize \/ Recover \/ Teardown \/ Exit
  BY <1>5 DEF Summarize, Recover, Teardown, Exit, At, endVars
<1>6. CASE UNCHANGED vars
  BY <1>6 DEF vars, endVars
<1>7. CASE Panic
  BY <1>7 DEF Panic, endVars
<1>8. CASE Signal \/ HandlerCleansUp \/ HandlerExits
  BY <1>8 DEF Signal, HandlerCleansUp, HandlerExits
<1> QED
  BY EndKinds, PanicSteps, <1>1, <1>2, <1>3, <1>4, <1>5, <1>6, <1>7, <1>8

\* What the codes speak of does not change after the counting.
LEMMA MeaningKept ==
  ASSUME IInv, [Next]_vars, totals' = totals
  PROVE  /\ EverythingCompleted' <=> EverythingCompleted
         /\ Clean' <=> Clean
         /\ ValidateFlagCombinations' <=> ValidateFlagCombinations
<1> world' = world /\ Checked' = Checked /\ Plan' = Plan
  BY Same, WorldSame
<1>1. EverythingCompleted' <=> EverythingCompleted
  BY DEF EverythingCompleted
<1>2. Clean' <=> Clean
  BY DEF Clean, ProblemIn, Results, Target, Flag
<1>3. ValidateFlagCombinations' <=> ValidateFlagCombinations
  BY DEF ValidateFlagCombinations, Flag, Port
<1> QED
  BY <1>1, <1>2, <1>3

\* The summary, when all databases are done.
LEMMA SummaryMeans ==
  ASSUME IInv, pc = "database", left = <<>>
  PROVE  Means(SummaryCode)
<1>1. CASE executionError
  <2>1. failures > 0
    BY <1>1 DEF IInv, ErrorInv
  <2> QED
    BY <1>1, <2>1 DEF Means, SummaryCode
<1>2. CASE ~executionError
  <2>1. /\ totals.completed = Gone * Len(Plan)
        /\ totals.failed = 0 /\ totals.unavailable = 0
        /\ totals.findings = 0 <=> \A i \in 1..Gone : ~ProblemIn(Order[i])
    BY <1>2 DEF IInv, TotalsInv, Looping
  <2>2. /\ Order \in Seq(Databases) /\
             Checked = {Order[i] : i \in 1..Len(Order)}
        /\ Cardinality(Checked) = Len(Order)
    BY WorldFacts, CheckedCounted DEF IInv
  <2>3. Gone = Len(Order)
    <3>1. Len(left) = 0
      BY SMTT(30)
    <3>2. Order \in Seq(Databases)
      BY <2>2
    <3>3. Len(Order) \in Nat
      BY <3>2, SMTT(30)
    <3> QED
      BY <3>1, <3>3 DEF Gone
  <2>4. EverythingCompleted
    BY <2>1, <2>2, <2>3, ZenonT(60) DEF EverythingCompleted
  <2>5. totals.findings = 0 <=> Clean
    BY <2>1, <2>2, <2>3 DEF Clean
  <2>6. totals.findings \in Nat
    BY DEF IInv, CountsInv, Counts
  <2>7. SummaryCode = IF totals.findings > 0 THEN 1 ELSE 0
    BY <1>2, <2>1 DEF SummaryCode
  <2>8. CASE totals.findings = 0
    <3>1. SummaryCode = 0
      BY <2>7, <2>8
    <3> QED
      BY <2>4, <2>5, <2>8, <3>1 DEF Means
  <2>9. CASE totals.findings # 0
    <3>1. SummaryCode = 1
      BY <2>6, <2>7, <2>9
    <3> QED
      BY <2>4, <2>5, <2>9, <3>1 DEF Means
  <2> QED
    BY <2>8, <2>9
<1> QED
  BY <1>1, <1>2

\* Without a signal the code is right from the moment it is set.
LEMMA CodeInvStep ==
  ASSUME IInv, [Next]_vars
  PROVE  CodeInv'
<1> SUFFICES ASSUME ~wasTerminated'
             PROVE  CodeInv'
  BY DEF CodeInv
<1>0. /\ world' = world /\ failures \in Nat /\ failures' \in Nat
      /\ failures' >= failures
  BY WorldSame, FailuresGrow DEF IInv, TypesInv
<1>1. CASE DoFlagValidation
  <2>1. /\ ~wasTerminated /\ pc = "flags" /\ exitCode = -1 /\ closed' = closed
        /\ failures' = failures /\ totals' = totals
        /\ \/ ~world.knownFlags /\ exitCode' = 4 /\ pc' = pc
           \/ exitCode' = -1 /\ pc' = "connect"
           \/ ~ValidateFlagCombinations /\ exitCode' = -1 /\ pc' = "recover" /\
                errorCode' = 4
    BY <1>1 DEF DoFlagValidation, At, Alive, dbVars
  <2>2. closed = {}
    BY <2>1 DEF IInv, CodeInv
  <2>3. ValidateFlagCombinations' <=> ValidateFlagCombinations
    BY <2>1, MeaningKept
  <2> QED
    BY <1>0, <2>1, <2>2, <2>3 DEF CodeInv, Means
<1>2. CASE CreateSourceConnection
  <2>1. /\ ~wasTerminated /\ pc = "connect" /\ exitCode = -1 /\
             UNCHANGED <<closed, exitCode>>
    BY <1>2 DEF CreateSourceConnection, At, Alive, endVars
  <2>2. \/ pc' = "target"
        \/ pc' = "teardown" /\ errorCode' = 2 /\ world.sourceVersion # 6
        \/ pc' = "teardown" /\ errorCode' = 5 /\
             failures' = failures + Len(Candidates)
    BY <1>2 DEF CreateSourceConnection
  <2>3. Len(Candidates) \in {1, 2}
    BY DEF Candidates
  <2>4. closed = {}
    BY <2>1 DEF IInv, CodeInv
  <2> QED
    BY <1>0, <2>1, <2>2, <2>3, <2>4, SMTT(30) DEF CodeInv, Means
<1>3. CASE CreateTargetConnection
  <2>1. /\ ~wasTerminated /\ pc = "target" /\ exitCode = -1 /\
             UNCHANGED <<closed, exitCode>>
        /\ \/ pc' = "enumerate"
           \/ pc' = "teardown" /\ errorCode' = 3 /\ world.targetVersion # 7
           \/ pc' = "teardown" /\ errorCode' = 5 /\ failures' = failures + 1
    BY <1>3 DEF CreateTargetConnection, At, Alive, Fails, endVars
  <2>2. closed = {} /\ world.sourceVersion = 6
    BY <2>1 DEF IInv, CodeInv, StartInv
  <2> QED
    BY <1>0, <2>1, <2>2 DEF CodeInv, Means
<1>4. CASE Looped
  <2>1. /\ ~wasTerminated /\ pc # "exit" /\ exitCode = -1 /\
             UNCHANGED <<closed, exitCode>>
    BY <1>4, LoopCloses DEF endVars
  <2>2. closed = {}
    BY <2>1 DEF IInv, CodeInv
  <2>3. \/ pc' \in Looping
        \/ pc' = "teardown" /\ errorCode' = 5 /\ failures' = failures + 1
    BY <1>4, LoopCloses DEF EnumerateDatabases, Fails
  <2> QED
    BY <1>0, <2>1, <2>2, <2>3 DEF CodeInv, Means, Looping
<1>5. CASE Summarize
  <2>1. /\ ~wasTerminated /\ pc = "database" /\ left = <<>> /\ exitCode = -1
        /\ UNCHANGED <<closed, exitCode, failures, totals>>
        /\ pc' = "teardown" /\ errorCode' = SummaryCode
    BY <1>5 DEF Summarize, At, Alive, endVars, dbVars
  <2>2. closed = {}
    BY <2>1 DEF IInv, CodeInv
  <2>3. Means(SummaryCode)
    BY <2>1, SummaryMeans
  <2>4. Means(errorCode)'
    BY <1>0, <2>1, <2>3, MeaningKept DEF Means
  <2> QED
    BY <2>1, <2>2, <2>4 DEF CodeInv
<1>6. CASE Recover
  <2>1. /\ ~wasTerminated /\ pc = "recover" /\ exitCode = -1
        /\ UNCHANGED <<closed, exitCode, failures, totals>>
        /\ pc' = "teardown" /\ errorCode' =
             IF errorCode < 2 THEN 5 ELSE errorCode
    BY <1>6 DEF Recover, At, Alive, endVars, dbVars
  <2>2. closed = {} /\ errorCode = 4 /\ Means(errorCode)
    BY <2>1 DEF IInv, CodeInv
  <2>3. Means(errorCode)'
    BY <1>0, <2>1, <2>2, MeaningKept DEF Means
  <2> QED
    BY <2>1, <2>2, <2>3 DEF CodeInv
<1>7. CASE Teardown
  <2>1. /\ ~wasTerminated /\ pc = "teardown" /\ exitCode = -1
        /\ UNCHANGED <<exitCode, failures, totals, errorCode>> /\ pc' = "exit"
    BY <1>7 DEF Teardown, At, Alive, dbVars
  <2>2. Means(errorCode)
    BY <2>1 DEF IInv, CodeInv
  <2>3. Means(errorCode)'
    BY <1>0, <2>1, <2>2, MeaningKept DEF Means
  <2> QED
    BY <2>1, <2>3 DEF CodeInv
<1>8. CASE Exit
  <2>1. /\ ~wasTerminated /\ pc = "exit" /\ pc' = "exit" /\
             exitCode' = errorCode
        /\ UNCHANGED <<failures, totals, errorCode>>
    BY <1>8 DEF Exit, At, dbVars
  <2>2. Means(errorCode)
    BY <2>1 DEF IInv, CodeInv
  <2>3. Means(errorCode)'
    BY <1>0, <2>1, <2>2, MeaningKept DEF Means
  <2>4. Means(exitCode)'
    BY <2>1, <2>3 DEF Means
  <2> QED
    BY <2>1, <2>3, <2>4 DEF CodeInv
<1>9. CASE UNCHANGED vars
  <2>1. UNCHANGED <<pc, closed, errorCode, exitCode, wasTerminated, failures,
          totals>>
    BY <1>9 DEF vars, dbVars, endVars
  <2>2. Means(errorCode) => Means(errorCode)'
    BY <1>0, <2>1, MeaningKept DEF Means
  <2>3. Means(exitCode) => Means(exitCode)'
    BY <1>0, <2>1, MeaningKept DEF Means
  <2> QED
    BY <2>1, <2>2, <2>3 DEF CodeInv, IInv
<1>10. CASE \/ PanicInEnumerate \/ PanicOnTarget \/ PanicInCheck
            \/ \E p \in {"begin-setup", "setup", "query", "reset",
                 "recover-check",
                         "rollback"} : Panics(p)
  <2>1. closed # {} /\ pc # "exit"
    BY <1>10, PanicMeansClosed
  <2>2. ~wasTerminated
    BY <1>10, PanicSteps DEF Panic, endVars
  <2> QED
    BY <2>1, <2>2 DEF IInv, CodeInv
<1>11. CASE Signal \/ HandlerCleansUp \/ HandlerExits
  BY <1>11 DEF Signal, HandlerCleansUp, HandlerExits, IInv, StartInv
<1> QED
  BY EndKinds, <1>1, <1>2, <1>3, <1>4, <1>5, <1>6, <1>7, <1>8, <1>9, <1>10,
     <1>11

-----------------------------------------------------------------------------
(* The theorems                                                            *)

\* The invariant holds at the start.
LEMMA IInvInit ==
  ASSUME Init
  PROVE  IInv
<1> USE MaxFailuresAssumption DEF Init
<1>1. CountsInv /\ FailedInv
  BY DEF CountsInv, FailedInv, Counts, NoCounts
<1>2. TypesInv
  BY DEF TypesInv, Counting
<1>3. SessionInv
  BY DEF SessionInv, Sessions, NoSession, Counting
<1>4. ErrorInv
  BY DEF ErrorInv, InDatabase
<1>5. TargetInv /\ LoopInv
  BY DEF TargetInv, LoopInv, Looping
<1>6. RangeInv /\ FoundInv
  BY DEF RangeInv, FoundInv, Checking
<1>7. CacheInv
  BY DEF CacheInv
<1>8. SetupInv /\ CheckInv
  BY DEF SetupInv, CheckInv, Counting
<1>9. TotalsInv
  BY DEF TotalsInv, Looping
<1>10. StartInv /\ CodeInv
  BY DEF StartInv, CodeInv
<1> QED
  BY <1>1, <1>2, <1>3, <1>4, <1>5, <1>6, <1>7, <1>8, <1>9, <1>10 DEF IInv

\* The counts, the finding of the check at hand and the code main ends with
\* agree with what was looked at, in every state of every run.
THEOREM Inductive == Spec => []IInv
<1>1. Init => IInv
  BY IInvInit
<1>2. IInv /\ [Next]_vars => IInv'
  <2> SUFFICES ASSUME IInv, [Next]_vars
               PROVE  IInv'
    OBVIOUS
  <2>1. CountsInv' /\ TypesInv' /\ SessionInv' /\ FailedInv' /\ ErrorInv'
    BY CountsInvStep, TypesInvStep, SessionInvStep, FailedInvStep, ErrorInvStep
  <2>2. TargetInv' /\ LoopInv' /\ RangeInv' /\ CacheInv' /\ FoundInv'
    BY TargetInvStep, LoopInvStep, RangeInvStep, CacheInvStep, FoundInvStep
  <2>3. SetupInv' /\ CheckInv' /\ TotalsInv' /\ StartInv' /\ CodeInv'
    BY SetupInvStep, CheckInvStep, TotalsInvStep, StartInvStep, CodeInvStep
  <2> QED
    BY <2>1, <2>2, <2>3 DEF IInv
<1> QED
  BY <1>1, <1>2, PTL DEF Spec

\* A check that fails takes no other one with it: it costs a statement of its
\* own, and the next check finds the transaction and track_counts in order
\* (checks.go:400).
THEOREM FailuresStayContained == Spec => []FailuresContained
<1>1. IInv => FailuresContained
  BY DEF IInv, FailedInv, SessionInv, Counting, FailuresContained
<1> QED
  BY <1>1, Inductive, PTL

\* The exit code of a run that nobody terminates means what README.md:169
\* says, for any clusters, any list of databases and any number of failures.
THEOREM ExitCodeRight == Spec => []ExitCodeMeaning
<1>1. ASSUME IInv, exitCode # -1, ~wasTerminated
      PROVE  Means(exitCode)
  BY <1>1 DEF IInv, CodeInv
<1>2. IInv => ExitCodeMeaning
  <2> SUFFICES ASSUME IInv, exitCode # -1, ~wasTerminated
               PROVE  ExitCodeMeaning
    BY DEF ExitCodeMeaning
  <2>1. Means(exitCode) /\ (~Clean <=> \E db \in Checked : ProblemIn(db))
    BY <1>1 DEF Clean
  <2>2. CASE exitCode = 0
    BY <2>1, <2>2 DEF Means, Clean, ExitCodeMeaning
  <2>3. CASE exitCode = 1
    BY <2>1, <2>3 DEF Means, ExitCodeMeaning
  <2>4. CASE exitCode = 2
    BY <2>1, <2>4 DEF Means, ExitCodeMeaning
  <2>5. CASE exitCode = 3
    BY <2>1, <2>5 DEF Means, ExitCodeMeaning
  <2>6. CASE exitCode = 4
    BY <2>1, <2>6 DEF Means, ExitCodeMeaning
  <2>7. CASE exitCode = 5
    BY <2>1, <2>7 DEF Means, ExitCodeMeaning
  <2>8. exitCode \in {0, 1, 2, 3, 4, 5}
    BY <2>1 DEF Means
  <2> QED
    BY <2>2, <2>3, <2>4, <2>5, <2>6, <2>7, <2>8
<1> QED
  BY <1>2, Inductive, PTL

==============================================================================
