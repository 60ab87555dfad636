---------------------------- MODULE PredataRestore ----------------------------
(***************************************************************************)
(* How gprestore runs the statements of the pre-data section: one after    *)
(* the other, or tier by tier with the cohorts of a tier on several        *)
(* connections, each in a transaction of its own.                          *)
(*                                                                         *)
(* A statement is its place among the pre-data entries of the TOC.  Its    *)
(* object has the tier and the cohort that TopologicalSort gave it; tier 0 *)
(* is for objects that take no part in the sort, and for all objects of    *)
(* backups made before there were tiers.                                   *)
(***************************************************************************)
EXTENDS MetadataTiers, Integers, FiniteSets

CONSTANTS NumStatements,
          Plans,        \* [object, deps, tier, cohort]: what a backup may hold
          Filters,      \* sets of objects that pass the filters of a restore
          ConnCounts,   \* values of --jobs
          MaxFailures   \* bound: statements that fail for reasons of their own

Statements == 1..NumStatements
None       == 0

Numbered(plan) == {o \in Objects : plan.tier[o] > 0}
NumberedDeps(plan) == [o \in Objects |-> plan.deps[o] \cap Numbered(plan)]

ASSUME PlansAssumption ==
  \A p \in Plans :
    /\ p.object \in [Statements -> Objects]
    /\ p.deps \in [Objects -> SUBSET Objects]
    /\ p.tier \in [Objects -> Nat] /\ p.cohort \in [Objects -> Nat]
    /\ TiersFollow(Numbered(p), NumberedDeps(p), p.tier)
    /\ CohortsIsolate(Numbered(p), NumberedDeps(p), p.cohort)
    \* what a statement refers to is earlier in the file
    /\ \A r, s \in Statements : p.object[r] \in p.deps[p.object[s]] => r < s
    \* backupPredata writes what sorted objects need outside of the sort first
    /\ \A r, s, q \in Statements :
         /\ p.object[r] \in p.deps[p.object[s]] \ Numbered(p)
         /\ {p.object[s], p.object[q]} \subseteq Numbered(p)
         => r < q
ASSUME CountsAssumption == /\ NumStatements \in Nat
                           /\ Filters \subseteq SUBSET Objects
                           /\ ConnCounts \subseteq Nat \ {0}
                           /\ MaxFailures \in Nat

VARIABLES plan, kept, numConns, onErrorContinue,    \* the restore's input
          stage,        \* where restorePredata is
          t,            \* its loop variable
          work,         \* the channel of each connection
          worker,       \* "idle", "run" or "done"
          running,      \* the statement a connection executes
          tx,           \* "none", "open" or "broken"
          made, held,   \* a transaction's statements and locked objects
          committed, failed, numErrors,
          fatalBy,      \* the connections that have set fatalErr
          wasTerminated

input    == <<plan, kept, numConns, onErrorContinue>>
workVars == <<work, worker, running>>
txVars   == <<tx, made, held, committed>>
errVars  == <<failed, numErrors, fatalBy>>
vars == <<input, stage, t, workVars, txVars, errVars, wasTerminated>>

Conns == 0..(numConns - 1)

-----------------------------------------------------------------------------
(* The statements and their batches                                        *)

Chosen     == {s \in Statements : plan.object[s] \in kept}
TierOf(s)  == plan.tier[plan.object[s]]
Requires(s) == {r \in Statements : \/ plan.object[r] \in plan.deps[plan.object[s]]
                                   \/ plan.object[r] = plan.object[s] /\ r < s}

\* The objects that creating or altering s's object locks.
Locks(s) == {plan.object[s]} \cup NumberedDeps(plan)[plan.object[s]]

\* BatchPredataStatements: tier 0 before and after the first numbered one.
FirstTierZero == {s \in Chosen : /\ TierOf(s) = 0
                                 /\ \A r \in Chosen : TierOf(r) > 0 => s < r}
SecondTierZero == {s \in Chosen : TierOf(s) = 0} \ FirstTierZero
Tiered(k) == {s \in Chosen : TierOf(s) = k}
Tiers     == {TierOf(s) : s \in Chosen} \ {0}

\* A bug: the last tier is left out.
TiersButOne == Cardinality(Tiers) - 1

\* The bound of the loop is the length of the map, not its greatest key.
NumTiers == Cardinality(Tiers)

\* Some tier is missing below the greatest, for its objects were filtered out.
Gap == \E k \in Tiers : \E j \in 1..k : j \notin Tiers

\* findLeastBusyConn: connection 1 unless others have fewer statements, then
\* any of those with the fewest.
LeastBusy(load, c) ==
  /\ \A d \in Conns : load[c] <= load[d]
  /\ c # 1 => load[c] < load[1]

\* A bug: statements are dealt out without regard to their cohort.
Dealt(batch) ==
  {[c \in Conns |-> {s \in batch : s % numConns = c}]}

\* scheduleStatementsOnWorkers: a cohort goes to the connection that is least
\* busy when its first statement is reached.
Schedules(batch) ==
  LET cohorts == {plan.cohort[plan.object[s]] : s \in batch}
      Assigned(f, c) == {s \in batch : f[plan.cohort[plan.object[s]]] = c}
      First(k) == CHOOSE s \in batch :
                    /\ plan.cohort[plan.object[s]] = k
                    /\ \A r \in batch : plan.cohort[plan.object[r]] = k => s <= r
      Load(f, s) ==
        [c \in Conns |-> Cardinality({r \in Assigned(f, c) : r < s})]
  IN {[c \in Conns |-> Assigned(f, c)] :
        f \in {g \in [cohorts -> Conns] :
                 \A k \in cohorts : LeastBusy(Load(g, First(k)), g[k])}}

-----------------------------------------------------------------------------
TypeOK ==
  /\ stage \in {"start", "first", "tier", "wait", "last", "all", "done",
                "fatal", "exited"}
  /\ t \in 1..(NumTiers + 1)
  /\ work \in [Conns -> SUBSET Chosen]
  /\ worker \in [Conns -> {"idle", "run", "done"}]
  /\ running \in [Conns -> Statements \cup {None}]
  /\ tx \in [Conns -> {"none", "open", "broken"}]
  /\ made \in [Conns -> SUBSET Statements]
  /\ held \in [Conns -> SUBSET Objects]
  /\ committed \subseteq Statements
  /\ failed \subseteq Statements
  /\ numErrors \in Nat
  /\ fatalBy \subseteq Conns
  /\ wasTerminated \in BOOLEAN
  /\ stage \in {"tier", "wait"} => tx[0] = "none"
  /\ \A c \in Conns : tx[c] = "none" => made[c] = {} /\ held[c] = {}

Init ==
  /\ plan \in Plans /\ kept \in Filters
  /\ numConns \in ConnCounts /\ onErrorContinue \in BOOLEAN
  /\ stage = "start" /\ t = 1
  /\ work = [c \in Conns |-> {}]
  /\ worker = [c \in Conns |-> "idle"]
  /\ running = [c \in Conns |-> None]
  /\ tx = [c \in Conns |-> "none"]
  /\ made = [c \in Conns |-> {}] /\ held = [c \in Conns |-> {}]
  /\ committed = {} /\ failed = {}
  /\ numErrors = 0
  /\ fatalBy = {}
  /\ wasTerminated = FALSE

-----------------------------------------------------------------------------
(* Transactions of a connection                                            *)

Commit(c) ==
  /\ committed' = IF tx[c] = "open" THEN committed \cup made[c] ELSE committed
  /\ tx' = [tx EXCEPT ![c] = "none"]
  /\ made' = [made EXCEPT ![c] = {}]
  /\ held' = [held EXCEPT ![c] = {}]

Rollback(c) ==
  /\ tx' = [tx EXCEPT ![c] = "none"]
  /\ made' = [made EXCEPT ![c] = {}]
  /\ held' = [held EXCEPT ![c] = {}]
  /\ UNCHANGED committed

-----------------------------------------------------------------------------
(* A worker: executeStatementsForConn                                      *)

InParallel == stage = "wait"

\* A bug: the statements of a batch are taken in reverse order.
LastOf(c) == CHOOSE s \in work[c] : \A r \in work[c] : s >= r

NextOf(c) == CHOOSE s \in work[c] : \A r \in work[c] : s <= r

\* fatalErr is read without a lock: a worker may not see what another one has
\* written, but sees its own error.
Take(c) ==
  /\ worker[c] = "run" /\ running[c] = None /\ work[c] # {}
  /\ ~wasTerminated /\ c \notin fatalBy
  /\ running' = [running EXCEPT ![c] = NextOf(c)]
  /\ work' = [work EXCEPT ![c] = @ \ {NextOf(c)}]
  /\ UNCHANGED <<input, stage, t, worker, txVars, errVars, wasTerminated>>

\* A bug: the worker returns without telling that it is done.
StopUnannounced(c) ==
  /\ worker[c] = "run" /\ running[c] = None /\ work[c] # {}
  /\ wasTerminated \/ fatalBy # {}
  /\ work' = [work EXCEPT ![c] = {}]
  /\ worker' = [worker EXCEPT ![c] = "idle"]
  /\ IF InParallel /\ tx[c] # "none" THEN Rollback(c) ELSE UNCHANGED txVars
  /\ UNCHANGED <<input, stage, t, running, errVars, wasTerminated>>

Stop(c) ==
  /\ worker[c] = "run" /\ running[c] = None /\ work[c] # {}
  /\ wasTerminated \/ fatalBy # {}
  /\ work' = [work EXCEPT ![c] = {}]
  /\ worker' = [worker EXCEPT ![c] = "done"]
  /\ IF InParallel /\ tx[c] # "none" THEN Rollback(c) ELSE UNCHANGED txVars
  /\ UNCHANGED <<input, stage, t, running, errVars, wasTerminated>>

\* The channel is drained: the connection commits on its own.
Drain(c) ==
  /\ worker[c] = "run" /\ running[c] = None /\ work[c] = {}
  /\ worker' = [worker EXCEPT ![c] = "done"]
  /\ IF InParallel /\ tx[c] # "none" THEN Commit(c) ELSE UNCHANGED txVars
  /\ UNCHANGED <<input, stage, t, work, running, errVars, wasTerminated>>

\* The server lets a statement run when no other transaction holds its locks.
Granted(c) ==
  \A d \in Conns \ {c} : Locks(running[c]) \cap held[d] = {}

\* What is not restored here was in the database before.
Visible(c) == committed \cup made[c] \cup (Statements \ Chosen)

Succeed(c) ==
  /\ running[c] # None /\ Granted(c)
  /\ Requires(running[c]) \subseteq Visible(c)
  /\ IF tx[c] = "open"
     THEN /\ made' = [made EXCEPT ![c] = @ \cup {running[c]}]
          /\ held' = [held EXCEPT ![c] = @ \cup Locks(running[c])]
          /\ UNCHANGED <<tx, committed>>
     ELSE /\ committed' = committed \cup {running[c]}
          /\ UNCHANGED <<tx, made, held>>
  /\ running' = [running EXCEPT ![c] = None]
  /\ UNCHANGED <<input, stage, t, work, worker, errVars, wasTerminated>>

Fail(c) ==
  /\ running[c] # None /\ Granted(c)
  /\ \/ ~(Requires(running[c]) \subseteq Visible(c))
     \/ Cardinality(failed) < MaxFailures
  /\ failed' = failed \cup {running[c]}
  /\ IF onErrorContinue
     THEN numErrors' = numErrors + 1 /\ UNCHANGED fatalBy
     ELSE fatalBy' = fatalBy \cup {c} /\ UNCHANGED numErrors
  /\ tx' = [tx EXCEPT ![c] = IF @ = "open" THEN "broken" ELSE @]
  /\ running' = [running EXCEPT ![c] = None]
  /\ UNCHANGED <<input, stage, t, work, worker, made, held, committed,
                 wasTerminated>>

-----------------------------------------------------------------------------
(* restorePredata and ExecutePredataStatements                             *)

AllDone == \A c \in Conns : worker[c] = "done"

\* Hand a batch to the workers; without a statement there is nothing to do.
LaunchSerial(batch) ==
  /\ work' = [work EXCEPT ![0] = batch]
  /\ worker' = [c \in Conns |-> IF c = 0 /\ batch # {} THEN "run" ELSE "done"]
  /\ UNCHANGED running

StartRestore ==
  /\ stage = "start"
  /\ IF numConns > 1 /\ ~onErrorContinue
     THEN stage' = "first" /\ LaunchSerial(FirstTierZero)
     ELSE stage' = "all" /\ LaunchSerial(Chosen)
  /\ tx' = [tx EXCEPT ![0] = IF onErrorContinue THEN "none" ELSE "open"]
  /\ UNCHANGED <<input, t, made, held, committed, errVars, wasTerminated>>

\* gplog.Fatal: open transactions end with the process.
Die(how) ==
  /\ stage' = how
  /\ tx' = [c \in Conns |-> "none"]
  /\ made' = [c \in Conns |-> {}] /\ held' = [c \in Conns |-> {}]
  /\ worker' = [c \in Conns |-> "idle"]
  /\ running' = [c \in Conns |-> None]
  /\ work' = [c \in Conns |-> {}]
  /\ UNCHANGED <<input, t, committed, errVars, wasTerminated>>

FatalError ==
  /\ stage \in {"first", "wait", "last", "all"} /\ AllDone /\ fatalBy # {}
  /\ Die("fatal")

SerialEnds(from, to) ==
  /\ stage = from /\ AllDone /\ fatalBy = {}
  /\ stage' = to
  /\ IF tx[0] # "none" THEN Commit(0) ELSE UNCHANGED txVars
  /\ UNCHANGED <<input, t, workVars, errVars, wasTerminated>>

FirstEnds == SerialEnds("first", "tier")

BeginTier ==
  /\ stage = "tier" /\ t <= NumTiers
  /\ \A c \in Conns \ {0} : tx[c] = "none"
  /\ tx' = [c \in Conns |-> IF c = 0 THEN tx[0] ELSE "open"]
  /\ IF Tiered(t) = {}
     THEN t' = t + 1 /\ UNCHANGED <<stage, workVars>>
     ELSE /\ stage' = "wait"
          /\ work' \in Schedules(Tiered(t))
          /\ worker' = [c \in Conns |-> "run"]
          /\ UNCHANGED <<t, running>>
  /\ UNCHANGED <<input, made, held, committed, errVars, wasTerminated>>

\* MustBegin on a connection whose transaction is still open.
BeginFails ==
  /\ stage = "tier" /\ t <= NumTiers
  /\ \E c \in Conns \ {0} : tx[c] # "none"
  /\ Die("fatal")

TierEnds ==
  /\ stage = "wait" /\ AllDone /\ fatalBy = {}
  /\ stage' = "tier"
  /\ t' = t + 1
  /\ UNCHANGED <<input, workVars, txVars, errVars, wasTerminated>>

BeginLast ==
  /\ stage = "tier" /\ t > NumTiers
  /\ stage' = "last"
  /\ LaunchSerial(SecondTierZero)
  /\ tx' = [tx EXCEPT ![0] = "open"]
  /\ UNCHANGED <<input, t, made, held, committed, errVars, wasTerminated>>

LastEnds == SerialEnds("last", "done")
AllEnds  == SerialEnds("all", "done")

-----------------------------------------------------------------------------
(* The signal handler                                                      *)

Ended == stage \in {"done", "fatal", "exited"}

Signal ==
  /\ ~Ended /\ ~wasTerminated
  /\ wasTerminated' = TRUE
  /\ UNCHANGED <<input, stage, t, workVars, txVars, errVars>>

HandlerExits ==
  /\ ~Ended /\ wasTerminated
  /\ Die("exited")

Main == \/ StartRestore \/ FatalError \/ FirstEnds \/ BeginTier \/ BeginFails
        \/ TierEnds \/ BeginLast \/ LastEnds \/ AllEnds

Worker(c) == Take(c) \/ Stop(c) \/ Drain(c) \/ Succeed(c) \/ Fail(c)

Next ==
  \/ Main
  \/ \E c \in Conns : \/ Take(c) \/ Stop(c) \/ Drain(c)
                      \/ Succeed(c) \/ Fail(c)
  \/ Signal \/ HandlerExits

\* The goroutines and the server go on; a signal may or may not come.
Spec == /\ Init /\ [][Next]_vars
        /\ WF_vars(Main)
        /\ \A c \in UNION {0..(n - 1) : n \in ConnCounts} :
             WF_vars(c \in Conns /\ Worker(c))

-----------------------------------------------------------------------------
(* Properties                                                              *)

\* What a statement refers to is there when it is sent to the server, in any
\* schedule: an earlier tier is committed, the same cohort is on the same
\* connection, and a statement on an object comes after the one creating it.
PrerequisitesThere ==
  (~Gap /\ failed = {}) =>
    \A c \in Conns : running[c] # None =>
      Requires(running[c]) \subseteq Visible(c)

\* No connection waits for a lock of another connection's transaction, which
\* could become a deadlock between the transactions of a tier.
NoLockContention ==
  \A c \in Conns : running[c] # None => Granted(c)

\* A restore that comes to its end has run every statement that passes the
\* filters, has counted each failure, and has left no transaction open on
\* the connections that go on with the data.
AllRestored ==
  (stage = "done" /\ ~wasTerminated /\ ~Gap) =>
    /\ committed = Chosen \ failed
    /\ numErrors = Cardinality(failed)
    /\ \A c \in Conns : tx[c] = "none"

\* The restore of the pre-data section ends, for no worker waits for ever.
PredataEnds == <>Ended
=============================================================================
