--------------------------- MODULE TopologicalSort ---------------------------
(***************************************************************************)
(* How gpbackup orders the objects of the pre-data section: circular       *)
(* dependencies of base types and their functions are broken, the objects  *)
(* are sorted by depth, and connected objects are gathered in cohorts.     *)
(*                                                                         *)
(* An object is its place in the slice that is sorted.  Sets stand for the *)
(* queues of one depth and for the maps the code ranges over, so an object *)
(* is taken from them in any order.                                        *)
(***************************************************************************)
EXTENDS MetadataTiers, Integers, Sequences, FiniteSets

CONSTANTS Types,        \* the objects of class PG_TYPE
          Functions,    \* the objects of class PG_PROC
          Relations     \* the dependencies a database may have

ASSUME ClassesAssumption == /\ Types \subseteq Objects
                            /\ Functions \subseteq Objects
                            /\ Types \cap Functions = {}
\* GetDependencies drops what is not in the backup and what refers to itself.
ASSUME RelationsAssumption ==
  \A r \in Relations : /\ r \in [Objects -> SUBSET Objects]
                       /\ \A o \in Objects : o \notin r[o]

VARIABLES phase,        \* "break", "count", "sort", "cohorts", "renumber",
                        \* "done" or "fatal"
          deps,         \* the DependencyMap
          inDegrees, queue, nextTier, tierCount, sorted,
          tier,         \* tierMap[o][0]
          item,         \* assignCohorts: the object looked at (0: none yet)
          todo,         \*   its neighbours not looked at yet
          currCohort,
          cohort,       \* objectToCohortMap, in the end tierMap[o][1]
          expected,     \*   expectedCohort
          pending       \*   the cohort numbers not renumbered yet

tierVars   == <<inDegrees, queue, nextTier, tierCount, sorted, tier>>
cohortVars == <<item, todo, currCohort, cohort, expected, pending>>
sortVars == <<phase, deps, tierVars, cohortVars>>

SortTypeOK ==
  /\ phase \in {"break", "count", "sort", "cohorts", "renumber", "done",
                "fatal"}
  /\ deps \in [Objects -> SUBSET Objects]
  /\ inDegrees \in [Objects -> Nat]
  /\ queue \subseteq Objects
  /\ nextTier \subseteq Objects
  /\ tierCount \in Nat \ {0}
  /\ sorted \in Seq(Objects)
  /\ tier \in [Objects -> Nat]
  /\ item \in 0..NumObjects
  /\ todo \subseteq Objects
  /\ currCohort \in 0..NumObjects
  /\ cohort \in [Objects -> 1..NumObjects]
  /\ expected \in Nat \ {0}
  /\ pending \subseteq 1..NumObjects

SortInit ==
  /\ phase = "break"
  /\ deps \in Relations
  /\ inDegrees = [o \in Objects |-> 0]
  /\ queue = {} /\ nextTier = {}
  /\ tierCount = 1
  /\ sorted = <<>>
  /\ tier = [o \in Objects |-> 0]
  /\ item = 0 /\ todo = {} /\ currCohort = 0
  /\ cohort = [o \in Objects |-> o]
  /\ expected = 1 /\ pending = {}

-----------------------------------------------------------------------------
(* breakCircularDependencies                                               *)

\* A function that a type refers to (its input function, say) does not wait
\* for that type.
Broken(d) ==
  [o \in Objects |->
     IF o \in Functions THEN {p \in d[o] : ~(p \in Types /\ o \in d[p])}
                        ELSE d[o]]

BreakCircles ==
  /\ phase = "break"
  /\ deps' = Broken(deps)
  /\ phase' = "count"
  /\ UNCHANGED <<tierVars, cohortVars>>

-----------------------------------------------------------------------------
(* TopologicalSort                                                         *)

CountDegrees ==
  /\ phase = "count"
  /\ inDegrees' = [o \in Objects |-> Cardinality(deps[o])]
  /\ queue' = {o \in Objects : deps[o] = {}}
  /\ phase' = "sort"
  /\ UNCHANGED <<deps, nextTier, tierCount, sorted, tier, cohortVars>>

Decremented(o) ==
  [p \in Objects |-> IF o \in deps[p] THEN inDegrees[p] - 1 ELSE inDegrees[p]]

\* A bug: an object is released by the first of its dependencies.
ReleasedByFirst(o) ==
  {p \in Objects : o \in deps[p] /\ inDegrees[p] = Cardinality(deps[p])}

\* The objects that o was the last one to hold back.
Released(o) == {p \in Objects : o \in deps[p] /\ inDegrees[p] = 1}

Visit(o) ==
  /\ phase = "sort" /\ o \in queue
  /\ queue' = queue \ {o}
  /\ tier' = [tier EXCEPT ![o] = tierCount]
  /\ sorted' = Append(sorted, o)
  /\ inDegrees' = Decremented(o)
  /\ nextTier' = nextTier \cup Released(o)
  /\ UNCHANGED <<phase, deps, tierCount, cohortVars>>

\* A bug: what is released joins the queue and the depth is not counted.
NextTierSameCount ==
  /\ phase = "sort" /\ queue = {} /\ nextTier # {}
  /\ queue' = nextTier
  /\ nextTier' = {}
  /\ UNCHANGED <<phase, deps, tierCount, inDegrees, sorted, tier, cohortVars>>

NextTier ==
  /\ phase = "sort" /\ queue = {} /\ nextTier # {}
  /\ queue' = nextTier
  /\ nextTier' = {}
  /\ tierCount' = tierCount + 1
  /\ UNCHANGED <<phase, deps, inDegrees, sorted, tier, cohortVars>>

QueueEmpty == phase = "sort" /\ queue = {} /\ nextTier = {}

SortFails ==
  /\ QueueEmpty /\ Len(sorted) # NumObjects
  /\ phase' = "fatal"
  /\ UNCHANGED <<deps, tierVars, cohortVars>>

SortEnds ==
  /\ QueueEmpty /\ Len(sorted) = NumObjects
  /\ phase' = "cohorts"
  /\ UNCHANGED <<deps, tierVars, cohortVars>>

-----------------------------------------------------------------------------
(* assignCohorts                                                           *)

Lower(a, b)  == IF a < b THEN a ELSE b
Higher(a, b) == IF a < b THEN b ELSE a

\* A bug: only the object in hand changes its cohort.
MergedAlone(a, b) ==
  [o \in Objects |-> IF o = item THEN Lower(a, b) ELSE cohort[o]]

\* mergeCohorts: the objects of the higher cohort join the lower one.
Merged(a, b) ==
  [o \in Objects |->
     IF cohort[o] = Higher(a, b) THEN Lower(a, b) ELSE cohort[o]]

NextItem ==
  /\ phase = "cohorts" /\ todo = {} /\ item < NumObjects
  /\ item' = item + 1
  /\ currCohort' = cohort[item']
  /\ todo' = Neighbours(Objects, deps, item')
  /\ UNCHANGED <<phase, deps, tierVars, cohort, expected, pending>>

MergeNeighbour(p) ==
  /\ phase = "cohorts" /\ p \in todo
  /\ todo' = todo \ {p}
  /\ IF cohort[p] # currCohort
     THEN /\ cohort' = Merged(currCohort, cohort[p])
          /\ currCohort' = Lower(currCohort, cohort[p])
     ELSE UNCHANGED <<cohort, currCohort>>
  /\ UNCHANGED <<phase, deps, tierVars, item, expected, pending>>

CohortsFound ==
  /\ phase = "cohorts" /\ todo = {} /\ item = NumObjects
  /\ pending' = {cohort[o] : o \in Objects}
  /\ expected' = 1
  /\ phase' = "renumber"
  /\ UNCHANGED <<deps, tierVars, item, todo, currCohort, cohort>>

\* The next actualCohort of the sorted list takes the number that is next.
Renumber(actual) ==
  /\ phase = "renumber" /\ actual \in pending
  /\ \A k \in pending : actual <= k
  /\ cohort' = IF expected # actual THEN Merged(expected, actual) ELSE cohort
  /\ expected' = expected + 1
  /\ pending' = pending \ {actual}
  /\ UNCHANGED <<phase, deps, tierVars, item, todo, currCohort>>

Finish ==
  /\ phase = "renumber" /\ pending = {}
  /\ phase' = "done"
  /\ UNCHANGED <<deps, tierVars, cohortVars>>

SortNext ==
  \/ BreakCircles \/ CountDegrees
  \/ \E o \in Objects : Visit(o)
  \/ NextTier \/ SortFails \/ SortEnds
  \/ NextItem \/ \E p \in Objects : MergeNeighbour(p)
  \/ CohortsFound \/ \E k \in 1..NumObjects : Renumber(k)
  \/ Finish

SortSpec == SortInit /\ [][SortNext]_sortVars /\ WF_sortVars(SortNext)

-----------------------------------------------------------------------------
(* Properties                                                              *)

\* An object is printed after all it refers to, and printed once: what
\* PrintDependentObjectStatements writes can be restored in that order.
SortedAfterDependencies ==
  \A i \in 1..Len(sorted) :
    /\ \A d \in deps[sorted[i]] : \E j \in 1..(i-1) : sorted[j] = d
    /\ \A j \in 1..(i-1) : sorted[j] # sorted[i]

\* "Dependency resolution failed" is said of real circles only, and of every
\* one: a backup never ends with an object left out of the sorted slice.
FailsOnCirclesOnly ==
  /\ phase = "fatal" => Circular(Objects, deps)
  /\ phase = "done" => /\ ~Circular(Objects, deps)
                       /\ Len(sorted) = NumObjects

\* The first number of a tier is the depth: dependencies have smaller ones,
\* and no depth between 1 and the greatest is unused, on which the loop of
\* restorePredata over 1..len(tiered) relies.
TiersFollowDependencies ==
  phase = "done" => TiersFollow(Objects, deps, tier)

\* The second number keeps together what shares dependencies and nothing
\* else, so that parallel transactions neither wait for each other nor are
\* fewer than they could be.
CohortsAreComponents ==
  phase = "done" => CohortsIsolate(Objects, deps, cohort)

\* Renumbering leaves 1, 2, ... and never joins two cohorts.
CohortsNumbered ==
  phase = "done" => CohortsDense(Objects, cohort)
=============================================================================
