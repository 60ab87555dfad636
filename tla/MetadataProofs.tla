--------------------------- MODULE MetadataProofs ---------------------------
(***************************************************************************)
(* Proofs about the pre-data objects, for any number of them: the order,   *)
(* tiers and cohorts a backup gives them (TopologicalSort), a restore that *)
(* relies upon these (PredataRestore), for all plans a backup may have     *)
(* written, any filters, numbers of connections and failing statements,    *)
(* and the owners and privileges the objects end with (Privileges), for    *)
(* any roles, objects and access lists.                                    *)
(***************************************************************************)
EXTENDS TopologicalSort, PredataRestore, Privileges, FiniteSetTheorems,
        NaturalsInduction, TLAPS

-----------------------------------------------------------------------------
(* The sort: its inductive invariant                                       *)

\* The objects that have left the queue.
Visited == {o \in Objects : tier[o] > 0}
Reached == Visited \cup queue \cup nextTier

Sorting == {"sort", "cohorts", "renumber", "done", "fatal"}
Sorted  == {"cohorts", "renumber", "done"}

NoSelfReference == \A o \in Objects : o \notin deps[o]

\* The counts are those of the dependencies not visited yet.
DegreeInv ==
  /\ phase \notin Sorting => Reached = {} /\ sorted = <<>> /\ tierCount = 1
  /\ phase \in Sorting =>
       \A o \in Objects : inDegrees[o] = Cardinality(deps[o] \ Visited)

\* What is reached is what has all its dependencies visited.
ReachedInv ==
  /\ queue \cap nextTier = {} /\ (queue \cup nextTier) \cap Visited = {}
  /\ phase \in Sorting =>
       \A o \in Objects : o \in Reached <=> deps[o] \subseteq Visited
  /\ phase \in Sorted \cup {"fatal"} => queue = {} /\ nextTier = {}

OrderInv ==
  /\ \A o \in Visited : \E i \in 1..Len(sorted) : sorted[i] = o
  /\ \A i \in 1..Len(sorted) : sorted[i] \in Visited
  /\ Len(sorted) = Cardinality(Visited)
  /\ phase = "fatal" => Len(sorted) # NumObjects
  /\ phase \in Sorted => Len(sorted) = NumObjects

DepthInv ==
  /\ \A o \in Visited :
       /\ tier[o] <= tierCount
       /\ \A d \in deps[o] : tier[d] < tier[o]
       /\ tier[o] > 1 => \E d \in deps[o] : tier[d] = tier[o] - 1
  /\ \A o \in queue :
       /\ \A d \in deps[o] : tier[d] < tierCount
       /\ tierCount > 1 => \E d \in deps[o] : tier[d] = tierCount - 1
  /\ \A o \in nextTier : \E d \in deps[o] : tier[d] = tierCount

SortInv == /\ NoSelfReference /\ DegreeInv /\ ReachedInv /\ OrderInv
           /\ DepthInv /\ SortedAfterDependencies

\* Cohorts never mix what is not connected.
Separate ==
  \A S \in SUBSET Objects : Closed(Objects, deps, S) =>
    \A o \in S : \A p \in Objects \ S : cohort[p] # cohort[o]

\* The items looked at have one cohort with each of their neighbours.
JoinedInv ==
  /\ phase \notin {"cohorts", "renumber", "done"} =>
       item = 0 /\ todo = {} /\ cohort = [o \in Objects |-> o]
  /\ item = 0 => todo = {}
  /\ item > 0 /\ phase = "cohorts" => currCohort = cohort[item]
  /\ item > 0 => todo \subseteq Neighbours(Objects, deps, item)
  /\ \A j \in 1..item : \A q \in Neighbours(Objects, deps, j) :
       (j = item /\ q \in todo) \/ cohort[q] = cohort[j]
  /\ phase \in {"renumber", "done"} => item = NumObjects /\ todo = {}

\* Numbers below expected are final, the others still stand in pending.
NumberInv ==
  /\ phase \in {"renumber", "done"} =>
       /\ \A o \in Objects : cohort[o] \in pending \/ cohort[o] < expected
       /\ \A k \in pending :
            expected <= k /\ \E o \in Objects : cohort[o] = k
       /\ \A k \in 1..(expected - 1) : \E o \in Objects : cohort[o] = k
  /\ phase = "done" => pending = {}

ComponentInv == Separate /\ JoinedInv /\ NumberInv

SortIInv == SortTypeOK /\ SortInv /\ ComponentInv

-----------------------------------------------------------------------------
(* Sets of objects                                                         *)

\* Every set of objects is finite.
LEMMA FiniteObjects ==
  ASSUME NEW T \in SUBSET Objects
  PROVE  IsFiniteSet(T) /\ Cardinality(T) \in Nat
<1>1. IsFiniteSet(Objects)
  BY FS_Interval, NumObjectsAssumption DEF Objects
<1> QED
  BY <1>1, FS_Subset, FS_CardinalityType

\* A set of objects as large as the slice is the slice.
LEMMA AllObjects ==
  ASSUME NEW T \in SUBSET Objects, Cardinality(T) = NumObjects
  PROVE  T = Objects
<1>1. IsFiniteSet(Objects) /\ Cardinality(Objects) = NumObjects
  <2>1. IsFiniteSet(1..NumObjects)
        /\ Cardinality(1..NumObjects) =
             IF 1 > NumObjects THEN 0 ELSE NumObjects - 1 + 1
    BY FS_Interval, NumObjectsAssumption
  <2> QED
    BY <2>1, NumObjectsAssumption DEF Objects
<1> QED
  BY <1>1, FS_Subset

\* A set of objects that is not empty has one of least tier.
LEMMA LeastTier ==
  ASSUME NEW f \in [Objects -> Nat], NEW S \in SUBSET Objects, S # {}
  PROVE  \E o \in S : \A p \in S : f[o] <= f[p]
<1> DEFINE T == {f[o] : o \in S}
           R == OpToRel(<, Nat)
<1>1. T \subseteq Nat /\ T # {}
  OBVIOUS
<1>2. PICK x \in T : \A y \in T : ~(<<y, x>> \in R)
  <2> HIDE DEF T, R
  <2> QED
    BY <1>1, WFMin, NatLessThanWellFounded DEF R
<1>3. \A a, b \in Nat : a < b => <<a, b>> \in R
  <2>1. R = {ss \in Nat \X Nat : ss[1] < ss[2]}
    BY DEF OpToRel
  <2> QED
    BY <2>1
<1>4. \A y \in T : x <= y
  <2> SUFFICES ASSUME NEW y \in T PROVE x <= y
    OBVIOUS
  <2>1. x \in Nat /\ y \in Nat
    BY <1>1
  <2>2. ~(y < x)
    <3> HIDE DEF T, R
    <3> QED
      BY <1>2, <1>3, <2>1, Zenon
  <2> QED
    BY <2>1, <2>2
<1> QED
  BY <1>2, <1>4

\* Being neighbours is mutual.
LEMMA NeighboursMutual ==
  ASSUME deps \in [Objects -> SUBSET Objects],
         NEW o \in Objects, NEW p \in Neighbours(Objects, deps, o)
  PROVE  p \in Objects /\ o \in Neighbours(Objects, deps, p)
BY DEF Neighbours

-----------------------------------------------------------------------------
(* The sort                                                                *)

LEMMA VisitStep ==
  ASSUME SortTypeOK, SortInv, NEW o \in Objects, Visit(o)
  PROVE  /\ Visited' = Visited \cup {o} /\ o \notin Visited
         /\ \A p \in Objects : inDegrees'[p] = Cardinality(deps[p] \ Visited')
         /\ inDegrees' \in [Objects -> Nat]
         /\ Released(o) =
              {p \in Objects : o \in deps[p] /\ deps[p] \subseteq Visited'}
<1>1. /\ Visited' = Visited \cup {o} /\ o \notin Visited
      /\ Visited \subseteq Objects
  BY DEF Visit, SortTypeOK, SortInv, ReachedInv, Visited
<1>2. \A p \in Objects : inDegrees[p] = Cardinality(deps[p] \ Visited)
  BY DEF Visit, SortInv, DegreeInv, Sorting
<1>3. ASSUME NEW p \in Objects
      PROVE  /\ Decremented(o)[p] = Cardinality(deps[p] \ Visited')
             /\ Decremented(o)[p] \in Nat
             /\ (o \in deps[p] /\ inDegrees[p] = 1)
                  <=> (o \in deps[p] /\ deps[p] \subseteq Visited')
  <2> DEFINE D == deps[p] \ Visited
  <2>1. IsFiniteSet(D) /\ IsFiniteSet(D \ {o})
        /\ Cardinality(D) \in Nat /\ Cardinality(D \ {o}) \in Nat
    BY FiniteObjects DEF SortTypeOK
  <2>2. deps[p] \ Visited' = D \ {o}
    BY <1>1
  <2>3. inDegrees[p] = Cardinality(D)
    BY <1>2
  <2>4. Cardinality(D \ {o}) =
          IF o \in D THEN Cardinality(D) - 1 ELSE Cardinality(D)
    <3> HIDE DEF D
    <3> QED
      BY <2>1, FS_RemoveElement
  <2>5. Cardinality(D \ {o}) = 0 <=> D \ {o} = {}
    <3> HIDE DEF D
    <3> QED
      BY <2>1, FS_EmptySet
  <2>6. o \in D <=> o \in deps[p]
    BY <1>1
  <2>7. deps[p] \subseteq Visited' <=> D \ {o} = {}
    BY <2>2
  <2>8. Decremented(o)[p] = IF o \in deps[p] THEN inDegrees[p] - 1
                                            ELSE inDegrees[p]
    BY DEF Decremented
  <2> HIDE DEF D
  <2>9. Decremented(o)[p] = Cardinality(D \ {o})
    BY <2>3, <2>4, <2>6, <2>8
  <2>10. o \in deps[p] => (inDegrees[p] = 1 <=> Cardinality(D \ {o}) = 0)
    BY <2>1, <2>3, <2>4, <2>6
  <2> QED
    BY <2>1, <2>2, <2>5, <2>7, <2>9, <2>10
<1>4. inDegrees' = Decremented(o)
  BY DEF Visit
<1>5. inDegrees' \in [Objects -> Nat]
  <2>1. Decremented(o) = [p \in Objects |-> Decremented(o)[p]]
    BY DEF Decremented
  <2> QED
    BY <1>3, <1>4, <2>1
<1> QED
  BY <1>1, <1>3, <1>4, <1>5 DEF Released

LEMMA VisitSort ==
  ASSUME SortTypeOK, SortInv, NEW o \in Objects, Visit(o)
  PROVE  SortTypeOK' /\ SortInv'
<1>1. /\ Visited' = Visited \cup {o} /\ o \notin Visited
      /\ inDegrees' \in [Objects -> Nat]
      /\ \A p \in Objects : inDegrees'[p] = Cardinality(deps[p] \ Visited')
      /\ Released(o) =
           {p \in Objects : o \in deps[p] /\ deps[p] \subseteq Visited'}
  BY VisitStep
<1>2. /\ phase = "sort" /\ phase' = "sort" /\ o \in queue
      /\ queue' = queue \ {o} /\ nextTier' = nextTier \cup Released(o)
      /\ tier' = [tier EXCEPT ![o] = tierCount]
      /\ sorted' = Append(sorted, o)
      /\ deps' = deps /\ tierCount' = tierCount
  BY DEF Visit
<1>3. /\ deps \in [Objects -> SUBSET Objects] /\ tier \in [Objects -> Nat]
      /\ tierCount \in Nat \ {0} /\ sorted \in Seq(Objects)
      /\ queue \subseteq Objects /\ nextTier \subseteq Objects
      /\ Visited \subseteq Objects
  BY DEF SortTypeOK, Visited
<1>4. SortTypeOK'
  BY <1>1, <1>2, <1>3 DEF Visit, SortTypeOK, cohortVars
<1>5. NoSelfReference'
  BY <1>2 DEF SortInv, NoSelfReference
<1>6. DegreeInv'
  BY <1>1, <1>2 DEF DegreeInv, Sorting
<1>7. deps[o] \subseteq Visited
  BY <1>2 DEF SortInv, ReachedInv, Reached, Sorting
<1>8. ReachedInv'
  <2>1. \A p \in Objects : p \in Reached <=> deps[p] \subseteq Visited
    BY <1>2 DEF SortInv, ReachedInv, Sorting
  <2>2. \A p \in Released(o) : p \notin Reached
    BY <1>1, <2>1
  <2>3. queue' \cap nextTier' = {} /\ (queue' \cup nextTier') \cap Visited' = {}
    <3>1. o \notin Released(o)
      BY <1>1, <1>7
    <3>2. queue \cap nextTier = {} /\ (queue \cup nextTier) \cap Visited = {}
      BY DEF SortInv, ReachedInv
    <3> QED
      BY <1>1, <1>2, <2>2, <3>1, <3>2 DEF Reached
  <2>4. Reached' = Reached \cup Released(o)
    BY <1>1, <1>2 DEF Reached
  <2>5. \A p \in Objects : p \in Reached' <=> deps[p] \subseteq Visited'
    BY <1>1, <2>1, <2>4
  <2> QED
    BY <1>2, <2>3, <2>5 DEF ReachedInv, Sorted, Reached
<1>9. /\ Len(sorted') = Len(sorted) + 1
      /\ sorted'[Len(sorted) + 1] = o
      /\ \A i \in 1..Len(sorted) : sorted'[i] = sorted[i]
      /\ Len(sorted) \in Nat
  BY <1>2, <1>3
<1>10. /\ \A p \in Visited : \E i \in 1..Len(sorted) : sorted[i] = p
       /\ \A i \in 1..Len(sorted) : sorted[i] \in Visited
       /\ Len(sorted) = Cardinality(Visited)
  BY DEF SortInv, OrderInv
<1>11. OrderInv'
  <2>1. \A p \in Visited' : \E i \in 1..Len(sorted') : sorted'[i] = p
    <3> SUFFICES ASSUME NEW p \in Visited'
                 PROVE  \E i \in 1..Len(sorted') : sorted'[i] = p
      OBVIOUS
    <3>1. CASE p = o
      BY <1>9, <3>1
    <3>2. CASE p \in Visited
      BY <1>9, <1>10, <3>2
    <3> QED
      BY <1>1, <3>1, <3>2
  <2>2. \A i \in 1..Len(sorted') : sorted'[i] \in Visited'
    BY <1>1, <1>9, <1>10
  <2>3. Len(sorted') = Cardinality(Visited')
    <3>1. IsFiniteSet(Visited)
      BY <1>3, FiniteObjects
    <3>2. Cardinality(Visited \cup {o}) = Cardinality(Visited) + 1
      BY <1>1, <3>1, FS_AddElement
    <3> QED
      BY <1>1, <1>9, <1>10, <3>2
  <2> QED
    BY <1>2, <2>1, <2>2, <2>3 DEF OrderInv, Sorted
<1>12. /\ \A p \in Visited' : tier'[p] = IF p = o THEN tierCount ELSE tier[p]
       /\ \A p \in Visited : tier'[p] = tier[p]
       /\ tier'[o] = tierCount
  BY <1>1, <1>2, <1>3
<1>13. DepthInv'
  <2>1. ASSUME NEW p \in Visited'
        PROVE  /\ tier'[p] <= tierCount
               /\ \A d \in deps[p] : tier'[d] < tier'[p]
               /\ tier'[p] > 1 => \E d \in deps[p] : tier'[d] = tier'[p] - 1
    <3>1. CASE p = o
      <4>1. \A d \in deps[o] : tier'[d] = tier[d]
        BY <1>7, <1>12
      <4> QED
        BY <1>2, <1>12, <1>3, <3>1, <4>1 DEF SortInv, DepthInv
    <3>2. CASE p \in Visited
      <4>1. deps[p] \subseteq Visited
        BY <1>2, <1>3, <3>2 DEF SortInv, ReachedInv, Reached, Sorting
      <4>2. \A d \in deps[p] : tier'[d] = tier[d]
        BY <1>12, <4>1
      <4> QED
        BY <1>12, <3>2, <4>2 DEF SortInv, DepthInv
    <3> QED
      BY <1>1, <3>1, <3>2
  <2>2. ASSUME NEW p \in queue'
        PROVE  /\ \A d \in deps[p] : tier'[d] < tierCount
               /\ tierCount > 1 => \E d \in deps[p] : tier'[d] = tierCount - 1
    <3>1. p \in queue /\ deps[p] \subseteq Visited
      BY <1>2, <1>3 DEF SortInv, ReachedInv, Reached, Sorting
    <3>2. \A d \in deps[p] : tier'[d] = tier[d]
      BY <1>12, <3>1
    <3> QED
      BY <3>1, <3>2 DEF SortInv, DepthInv
  <2>3. ASSUME NEW p \in nextTier'
        PROVE  \E d \in deps[p] : tier'[d] = tierCount
    <3>1. CASE p \in Released(o)
      BY <1>1, <1>12, <3>1
    <3>2. CASE p \in nextTier
      <4>1. deps[p] \subseteq Visited
        BY <1>2, <1>3, <3>2 DEF SortInv, ReachedInv, Reached, Sorting
      <4>2. \A d \in deps[p] : tier'[d] = tier[d]
        BY <1>12, <4>1
      <4> QED
        BY <3>2, <4>2 DEF SortInv, DepthInv
    <3> QED
      BY <1>2, <3>1, <3>2
  <2> QED
    BY <1>2, <2>1, <2>2, <2>3 DEF DepthInv
<1>14. SortedAfterDependencies'
  <2> SUFFICES ASSUME NEW i \in 1..Len(sorted')
               PROVE  /\ \A d \in deps[sorted'[i]] :
                           \E j \in 1..(i-1) : sorted'[j] = d
                      /\ \A j \in 1..(i-1) : sorted'[j] # sorted'[i]
    BY <1>2 DEF SortedAfterDependencies
  <2>1. CASE i = Len(sorted) + 1
    BY <1>1, <1>7, <1>9, <1>10, <2>1
  <2>2. CASE i \in 1..Len(sorted)
    <3>1. /\ sorted'[i] = sorted[i]
          /\ \A j \in 1..(i-1) : sorted'[j] = sorted[j]
      BY <1>9, <2>2
    <3>2. /\ \A d \in deps[sorted[i]] : \E j \in 1..(i-1) : sorted[j] = d
          /\ \A j \in 1..(i-1) : sorted[j] # sorted[i]
      BY <2>2 DEF SortInv, SortedAfterDependencies
    <3> QED
      BY <3>1, <3>2, Zenon
  <2> QED
    BY <1>9, <2>1, <2>2
<1> QED
  BY <1>4, <1>5, <1>6, <1>8, <1>11, <1>13, <1>14 DEF SortInv

LEMMA NextTierSort ==
  ASSUME SortTypeOK, SortInv, NextTier
  PROVE  SortTypeOK' /\ SortInv'
<1>1. /\ phase = "sort" /\ phase' = "sort" /\ queue = {}
      /\ queue' = nextTier /\ nextTier' = {} /\ tierCount' = tierCount + 1
      /\ UNCHANGED <<deps, inDegrees, sorted, tier>>
  BY DEF NextTier
<1>2. SortTypeOK'
  BY DEF SortTypeOK, NextTier, cohortVars
<1>3. Visited' = Visited /\ Reached' = Reached
  BY <1>1 DEF Visited, Reached
<1>4. NoSelfReference' /\ DegreeInv' /\ ReachedInv'
  BY <1>1, <1>3 DEF SortInv, NoSelfReference, DegreeInv, ReachedInv, Sorting,
     Sorted
<1>5. OrderInv' /\ SortedAfterDependencies'
  BY <1>1, <1>3 DEF SortInv, OrderInv, SortedAfterDependencies, Sorted
<1>6. DepthInv'
  <2>1. \A o \in nextTier : deps[o] \subseteq Visited
    BY <1>1 DEF SortInv, ReachedInv, Reached, Sorting, SortTypeOK
  <2>2. \A o \in Visited : tier[o] <= tierCount /\ tier[o] \in Nat
    BY DEF SortInv, DepthInv, SortTypeOK, Visited
  <2>3. tierCount \in Nat \ {0}
    BY DEF SortTypeOK
  <2>4. \A o \in queue' :
          /\ \A d \in deps[o] : tier[d] < tierCount + 1
          /\ \E d \in deps[o] : tier[d] = tierCount
    BY <1>1, <2>1, <2>2, <2>3 DEF SortInv, DepthInv
  <2>5. \A o \in Visited :
          /\ tier[o] <= tierCount + 1
          /\ \A d \in deps[o] : tier[d] < tier[o]
          /\ tier[o] > 1 => \E d \in deps[o] : tier[d] = tier[o] - 1
    BY <2>2, <2>3 DEF SortInv, DepthInv
  <2>6. \A o \in queue' :
          /\ \A d \in deps'[o] : tier'[d] < tierCount'
          /\ tierCount' > 1 => \E d \in deps'[o] : tier'[d] = tierCount' - 1
    <3>1. tierCount' = tierCount + 1 /\ tierCount' - 1 = tierCount
      BY <1>1, <2>3
    <3>2. deps' = deps /\ tier' = tier
      BY <1>1
    <3> QED
      BY <2>4, <3>1, <3>2, Zenon
  <2>7. \A o \in Visited' :
          /\ tier'[o] <= tierCount'
          /\ \A d \in deps'[o] : tier'[d] < tier'[o]
          /\ tier'[o] > 1 => \E d \in deps'[o] : tier'[d] = tier'[o] - 1
    BY <1>1, <1>3, <2>5
  <2> QED
    BY <1>1, <2>6, <2>7 DEF DepthInv
<1> QED
  BY <1>2, <1>4, <1>5, <1>6 DEF SortInv

LEMMA BreakSort ==
  ASSUME SortTypeOK, SortInv, BreakCircles
  PROVE  SortTypeOK' /\ SortInv'
<1>1. /\ phase = "break" /\ phase' = "count"
      /\ deps' = Broken(deps)
      /\ UNCHANGED <<inDegrees, queue, nextTier, tierCount, sorted, tier>>
  BY DEF BreakCircles, tierVars
<1>2. /\ deps' \in [Objects -> SUBSET Objects]
      /\ \A o \in Objects : o \notin deps'[o]
  BY <1>1 DEF SortTypeOK, Broken, SortInv, NoSelfReference
<1>3. SortTypeOK'
  BY <1>1, <1>2 DEF SortTypeOK, BreakCircles, cohortVars
<1>4. Visited' = Visited /\ Reached' = Reached
  BY <1>1 DEF Visited, Reached
<1>5. Reached = {} /\ sorted = <<>> /\ tierCount = 1
  BY <1>1 DEF SortInv, DegreeInv, Sorting
<1>6. DegreeInv' /\ ReachedInv'
  BY <1>1, <1>4, <1>5 DEF DegreeInv, ReachedInv, SortInv, Sorting, Sorted
<1>7. OrderInv'
  BY <1>1, <1>4 DEF OrderInv, SortInv, Sorted
<1>8. DepthInv'
  BY <1>1, <1>4, <1>5 DEF DepthInv, Reached
<1>9. SortedAfterDependencies'
  BY <1>1, <1>5 DEF SortedAfterDependencies
<1> QED
  BY <1>2, <1>3, <1>6, <1>7, <1>8, <1>9 DEF SortInv, NoSelfReference

LEMMA CountSort ==
  ASSUME SortTypeOK, SortInv, CountDegrees
  PROVE  SortTypeOK' /\ SortInv'
<1>1. /\ phase = "count" /\ phase' = "sort"
      /\ inDegrees' = [o \in Objects |-> Cardinality(deps[o])]
      /\ queue' = {o \in Objects : deps[o] = {}}
      /\ UNCHANGED <<deps, nextTier, tierCount, sorted, tier>>
  BY DEF CountDegrees
<1>2. Visited = {} /\ queue = {} /\ nextTier = {} /\ sorted = <<>>
      /\ tierCount = 1
  BY <1>1 DEF SortInv, DegreeInv, Reached, Sorting
<1>3. Visited' = {} /\ Reached' = {o \in Objects : deps[o] = {}}
  BY <1>1, <1>2 DEF Visited, Reached
<1>4. SortTypeOK'
  <2>1. \A o \in Objects : Cardinality(deps[o]) \in Nat
    BY FiniteObjects DEF SortTypeOK
  <2> QED
    BY <1>1, <2>1 DEF SortTypeOK, CountDegrees, cohortVars
<1>5. DegreeInv'
  <2>1. \A o \in Objects : deps[o] \ Visited' = deps[o]
    BY <1>3
  <2> QED
    BY <1>1, <2>1 DEF DegreeInv, Sorting
<1>6. ReachedInv'
  BY <1>1, <1>2, <1>3 DEF ReachedInv, Sorted
<1>7. OrderInv' /\ SortedAfterDependencies'
  BY <1>1, <1>2, <1>3 DEF OrderInv, SortInv, Sorted, SortedAfterDependencies
<1>8. DepthInv'
  BY <1>1, <1>2, <1>3 DEF DepthInv
<1> QED
  BY <1>1, <1>4, <1>5, <1>6, <1>7, <1>8 DEF SortInv, NoSelfReference

\* What happens after the sort leaves its result alone.
LEMMA SortStays ==
  ASSUME SortInv, UNCHANGED <<deps, tierVars>>,
         phase \in Sorting, phase' \in Sorting,
         phase' \in Sorted \cup {"fatal"} => queue = {} /\ nextTier = {},
         phase' = "fatal" => Len(sorted) # NumObjects,
         phase' \in Sorted => Len(sorted) = NumObjects
  PROVE  SortInv'
<1>1. Visited' = Visited /\ Reached' = Reached
  BY DEF Visited, Reached, tierVars
<1>2. NoSelfReference' /\ DegreeInv' /\ ReachedInv'
  BY <1>1 DEF SortInv, NoSelfReference, DegreeInv, ReachedInv, tierVars
<1>3. OrderInv' /\ DepthInv' /\ SortedAfterDependencies'
  BY <1>1 DEF SortInv, OrderInv, DepthInv, SortedAfterDependencies, tierVars
<1> QED
  BY <1>2, <1>3 DEF SortInv

LEMMA LaterSort ==
  ASSUME SortTypeOK, SortInv,
         \/ SortFails \/ SortEnds \/ NextItem
         \/ \E p \in Objects : MergeNeighbour(p)
         \/ CohortsFound \/ \E k \in 1..NumObjects : Renumber(k)
         \/ Finish
  PROVE  SortInv'
<1>1. CASE SortFails \/ SortEnds
  BY <1>1, SortStays DEF SortFails, SortEnds, QueueEmpty, Sorting, Sorted
<1>2. CASE \/ NextItem \/ \E p \in Objects : MergeNeighbour(p)
           \/ CohortsFound \/ \E k \in 1..NumObjects : Renumber(k)
           \/ Finish
  <2>1. /\ UNCHANGED <<deps, tierVars>>
        /\ phase \in Sorted /\ phase' \in Sorted
    BY <1>2 DEF NextItem, MergeNeighbour, CohortsFound, Renumber, Finish,
       Sorted
  <2>2. queue = {} /\ nextTier = {} /\ Len(sorted) = NumObjects
    BY <2>1 DEF SortInv, ReachedInv, OrderInv
  <2> QED
    BY <2>1, <2>2, SortStays DEF Sorting, Sorted
<1> QED
  BY <1>1, <1>2

-----------------------------------------------------------------------------
(* The cohorts                                                             *)

\* Objects keep company when two cohorts are merged.
LEMMA MergeKeepsTogether ==
  ASSUME NEW a, NEW b, NEW o \in Objects, NEW p \in Objects,
         cohort[o] = cohort[p]
  PROVE  Merged(a, b)[o] = Merged(a, b)[p]
BY DEF Merged

\* Both cohorts of a merge end up in one.
LEMMA MergeJoins ==
  ASSUME NEW a \in Nat, NEW b \in Nat, NEW o \in Objects, NEW p \in Objects,
         cohort[o] = a, cohort[p] = b
  PROVE  /\ Merged(a, b)[o] = Lower(a, b)
         /\ Merged(a, b)[p] = Lower(a, b)
BY DEF Merged, Lower, Higher

\* A merge of the cohorts of two neighbours mixes nothing.
LEMMA MergeSeparate ==
  ASSUME SortTypeOK, Separate, NEW o \in Objects,
         NEW q \in Neighbours(Objects, deps, o),
         deps' = deps, cohort' = Merged(cohort[o], cohort[q])
  PROVE  Separate'
<1> SUFFICES ASSUME NEW S \in SUBSET Objects, Closed(Objects, deps, S),
                    NEW x \in S, NEW y \in Objects \ S,
                    cohort'[x] = cohort'[y]
             PROVE  FALSE
  BY DEF Separate
<1>1. q \in Objects /\ o \in Neighbours(Objects, deps, q)
  BY NeighboursMutual DEF SortTypeOK
<1>2. o \in S <=> q \in S
  BY <1>1 DEF Closed
<1>3. \A u \in S : \A v \in Objects \ S : cohort[u] # cohort[v]
  BY DEF Separate
<1>4. \A u \in Objects : cohort'[u] # cohort[u] =>
        cohort[u] \in {cohort[o], cohort[q]}
        /\ cohort'[u] \in {cohort[o], cohort[q]}
  BY DEF Merged, Lower, Higher
<1>5. x \in Objects /\ y \in Objects /\ cohort[x] # cohort[y]
  BY <1>3
<1>6. cohort[x] \in {cohort[o], cohort[q]}
      /\ cohort[y] \in {cohort[o], cohort[q]}
  BY <1>4, <1>5
<1> QED
  BY <1>1, <1>2, <1>3, <1>5, <1>6

\* Steps before the cohorts are found leave them alone.
LEMMA CohortStays ==
  ASSUME ComponentInv, UNCHANGED <<deps, cohortVars>>,
         phase \notin Sorted, phase' \notin {"renumber", "done"}
  PROVE  ComponentInv'
<1>1. Separate'
  BY DEF ComponentInv, Separate, cohortVars
<1>2. JoinedInv'
  BY DEF ComponentInv, JoinedInv, Sorted, cohortVars
<1>3. NumberInv'
  BY DEF NumberInv
<1> QED
  BY <1>1, <1>2, <1>3 DEF ComponentInv

LEMMA BreakCohort ==
  ASSUME ComponentInv, BreakCircles
  PROVE  ComponentInv'
<1>1. /\ phase = "break" /\ phase' = "count" /\ UNCHANGED cohortVars
  BY DEF BreakCircles
<1>2. cohort = [o \in Objects |-> o] /\ item = 0 /\ todo = {}
  BY <1>1 DEF ComponentInv, JoinedInv
<1>3. Separate'
  BY <1>1, <1>2 DEF Separate, cohortVars
<1>4. JoinedInv' /\ NumberInv'
  BY <1>1, <1>2 DEF JoinedInv, NumberInv, cohortVars
<1> QED
  BY <1>3, <1>4 DEF ComponentInv

LEMMA NextItemCohort ==
  ASSUME SortTypeOK, ComponentInv, NextItem
  PROVE  ComponentInv' /\ item' \in Objects /\ currCohort' \in 0..NumObjects
         /\ todo' \subseteq Objects
<1>1. /\ phase = "cohorts" /\ phase' = "cohorts" /\ todo = {}
      /\ item' = item + 1 /\ item < NumObjects
      /\ currCohort' = cohort[item']
      /\ todo' = Neighbours(Objects, deps, item')
      /\ deps' = deps /\ cohort' = cohort
  BY DEF NextItem
<1>2. item \in Nat /\ item' \in Objects
  BY <1>1, NumObjectsAssumption DEF SortTypeOK, Objects
<1>3. Separate'
  BY <1>1 DEF ComponentInv, Separate
<1>4. \A j \in 1..item : \A q \in Neighbours(Objects, deps, j) :
        cohort[q] = cohort[j]
  BY <1>1 DEF ComponentInv, JoinedInv
<1>5. \A j \in 1..item' : j \in 1..item \/ j = item'
  BY <1>1, <1>2
<1>6. JoinedInv'
  BY <1>1, <1>2, <1>4, <1>5 DEF JoinedInv, Objects
<1>7. NumberInv'
  BY <1>1 DEF NumberInv
<1>8. currCohort' \in 0..NumObjects /\ todo' \subseteq Objects
  <2>1. cohort[item'] \in 1..NumObjects
    BY <1>2 DEF SortTypeOK
  <2> QED
    BY <1>1, <1>2, <2>1, NumObjectsAssumption DEF SortTypeOK, Neighbours
<1> QED
  BY <1>2, <1>3, <1>6, <1>7, <1>8 DEF ComponentInv

LEMMA MergeCohort ==
  ASSUME SortTypeOK, ComponentInv, NEW p \in Objects, MergeNeighbour(p)
  PROVE  ComponentInv' /\ cohort' \in [Objects -> 1..NumObjects]
         /\ currCohort' \in 0..NumObjects
<1>1. /\ phase = "cohorts" /\ phase' = "cohorts" /\ p \in todo
      /\ todo' = todo \ {p} /\ item' = item /\ deps' = deps
  BY DEF MergeNeighbour
<1>2. /\ item > 0 /\ item \in Objects /\ currCohort = cohort[item]
      /\ p \in Neighbours(Objects, deps, item)
      /\ \A j \in 1..item : \A q \in Neighbours(Objects, deps, j) :
           (j = item /\ q \in todo) \/ cohort[q] = cohort[j]
      /\ todo \subseteq Neighbours(Objects, deps, item)
  BY <1>1 DEF ComponentInv, JoinedInv, SortTypeOK, Objects
<1>3. cohort[item] \in 1..NumObjects /\ cohort[p] \in 1..NumObjects
  BY <1>2 DEF SortTypeOK
<1>4. CASE cohort[p] = currCohort
  <2>1. cohort' = cohort /\ currCohort' = currCohort
    BY <1>4 DEF MergeNeighbour
  <2>2. Separate'
    BY <1>1, <2>1 DEF ComponentInv, Separate
  <2>3. JoinedInv'
    BY <1>1, <1>2, <1>4, <2>1 DEF JoinedInv
  <2>4. NumberInv'
    BY <1>1 DEF NumberInv
  <2> QED
    BY <2>1, <2>2, <2>3, <2>4 DEF ComponentInv, SortTypeOK
<1>5. CASE cohort[p] # currCohort
  <2>1. /\ cohort' = Merged(cohort[item], cohort[p])
        /\ currCohort' = Lower(cohort[item], cohort[p])
    BY <1>2, <1>5 DEF MergeNeighbour
  <2>2. Separate'
    BY <1>1, <1>2, <2>1, MergeSeparate DEF ComponentInv
  <2>3. cohort'[item] = currCohort' /\ cohort'[p] = currCohort'
    <3>1. cohort[item] \in Nat /\ cohort[p] \in Nat
      BY <1>3, NumObjectsAssumption
    <3> QED
      BY <1>2, <2>1, <3>1, MergeJoins
  <2>4. \A j \in 1..item : \A q \in Neighbours(Objects, deps, j) :
          (j = item /\ q \in todo') \/ cohort'[q] = cohort'[j]
    <3> SUFFICES ASSUME NEW j \in 1..item,
                        NEW q \in Neighbours(Objects, deps, j),
                        ~(j = item /\ q \in todo')
                 PROVE  cohort'[q] = cohort'[j]
      OBVIOUS
    <3>1. j \in Objects /\ q \in Objects
      <4>1. j \in Objects
        BY <1>2, NumObjectsAssumption DEF Objects
      <4> QED
        BY <4>1 DEF SortTypeOK, Neighbours
    <3>2. CASE j = item /\ q = p
      BY <2>3, <3>2
    <3>3. CASE ~(j = item /\ q = p)
      <4>1. cohort[q] = cohort[j]
        BY <1>1, <1>2, <3>3
      <4> QED
        BY <2>1, <3>1, <4>1, MergeKeepsTogether
    <3> QED
      BY <3>2, <3>3
  <2>5. JoinedInv'
    BY <1>1, <1>2, <2>3, <2>4 DEF JoinedInv
  <2>6. NumberInv'
    BY <1>1 DEF NumberInv
  <2>7. Lower(cohort[item], cohort[p]) \in 1..NumObjects
    BY <1>3 DEF Lower
  <2>8. cohort' \in [Objects -> 1..NumObjects] /\ currCohort' \in 0..NumObjects
    BY <2>1, <2>7, NumObjectsAssumption DEF Merged, SortTypeOK
  <2> QED
    BY <2>2, <2>5, <2>6, <2>8 DEF ComponentInv
<1> QED
  BY <1>4, <1>5

LEMMA FoundCohort ==
  ASSUME SortTypeOK, ComponentInv, CohortsFound
  PROVE  ComponentInv' /\ pending' \subseteq 1..NumObjects
<1>1. /\ phase = "cohorts" /\ phase' = "renumber"
      /\ todo = {} /\ item = NumObjects
      /\ pending' = {cohort[o] : o \in Objects} /\ expected' = 1
      /\ UNCHANGED <<deps, item, todo, currCohort, cohort>>
  BY DEF CohortsFound
<1>2. Separate' /\ JoinedInv'
  BY <1>1 DEF ComponentInv, Separate, JoinedInv
<1>3. pending' \subseteq 1..NumObjects
  BY <1>1 DEF SortTypeOK
<1>4. NumberInv'
  <2>1. \A k \in pending' : 1 <= k /\ \E o \in Objects : cohort[o] = k
    BY <1>1, <1>3, NumObjectsAssumption
  <2>2. 1..(expected' - 1) = {}
    BY <1>1
  <2> QED
    BY <1>1, <2>1, <2>2 DEF NumberInv
<1> QED
  BY <1>2, <1>3, <1>4 DEF ComponentInv

LEMMA RenumberCohort ==
  ASSUME SortTypeOK, ComponentInv, NEW k \in 1..NumObjects, Renumber(k)
  PROVE  ComponentInv' /\ cohort' \in [Objects -> 1..NumObjects]
<1>1. /\ phase = "renumber" /\ phase' = "renumber" /\ k \in pending
      /\ \A j \in pending : k <= j
      /\ cohort' = IF expected # k THEN Merged(expected, k) ELSE cohort
      /\ expected' = expected + 1 /\ pending' = pending \ {k}
      /\ UNCHANGED <<deps, item, todo>>
  BY DEF Renumber
<1>2. /\ expected \in Nat \ {0} /\ k \in Nat /\ pending \subseteq Nat
      /\ cohort \in [Objects -> 1..NumObjects] /\ NumObjects \in Nat
  BY NumObjectsAssumption DEF SortTypeOK
<1>3. /\ \A o \in Objects : cohort[o] \in pending \/ cohort[o] < expected
      /\ expected <= k
      /\ \A j \in 1..(expected - 1) : \E o \in Objects : cohort[o] = j
  BY <1>1 DEF ComponentInv, NumberInv
<1>4. \A o \in Objects :
        cohort'[o] = IF cohort[o] = k THEN expected ELSE cohort[o]
  BY <1>1, <1>2, <1>3 DEF Merged, Lower, Higher
<1>5. \A o \in Objects : cohort[o] = expected => expected = k
  BY <1>1, <1>2, <1>3
<1>6. \A o, p \in Objects : cohort'[o] = cohort'[p] <=> cohort[o] = cohort[p]
  BY <1>4, <1>5
<1>7. Separate'
  BY <1>1, <1>6 DEF ComponentInv, Separate
<1>8. JoinedInv'
  <2>1. /\ item = NumObjects /\ todo = {}
        /\ \A j \in 1..item : \A q \in Neighbours(Objects, deps, j) :
             cohort[q] = cohort[j]
    BY <1>1 DEF ComponentInv, JoinedInv
  <2>2. \A j \in 1..item : \A q \in Neighbours(Objects, deps, j) :
          j \in Objects /\ q \in Objects
    BY <2>1 DEF SortTypeOK, Objects, Neighbours
  <2> QED
    BY <1>1, <1>6, <2>1, <2>2 DEF JoinedInv
<1>9. cohort' \in [Objects -> 1..NumObjects]
  <2>1. expected \in 1..NumObjects
    BY <1>2, <1>3
  <2> QED
    BY <1>1, <1>2, <2>1 DEF Merged, Lower, Higher
<1>10. NumberInv'
  <2>1. \A o \in Objects : cohort'[o] \in pending' \/ cohort'[o] < expected'
    BY <1>1, <1>2, <1>3, <1>4
  <2>2. ASSUME NEW j \in pending'
        PROVE  expected' <= j /\ \E o \in Objects : cohort'[o] = j
    <3>1. expected' <= j
      BY <1>1, <1>2, <1>3
    <3>2. PICK o \in Objects : cohort[o] = j
      BY <1>1 DEF ComponentInv, NumberInv
    <3>3. cohort'[o] = j
      BY <1>1, <1>4, <3>2
    <3> QED
      BY <3>1, <3>3
  <2>3. ASSUME NEW j \in 1..(expected' - 1)
        PROVE  \E o \in Objects : cohort'[o] = j
    <3>1. CASE j = expected
      <4>1. PICK o \in Objects : cohort[o] = k
        BY <1>1 DEF ComponentInv, NumberInv
      <4> QED
        BY <1>4, <3>1, <4>1
    <3>2. CASE j # expected
      <4>1. j \in 1..(expected - 1)
        BY <1>1, <1>2, <3>2
      <4>2. PICK o \in Objects : cohort[o] = j
        BY <1>3, <4>1
      <4>3. cohort[o] # k
        BY <1>2, <1>3, <4>1, <4>2
      <4> QED
        BY <1>4, <4>2, <4>3
    <3> QED
      BY <3>1, <3>2
  <2> QED
    BY <1>1, <2>1, <2>2, <2>3 DEF NumberInv
<1> QED
  BY <1>7, <1>8, <1>9, <1>10 DEF ComponentInv

-----------------------------------------------------------------------------
(* The sort: its invariant and what follows from it                        *)

\* The invariant holds in every state of the sort.
THEOREM SortInductive == SortSpec => []SortIInv
<1>1. SortInit => SortIInv
  <2> SUFFICES ASSUME SortInit PROVE SortIInv
    OBVIOUS
  <2>1. SortTypeOK /\ NoSelfReference
    BY NumObjectsAssumption, RelationsAssumption
       DEF SortInit, SortTypeOK, NoSelfReference, Objects
  <2>2. Visited = {} /\ Reached = {}
    BY DEF SortInit, Visited, Reached
  <2>3. Cardinality({}) = 0
    BY FS_EmptySet
  <2>4. SortInv
    BY <2>1, <2>2, <2>3 DEF SortInit, SortInv, DegreeInv, ReachedInv, OrderInv,
       DepthInv, SortedAfterDependencies, Sorting, Sorted
  <2>5. ComponentInv
    BY DEF SortInit, ComponentInv, Separate, JoinedInv, NumberInv
  <2> QED
    BY <2>1, <2>4, <2>5 DEF SortIInv
<1>2. SortIInv /\ [SortNext]_sortVars => SortIInv'
  <2> SUFFICES ASSUME SortIInv, [SortNext]_sortVars PROVE SortIInv'
    OBVIOUS
  <2>0. SortTypeOK /\ SortInv /\ ComponentInv
    BY DEF SortIInv
  <2>1. CASE BreakCircles
    BY <2>0, <2>1, BreakSort, BreakCohort DEF SortIInv
  <2>2. CASE CountDegrees
    <3>1. ComponentInv'
      BY <2>0, <2>2, CohortStays DEF CountDegrees, Sorted
    <3> QED
      BY <2>0, <2>2, <3>1, CountSort DEF SortIInv
  <2>3. CASE \E o \in Objects : Visit(o)
    <3>1. ComponentInv'
      BY <2>0, <2>3, CohortStays DEF Visit, Sorted
    <3> QED
      BY <2>0, <2>3, <3>1, VisitSort DEF SortIInv
  <2>4. CASE NextTier
    <3>1. ComponentInv'
      BY <2>0, <2>4, CohortStays DEF NextTier, Sorted
    <3> QED
      BY <2>0, <2>4, <3>1, NextTierSort DEF SortIInv
  <2>5. CASE SortFails \/ SortEnds
    <3>1. SortTypeOK'
      BY <2>0, <2>5 DEF SortTypeOK, SortFails, SortEnds, tierVars, cohortVars
    <3>2. ComponentInv'
      BY <2>0, <2>5, CohortStays DEF SortFails, SortEnds, QueueEmpty, Sorted
    <3> QED
      BY <2>0, <2>5, <3>1, <3>2, LaterSort DEF SortIInv
  <2>6. CASE NextItem
    <3>1. /\ ComponentInv' /\ item' \in Objects /\ currCohort' \in 0..NumObjects
          /\ todo' \subseteq Objects
      BY <2>0, <2>6, NextItemCohort
    <3>2. item' \in 0..NumObjects
      BY <3>1, NumObjectsAssumption DEF Objects
    <3>3. SortTypeOK'
      BY <2>0, <2>6, <3>1, <3>2 DEF SortTypeOK, NextItem, tierVars
    <3> QED
      BY <2>0, <2>6, <3>1, <3>3, LaterSort DEF SortIInv
  <2>7. CASE \E p \in Objects : MergeNeighbour(p)
    <3>1. PICK p \in Objects : MergeNeighbour(p)
      BY <2>7
    <3>2. /\ ComponentInv' /\ cohort' \in [Objects -> 1..NumObjects]
          /\ currCohort' \in 0..NumObjects
      BY <2>0, <3>1, MergeCohort
    <3>3. SortTypeOK'
      BY <2>0, <3>1, <3>2 DEF SortTypeOK, MergeNeighbour, tierVars
    <3> QED
      BY <2>0, <2>7, <3>2, <3>3, LaterSort DEF SortIInv
  <2>8. CASE CohortsFound
    <3>1. ComponentInv' /\ pending' \subseteq 1..NumObjects
      BY <2>0, <2>8, FoundCohort
    <3>2. SortTypeOK'
      BY <2>0, <2>8, <3>1 DEF SortTypeOK, CohortsFound, tierVars
    <3> QED
      BY <2>0, <2>8, <3>1, <3>2, LaterSort DEF SortIInv
  <2>9. CASE \E k \in 1..NumObjects : Renumber(k)
    <3>1. PICK k \in 1..NumObjects : Renumber(k)
      BY <2>9
    <3>2. ComponentInv' /\ cohort' \in [Objects -> 1..NumObjects]
      BY <2>0, <3>1, RenumberCohort
    <3>3. SortTypeOK'
      BY <2>0, <3>1, <3>2 DEF SortTypeOK, Renumber, tierVars
    <3> QED
      BY <2>0, <2>9, <3>2, <3>3, LaterSort DEF SortIInv
  <2>10. CASE Finish
    <3>1. SortTypeOK'
      BY <2>0, <2>10 DEF SortTypeOK, Finish, tierVars, cohortVars
    <3>2. ComponentInv'
      BY <2>0, <2>10 DEF ComponentInv, Separate, JoinedInv, NumberInv, Finish,
         cohortVars
    <3> QED
      BY <2>0, <2>10, <3>1, <3>2, LaterSort DEF SortIInv
  <2>11. CASE UNCHANGED sortVars
    <3>1. Visited' = Visited /\ Reached' = Reached
      BY <2>11 DEF sortVars, tierVars, Visited, Reached
    <3>2. SortTypeOK'
      BY <2>0, <2>11 DEF SortTypeOK, sortVars, tierVars, cohortVars
    <3>3. SortInv'
      BY <2>0, <2>11, <3>1 DEF SortInv, NoSelfReference, DegreeInv,
         ReachedInv, OrderInv, DepthInv, SortedAfterDependencies, sortVars,
         tierVars
    <3>4. ComponentInv'
      BY <2>0, <2>11 DEF ComponentInv, Separate, JoinedInv, NumberInv, sortVars,
         cohortVars
    <3> QED
      BY <3>2, <3>3, <3>4 DEF SortIInv
  <2> QED
    BY <2>1, <2>2, <2>3, <2>4, <2>5, <2>6, <2>7, <2>8, <2>9, <2>10, <2>11
       DEF SortNext
<1> QED
  BY <1>1, <1>2, PTL DEF SortSpec

\* Every variable keeps its type; no in-degree falls below zero.
THEOREM SortTypeCorrect == SortSpec => []SortTypeOK
<1>1. SortIInv => SortTypeOK
  BY DEF SortIInv
<1> QED
  BY <1>1, SortInductive, PTL

\* TopologicalSort prints nothing before what it refers to.
THEOREM SortedInOrder == SortSpec => []SortedAfterDependencies
<1>1. SortIInv => SortedAfterDependencies
  BY DEF SortIInv, SortInv
<1> QED
  BY <1>1, SortInductive, PTL

LEMMA EveryObjectVisited ==
  ASSUME SortIInv, phase = "done"
  PROVE  Visited = Objects
<1>1. Visited \subseteq Objects /\ Cardinality(Visited) = NumObjects
  BY DEF SortIInv, SortInv, OrderInv, Sorted, Visited
<1> QED
  BY <1>1, AllObjects

\* TopologicalSort gives up exactly on dependencies that run in a circle.
THEOREM CirclesReported == SortSpec => []FailsOnCirclesOnly
<1>1. ASSUME SortIInv, phase = "fatal" PROVE Circular(Objects, deps)
  <2> DEFINE S == Objects \ Visited
  <2>1. Visited # Objects
    <3>1. Len(sorted) = Cardinality(Visited) /\ Len(sorted) # NumObjects
      BY <1>1 DEF SortIInv, SortInv, OrderInv
    <3>2. Cardinality(Objects) = NumObjects
      <4>1. Cardinality(1..NumObjects) =
              IF 1 > NumObjects THEN 0 ELSE NumObjects - 1 + 1
        BY FS_Interval, NumObjectsAssumption
      <4> QED
        BY <4>1, NumObjectsAssumption DEF Objects
    <3> QED
      BY <3>1, <3>2
  <2>2. S # {}
    BY <2>1 DEF Visited
  <2>3. \A o \in S : deps[o] \cap S # {}
    <3>1. Reached = Visited
      BY <1>1 DEF SortIInv, SortInv, ReachedInv, Reached, Sorted
    <3>2. \A o \in Objects : o \in Visited <=> deps[o] \subseteq Visited
      BY <1>1, <3>1 DEF SortIInv, SortInv, ReachedInv, Sorting
    <3> QED
      BY <1>1, <3>2 DEF SortIInv, SortTypeOK
  <2> QED
    BY <2>2, <2>3 DEF Circular
<1>2. ASSUME SortIInv, phase = "done" PROVE ~Circular(Objects, deps)
  <2> SUFFICES ASSUME NEW S \in SUBSET Objects, S # {},
                      \A o \in S : deps[o] \cap S # {}
               PROVE  FALSE
    BY DEF Circular
  <2>1. tier \in [Objects -> Nat]
    BY <1>2 DEF SortIInv, SortTypeOK
  <2>2. PICK o \in S : \A p \in S : tier[o] <= tier[p]
    BY <2>1, LeastTier
  <2>3. PICK d \in deps[o] \cap S : TRUE
    OBVIOUS
  <2>4. tier[d] < tier[o]
    BY <1>2, <2>3, EveryObjectVisited DEF SortIInv, SortInv, DepthInv
  <2> QED
    BY <2>1, <2>2, <2>3, <2>4
<1>3. ASSUME SortIInv, phase = "done" PROVE Len(sorted) = NumObjects
  BY <1>3 DEF SortIInv, SortInv, OrderInv, Sorted
<1>4. SortIInv => FailsOnCirclesOnly
  BY <1>1, <1>2, <1>3 DEF FailsOnCirclesOnly
<1> QED
  BY <1>4, SortInductive, PTL

\* The tiers that restorePredata walks through: an object is deeper than its
\* dependencies, by one than the deepest of them.
THEOREM TiersCorrect == SortSpec => []TiersFollowDependencies
<1>1. SortIInv => TiersFollowDependencies
  <2> SUFFICES ASSUME SortIInv, phase = "done"
               PROVE  TiersFollow(Objects, deps, tier)
    BY DEF TiersFollowDependencies
  <2>1. Visited = Objects
    BY EveryObjectVisited
  <2>2. \A o \in Objects : tier[o] \in Nat \ {0}
    BY <2>1 DEF SortIInv, SortTypeOK, Visited
  <2> QED
    BY <2>1, <2>2 DEF SortIInv, SortInv, DepthInv, TiersFollow
<1> QED
  BY <1>1, SortInductive, PTL

\* The cohorts that scheduleStatementsOnWorkers deals out: two objects on
\* different connections share no dependency.
THEOREM CohortsCorrect == SortSpec => []CohortsAreComponents
<1>1. SortIInv => CohortsAreComponents
  <2> SUFFICES ASSUME SortIInv, phase = "done"
               PROVE  CohortsIsolate(Objects, deps, cohort)
    BY DEF CohortsAreComponents
  <2>1. \A o \in Objects : \A d \in deps[o] : cohort[d] = cohort[o]
    <3>1. \A o \in Objects : \A q \in Neighbours(Objects, deps, o) :
            cohort[q] = cohort[o]
      BY DEF SortIInv, ComponentInv, JoinedInv, Objects
    <3> QED
      BY <3>1 DEF Neighbours
  <2> QED
    BY <2>1 DEF SortIInv, ComponentInv, Separate, CohortsIsolate
<1> QED
  BY <1>1, SortInductive, PTL

\* Cohorts are numbered 1, 2, ... whatever numbers the merges have left.
THEOREM CohortNumbersCorrect == SortSpec => []CohortsNumbered
<1>1. SortIInv => CohortsNumbered
  <2> SUFFICES ASSUME SortIInv, phase = "done", NEW o \in Objects
               PROVE  /\ cohort[o] \in Nat \ {0}
                      /\ \A k \in 1..cohort[o] :
                           \E p \in Objects : cohort[p] = k
    BY DEF CohortsNumbered, CohortsDense
  <2>1. cohort[o] \in Nat \ {0} /\ expected \in Nat
    BY NumObjectsAssumption DEF SortIInv, SortTypeOK
  <2>2. /\ cohort[o] < expected
        /\ \A k \in 1..(expected - 1) : \E p \in Objects : cohort[p] = k
    BY DEF SortIInv, ComponentInv, NumberInv
  <2> QED
    BY <2>1, <2>2
<1> QED
  BY <1>1, SortInductive, PTL

-----------------------------------------------------------------------------
(* The restore: its inductive invariant                                    *)

\* The restore's input does not change.
InputInv ==
  /\ plan \in Plans
  /\ kept \in SUBSET Objects
  /\ numConns \in Nat \ {0}
  /\ onErrorContinue \in BOOLEAN

\* TypeOK in three parts; a worker's statements are ones that were chosen.
WorkTypes ==
  /\ work \in [Conns -> SUBSET Chosen]
  /\ worker \in [Conns -> {"idle", "run", "done"}]
  /\ running \in [Conns -> Chosen \cup {None}]
TxTypes ==
  /\ tx \in [Conns -> {"none", "open", "broken"}]
  /\ made \in [Conns -> SUBSET Chosen]
  /\ held \in [Conns -> SUBSET Objects]
  /\ committed \in SUBSET Chosen
  /\ \A c \in Conns : tx[c] = "none" => made[c] = {} /\ held[c] = {}
RestTypes ==
  /\ stage \in {"start", "first", "tier", "wait", "last", "all", "done",
                "fatal", "exited"}
  /\ t \in 1..(NumTiers + 1)
  /\ failed \in SUBSET Chosen
  /\ numErrors \in Nat
  /\ fatalBy \in SUBSET Conns
  /\ wasTerminated \in BOOLEAN

\* The statements a connection has before it.
Here(c) == work[c] \cup ({running[c]} \ {None})

\* Who works at which stage.  A worker that is done has nothing before it.
WorkInv ==
  /\ \A c \in Conns : worker[c] # "run" => work[c] = {} /\ running[c] = None
  /\ \A c \in Conns : running[c] \notin work[c]
  /\ stage \notin {"first", "wait", "last", "all"} =>
       \A c \in Conns : worker[c] # "run"
  /\ stage # "wait" => \A c \in Conns \ {0} : worker[c] # "run"
  /\ stage \in {"start", "first"} => t = 1
  /\ stage = "first" => work[0] \subseteq FirstTierZero
  /\ stage = "wait" => t <= NumTiers
  /\ stage = "last" => t > NumTiers

\* A transaction's statements lock their objects.  Between the tiers only
\* connection 0 has statements in a transaction, and during them it has none.
TxInv ==
  /\ \A c \in Conns : \A s \in made[c] : plan.object[s] \in held[c]
  /\ stage # "wait" => \A c \in Conns \ {0} : made[c] = {} /\ held[c] = {}
  /\ stage = "wait" => \A c \in Conns : worker[c] = "done" => tx[c] = "none"
  /\ stage \in {"start", "tier", "wait", "done"} => tx[0] = "none"
  /\ ~Gap /\ stage # "wait" => \A c \in Conns \ {0} : tx[c] = "none"

\* The first error ends the restore, or all are counted and every statement
\* is a transaction of its own.
ErrorInv ==
  /\ failed # {} /\ ~onErrorContinue => fatalBy # {}
  /\ \A c \in Conns : tx[c] = "broken" => failed # {}
  /\ fatalBy # {} => failed # {} /\ ~onErrorContinue
  /\ fatalBy # {} => stage # "done"
  /\ onErrorContinue =>
       /\ stage \in {"start", "all", "done", "exited"}
       /\ \A c \in Conns : tx[c] = "none"
       /\ committed \cap failed = {}
       /\ (committed \cup failed) \cap Here(0) = {}
  /\ stage = "start" => committed = {} /\ failed = {}
  /\ numErrors = IF onErrorContinue THEN Cardinality(failed) ELSE 0

\* The cohorts a connection has to do with.
Cohorts(c) == {plan.cohort[plan.object[s]] : s \in Here(c)}
                \cup {plan.cohort[o] : o \in held[c]}

\* In a tier no two connections have to do with the same one.
CohortInv ==
  stage = "wait" =>
    /\ \A c \in Conns : Here(c) \subseteq Tiered(t)
    /\ \A c \in Conns : \A d \in Conns \ {c} : Cohorts(c) \cap Cohorts(d) = {}

\* Nothing has gone wrong and nothing is filtered out of the middle.
Healthy == ~Gap /\ ~wasTerminated /\ fatalBy = {}

\* The statements that have come to their end, as connection c sees it.
Settled(c) == committed \cup made[c] \cup failed

\* Then each statement waits for its turn or is settled: those of earlier
\* batches are committed, those of this one are with some connection.
ProgressInv ==
  Healthy =>
    /\ stage = "first" => FirstTierZero \subseteq Settled(0) \cup Here(0)
    /\ stage = "all" => Chosen \subseteq Settled(0) \cup Here(0)
    /\ stage = "last" => SecondTierZero \subseteq Settled(0) \cup Here(0)
    /\ stage \in {"tier", "wait", "last"} =>
         /\ FirstTierZero \subseteq committed
         /\ \A s \in Chosen : TierOf(s) \in 1..(t - 1) => s \in committed
    /\ stage = "wait" =>
         \A s \in Tiered(t) : \E c \in Conns : s \in Settled(c) \cup Here(c)
    /\ stage = "done" => Chosen \subseteq committed \cup failed

IInv == /\ InputInv /\ WorkTypes /\ TxTypes /\ RestTypes
        /\ WorkInv /\ TxInv /\ ErrorInv /\ CohortInv
        /\ ProgressInv /\ PrerequisitesThere

-----------------------------------------------------------------------------
(* Statements, tiers and schedules                                         *)

\* The input of the restore is constant, and all that is computed from it.
LEMMA InputSame ==
  ASSUME [Next]_vars
  PROVE  /\ UNCHANGED input
         /\ plan' = plan /\ numConns' = numConns /\ kept' = kept
         /\ onErrorContinue' = onErrorContinue
<1> USE DEF input
<1>1. CASE Main
  BY <1>1 DEF Main, StartRestore, FatalError, Die, FirstEnds, SerialEnds,
     BeginTier, BeginFails, TierEnds, BeginLast, LastEnds, AllEnds
<1>2. CASE \E c \in Conns : Take(c) \/ Stop(c) \/ Drain(c)
  BY <1>2 DEF Take, Stop, Drain
<1>3. CASE \E c \in Conns : Succeed(c) \/ Fail(c)
  BY <1>3 DEF Succeed, Fail
<1>4. CASE Signal \/ HandlerExits
  BY <1>4 DEF Signal, HandlerExits, Die
<1>5. CASE UNCHANGED vars
  BY <1>5 DEF vars
<1> QED
  BY <1>1, <1>2, <1>3, <1>4, <1>5 DEF Next

\* The same for the definitions the invariant uses.
LEMMA DerivedSame ==
  ASSUME UNCHANGED input
  PROVE  /\ Conns' = Conns /\ Chosen' = Chosen /\ NumTiers' = NumTiers
         /\ FirstTierZero' = FirstTierZero /\ SecondTierZero' = SecondTierZero
         /\ (Gap <=> Gap')
<1> USE DEF input
<1>1. Conns' = Conns /\ Chosen' = Chosen
  BY DEF Conns, Chosen
<1>2. Tiers' = Tiers
  BY <1>1 DEF Tiers, TierOf
<1> QED
  BY <1>1, <1>2 DEF NumTiers, Gap, FirstTierZero, SecondTierZero, TierOf

\* Statements are numbers from 1, and so are connections from 0.
LEMMA Sets ==
  ASSUME InputInv
  PROVE  /\ 0 \in Conns
         /\ Chosen \subseteq Statements
         /\ None \notin Statements
         /\ \A s \in Statements : s \in Nat /\ plan.object[s] \in Objects
         /\ FirstTierZero \subseteq Chosen /\ SecondTierZero \subseteq Chosen
         /\ \A k : Tiered(k) \subseteq Chosen
         /\ IsFiniteSet(Statements)
         /\ \A s \in Statements : TierOf(s) \in Nat
<1>1. plan.object \in [Statements -> Objects] /\ plan.tier \in [Objects -> Nat]
  BY PlansAssumption DEF InputInv
<1>2. 0 \in Conns
  BY DEF InputInv, Conns
<1>3. \A s \in Statements : s \in Nat /\ s # None
  BY CountsAssumption DEF Statements, None
<1>4. IsFiniteSet(Statements)
  BY FS_Interval, CountsAssumption DEF Statements
<1> QED
  BY <1>1, <1>2, <1>3, <1>4
     DEF Chosen, FirstTierZero, SecondTierZero, Tiered, TierOf

\* There are finitely many tiers.
LEMMA TiersFinite ==
  ASSUME InputInv
  PROVE  /\ IsFiniteSet(Tiers) /\ NumTiers \in Nat
         /\ Tiers \subseteq Nat \ {0}
<1> DEFINE Image == {TierOf(s) : s \in Chosen}
           f == [s \in Chosen |-> TierOf(s)]
<1>1. IsFiniteSet(Chosen)
  BY Sets, FS_Subset
<1>2. f \in Surjection(Chosen, Image)
  BY DEF Surjection
<1>3. IsFiniteSet(Image)
  BY <1>1, <1>2, FS_Surjection
<1>4. Image \ {0} \in SUBSET Image /\ Tiers = Image \ {0}
  BY DEF Tiers
<1>5. IsFiniteSet(Tiers)
  BY <1>3, <1>4, FS_Subset
<1>6. Tiers \subseteq Nat \ {0}
  BY Sets DEF Tiers
<1> QED
  BY <1>5, <1>6, FS_CardinalityType DEF NumTiers

\* Without a gap the loop of restorePredata, which counts to the number of
\* tiers, comes to each of them.
LEMMA TiersCounted ==
  ASSUME InputInv, ~Gap
  PROVE  Tiers = 1..NumTiers
<1> DEFINE m == NumTiers
<1>1. IsFiniteSet(Tiers) /\ m = Cardinality(Tiers) /\ m \in Nat /\
        Tiers \subseteq Nat \ {0}
  BY TiersFinite DEF NumTiers
<1>2. \A k \in Tiers : \A j \in 1..k : j \in Tiers
  BY DEF Gap
<1>3. ASSUME NEW k \in Tiers, k > m
      PROVE  FALSE
  <2>1. k \in Nat /\ m + 1 <= k
    BY <1>1, <1>3
  <2>2. 1..(m + 1) \in SUBSET Tiers
    BY <1>1, <1>2, <2>1
  <2>3. Cardinality(1..(m + 1)) = m + 1
    BY <1>1, FS_Interval
  <2> QED
    BY <1>1, <2>2, <2>3, FS_Subset
<1>4. Tiers \in SUBSET (1..m)
  BY <1>1, <1>3
<1>5. IsFiniteSet(1..m) /\ Cardinality(1..m) = m
  BY <1>1, FS_Interval
<1> QED
  BY <1>1, <1>4, <1>5, FS_Subset

\* A set of statements has a first one.
LEMMA FirstStatement ==
  ASSUME NEW S \in SUBSET Statements, S # {}
  PROVE  \E s \in S : \A r \in S : s <= r
<1> DEFINE R == OpToRel(<, Nat)
<1>1. S \subseteq Nat
  BY CountsAssumption DEF Statements
<1>2. PICK s \in S : \A r \in S : ~(<<r, s>> \in R)
  <2> HIDE DEF R
  <2> QED
    BY <1>1, WFMin, NatLessThanWellFounded DEF R
<1>3. \A a, b \in Nat : a < b => <<a, b>> \in R
  <2>1. R = {ss \in Nat \X Nat : ss[1] < ss[2]}
    BY DEF OpToRel
  <2> QED
    BY <2>1
<1> HIDE DEF R
<1> SUFFICES ASSUME NEW r \in S
             PROVE  s <= r
  OBVIOUS
<1>4. s \in Nat /\ r \in Nat
  BY <1>1
<1>5. ~(r < s)
  BY <1>2, <1>3, <1>4
<1> QED
  BY <1>4, <1>5

\* A worker takes its first statement.
LEMMA NextOfFacts ==
  ASSUME InputInv, WorkTypes, NEW c \in Conns, work[c] # {}
  PROVE  NextOf(c) \in work[c] /\ \A r \in work[c] : NextOf(c) <= r
<1>1. work[c] \in SUBSET Statements
  BY Sets DEF WorkTypes
<1> QED
  BY <1>1, FirstStatement DEF NextOf

\* scheduleStatementsOnWorkers gives each statement of the batch to one
\* connection, and a cohort to one only.
LEMMA ScheduleFacts ==
  ASSUME InputInv, NEW batch \in SUBSET Chosen, NEW w \in Schedules(batch)
  PROVE  /\ w \in [Conns -> SUBSET Chosen]
         /\ \A c \in Conns : w[c] \subseteq batch
         /\ \A s \in batch : \E c \in Conns : s \in w[c]
         /\ \A c \in Conns : \A d \in Conns \ {c} : \A s \in w[c], r \in w[d] :
              plan.cohort[plan.object[s]] # plan.cohort[plan.object[r]]
<1> DEFINE cohorts == {plan.cohort[plan.object[s]] : s \in batch}
<1>1. PICK f \in [cohorts -> Conns] :
        w = [c \in Conns |-> {s \in batch : f[plan.cohort[plan.object[s]]] = c}]
  BY DEF Schedules
<1>2. \A s \in batch : f[plan.cohort[plan.object[s]]] \in Conns
  OBVIOUS
<1> QED
  BY <1>1, <1>2

\* What a statement locks is of its cohort.
LEMMA LocksFacts ==
  ASSUME InputInv, NEW s \in Statements, TierOf(s) > 0
  PROVE  /\ Locks(s) \in SUBSET Objects /\ plan.object[s] \in Locks(s)
         /\ \A o \in Locks(s) : plan.cohort[o] = plan.cohort[plan.object[s]]
<1> DEFINE o == plan.object[s]
<1>1. o \in Objects
  BY Sets
<1>2. o \in Numbered(plan)
  BY <1>1 DEF TierOf, Numbered
<1>3. CohortsIsolate(Numbered(plan), NumberedDeps(plan), plan.cohort)
  BY PlansAssumption DEF InputInv
<1>4. NumberedDeps(plan)[o] \in SUBSET Objects
  BY <1>1 DEF NumberedDeps, Numbered
<1> QED
  BY <1>1, <1>2, <1>3, <1>4 DEF Locks, CohortsIsolate

-----------------------------------------------------------------------------
(* The restore's steps                                                     *)

\* Workers get chosen statements.
LEMMA WorkTypesStep ==
  ASSUME InputInv, WorkTypes, [Next]_vars
  PROVE  WorkTypes'
<1>s. /\ plan' = plan /\ numConns' = numConns /\ kept' = kept
      /\ onErrorContinue' = onErrorContinue
      /\ Conns' = Conns /\ Chosen' = Chosen /\ NumTiers' = NumTiers
      /\ FirstTierZero' = FirstTierZero /\ SecondTierZero' = SecondTierZero
      /\ (Gap <=> Gap')
  BY InputSame, DerivedSame
<1> USE <1>s
<1>1. ASSUME UNCHANGED <<work, worker, running>>
      PROVE  WorkTypes'
  BY <1>1 DEF WorkTypes
<1>2. CASE FirstEnds \/ TierEnds \/ LastEnds \/ AllEnds \/ Signal
  BY <1>1, <1>2 DEF FirstEnds, SerialEnds, Commit, TierEnds, LastEnds, AllEnds,
     Signal, workVars, txVars, errVars
<1>3. CASE UNCHANGED vars
  BY <1>1, <1>3 DEF vars, workVars, txVars, errVars
<1> USE DEF workVars, txVars, errVars
<1>4. CASE StartRestore
  <2>1. PICK batch \in SUBSET Chosen : LaunchSerial(batch)
    BY <1>4, Sets DEF StartRestore
  <2> QED
    BY <2>1, Sets DEF LaunchSerial, WorkTypes
<1>5. CASE FatalError
  BY <1>5 DEF FatalError, Die, WorkTypes, None
<1>6. CASE BeginTier
  <2>1. CASE Tiered(t) = {}
    BY <1>6, <2>1 DEF BeginTier, WorkTypes
  <2>2. CASE Tiered(t) # {}
    <3>1. work' \in Schedules(Tiered(t)) /\ Tiered(t) \in SUBSET Chosen
      BY <1>6, <2>2, Sets DEF BeginTier
    <3>2. work' \in [Conns -> SUBSET Chosen]
      BY <3>1, ScheduleFacts
    <3> QED
      BY <1>6, <2>2, <3>2 DEF BeginTier, WorkTypes
  <2> QED
    BY <2>1, <2>2
<1>7. CASE BeginFails
  BY <1>7 DEF BeginFails, Die, WorkTypes, None
<1>8. CASE BeginLast
  <2>1. PICK batch \in SUBSET Chosen : LaunchSerial(batch)
    BY <1>8, Sets DEF BeginLast
  <2> QED
    BY <2>1, Sets DEF LaunchSerial, WorkTypes
<1>9. ASSUME NEW c \in Conns, Take(c)
      PROVE  WorkTypes'
  <2>1. NextOf(c) \in work[c] /\ work[c] \in SUBSET Chosen
    BY <1>9, NextOfFacts DEF Take, WorkTypes
  <2> QED
    BY <1>9, <2>1 DEF Take, WorkTypes
<1>10. CASE HandlerExits
  BY <1>10 DEF HandlerExits, Die, WorkTypes, None
<1> USE DEF WorkTypes, workVars, txVars, errVars
<1>11. ASSUME NEW c \in Conns, Stop(c)
      PROVE  WorkTypes'
  BY <1>11 DEF Stop, Rollback
<1>12. ASSUME NEW c \in Conns, Drain(c)
      PROVE  WorkTypes'
  BY <1>12 DEF Drain, Commit
<1>13. ASSUME NEW c \in Conns, Succeed(c)
      PROVE  WorkTypes'
  BY <1>13 DEF Succeed
<1>14. ASSUME NEW c \in Conns, Fail(c)
      PROVE  WorkTypes'
  BY <1>14 DEF Fail
<1> QED
  BY <1>2, <1>3, <1>4, <1>5, <1>6, <1>7, <1>8, <1>9, <1>10, <1>11, <1>12,
     <1>13, <1>14 DEF Next, Main

\* A transaction that ends has nothing left to commit or to hold.
LEMMA TxEnds ==
  ASSUME TxTypes, NEW c \in Conns, Commit(c) \/ Rollback(c), [Next]_vars
  PROVE  TxTypes'
<1>1. Conns' = Conns /\ Chosen' = Chosen
  BY InputSame, DerivedSame
<1>2. committed' \in SUBSET Chosen
  BY DEF Commit, Rollback, TxTypes
<1>3. /\ tx' = [tx EXCEPT ![c] = "none"]
      /\ made' = [made EXCEPT ![c] = {}]
      /\ held' = [held EXCEPT ![c] = {}]
  BY DEF Commit, Rollback
<1> QED
  BY <1>1, <1>2, <1>3 DEF TxTypes

\* Transactions are made of chosen statements.
LEMMA TxTypesStep ==
  ASSUME InputInv, WorkTypes, TxTypes, TxInv, [Next]_vars
  PROVE  TxTypes'
<1>s. /\ plan' = plan /\ numConns' = numConns /\ kept' = kept
      /\ onErrorContinue' = onErrorContinue
      /\ Conns' = Conns /\ Chosen' = Chosen /\ NumTiers' = NumTiers
      /\ FirstTierZero' = FirstTierZero /\ SecondTierZero' = SecondTierZero
      /\ (Gap <=> Gap')
  BY InputSame, DerivedSame
<1> USE <1>s
<1>1. ASSUME UNCHANGED <<tx, made, held, committed>>
      PROVE  TxTypes'
  BY <1>1 DEF TxTypes
<1>2. CASE TierEnds \/ (\E c \in Conns : Take(c)) \/ Signal
  BY <1>1, <1>2 DEF TierEnds, Take, Signal, workVars, txVars, errVars
<1>3. CASE UNCHANGED vars
  BY <1>1, <1>3 DEF vars, workVars, txVars, errVars
<1> USE DEF workVars, txVars, errVars
<1>4. CASE StartRestore
  <2>1. tx[0] = "none"
    BY <1>4 DEF StartRestore, TxInv
  <2>2. made[0] = {} /\ held[0] = {}
    BY <2>1, Sets DEF TxTypes
  <2> QED
    BY <1>4, <2>2, Sets DEF StartRestore, TxTypes
<1>5. CASE FatalError
  BY <1>5 DEF FatalError, Die, TxTypes
<1>6. CASE FirstEnds
  <2>1. CASE tx[0] = "none"
    BY <1>6, <2>1 DEF FirstEnds, SerialEnds, TxTypes
  <2>2. CASE tx[0] # "none"
    BY <1>6, <2>2, TxEnds, Sets DEF FirstEnds, SerialEnds
  <2> QED
    BY <2>1, <2>2
<1>7. CASE BeginFails
  BY <1>7 DEF BeginFails, Die, TxTypes
<1>8. CASE LastEnds
  <2>1. CASE tx[0] = "none"
    BY <1>8, <2>1 DEF LastEnds, SerialEnds, TxTypes
  <2>2. CASE tx[0] # "none"
    BY <1>8, <2>2, TxEnds, Sets DEF LastEnds, SerialEnds
  <2> QED
    BY <2>1, <2>2
<1>9. CASE AllEnds
  <2>1. CASE tx[0] = "none"
    BY <1>9, <2>1 DEF AllEnds, SerialEnds, TxTypes
  <2>2. CASE tx[0] # "none"
    BY <1>9, <2>2, TxEnds, Sets DEF AllEnds, SerialEnds
  <2> QED
    BY <2>1, <2>2
<1>10. ASSUME NEW c \in Conns, Stop(c)
      PROVE  TxTypes'
  <2>1. CASE UNCHANGED txVars
    BY <1>10, <2>1 DEF TxTypes
  <2>2. CASE Rollback(c)
    BY <2>2, TxEnds
  <2> QED
    BY <1>10, <2>1, <2>2 DEF Stop
<1>11. ASSUME NEW c \in Conns, Drain(c)
      PROVE  TxTypes'
  <2>1. CASE UNCHANGED txVars
    BY <1>11, <2>1 DEF TxTypes
  <2>2. CASE Commit(c)
    BY <2>2, TxEnds
  <2> QED
    BY <1>11, <2>1, <2>2 DEF Drain
<1>12. ASSUME NEW c \in Conns, Succeed(c)
      PROVE  TxTypes'
  <2>1. running[c] \in Chosen
    BY <1>12 DEF Succeed, WorkTypes
  <2>2. CASE tx[c] = "open"
    <3>1. Locks(running[c]) \in SUBSET Objects
      BY <2>1, Sets DEF Locks, NumberedDeps, Numbered
    <3>2. made' \in [Conns -> SUBSET Chosen] /\
            held' \in [Conns -> SUBSET Objects]
      BY <1>12, <2>1, <2>2, <3>1 DEF Succeed, TxTypes
    <3>3. \A d \in Conns : tx[d] = "none" =>
            made'[d] = made[d] /\ held'[d] = held[d]
      BY <1>12, <2>2 DEF Succeed, TxTypes
    <3> QED
      BY <1>12, <2>2, <3>2, <3>3 DEF Succeed, TxTypes
  <2>3. CASE tx[c] # "open"
    BY <1>12, <2>1, <2>3 DEF Succeed, TxTypes
  <2> QED
    BY <2>2, <2>3
<1>13. ASSUME NEW c \in Conns, Fail(c)
      PROVE  TxTypes'
  <2>1. tx' \in [Conns -> {"none", "open", "broken"}]
    BY <1>13 DEF Fail, TxTypes
  <2>2. \A d \in Conns : tx'[d] = "none" => tx[d] = "none"
    BY <1>13 DEF Fail, TxTypes
  <2> QED
    BY <1>13, <2>1, <2>2 DEF Fail, TxTypes
<1>14. CASE HandlerExits
  BY <1>14 DEF HandlerExits, Die, TxTypes
<1> USE DEF TxTypes, workVars, txVars, errVars
<1>15. CASE BeginTier
  BY <1>15 DEF BeginTier
<1>16. CASE BeginLast
  BY <1>16 DEF BeginLast, LaunchSerial
<1> QED
  BY <1>2, <1>3, <1>4, <1>5, <1>6, <1>7, <1>8, <1>9, <1>10, <1>11, <1>12,
     <1>13, <1>14, <1>15, <1>16 DEF Next, Main

\* The main goroutine keeps the types of what it knows.
LEMMA RestTypesStep ==
  ASSUME InputInv, WorkTypes, RestTypes, WorkInv, [Next]_vars
  PROVE  RestTypes'
<1>s. /\ plan' = plan /\ numConns' = numConns /\ kept' = kept
      /\ onErrorContinue' = onErrorContinue
      /\ Conns' = Conns /\ Chosen' = Chosen /\ NumTiers' = NumTiers
      /\ FirstTierZero' = FirstTierZero /\ SecondTierZero' = SecondTierZero
      /\ (Gap <=> Gap')
  BY InputSame, DerivedSame
<1> USE <1>s
<1>1. ASSUME UNCHANGED <<stage, t, failed, numErrors, fatalBy, wasTerminated>>
      PROVE  RestTypes'
  BY <1>1 DEF RestTypes
<1>2. CASE (\E c \in Conns : Take(c)) \/ (\E c \in Conns : Stop(c)) \/ (\E c
      \in Conns : Drain(c)) \/ (\E c \in Conns : Succeed(c))
  BY <1>1, <1>2 DEF Take, Stop, Rollback, Drain, Commit, Succeed, workVars,
     txVars, errVars
<1>3. CASE UNCHANGED vars
  BY <1>1, <1>3 DEF vars, workVars, txVars, errVars
<1> USE DEF workVars, txVars, errVars
<1>4. CASE FatalError
  BY <1>4 DEF FatalError, Die, RestTypes
<1>5. CASE BeginTier
  <2>1. t' \in 1..(NumTiers + 1)
    BY <1>5, TiersFinite DEF BeginTier, RestTypes
  <2> QED
    BY <1>5, <2>1 DEF BeginTier, RestTypes
<1>6. CASE BeginFails
  BY <1>6 DEF BeginFails, Die, RestTypes
<1>7. CASE TierEnds
  <2>1. t' \in 1..(NumTiers + 1)
    BY <1>7, TiersFinite DEF TierEnds, RestTypes, WorkInv
  <2> QED
    BY <1>7, <2>1 DEF TierEnds, RestTypes
<1>8. ASSUME NEW c \in Conns, Fail(c)
      PROVE  RestTypes'
  <2>1. running[c] \in Chosen
    BY <1>8 DEF Fail, WorkTypes
  <2> QED
    BY <1>8, <2>1 DEF Fail, RestTypes
<1>9. CASE HandlerExits
  BY <1>9 DEF HandlerExits, Die, RestTypes
<1> USE DEF RestTypes, workVars, txVars, errVars
<1>10. CASE StartRestore
  BY <1>10 DEF StartRestore, LaunchSerial
<1>11. CASE FirstEnds
  BY <1>11 DEF FirstEnds, SerialEnds, Commit
<1>12. CASE BeginLast
  BY <1>12 DEF BeginLast, LaunchSerial
<1>13. CASE LastEnds
  BY <1>13 DEF LastEnds, SerialEnds, Commit
<1>14. CASE AllEnds
  BY <1>14 DEF AllEnds, SerialEnds, Commit
<1>15. CASE Signal
  BY <1>15 DEF Signal
<1> QED
  BY <1>2, <1>3, <1>4, <1>5, <1>6, <1>7, <1>8, <1>9, <1>10, <1>11, <1>12,
     <1>13, <1>14, <1>15 DEF Next, Main

\* Between the batches no worker has anything before it.
LEMMA WorkInvStep ==
  ASSUME InputInv, WorkTypes, RestTypes, WorkInv, [Next]_vars
  PROVE  WorkInv'
<1>s. /\ plan' = plan /\ numConns' = numConns /\ kept' = kept
      /\ onErrorContinue' = onErrorContinue
      /\ Conns' = Conns /\ Chosen' = Chosen /\ NumTiers' = NumTiers
      /\ FirstTierZero' = FirstTierZero /\ SecondTierZero' = SecondTierZero
      /\ (Gap <=> Gap')
  BY InputSame, DerivedSame
<1> USE <1>s
<1>1. ASSUME UNCHANGED <<work, worker, running, stage, t>>
      PROVE  WorkInv'
  BY <1>1 DEF WorkInv
<1>2. CASE Signal
  BY <1>1, <1>2 DEF Signal, workVars, txVars, errVars
<1>3. CASE UNCHANGED vars
  BY <1>1, <1>3 DEF vars, workVars, txVars, errVars
<1> USE DEF workVars, txVars, errVars
<1>4. CASE StartRestore
  <2>1. PICK batch \in SUBSET Chosen :
          LaunchSerial(batch) /\ (stage' = "first" => batch = FirstTierZero)
    BY <1>4, Sets DEF StartRestore
  <2>2. \A d \in Conns : work[d] = {} /\ running[d] = None
    BY <1>4 DEF StartRestore, WorkInv
  <2>3. \A d \in Conns :
          /\ work'[d] = IF d = 0 THEN batch ELSE {}
          /\ worker'[d] = IF d = 0 /\ batch # {} THEN "run" ELSE "done"
          /\ running'[d] = None
    BY <2>1, <2>2, Sets DEF LaunchSerial, WorkTypes
  <2>4. None \notin batch
    BY Sets
  <2>5. UNCHANGED t /\ t = 1 /\ stage' \in {"first", "all"}
    BY <1>4 DEF StartRestore, WorkInv
  <2>6. stage' = "first" => work'[0] \subseteq FirstTierZero
    BY <2>1, <2>3, Sets
  <2> QED
    BY <2>3, <2>4, <2>5, <2>6 DEF WorkInv
<1>5. CASE FatalError
  <2>1. \A d \in Conns : worker'[d] = "idle" /\ work'[d] = {} /\
          running'[d] = None
    BY <1>5 DEF FatalError, Die
  <2> QED
    BY <1>5, <2>1 DEF FatalError, Die, WorkInv
<1>6. CASE FirstEnds
  BY <1>6 DEF FirstEnds, SerialEnds, AllDone, WorkInv
<1>7. CASE BeginTier
  <2>1. CASE Tiered(t) = {}
    BY <1>7, <2>1 DEF BeginTier, WorkInv
  <2>2. CASE Tiered(t) # {}
    <3>1. work' \in Schedules(Tiered(t)) /\ Tiered(t) \in SUBSET Chosen
      BY <1>7, <2>2, Sets DEF BeginTier
    <3>2. \A d \in Conns : work'[d] \subseteq Statements
      BY <3>1, ScheduleFacts, Sets
    <3>3. \A d \in Conns : worker'[d] = "run" /\ running'[d] = None
      BY <1>7, <2>2 DEF BeginTier, WorkInv
    <3> QED
      BY <1>7, <2>2, <3>2, <3>3, Sets DEF BeginTier, WorkInv
  <2> QED
    BY <2>1, <2>2
<1>8. CASE BeginFails
  <2>1. \A d \in Conns : worker'[d] = "idle" /\ work'[d] = {} /\
          running'[d] = None
    BY <1>8 DEF BeginFails, Die
  <2> QED
    BY <1>8, <2>1 DEF BeginFails, Die, WorkInv
<1>9. CASE TierEnds
  BY <1>9 DEF TierEnds, AllDone, WorkInv
<1>10. CASE BeginLast
  <2>1. PICK batch \in SUBSET Chosen :
          LaunchSerial(batch) /\ (stage' = "first" => batch = FirstTierZero)
    BY <1>10, Sets DEF BeginLast
  <2>2. \A d \in Conns : work[d] = {} /\ running[d] = None
    BY <1>10 DEF BeginLast, WorkInv
  <2>3. \A d \in Conns :
          /\ work'[d] = IF d = 0 THEN batch ELSE {}
          /\ worker'[d] = IF d = 0 /\ batch # {} THEN "run" ELSE "done"
          /\ running'[d] = None
    BY <2>1, <2>2, Sets DEF LaunchSerial, WorkTypes
  <2>4. None \notin batch
    BY Sets
  <2>5. UNCHANGED t /\ t > NumTiers /\ stage' = "last"
    BY <1>10 DEF BeginLast, WorkInv
  <2>6. stage' = "first" => work'[0] \subseteq FirstTierZero
    BY <2>1, <2>3, Sets
  <2> QED
    BY <2>3, <2>4, <2>5, <2>6 DEF WorkInv
<1>11. CASE LastEnds
  BY <1>11 DEF LastEnds, SerialEnds, AllDone, WorkInv
<1>12. CASE AllEnds
  BY <1>12 DEF AllEnds, SerialEnds, AllDone, WorkInv
<1>13. ASSUME NEW c \in Conns, Take(c)
      PROVE  WorkInv'
  <2> DEFINE s == NextOf(c)
  <2>1. s \in work[c] /\ worker[c] = "run" /\ UNCHANGED <<stage, t, worker>>
    BY <1>13, NextOfFacts DEF Take
  <2> HIDE DEF s
  <2>2. \A d \in Conns :
          /\ work'[d] = IF d = c THEN work[d] \ {s} ELSE work[d]
          /\ running'[d] = IF d = c THEN s ELSE running[d]
    BY <1>13 DEF Take, WorkTypes, s
  <2> QED
    BY <2>1, <2>2 DEF WorkInv
<1>14. ASSUME NEW c \in Conns, Stop(c)
      PROVE  WorkInv'
  <2>1. \A d \in Conns :
          /\ work'[d] = IF d = c THEN {} ELSE work[d]
          /\ worker'[d] = IF d = c THEN "done" ELSE worker[d]
    BY <1>14 DEF Stop, WorkTypes
  <2>2. running[c] = None /\ UNCHANGED <<stage, t, running>>
    BY <1>14 DEF Stop
  <2>3. \A d \in Conns : work'[d] \subseteq work[d]
    BY <2>1
  <2>4. stage = "first" => work'[0] \subseteq FirstTierZero
    BY <2>3, Sets DEF WorkInv
  <2> QED
    BY <2>1, <2>2, <2>4 DEF WorkInv
<1>15. ASSUME NEW c \in Conns, Drain(c)
      PROVE  WorkInv'
  <2>1. \A d \in Conns : worker'[d] = IF d = c THEN "done" ELSE worker[d]
    BY <1>15 DEF Drain, WorkTypes
  <2>2. running[c] = None /\ work[c] = {} /\
          UNCHANGED <<stage, t, running, work>>
    BY <1>15 DEF Drain
  <2> QED
    BY <2>1, <2>2 DEF WorkInv
<1>16. ASSUME NEW c \in Conns, Succeed(c)
      PROVE  WorkInv'
  <2>1. \A d \in Conns : running'[d] = IF d = c THEN None ELSE running[d]
    BY <1>16 DEF Succeed, WorkTypes
  <2>2. UNCHANGED <<stage, t, worker, work>>
    BY <1>16 DEF Succeed
  <2>3. None \notin work[c]
    BY Sets DEF WorkTypes
  <2> QED
    BY <2>1, <2>2, <2>3 DEF WorkInv
<1>17. ASSUME NEW c \in Conns, Fail(c)
      PROVE  WorkInv'
  <2>1. \A d \in Conns : running'[d] = IF d = c THEN None ELSE running[d]
    BY <1>17 DEF Fail, WorkTypes
  <2>2. UNCHANGED <<stage, t, worker, work>>
    BY <1>17 DEF Fail
  <2>3. None \notin work[c]
    BY Sets DEF WorkTypes
  <2> QED
    BY <2>1, <2>2, <2>3 DEF WorkInv
<1>18. CASE HandlerExits
  <2>1. \A d \in Conns : worker'[d] = "idle" /\ work'[d] = {} /\
          running'[d] = None
    BY <1>18 DEF HandlerExits, Die
  <2> QED
    BY <1>18, <2>1 DEF HandlerExits, Die, WorkInv
<1> QED
  BY <1>2, <1>3, <1>4, <1>5, <1>6, <1>7, <1>8, <1>9, <1>10, <1>11, <1>12,
     <1>13, <1>14, <1>15, <1>16, <1>17, <1>18 DEF Next, Main

\* Whether a transaction commits or not, the connection is left without one.
LEMMA TxGone ==
  ASSUME TxTypes, NEW c \in Conns, Commit(c) \/ Rollback(c)
  PROVE  \A d \in Conns : /\ tx'[d] = IF d = c THEN "none" ELSE tx[d]
                          /\ made'[d] = IF d = c THEN {} ELSE made[d]
                          /\ held'[d] = IF d = c THEN {} ELSE held[d]
BY DEF Commit, Rollback, TxTypes

\* A worker that is done has ended its transaction.
LEMMA TxInvStep ==
  ASSUME InputInv, WorkTypes, TxTypes, RestTypes, WorkInv, TxInv, [Next]_vars
  PROVE  TxInv'
<1>s. /\ plan' = plan /\ numConns' = numConns /\ kept' = kept
      /\ onErrorContinue' = onErrorContinue
      /\ Conns' = Conns /\ Chosen' = Chosen /\ NumTiers' = NumTiers
      /\ FirstTierZero' = FirstTierZero /\ SecondTierZero' = SecondTierZero
      /\ (Gap <=> Gap')
  BY InputSame, DerivedSame
<1> USE <1>s
<1>1. ASSUME UNCHANGED <<stage, worker, tx, made, held>>
      PROVE  TxInv'
  BY <1>1 DEF TxInv
<1>2. CASE Signal
  BY <1>1, <1>2 DEF Signal, workVars, txVars, errVars
<1>3. CASE UNCHANGED vars
  BY <1>1, <1>3 DEF vars, workVars, txVars, errVars
<1> USE DEF workVars, txVars, errVars
<1>4. CASE StartRestore
  <2>1. tx[0] = "none"
    BY <1>4 DEF StartRestore, TxInv
  <2>2. \A d \in Conns \ {0} : tx'[d] = tx[d]
    BY <1>4 DEF StartRestore, TxTypes
  <2> QED
    BY <1>4, <2>2 DEF StartRestore, TxInv
<1>5. CASE FatalError
  <2>1. \A d \in Conns : tx'[d] = "none" /\ made'[d] = {} /\ held'[d] = {}
    BY <1>5 DEF FatalError, Die
  <2> QED
    BY <1>5, <2>1, Sets DEF FatalError, Die, TxInv
<1>6. CASE FirstEnds
  <2>1. \A d \in Conns :
          /\ tx'[d] = IF d = 0 THEN "none" ELSE tx[d]
          /\ made'[d] = IF d = 0 THEN {} ELSE made[d]
          /\ held'[d] = IF d = 0 THEN {} ELSE held[d]
    <3>1. CASE tx[0] = "none"
      BY <1>6, <3>1, Sets DEF FirstEnds, SerialEnds, TxTypes
    <3>2. CASE tx[0] # "none"
      BY <1>6, <3>2, TxGone, Sets DEF FirstEnds, SerialEnds
    <3> QED
      BY <3>1, <3>2
  <2> QED
    BY <1>6, <2>1, Sets DEF FirstEnds, SerialEnds, TxInv
<1>7. CASE BeginTier
  <2>1. UNCHANGED <<made, held>> /\ stage = "tier"
    BY <1>7 DEF BeginTier
  <2>2. tx'[0] = "none"
    BY <1>7, Sets DEF BeginTier, TxInv
  <2>3. CASE Tiered(t) = {}
    <3>1. t \in 1..NumTiers
      BY <1>7, TiersFinite DEF BeginTier, RestTypes
    <3>2. t \notin Tiers
      BY <2>3, <3>1, Sets DEF Tiers, Tiered
    <3>3. Gap
      BY <3>1, <3>2, TiersCounted
    <3> QED
      BY <1>7, <2>1, <2>2, <2>3, <3>3 DEF BeginTier, TxInv
  <2>4. CASE Tiered(t) # {}
    BY <1>7, <2>1, <2>2, <2>4 DEF BeginTier, TxInv
  <2> QED
    BY <2>3, <2>4
<1>8. CASE BeginFails
  <2>1. \A d \in Conns : tx'[d] = "none" /\ made'[d] = {} /\ held'[d] = {}
    BY <1>8 DEF BeginFails, Die
  <2> QED
    BY <1>8, <2>1, Sets DEF BeginFails, Die, TxInv
<1>9. CASE TierEnds
  <2>1. \A d \in Conns : tx[d] = "none" /\ made[d] = {} /\ held[d] = {}
    BY <1>9 DEF TierEnds, AllDone, TxInv, TxTypes
  <2> QED
    BY <1>9, <2>1, Sets DEF TierEnds, TxInv
<1>10. CASE BeginLast
  <2>1. \A d \in Conns \ {0} : tx'[d] = tx[d]
    BY <1>10 DEF BeginLast, TxTypes
  <2> QED
    BY <1>10, <2>1 DEF BeginLast, TxInv
<1>11. CASE LastEnds
  <2>1. \A d \in Conns :
          /\ tx'[d] = IF d = 0 THEN "none" ELSE tx[d]
          /\ made'[d] = IF d = 0 THEN {} ELSE made[d]
          /\ held'[d] = IF d = 0 THEN {} ELSE held[d]
    <3>1. CASE tx[0] = "none"
      BY <1>11, <3>1, Sets DEF LastEnds, SerialEnds, TxTypes
    <3>2. CASE tx[0] # "none"
      BY <1>11, <3>2, TxGone, Sets DEF LastEnds, SerialEnds
    <3> QED
      BY <3>1, <3>2
  <2> QED
    BY <1>11, <2>1, Sets DEF LastEnds, SerialEnds, TxInv
<1>12. CASE AllEnds
  <2>1. \A d \in Conns :
          /\ tx'[d] = IF d = 0 THEN "none" ELSE tx[d]
          /\ made'[d] = IF d = 0 THEN {} ELSE made[d]
          /\ held'[d] = IF d = 0 THEN {} ELSE held[d]
    <3>1. CASE tx[0] = "none"
      BY <1>12, <3>1, Sets DEF AllEnds, SerialEnds, TxTypes
    <3>2. CASE tx[0] # "none"
      BY <1>12, <3>2, TxGone, Sets DEF AllEnds, SerialEnds
    <3> QED
      BY <3>1, <3>2
  <2> QED
    BY <1>12, <2>1, Sets DEF AllEnds, SerialEnds, TxInv
<1>13. ASSUME NEW c \in Conns, Take(c)
      PROVE  TxInv'
  BY <1>13 DEF Take, TxInv
<1>14. ASSUME NEW c \in Conns, Stop(c)
      PROVE  TxInv'
  <2>1. \A d \in Conns : worker'[d] = IF d = c THEN "done" ELSE worker[d]
    BY <1>14 DEF Stop, WorkTypes
  <2>2. UNCHANGED stage /\ worker[c] = "run"
    BY <1>14 DEF Stop
  <2>3. CASE stage = "wait" /\ tx[c] # "none"
    <3>1. Rollback(c)
      BY <1>14, <2>3 DEF Stop, InParallel
    <3> QED
      BY <2>1, <2>2, <2>3, <3>1, TxGone, Sets DEF TxInv
  <2>4. CASE ~(stage = "wait" /\ tx[c] # "none")
    BY <1>14, <2>1, <2>2, <2>4 DEF Stop, InParallel, TxInv
  <2> QED
    BY <2>3, <2>4
<1>15. ASSUME NEW c \in Conns, Drain(c)
      PROVE  TxInv'
  <2>1. \A d \in Conns : worker'[d] = IF d = c THEN "done" ELSE worker[d]
    BY <1>15 DEF Drain, WorkTypes
  <2>2. UNCHANGED stage /\ worker[c] = "run"
    BY <1>15 DEF Drain
  <2>3. CASE stage = "wait" /\ tx[c] # "none"
    <3>1. Commit(c)
      BY <1>15, <2>3 DEF Drain, InParallel
    <3> QED
      BY <2>1, <2>2, <2>3, <3>1, TxGone, Sets DEF TxInv
  <2>4. CASE ~(stage = "wait" /\ tx[c] # "none")
    BY <1>15, <2>1, <2>2, <2>4 DEF Drain, InParallel, TxInv
  <2> QED
    BY <2>3, <2>4
<1>16. ASSUME NEW c \in Conns, Succeed(c)
      PROVE  TxInv'
  <2>1. running[c] \in Chosen /\ worker[c] = "run"
    BY <1>16 DEF Succeed, WorkTypes, WorkInv
  <2>2. CASE tx[c] = "open"
    <3>1. \A d \in Conns :
            /\ made'[d] = IF d = c THEN made[d] \cup {running[c]} ELSE made[d]
            /\ held'[d] = IF d = c THEN
                 held[d] \cup Locks(running[c]) ELSE held[d]
      BY <1>16, <2>2 DEF Succeed, TxTypes
    <3>2. UNCHANGED <<tx, stage, worker>>
      BY <1>16, <2>2 DEF Succeed
    <3>3. stage # "wait" => c = 0
      BY <2>1 DEF WorkInv
    <3>4. plan.object[running[c]] \in Locks(running[c])
      BY DEF Locks
    <3>5. \A d \in Conns : \A s \in made'[d] : plan.object[s] \in held'[d]
      BY <3>1, <3>4 DEF TxInv
    <3>6. stage # "wait" =>
            \A d \in Conns \ {0} : made'[d] = {} /\ held'[d] = {}
      BY <3>1, <3>3 DEF TxInv
    <3> QED
      BY <3>2, <3>5, <3>6 DEF TxInv
  <2>3. CASE tx[c] # "open"
    BY <1>16, <2>3 DEF Succeed, TxInv
  <2> QED
    BY <2>2, <2>3
<1>17. ASSUME NEW c \in Conns, Fail(c)
      PROVE  TxInv'
  <2>1. \A d \in Conns : tx[d] = "none" => tx'[d] = "none"
    BY <1>17 DEF Fail, TxTypes
  <2>2. UNCHANGED <<made, held, stage, worker>>
    BY <1>17 DEF Fail
  <2> QED
    BY <2>1, <2>2, Sets DEF TxInv
<1>18. CASE HandlerExits
  <2>1. \A d \in Conns : tx'[d] = "none" /\ made'[d] = {} /\ held'[d] = {}
    BY <1>18 DEF HandlerExits, Die
  <2> QED
    BY <1>18, <2>1, Sets DEF HandlerExits, Die, TxInv
<1> QED
  BY <1>2, <1>3, <1>4, <1>5, <1>6, <1>7, <1>8, <1>9, <1>10, <1>11, <1>12,
     <1>13, <1>14, <1>15, <1>16, <1>17, <1>18 DEF Next, Main

\* To take a statement does not change what a connection has before it.
LEMMA HereTakes ==
  ASSUME InputInv, WorkTypes, NEW c \in Conns, Take(c)
  PROVE  \A d \in Conns : Here(d)' = Here(d)
<1> DEFINE s == NextOf(c)
<1>1. s \in work[c] /\ running[c] = None
  BY NextOfFacts DEF Take
<1> HIDE DEF s
<1>2. \A d \in Conns :
        /\ work'[d] = IF d = c THEN work[d] \ {s} ELSE work[d]
        /\ running'[d] = IF d = c THEN s ELSE running[d]
  BY DEF Take, WorkTypes, s
<1>3. s # None
  BY <1>1, Sets DEF WorkTypes
<1> QED
  BY <1>1, <1>2, <1>3 DEF Here

\* A statement that ends, well or not, is no longer before its connection.
LEMMA HereEnds ==
  ASSUME InputInv, WorkTypes, WorkInv, NEW c \in Conns, running[c] # None,
         running' = [running EXCEPT ![c] = None], work' = work
  PROVE  /\ running[c] \in Here(c)
         /\ Here(c)' = Here(c) \ {running[c]}
         /\ \A d \in Conns \ {c} : Here(d)' = Here(d)
<1>1. \A d \in Conns : running'[d] = IF d = c THEN None ELSE running[d]
  BY DEF WorkTypes
<1>2. running[c] \notin work[c] /\ None \notin work[c]
  BY Sets DEF WorkInv, WorkTypes
<1> QED
  BY <1>1, <1>2 DEF Here

\* Each failure is counted, or ends the restore.
LEMMA ErrorInvStep ==
  ASSUME InputInv, WorkTypes, TxTypes, RestTypes, WorkInv, TxInv, ErrorInv,
         [Next]_vars
  PROVE  ErrorInv'
<1>s. /\ plan' = plan /\ numConns' = numConns /\ kept' = kept
      /\ onErrorContinue' = onErrorContinue
      /\ Conns' = Conns /\ Chosen' = Chosen /\ NumTiers' = NumTiers
      /\ FirstTierZero' = FirstTierZero /\ SecondTierZero' = SecondTierZero
      /\ (Gap <=> Gap')
  BY InputSame, DerivedSame
<1> USE <1>s
<1>1. ASSUME UNCHANGED <<stage, tx, committed, failed, fatalBy, numErrors,
                          work, running>>
      PROVE  ErrorInv'
  BY <1>1 DEF ErrorInv, Here
<1>2. CASE Signal
  BY <1>1, <1>2 DEF Signal, workVars, txVars, errVars
<1>3. CASE UNCHANGED vars
  BY <1>1, <1>3 DEF vars, workVars, txVars, errVars
<1> USE DEF workVars, txVars, errVars
<1>4. CASE StartRestore
  <2>1. \A d \in Conns : tx'[d] \in {tx[d], "none", "open"}
    BY <1>4 DEF StartRestore, TxTypes
  <2>2. onErrorContinue => \A d \in Conns : tx'[d] = "none"
    BY <1>4 DEF StartRestore, ErrorInv, TxTypes
  <2>3. committed = {} /\ failed = {} /\
          UNCHANGED <<committed, failed, numErrors, fatalBy>>
    BY <1>4 DEF StartRestore, ErrorInv
  <2>4. (stage' = "first" /\ ~onErrorContinue) \/ stage' = "all"
    BY <1>4 DEF StartRestore
  <2> QED
    BY <2>1, <2>2, <2>3, <2>4 DEF ErrorInv
<1>5. CASE FatalError
  <2>1. \A d \in Conns : tx'[d] = "none"
    BY <1>5 DEF FatalError, Die
  <2> QED
    BY <1>5, <2>1 DEF FatalError, Die, ErrorInv
<1>6. CASE FirstEnds
  <2>1. \A d \in Conns : tx'[d] \in {tx[d], "none"}
    BY <1>6 DEF FirstEnds, SerialEnds, Commit, TxTypes
  <2>2. onErrorContinue => committed' = committed
    BY <1>6, Sets DEF FirstEnds, SerialEnds, ErrorInv
  <2>3. UNCHANGED <<failed, numErrors, fatalBy, work, running>> /\ fatalBy = {}
    BY <1>6 DEF FirstEnds, SerialEnds
  <2> QED
    BY <1>6, <2>1, <2>2, <2>3 DEF FirstEnds, SerialEnds, ErrorInv, Here
<1>7. CASE BeginTier
  <2>1. ~onErrorContinue /\ stage = "tier"
    BY <1>7 DEF BeginTier, ErrorInv
  <2>2. \A d \in Conns : tx'[d] \in {tx[d], "open"}
    BY <1>7, Sets DEF BeginTier
  <2>3. UNCHANGED <<failed, numErrors, fatalBy>> /\ stage' \in {"tier", "wait"}
    BY <1>7 DEF BeginTier
  <2> QED
    BY <2>1, <2>2, <2>3 DEF ErrorInv
<1>8. CASE BeginFails
  <2>1. \A d \in Conns : tx'[d] = "none"
    BY <1>8 DEF BeginFails, Die
  <2> QED
    BY <1>8, <2>1 DEF BeginFails, Die, ErrorInv
<1>9. CASE TierEnds
  BY <1>9 DEF TierEnds, ErrorInv
<1>10. CASE BeginLast
  <2>1. ~onErrorContinue
    BY <1>10 DEF BeginLast, ErrorInv
  <2>2. \A d \in Conns : tx'[d] \in {tx[d], "open"}
    BY <1>10 DEF BeginLast, TxTypes
  <2> QED
    BY <1>10, <2>1, <2>2 DEF BeginLast, ErrorInv
<1>11. CASE LastEnds
  <2>1. \A d \in Conns : tx'[d] \in {tx[d], "none"}
    BY <1>11 DEF LastEnds, SerialEnds, Commit, TxTypes
  <2>2. onErrorContinue => committed' = committed
    BY <1>11, Sets DEF LastEnds, SerialEnds, ErrorInv
  <2>3. UNCHANGED <<failed, numErrors, fatalBy, work, running>> /\ fatalBy = {}
    BY <1>11 DEF LastEnds, SerialEnds
  <2> QED
    BY <1>11, <2>1, <2>2, <2>3 DEF LastEnds, SerialEnds, ErrorInv, Here
<1>12. CASE AllEnds
  <2>1. \A d \in Conns : tx'[d] \in {tx[d], "none"}
    BY <1>12 DEF AllEnds, SerialEnds, Commit, TxTypes
  <2>2. onErrorContinue => committed' = committed
    BY <1>12, Sets DEF AllEnds, SerialEnds, ErrorInv
  <2>3. UNCHANGED <<failed, numErrors, fatalBy, work, running>> /\ fatalBy = {}
    BY <1>12 DEF AllEnds, SerialEnds
  <2> QED
    BY <1>12, <2>1, <2>2, <2>3 DEF AllEnds, SerialEnds, ErrorInv, Here
<1>13. ASSUME NEW c \in Conns, Take(c)
      PROVE  ErrorInv'
  <2>1. Here(0)' = Here(0)
    BY <1>13, HereTakes, Sets DEF Take
  <2> QED
    BY <1>13, <2>1 DEF Take, ErrorInv
<1>14. ASSUME NEW c \in Conns, Stop(c)
      PROVE  ErrorInv'
  <2>1. \A d \in Conns : tx'[d] \in {tx[d], "none"}
    BY <1>14 DEF Stop, Rollback, TxTypes
  <2>2. onErrorContinue => committed' = committed
    BY <1>14 DEF Stop, ErrorInv
  <2>3. Here(0)' \subseteq Here(0)
    BY <1>14, Sets DEF Stop, WorkTypes, Here
  <2>4. UNCHANGED <<failed, numErrors, fatalBy, stage>>
    BY <1>14 DEF Stop
  <2>5. stage = "start" => committed' = committed
    BY <1>14 DEF Stop, WorkInv
  <2> QED
    BY <2>1, <2>2, <2>3, <2>4, <2>5 DEF ErrorInv
<1>15. ASSUME NEW c \in Conns, Drain(c)
      PROVE  ErrorInv'
  <2>1. \A d \in Conns : tx'[d] \in {tx[d], "none"}
    BY <1>15 DEF Drain, Commit, TxTypes
  <2>2. onErrorContinue => committed' = committed
    BY <1>15 DEF Drain, ErrorInv
  <2>3. Here(0)' \subseteq Here(0)
    BY <1>15, Sets DEF Drain, WorkTypes, Here
  <2>4. UNCHANGED <<failed, numErrors, fatalBy, stage>>
    BY <1>15 DEF Drain
  <2>5. stage = "start" => committed' = committed
    BY <1>15 DEF Drain, WorkInv
  <2> QED
    BY <2>1, <2>2, <2>3, <2>4, <2>5 DEF ErrorInv
<1>16. ASSUME NEW c \in Conns, Succeed(c)
      PROVE  ErrorInv'
  <2>1. /\ stage \notin {"start", "done"} /\ (onErrorContinue => c = 0)
        /\ running[c] \in Chosen
    BY <1>16 DEF Succeed, WorkInv, ErrorInv, WorkTypes
  <2>2. UNCHANGED <<stage, failed, numErrors, fatalBy, tx>>
    BY <1>16 DEF Succeed
  <2>3. ASSUME onErrorContinue
        PROVE  /\ committed' = committed \cup {running[0]}
               /\ Here(0)' = Here(0) \ {running[0]} /\ running[0] \in Here(0)
    <3>1. c = 0 /\ tx[0] = "none"
      BY <2>1, <2>3, Sets DEF ErrorInv
    <3> QED
      BY <1>16, <2>1, <3>1, HereEnds, Sets DEF Succeed
  <2> QED
    BY <2>1, <2>2, <2>3 DEF ErrorInv
<1>17. ASSUME NEW c \in Conns, Fail(c)
      PROVE  ErrorInv'
  <2>1. /\ stage \notin {"start", "done"} /\ (onErrorContinue => c = 0)
        /\ running[c] \in Chosen
    BY <1>17 DEF Fail, WorkInv, ErrorInv, WorkTypes
  <2>2. UNCHANGED <<stage, committed>> /\ failed' = failed \cup {running[c]}
    BY <1>17 DEF Fail
  <2>3. \A d \in Conns : tx[d] = "none" => tx'[d] = "none"
    BY <1>17 DEF Fail, TxTypes
  <2>4. CASE ~onErrorContinue
    <3>1. fatalBy' # {} /\ numErrors' = numErrors
      BY <1>17, <2>4 DEF Fail
    <3> QED
      BY <2>1, <2>2, <2>4, <3>1 DEF ErrorInv
  <2>5. CASE onErrorContinue
    <3>1. c = 0 /\ fatalBy' = fatalBy /\ numErrors' = numErrors + 1
      BY <1>17, <2>1, <2>5 DEF Fail
    <3>2. /\ Here(0)' = Here(0) \ {running[0]} /\ running[0] \in Here(0)
      BY <1>17, <2>1, <3>1, HereEnds, Sets DEF Fail
    <3>3. running[0] \notin failed \cup committed
      BY <2>5, <3>2 DEF ErrorInv
    <3>4. Cardinality(failed') = Cardinality(failed) + 1
      <4>1. IsFiniteSet(failed)
        BY Sets, FS_Subset DEF RestTypes
      <4> QED
        BY <2>2, <3>1, <3>3, <4>1, FS_AddElement
    <3> QED
      BY <2>1, <2>2, <2>3, <2>5, <3>1, <3>2, <3>3, <3>4 DEF ErrorInv
  <2> QED
    BY <2>4, <2>5
<1>18. CASE HandlerExits
  <2>1. /\ \A d \in Conns : tx'[d] = "none"
        /\ Here(0)' = {}
    BY <1>18, Sets DEF HandlerExits, Die, Here
  <2> QED
    BY <1>18, <2>1 DEF HandlerExits, Die, ErrorInv
<1> QED
  BY <1>2, <1>3, <1>4, <1>5, <1>6, <1>7, <1>8, <1>9, <1>10, <1>11, <1>12,
     <1>13, <1>14, <1>15, <1>16, <1>17, <1>18 DEF Next, Main

\* Cohorts only go away from a connection.
LEMMA CohortsShrink ==
  ASSUME CohortInv, UNCHANGED <<stage, t>>, [Next]_vars,
         \A c \in Conns : Here(c)' \subseteq Here(c),
         \A c \in Conns : Cohorts(c)' \subseteq Cohorts(c)
  PROVE  CohortInv'
<1>1. plan' = plan /\ Conns' = Conns /\ Chosen' = Chosen
  BY InputSame, DerivedSame
<1> SUFFICES ASSUME stage = "wait"
             PROVE  /\ \A c \in Conns : Here(c)' \subseteq Tiered(t)'
                    /\ \A c \in Conns : \A d \in Conns \ {c} :
                         Cohorts(c)' \cap Cohorts(d)' = {}
  BY <1>1 DEF CohortInv
<1>2. Tiered(t)' = Tiered(t)
  BY <1>1 DEF Tiered, TierOf
<1>3. \A c \in Conns : Here(c) \subseteq Tiered(t)
  BY DEF CohortInv
<1>4. \A c \in Conns : \A d \in Conns \ {c} : Cohorts(c) \cap Cohorts(d) = {}
  BY DEF CohortInv
<1>5. ASSUME NEW c \in Conns, NEW d \in Conns \ {c}
      PROVE  Cohorts(c)' \cap Cohorts(d)' = {}
  BY <1>4, <1>5
<1> QED
  BY <1>2, <1>3, <1>5

\* In a tier every connection keeps to its own cohorts.
LEMMA CohortInvStep ==
  ASSUME InputInv, WorkTypes, TxTypes, RestTypes, WorkInv, TxInv, CohortInv,
         [Next]_vars
  PROVE  CohortInv'
<1>s. /\ plan' = plan /\ numConns' = numConns /\ kept' = kept
      /\ onErrorContinue' = onErrorContinue
      /\ Conns' = Conns /\ Chosen' = Chosen /\ NumTiers' = NumTiers
      /\ FirstTierZero' = FirstTierZero /\ SecondTierZero' = SecondTierZero
      /\ (Gap <=> Gap')
  BY InputSame, DerivedSame
<1> USE <1>s
<1>1. ASSUME UNCHANGED <<stage, t, work, running, held>>
      PROVE  CohortInv'
  <2>1. \A c \in Conns : Here(c)' = Here(c)
    BY <1>1 DEF Here
  <2>2. \A c \in Conns : Cohorts(c)' = Cohorts(c)
    BY <1>1, <2>1 DEF Cohorts
  <2> QED
    BY <1>1, <2>1, <2>2, CohortsShrink
<1>2. CASE Signal
  BY <1>1, <1>2 DEF Signal, workVars, txVars, errVars
<1>3. CASE UNCHANGED vars
  BY <1>1, <1>3 DEF vars, workVars, txVars, errVars
<1> USE DEF workVars, txVars, errVars
<1>4. CASE StartRestore
  BY <1>4 DEF StartRestore, CohortInv
<1>5. CASE FatalError
  BY <1>5 DEF FatalError, Die, CohortInv
<1>6. CASE FirstEnds
  BY <1>6 DEF FirstEnds, SerialEnds, CohortInv
<1>7. CASE BeginTier
  <2>1. CASE Tiered(t) = {}
    BY <1>7, <2>1 DEF BeginTier, CohortInv
  <2>2. CASE Tiered(t) # {}
    <3>1. work' \in Schedules(Tiered(t)) /\ Tiered(t) \in SUBSET Chosen
      BY <1>7, <2>2, Sets DEF BeginTier
    <3>2. /\ \A d \in Conns : work'[d] \subseteq Tiered(t)
          /\ \A d \in Conns : \A e \in Conns \ {d} : \A s \in work'[d],
               r \in work'[e] :
               plan.cohort[plan.object[s]] # plan.cohort[plan.object[r]]
      BY <3>1, ScheduleFacts
    <3>3. /\ \A d \in Conns : running'[d] = None /\ held'[d] = {}
          /\ UNCHANGED t
      BY <1>7, <2>2 DEF BeginTier, WorkInv, TxInv, TxTypes
    <3>4. None \notin Tiered(t)
      BY <3>1, Sets
    <3>5. \A d \in Conns :
            /\ Here(d)' = work'[d]
            /\ Cohorts(d)' = {plan.cohort[plan.object[s]] : s \in work'[d]}
      BY <3>2, <3>3, <3>4 DEF Here, Cohorts
    <3>6. Tiered(t)' = Tiered(t)
      BY <3>3 DEF Tiered, TierOf
    <3> HIDE DEF Tiered, Here, Cohorts
    <3> QED
      BY <3>2, <3>5, <3>6 DEF CohortInv
  <2> QED
    BY <2>1, <2>2
<1>8. CASE BeginFails
  BY <1>8 DEF BeginFails, Die, CohortInv
<1>9. CASE TierEnds
  BY <1>9 DEF TierEnds, CohortInv
<1>10. CASE BeginLast
  BY <1>10 DEF BeginLast, CohortInv
<1>11. CASE LastEnds
  BY <1>11 DEF LastEnds, SerialEnds, CohortInv
<1>12. CASE AllEnds
  BY <1>12 DEF AllEnds, SerialEnds, CohortInv
<1>13. ASSUME NEW c \in Conns, Take(c)
      PROVE  CohortInv'
  <2>1. \A d \in Conns : Here(d)' = Here(d)
    BY <1>13, HereTakes
  <2>2. \A d \in Conns : Cohorts(d)' = Cohorts(d)
    BY <1>13, <2>1 DEF Take, Cohorts
  <2> QED
    BY <1>13, <2>1, <2>2, CohortsShrink DEF Take
<1>14. ASSUME NEW c \in Conns, Stop(c)
      PROVE  CohortInv'
  <2>1. \A d \in Conns : Here(d)' \subseteq Here(d)
    BY <1>14 DEF Stop, WorkTypes, Here
  <2>2. \A d \in Conns : held'[d] \subseteq held[d]
    BY <1>14 DEF Stop, Rollback, TxTypes
  <2>3. \A d \in Conns : Cohorts(d)' \subseteq Cohorts(d)
    BY <2>1, <2>2 DEF Cohorts
  <2> QED
    BY <1>14, <2>1, <2>3, CohortsShrink DEF Stop
<1>15. ASSUME NEW c \in Conns, Drain(c)
      PROVE  CohortInv'
  <2>1. \A d \in Conns : Here(d)' \subseteq Here(d)
    BY <1>15 DEF Drain, WorkTypes, Here
  <2>2. \A d \in Conns : held'[d] \subseteq held[d]
    BY <1>15 DEF Drain, Commit, TxTypes
  <2>3. \A d \in Conns : Cohorts(d)' \subseteq Cohorts(d)
    BY <2>1, <2>2 DEF Cohorts
  <2> QED
    BY <1>15, <2>1, <2>3, CohortsShrink DEF Drain
<1>16. ASSUME NEW c \in Conns, Succeed(c)
      PROVE  CohortInv'
  <2> DEFINE s == running[c]
  <2>1. UNCHANGED <<stage, t>>
    BY <1>16 DEF Succeed
  <2>2. CASE stage # "wait"
    BY <2>1, <2>2 DEF CohortInv
  <2>3. CASE stage = "wait"
    <3>1. \A d \in Conns : Here(d)' \subseteq Here(d)
      BY <1>16, HereEnds DEF Succeed
    <3>2. s \in Here(c) /\ s \in Statements /\ TierOf(s) > 0
      <4>1. s \in Chosen /\ s \in Here(c)
        BY <1>16 DEF Succeed, Here, WorkTypes, None
      <4>2. TierOf(s) = t
        BY <2>3, <4>1 DEF CohortInv, Tiered
      <4> QED
        BY <4>1, <4>2, Sets, TiersFinite DEF RestTypes
    <3>3. \A d \in Conns : held'[d] \subseteq
            IF d = c THEN held[d] \cup Locks(s) ELSE held[d]
      BY <1>16 DEF Succeed, TxTypes
    <3>4. \A o \in Locks(s) : plan.cohort[o] \in Cohorts(c)
      BY <3>2, LocksFacts DEF Cohorts
    <3> HIDE DEF s
    <3>5. \A d \in Conns : Cohorts(d)' \subseteq Cohorts(d)
      BY <3>1, <3>3, <3>4 DEF Cohorts
    <3> QED
      BY <2>1, <3>1, <3>5, CohortsShrink
  <2> QED
    BY <2>2, <2>3
<1>17. ASSUME NEW c \in Conns, Fail(c)
      PROVE  CohortInv'
  <2>1. \A d \in Conns : Here(d)' \subseteq Here(d)
    BY <1>17, HereEnds DEF Fail
  <2>2. \A d \in Conns : Cohorts(d)' \subseteq Cohorts(d)
    BY <1>17, <2>1 DEF Fail, Cohorts
  <2> QED
    BY <1>17, <2>1, <2>2, CohortsShrink DEF Fail
<1>18. CASE HandlerExits
  BY <1>18 DEF HandlerExits, Die, CohortInv
<1> QED
  BY <1>2, <1>3, <1>4, <1>5, <1>6, <1>7, <1>8, <1>9, <1>10, <1>11, <1>12,
     <1>13, <1>14, <1>15, <1>16, <1>17, <1>18 DEF Next, Main

\* What was healthy after a step was so before.
LEMMA HealthyBefore ==
  ASSUME InputInv, [Next]_vars
  PROVE  Healthy' => Healthy
<1>0. Gap <=> Gap'
  BY InputSame, DerivedSame
<1>1. fatalBy' = {} => fatalBy = {}
  <2> USE DEF errVars
  <2>1. CASE Main
    BY <2>1 DEF Main, StartRestore, FatalError, Die, FirstEnds, SerialEnds,
       BeginTier, BeginFails, TierEnds, BeginLast, LastEnds, AllEnds
  <2>2. CASE \E c \in Conns : Take(c) \/ Stop(c) \/ Drain(c)
    BY <2>2 DEF Take, Stop, Drain
  <2>3. CASE \E c \in Conns : Succeed(c) \/ Fail(c)
    BY <2>3 DEF Succeed, Fail
  <2>4. CASE Signal \/ HandlerExits
    BY <2>4 DEF Signal, HandlerExits, Die
  <2>5. CASE UNCHANGED vars
    BY <2>5 DEF vars
  <2> QED
    BY <2>1, <2>2, <2>3, <2>4, <2>5 DEF Next
<1>2. wasTerminated => wasTerminated'
  <2>1. CASE Main
    BY <2>1 DEF Main, StartRestore, FatalError, Die, FirstEnds, SerialEnds,
       BeginTier, BeginFails, TierEnds, BeginLast, LastEnds, AllEnds
  <2>2. CASE \E c \in Conns : Take(c) \/ Stop(c) \/ Drain(c)
    BY <2>2 DEF Take, Stop, Drain
  <2>3. CASE \E c \in Conns : Succeed(c) \/ Fail(c)
    BY <2>3 DEF Succeed, Fail
  <2>4. CASE Signal \/ HandlerExits
    BY <2>4 DEF Signal, HandlerExits, Die
  <2>5. CASE UNCHANGED vars
    BY <2>5 DEF vars
  <2> QED
    BY <2>1, <2>2, <2>3, <2>4, <2>5 DEF Next
<1> QED
  BY <1>0, <1>1, <1>2 DEF Healthy

\* Healthy restores that stop at an error have not met any, so all their
\* transactions are good.
LEMMA HealthyTx ==
  ASSUME InputInv, ErrorInv, Healthy
  PROVE  /\ ~onErrorContinue => failed = {}
         /\ \A c \in Conns : tx[c] # "broken"
BY DEF Healthy, ErrorInv

\* The batch goes on while its statements stay where they are or are settled.
LEMMA ProgressStays ==
  ASSUME InputInv, ProgressInv, [Next]_vars, UNCHANGED <<stage, t>>,
         committed \subseteq committed', failed \subseteq failed',
         Healthy' => \A c \in Conns :
           Settled(c) \cup Here(c) \subseteq Settled(c)' \cup Here(c)'
  PROVE  ProgressInv'
<1>1. /\ plan' = plan /\ Conns' = Conns /\ Chosen' = Chosen
      /\ FirstTierZero' = FirstTierZero /\ SecondTierZero' = SecondTierZero
  BY InputSame, DerivedSame
<1> SUFFICES ASSUME Healthy'
             PROVE  ProgressInv'
  BY DEF ProgressInv
<1>2. Healthy
  BY HealthyBefore
<1>3. \A c \in Conns :
        Settled(c) \cup Here(c) \subseteq Settled(c)' \cup Here(c)'
  OBVIOUS
<1>4. Settled(0) \cup Here(0) \subseteq Settled(0)' \cup Here(0)'
  BY <1>3, Sets
<1>5. /\ stage = "first" => FirstTierZero \subseteq Settled(0)' \cup Here(0)'
      /\ stage = "all" => Chosen \subseteq Settled(0)' \cup Here(0)'
      /\ stage = "last" => SecondTierZero \subseteq Settled(0)' \cup Here(0)'
  BY <1>2, <1>4 DEF ProgressInv
<1>6. stage \in {"tier", "wait", "last"} =>
         /\ FirstTierZero \subseteq committed'
         /\ \A s \in Chosen : TierOf(s) \in 1..(t - 1) => s \in committed'
  BY <1>2 DEF ProgressInv
<1>7. stage = "wait" =>
         \A s \in Tiered(t) : \E c \in Conns : s \in Settled(c)' \cup Here(c)'
  BY <1>2, <1>3 DEF ProgressInv
<1>8. stage = "done" => Chosen \subseteq committed' \cup failed'
  BY <1>2 DEF ProgressInv
<1>9. /\ \A s \in Chosen : TierOf(s)' = TierOf(s)
      /\ Tiered(t)' = Tiered(t)
  BY <1>1 DEF TierOf, Tiered
<1> HIDE DEF Settled, Here
<1> QED
  BY <1>1, <1>5, <1>6, <1>7, <1>8, <1>9 DEF ProgressInv

\* A worker of a serial stage that is done has its statements settled.
LEMMA SerialSettled ==
  ASSUME InputInv, WorkTypes, TxTypes, WorkInv, ErrorInv, Healthy,
         NEW batch, batch \subseteq Settled(0) \cup Here(0),
         NEW from, NEW to, SerialEnds(from, to)
  PROVE  batch \subseteq committed' \cup failed
<1>1. Here(0) = {}
  BY Sets DEF SerialEnds, AllDone, WorkInv, Here
<1>2. committed \cup made[0] \subseteq committed'
  <2>1. CASE tx[0] = "none"
    BY <2>1, Sets DEF SerialEnds, txVars, TxTypes
  <2>2. CASE tx[0] = "open"
    BY <2>2 DEF SerialEnds, Commit
  <2>3. tx[0] # "broken"
    BY HealthyTx, Sets
  <2> QED
    BY <2>1, <2>2, <2>3, Sets DEF TxTypes
<1> QED
  BY <1>1, <1>2 DEF Settled

\* No statement of a batch is forgotten.
LEMMA ProgressInvStep ==
  ASSUME InputInv, WorkTypes, TxTypes, RestTypes, WorkInv, TxInv, ErrorInv,
         ProgressInv, [Next]_vars
  PROVE  ProgressInv'
<1>s. /\ plan' = plan /\ numConns' = numConns /\ kept' = kept
      /\ onErrorContinue' = onErrorContinue
      /\ Conns' = Conns /\ Chosen' = Chosen /\ NumTiers' = NumTiers
      /\ FirstTierZero' = FirstTierZero /\ SecondTierZero' = SecondTierZero
      /\ (Gap <=> Gap')
  BY InputSame, DerivedSame
<1> USE <1>s
<1>1. ASSUME UNCHANGED <<stage, t, work, running, made, committed, failed,
                          fatalBy, wasTerminated>>
      PROVE  ProgressInv'
  <2>1. \A c \in Conns : Here(c)' = Here(c) /\ Settled(c)' = Settled(c)
    BY <1>1 DEF Here, Settled
  <2> QED
    BY <1>1, <2>1, ProgressStays
<1>2. CASE UNCHANGED vars
  BY <1>1, <1>2 DEF vars, workVars, txVars, errVars
<1> USE DEF workVars, txVars, errVars
<1>3. CASE StartRestore
  <2>1. PICK batch \in SUBSET Chosen :
          /\ LaunchSerial(batch)
          /\ \/ stage' = "first" /\ batch = FirstTierZero
             \/ stage' = "all" /\ batch = Chosen
    BY <1>3, Sets DEF StartRestore
  <2>2. work'[0] = batch /\ None \notin batch
    BY <2>1, Sets DEF LaunchSerial, WorkTypes
  <2>3. batch \subseteq Here(0)'
    BY <2>2 DEF Here
  <2> QED
    BY <2>1, <2>3 DEF ProgressInv
<1>4. CASE FatalError
  BY <1>4 DEF FatalError, Die, Healthy, ProgressInv
<1>5. CASE FirstEnds
  <2> SUFFICES ASSUME Healthy'
               PROVE  ProgressInv'
    BY DEF ProgressInv
  <2>1. Healthy /\ stage = "first" /\ SerialEnds("first", "tier")
    BY <1>5, HealthyBefore DEF FirstEnds, SerialEnds
  <2>2. failed = {}
    BY <2>1, HealthyTx DEF ErrorInv
  <2>3. FirstTierZero \subseteq committed'
    BY <2>1, <2>2, SerialSettled DEF ProgressInv
  <2>4. t' = 1 /\ stage' = "tier"
    BY <2>1 DEF SerialEnds, WorkInv
  <2> QED
    BY <2>3, <2>4 DEF ProgressInv
<1>6. CASE BeginTier
  <2> SUFFICES ASSUME Healthy'
               PROVE  ProgressInv'
    BY DEF ProgressInv
  <2>1. Healthy /\ stage = "tier" /\ UNCHANGED committed
    BY <1>6, HealthyBefore DEF BeginTier
  <2>2. Tiered(t) # {}
    <3>1. t \in Tiers
      BY <1>6, <2>1, TiersFinite, TiersCounted DEF BeginTier, RestTypes, Healthy
    <3> QED
      BY <3>1 DEF Tiers, Tiered
  <2>3. /\ work' \in Schedules(Tiered(t)) /\ Tiered(t) \in SUBSET Chosen
        /\ stage' = "wait" /\ UNCHANGED t
    BY <1>6, <2>2, Sets DEF BeginTier
  <2>4. \A s \in Tiered(t) : \E c \in Conns : s \in work'[c] /\ s # None
    BY <2>3, ScheduleFacts, Sets
  <2>5. \A s \in Tiered(t) : \E c \in Conns : s \in Here(c)'
    BY <2>4 DEF Here
  <2>6. /\ \A s \in Chosen : TierOf(s)' = TierOf(s)
        /\ Tiered(t)' = Tiered(t)
    BY <2>3 DEF TierOf, Tiered
  <2>7. /\ FirstTierZero \subseteq committed
        /\ \A s \in Chosen : TierOf(s) \in 1..(t - 1) => s \in committed
    BY <2>1 DEF ProgressInv
  <2> HIDE DEF Here, Settled, Tiered, TierOf
  <2> QED
    BY <2>1, <2>3, <2>5, <2>6, <2>7 DEF ProgressInv
<1>7. CASE BeginFails
  BY <1>7 DEF BeginFails, Die, Healthy, ProgressInv, TxInv
<1>8. CASE TierEnds
  <2> SUFFICES ASSUME Healthy'
               PROVE  ProgressInv'
    BY DEF ProgressInv
  <2>1. /\ Healthy /\ stage = "wait" /\ stage' = "tier" /\ t' = t + 1
        /\ UNCHANGED committed
    BY <1>8, HealthyBefore DEF TierEnds
  <2>2. failed = {}
    BY <2>1, HealthyTx DEF ErrorInv
  <2>3. \A c \in Conns : Here(c) = {} /\ made[c] = {}
    BY <1>8, <2>1 DEF TierEnds, AllDone, WorkInv, TxInv, TxTypes, Here
  <2>4. Tiered(t) \subseteq committed
    BY <2>1, <2>2, <2>3 DEF ProgressInv, Settled
  <2>5. /\ FirstTierZero \subseteq committed
        /\ \A s \in Chosen : TierOf(s) \in 1..(t - 1) => s \in committed
    BY <2>1 DEF ProgressInv
  <2>6. ASSUME NEW s \in Chosen, TierOf(s) \in 1..(t' - 1)
        PROVE  s \in committed
    <3>1. t \in Nat
      BY TiersFinite DEF RestTypes
    <3>2. TierOf(s) = t \/ TierOf(s) \in 1..(t - 1)
      BY <2>1, <2>6, <3>1
    <3> QED
      BY <2>4, <2>5, <3>2 DEF Tiered
  <2>7. \A s \in Chosen : TierOf(s)' = TierOf(s)
    BY DEF TierOf
  <2> HIDE DEF TierOf
  <2> QED
    BY <2>1, <2>5, <2>6, <2>7 DEF ProgressInv
<1>9. CASE BeginLast
  <2>1. work'[0] = SecondTierZero /\ None \notin SecondTierZero
    BY <1>9, Sets DEF BeginLast, LaunchSerial, WorkTypes
  <2>2. SecondTierZero \subseteq Here(0)'
    BY <2>1 DEF Here
  <2>3. stage = "tier" /\ stage' = "last" /\ UNCHANGED <<t, committed>>
    BY <1>9 DEF BeginLast
  <2>4. \A s \in Chosen : TierOf(s)' = TierOf(s)
    BY DEF TierOf
  <2> QED
    BY <2>2, <2>3, <2>4, HealthyBefore DEF ProgressInv
<1>10. CASE LastEnds
  <2> SUFFICES ASSUME Healthy'
               PROVE  ProgressInv'
    BY DEF ProgressInv
  <2>1. Healthy /\ stage = "last" /\ SerialEnds("last", "done") /\
          UNCHANGED failed
    BY <1>10, HealthyBefore DEF LastEnds, SerialEnds
  <2>2. SecondTierZero \subseteq committed' \cup failed'
    BY <2>1, SerialSettled DEF ProgressInv
  <2>3. committed \subseteq committed'
    BY <2>1 DEF SerialEnds, Commit
  <2>4. ASSUME NEW s \in Chosen, TierOf(s) # 0
        PROVE  s \in committed
    <3>1. TierOf(s) \in 1..NumTiers
      BY <2>1, <2>4, TiersCounted DEF Healthy, Tiers
    <3>2. TierOf(s) \in 1..(t - 1)
      BY <2>1, <3>1, TiersFinite DEF WorkInv, RestTypes
    <3> QED
      BY <2>1, <3>2 DEF ProgressInv
  <2>5. \A s \in Chosen : TierOf(s) = 0 =>
          s \in FirstTierZero \cup SecondTierZero
    BY DEF SecondTierZero
  <2>6. FirstTierZero \subseteq committed
    BY <2>1 DEF ProgressInv
  <2>7. Chosen \subseteq committed' \cup failed'
    BY <2>2, <2>3, <2>4, <2>5, <2>6
  <2>8. stage' = "done"
    BY <2>1 DEF SerialEnds
  <2> QED
    BY <2>7, <2>8 DEF ProgressInv
<1>11. CASE AllEnds
  <2> SUFFICES ASSUME Healthy'
               PROVE  ProgressInv'
    BY DEF ProgressInv
  <2>1. Healthy /\ stage = "all" /\ SerialEnds("all", "done") /\
          UNCHANGED failed
    BY <1>11, HealthyBefore DEF AllEnds, SerialEnds
  <2>2. Chosen \subseteq committed' \cup failed'
    BY <2>1, SerialSettled DEF ProgressInv
  <2>3. stage' = "done"
    BY <2>1 DEF SerialEnds
  <2> QED
    BY <2>2, <2>3 DEF ProgressInv
<1>12. ASSUME NEW c \in Conns, Take(c)
      PROVE  ProgressInv'
  <2>1. \A d \in Conns : Here(d)' = Here(d)
    BY <1>12, HereTakes
  <2>2. \A d \in Conns : Settled(d)' = Settled(d)
    BY <1>12 DEF Take, Settled
  <2>3. UNCHANGED <<stage, t, committed, failed>>
    BY <1>12 DEF Take
  <2> HIDE DEF Here, Settled
  <2> QED
    BY <2>1, <2>2, <2>3, ProgressStays
<1>13. ASSUME NEW c \in Conns, Stop(c)
      PROVE  ProgressInv'
  BY <1>13 DEF Stop, Healthy, ProgressInv
<1>14. ASSUME NEW c \in Conns, Drain(c)
      PROVE  ProgressInv'
  <2>1. /\ UNCHANGED <<stage, t, failed>>
        /\ \A d \in Conns : Here(d)' = Here(d)
    BY <1>14 DEF Drain, Here
  <2>2. committed \subseteq committed'
    BY <1>14 DEF Drain, Commit
  <2>3. ASSUME Healthy', NEW d \in Conns
        PROVE  Settled(d) \subseteq Settled(d)'
    <3>1. CASE UNCHANGED txVars
      BY <2>1, <3>1 DEF Settled
    <3>2. CASE Commit(c) /\ tx[c] # "none"
      <4>1. tx[c] = "open"
        BY <2>3, <3>2, HealthyBefore, HealthyTx DEF TxTypes
      <4>2. committed' = committed \cup made[c]
        BY <3>2, <4>1 DEF Commit
      <4>3. d # c => made'[d] = made[d]
        BY <3>2 DEF Commit, TxTypes
      <4> QED
        BY <2>1, <4>2, <4>3 DEF Settled
    <3> QED
      BY <1>14, <3>1, <3>2 DEF Drain
  <2> HIDE DEF Here, Settled
  <2> QED
    BY <2>1, <2>2, <2>3, ProgressStays
<1>15. ASSUME NEW c \in Conns, Succeed(c)
      PROVE  ProgressInv'
  <2> DEFINE s == running[c]
  <2>1. /\ UNCHANGED <<stage, t, failed>> /\ committed \subseteq committed'
        /\ s \in Here(c)
        /\ \A d \in Conns : Here(d)' = IF d = c THEN Here(d) \ {s} ELSE Here(d)
    BY <1>15, HereEnds DEF Succeed
  <2>2. \A d \in Conns : Settled(d) \subseteq Settled(d)'
    BY <1>15 DEF Succeed, Settled, TxTypes
  <2>3. s \in Settled(c)'
    BY <1>15 DEF Succeed, Settled, TxTypes
  <2> HIDE DEF Here, Settled, s
  <2>4. \A d \in Conns :
          Settled(d) \cup Here(d) \subseteq Settled(d)' \cup Here(d)'
    BY <2>1, <2>2, <2>3
  <2> QED
    BY <2>1, <2>4, ProgressStays
<1>16. ASSUME NEW c \in Conns, Fail(c)
      PROVE  ProgressInv'
  <2> DEFINE s == running[c]
  <2>1. /\ UNCHANGED <<stage, t, committed, made>> /\ failed' = failed \cup {s}
        /\ \A d \in Conns : Here(d)' = IF d = c THEN Here(d) \ {s} ELSE Here(d)
    BY <1>16, HereEnds DEF Fail
  <2>2. \A d \in Conns : Settled(d)' = Settled(d) \cup {s}
    BY <2>1 DEF Settled
  <2> HIDE DEF Here, Settled, s
  <2>3. \A d \in Conns :
          Settled(d) \cup Here(d) \subseteq Settled(d)' \cup Here(d)'
    BY <2>1, <2>2
  <2> QED
    BY <2>1, <2>3, ProgressStays
<1>17. CASE Signal
  BY <1>17 DEF Signal, Healthy, ProgressInv
<1>18. CASE HandlerExits
  BY <1>18 DEF HandlerExits, Die, Healthy, ProgressInv
<1> QED
  BY <1>2, <1>3, <1>4, <1>5, <1>6, <1>7, <1>8, <1>9, <1>10, <1>11, <1>12,
     <1>13, <1>14, <1>15, <1>16, <1>17, <1>18 DEF Next, Main

\* A statement that a worker takes finds all it refers to.
LEMMA TakeReady ==
  ASSUME InputInv, WorkTypes, TxTypes, RestTypes, WorkInv, TxInv, ErrorInv,
         CohortInv, ProgressInv, NEW c \in Conns, Take(c), ~Gap, failed = {}
  PROVE  Requires(NextOf(c)) \subseteq Visible(c)
<1> DEFINE s == NextOf(c)
<1>1. /\ s \in work[c] /\ \A r \in work[c] : s <= r
      /\ running[c] = None /\ worker[c] = "run" /\ ~wasTerminated
  BY NextOfFacts DEF Take
<1> HIDE DEF s
<1>2. Healthy
  BY <1>1 DEF Healthy, ErrorInv
<1>3. s \in Chosen /\ s \in Here(c) /\ s \in Statements /\ s \in Nat
  BY <1>1, Sets DEF Here, WorkTypes
<1> SUFFICES ASSUME NEW r \in Requires(s), r \in Chosen
             PROVE  r \in committed \cup made[c]
  BY DEF Visible, Requires, s
<1>4. r \in Statements /\ r \in Nat
  BY Sets
<1>5. /\ \A q \in Statements, p \in Statements :
           plan.object[q] \in plan.deps[plan.object[p]] => q < p
      /\ \A p, q \in Statements :
           /\ plan.object[r] \in plan.deps[plan.object[p]] \ Numbered(plan)
           /\ {plan.object[p], plan.object[q]} \subseteq Numbered(plan)
           => r < q
      /\ TiersFollow(Numbered(plan), NumberedDeps(plan), plan.tier)
  BY <1>4, PlansAssumption DEF InputInv
<1>6. r < s
  BY <1>3, <1>4, <1>5 DEF Requires
<1>7. r \notin Here(c)
  BY <1>1, <1>3, <1>4, <1>6, Sets DEF Here
<1>8. \A p \in Statements : TierOf(p) > 0 <=> plan.object[p] \in Numbered(plan)
  BY Sets DEF TierOf, Numbered
<1>9. stage \in {"first", "wait", "last", "all"} /\ (stage # "wait" => c = 0)
  BY <1>1 DEF WorkInv
<1>10. CASE stage = "all"
  BY <1>2, <1>7, <1>9, <1>10 DEF ProgressInv, Settled
<1>11. CASE stage = "first"
  <2>1. s \in FirstTierZero
    BY <1>1, <1>9, <1>11 DEF WorkInv
  <2>2. ASSUME NEW q \in Chosen, TierOf(q) > 0
        PROVE  r < q
    <3>1. s < q /\ q \in Nat
      BY <2>1, <2>2, Sets DEF FirstTierZero
    <3> QED
      BY <1>3, <1>4, <1>6, <3>1
  <2>3. TierOf(r) \in Nat /\ ~(TierOf(r) > 0)
    BY <1>4, <2>2, Sets
  <2>4. r \in FirstTierZero
    BY <2>2, <2>3 DEF FirstTierZero
  <2> QED
    BY <1>2, <1>7, <1>9, <1>11, <2>4 DEF ProgressInv, Settled
<1>12. CASE stage = "last"
  <2>1. CASE TierOf(r) = 0
    <3>1. r \in FirstTierZero \cup SecondTierZero
      BY <2>1 DEF SecondTierZero
    <3> QED
      BY <1>2, <1>7, <1>9, <1>12, <3>1 DEF ProgressInv, Settled
  <2>2. CASE TierOf(r) # 0
    <3>1. TierOf(r) \in 1..NumTiers
      BY <2>2, TiersCounted DEF Tiers
    <3>2. TierOf(r) \in 1..(t - 1)
      BY <1>12, <3>1, TiersFinite DEF WorkInv, RestTypes
    <3> QED
      BY <1>2, <1>12, <3>2 DEF ProgressInv
  <2> QED
    BY <2>1, <2>2
<1>13. CASE stage = "wait"
  <2>1. TierOf(s) = t /\ t \in Nat /\ t > 0
    BY <1>3, <1>13, TiersFinite DEF CohortInv, Tiered, RestTypes
  <2>2. plan.object[s] \in Numbered(plan)
    BY <1>3, <1>8, <2>1
  <2>3. CASE plan.object[r] \in plan.deps[plan.object[s]] /\
          plan.object[r] \in Numbered(plan)
    <3>1. plan.object[r] \in NumberedDeps(plan)[plan.object[s]]
      BY <1>3, <2>3, Sets DEF NumberedDeps
    <3>2. TierOf(r) < TierOf(s)
      BY <1>5, <2>2, <3>1 DEF TiersFollow, TierOf
    <3>3. TierOf(r) \in 1..(t - 1)
      BY <1>4, <1>8, <2>1, <2>3, <3>2, Sets
    <3> QED
      BY <1>2, <1>13, <3>3 DEF ProgressInv
  <2>4. CASE plan.object[r] \in plan.deps[plan.object[s]] /\
          plan.object[r] \notin Numbered(plan)
    <3>1. \A q \in Chosen : TierOf(q) > 0 => r < q
      BY <1>3, <1>5, <1>8, <2>2, <2>4, Sets
    <3>2. TierOf(r) = 0
      BY <1>4, <1>8, <2>4, Sets
    <3>3. r \in FirstTierZero
      BY <3>1, <3>2 DEF FirstTierZero
    <3> QED
      BY <1>2, <1>13, <3>3 DEF ProgressInv
  <2>5. CASE plan.object[r] = plan.object[s]
    <3>1. r \in Tiered(t)
      BY <2>1, <2>5 DEF Tiered, TierOf
    <3>2. PICK d \in Conns : r \in Settled(d) \cup Here(d)
      BY <1>2, <1>13, <3>1 DEF ProgressInv
    <3>3. plan.cohort[plan.object[s]] \in Cohorts(c)
      BY <1>3 DEF Cohorts
    <3>4. r \in Here(d) \cup made[d] =>
            plan.cohort[plan.object[r]] \in Cohorts(d)
      BY DEF Cohorts, TxInv
    <3>5. r \in Here(d) \cup made[d] => d = c
      BY <1>13, <2>5, <3>3, <3>4 DEF CohortInv
    <3> QED
      BY <1>7, <3>2, <3>5 DEF Settled
  <2> QED
    BY <2>3, <2>4, <2>5 DEF Requires
<1> QED
  BY <1>9, <1>10, <1>11, <1>12, <1>13

\* What a connection sees stays visible while its statement runs.
LEMMA PrerequisitesStay ==
  ASSUME InputInv, PrerequisitesThere, [Next]_vars, failed \subseteq failed',
         \A c \in Conns : running'[c] \in {running[c], None},
         \A c \in Conns : running'[c] # None =>
           committed \cup made[c] \subseteq committed' \cup made'[c]
  PROVE  PrerequisitesThere'
<1>1. /\ plan' = plan /\ Conns' = Conns /\ Chosen' = Chosen /\ (Gap <=> Gap')
  BY InputSame, DerivedSame
<1> SUFFICES ASSUME ~Gap, failed' = {}, NEW c \in Conns, running'[c] # None
             PROVE  Requires(running[c])' \subseteq Visible(c)'
  BY <1>1 DEF PrerequisitesThere
<1>2. running'[c] = running[c] /\ failed = {}
  OBVIOUS
<1>3. Requires(running[c]) \subseteq Visible(c)
  BY <1>2 DEF PrerequisitesThere
<1>4. Requires(running[c])' = Requires(running[c])
  BY <1>1, <1>2 DEF Requires
<1>5. Visible(c) \subseteq Visible(c)'
  BY <1>1 DEF Visible
<1> QED
  BY <1>3, <1>4, <1>5

\* A statement is taken when all it refers to is there.
LEMMA PrerequisitesThereStep ==
  ASSUME InputInv, WorkTypes, TxTypes, RestTypes, WorkInv, TxInv, ErrorInv,
         CohortInv, ProgressInv, PrerequisitesThere, [Next]_vars
  PROVE  PrerequisitesThere'
<1>s. /\ plan' = plan /\ numConns' = numConns /\ kept' = kept
      /\ onErrorContinue' = onErrorContinue
      /\ Conns' = Conns /\ Chosen' = Chosen /\ NumTiers' = NumTiers
      /\ FirstTierZero' = FirstTierZero /\ SecondTierZero' = SecondTierZero
      /\ (Gap <=> Gap')
  BY InputSame, DerivedSame
<1> USE <1>s
<1>1. ASSUME UNCHANGED <<running, committed, made, failed>>
      PROVE  PrerequisitesThere'
  BY <1>1, PrerequisitesStay
<1>2. CASE TierEnds \/ Signal
  BY <1>1, <1>2 DEF TierEnds, Signal, workVars, txVars, errVars
<1>3. CASE UNCHANGED vars
  BY <1>1, <1>3 DEF vars, workVars, txVars, errVars
<1> USE DEF workVars, txVars, errVars
<1>4. CASE StartRestore
  <2>1. \A c \in Conns : running'[c] = None
    BY <1>4 DEF StartRestore, LaunchSerial, WorkInv
  <2> QED
    BY <1>4, <2>1, PrerequisitesStay DEF StartRestore
<1>5. CASE FatalError
  <2>1. \A c \in Conns : running'[c] = None
    BY <1>5 DEF FatalError, Die
  <2> QED
    BY <1>5, <2>1, PrerequisitesStay DEF FatalError, Die
<1>6. CASE FirstEnds
  <2>1. \A c \in Conns : running'[c] = None
    BY <1>6 DEF FirstEnds, SerialEnds, AllDone, WorkInv
  <2> QED
    BY <1>6, <2>1, PrerequisitesStay DEF FirstEnds, SerialEnds
<1>7. CASE BeginTier
  BY <1>7, PrerequisitesStay DEF BeginTier
<1>8. CASE BeginFails
  <2>1. \A c \in Conns : running'[c] = None
    BY <1>8 DEF BeginFails, Die
  <2> QED
    BY <1>8, <2>1, PrerequisitesStay DEF BeginFails, Die
<1>9. CASE BeginLast
  <2>1. \A c \in Conns : running'[c] = None
    BY <1>9 DEF BeginLast, LaunchSerial, WorkInv
  <2> QED
    BY <1>9, <2>1, PrerequisitesStay DEF BeginLast
<1>10. CASE LastEnds
  <2>1. \A c \in Conns : running'[c] = None
    BY <1>10 DEF LastEnds, SerialEnds, AllDone, WorkInv
  <2> QED
    BY <1>10, <2>1, PrerequisitesStay DEF LastEnds, SerialEnds
<1>11. CASE AllEnds
  <2>1. \A c \in Conns : running'[c] = None
    BY <1>11 DEF AllEnds, SerialEnds, AllDone, WorkInv
  <2> QED
    BY <1>11, <2>1, PrerequisitesStay DEF AllEnds, SerialEnds
<1>12. ASSUME NEW c \in Conns, Take(c)
      PROVE  PrerequisitesThere'
  <2>1. /\ UNCHANGED <<committed, made, failed>>
        /\ \A d \in Conns : running'[d] =
             IF d = c THEN NextOf(c) ELSE running[d]
    BY <1>12 DEF Take, WorkTypes
  <2> SUFFICES ASSUME ~Gap, failed = {}, NEW d \in Conns, running'[d] # None
               PROVE  Requires(running[d])' \subseteq Visible(d)'
    BY <2>1 DEF PrerequisitesThere
  <2>2. Requires(running'[d]) \subseteq Visible(d)
    <3>1. CASE d = c
      BY <1>12, <2>1, <3>1, TakeReady
    <3>2. CASE d # c
      BY <2>1, <3>2 DEF PrerequisitesThere
    <3> QED
      BY <3>1, <3>2
  <2>3. Visible(d)' = Visible(d)
    BY <2>1 DEF Visible
  <2>4. Requires(running[d])' = Requires(running'[d])
    BY DEF Requires
  <2> QED
    BY <2>2, <2>3, <2>4
<1>13. ASSUME NEW c \in Conns, Stop(c)
      PROVE  PrerequisitesThere'
  <2>1. running[c] = None /\ UNCHANGED <<running, failed>>
    BY <1>13 DEF Stop
  <2>2. \A d \in Conns \ {c} : made'[d] = made[d]
    BY <1>13 DEF Stop, Rollback, TxTypes
  <2>3. committed \subseteq committed'
    BY <1>13 DEF Stop, Rollback
  <2> QED
    BY <2>1, <2>2, <2>3, PrerequisitesStay
<1>14. ASSUME NEW c \in Conns, Drain(c)
      PROVE  PrerequisitesThere'
  <2>1. running[c] = None /\ UNCHANGED <<running, failed>>
    BY <1>14 DEF Drain
  <2>2. \A d \in Conns \ {c} : made'[d] = made[d]
    BY <1>14 DEF Drain, Commit, TxTypes
  <2>3. committed \subseteq committed'
    BY <1>14 DEF Drain, Commit
  <2> QED
    BY <2>1, <2>2, <2>3, PrerequisitesStay
<1>15. ASSUME NEW c \in Conns, Succeed(c)
      PROVE  PrerequisitesThere'
  <2>1. \A d \in Conns : running'[d] = IF d = c THEN None ELSE running[d]
    BY <1>15 DEF Succeed, WorkTypes
  <2>2. /\ UNCHANGED failed /\ committed \subseteq committed'
        /\ \A d \in Conns \ {c} : made'[d] = made[d]
    BY <1>15 DEF Succeed, TxTypes
  <2> QED
    BY <2>1, <2>2, PrerequisitesStay
<1>16. ASSUME NEW c \in Conns, Fail(c)
      PROVE  PrerequisitesThere'
  BY <1>16 DEF Fail, PrerequisitesThere
<1>17. CASE HandlerExits
  <2>1. \A c \in Conns : running'[c] = None
    BY <1>17 DEF HandlerExits, Die
  <2> QED
    BY <1>17, <2>1, PrerequisitesStay DEF HandlerExits, Die
<1> QED
  BY <1>2, <1>3, <1>4, <1>5, <1>6, <1>7, <1>8, <1>9, <1>10, <1>11, <1>12,
     <1>13, <1>14, <1>15, <1>16, <1>17 DEF Next, Main

-----------------------------------------------------------------------------
(* The restore: its invariant and what follows from it                     *)

\* The invariant is inductive.
LEMMA IInvStep == IInv /\ [Next]_vars => IInv'
<1> SUFFICES ASSUME IInv, [Next]_vars
             PROVE  IInv'
  OBVIOUS
<1> USE DEF IInv
<1>1. InputInv'
  BY InputSame DEF InputInv
<1>2. WorkTypes' /\ TxTypes' /\ RestTypes'
  BY WorkTypesStep, TxTypesStep, RestTypesStep
<1>3. WorkInv' /\ TxInv' /\ ErrorInv'
  BY WorkInvStep, TxInvStep, ErrorInvStep
<1>4. CohortInv' /\ ProgressInv' /\ PrerequisitesThere'
  BY CohortInvStep, ProgressInvStep, PrerequisitesThereStep
<1> QED
  BY <1>1, <1>2, <1>3, <1>4

\* It holds before the first statement.
LEMMA IInvInit == Init => IInv
<1> SUFFICES ASSUME Init
             PROVE  IInv
  OBVIOUS
<1>1. InputInv
  BY CountsAssumption DEF InputInv, Init
<1>2. \A c \in Conns :
        /\ work[c] = {} /\ running[c] = None /\ worker[c] = "idle"
        /\ tx[c] = "none" /\ made[c] = {} /\ held[c] = {}
  BY <1>1, Sets DEF Init
<1>3. WorkTypes
  BY DEF WorkTypes, Init
<1>4. TxTypes
  BY DEF TxTypes, Init
<1>5. stage = "start" /\ t = 1 /\ 0 \in Conns /\ committed = {} /\ failed = {}
  BY <1>1, Sets DEF Init
<1>6. RestTypes
  <2>1. NumTiers \in Nat
    BY <1>1, TiersFinite
  <2>2. 1 \in 1..(NumTiers + 1)
    BY <2>1
  <2>3. t \in 1..(NumTiers + 1)
    BY <1>5, <2>2
  <2> QED
    BY <1>5, <2>3 DEF RestTypes, Init
<1>7. WorkInv
  BY <1>2, <1>5 DEF WorkInv, None
<1>8. TxInv
  BY <1>2, <1>5 DEF TxInv
<1>9. ErrorInv
  BY <1>2, <1>5, FS_EmptySet DEF ErrorInv, Init
<1>10. CohortInv /\ ProgressInv
  BY <1>5 DEF CohortInv, ProgressInv
<1>11. PrerequisitesThere
  BY <1>2 DEF PrerequisitesThere
<1> QED
  BY <1>1, <1>3, <1>4, <1>6, <1>7, <1>8, <1>9, <1>10, <1>11 DEF IInv

\* The inductive invariant holds in every reachable state.
THEOREM Inductive == Spec => []IInv
BY IInvInit, IInvStep, PTL DEF Spec

\* Type correctness of the restore of the pre-data section.
THEOREM TypeCorrect == Spec => []TypeOK
<1>1. ASSUME IInv
      PROVE  TypeOK
  <2> USE <1>1 DEF IInv
  <2>1. Chosen \in SUBSET Statements
    BY Sets
  <2>2. WorkTypes /\ TxTypes /\ RestTypes /\ TxInv
    OBVIOUS
  <2>3. /\ work \in [Conns -> SUBSET Chosen]
        /\ worker \in [Conns -> {"idle", "run", "done"}]
        /\ running \in [Conns -> Statements \cup {None}]
    BY <2>1, <2>2 DEF WorkTypes
  <2>4. /\ tx \in [Conns -> {"none", "open", "broken"}]
        /\ made \in [Conns -> SUBSET Statements]
        /\ held \in [Conns -> SUBSET Objects]
        /\ committed \subseteq Statements
        /\ \A c \in Conns : tx[c] = "none" => made[c] = {} /\ held[c] = {}
    BY <2>1, <2>2 DEF TxTypes
  <2>5. /\ failed \subseteq Statements /\ numErrors \in Nat
        /\ fatalBy \subseteq Conns /\ wasTerminated \in BOOLEAN
        /\ t \in 1..(NumTiers + 1)
        /\ stage \in {"start", "first", "tier", "wait", "last", "all", "done",
                      "fatal", "exited"}
    BY <2>1, <2>2 DEF RestTypes
  <2>6. stage \in {"tier", "wait"} => tx[0] = "none"
    BY <2>2 DEF TxInv
  <2> QED
    BY <2>3, <2>4, <2>5, <2>6 DEF TypeOK
<1> QED
  BY <1>1, Inductive, PTL

\* Whatever the dependencies, the filters and the number of connections are, a
\* statement that executeStatementsForConn sends finds everything it refers
\* to: the order of the tiers, the cohorts and the file is enough.
THEOREM PrerequisitesCorrect == Spec => []PrerequisitesThere
<1>1. IInv => PrerequisitesThere
  BY DEF IInv
<1> QED
  BY <1>1, Inductive, PTL

\* No statement waits for a lock that another connection's transaction holds,
\* so the transactions of a tier cannot deadlock.
THEOREM LocksUncontended == Spec => []NoLockContention
<1>1. ASSUME IInv
      PROVE  NoLockContention
  <2> USE <1>1 DEF IInv
  <2> SUFFICES ASSUME NEW c \in Conns, running[c] # None, NEW d \in Conns \ {c}
               PROVE  Locks(running[c]) \cap held[d] = {}
    BY DEF NoLockContention, Granted
  <2>1. worker[c] = "run" /\ running[c] \in Chosen /\ running[c] \in Here(c)
    BY DEF WorkInv, WorkTypes, Here
  <2>2. CASE stage # "wait"
    <3>1. c = 0
      BY <2>1, <2>2 DEF WorkInv
    <3>2. held[d] = {}
      BY <2>2, <3>1 DEF TxInv
    <3> QED
      BY <3>2
  <2>3. CASE stage = "wait"
    <3>1. running[c] \in Statements /\ TierOf(running[c]) > 0
      <4>1. TierOf(running[c]) = t
        BY <2>1, <2>3 DEF CohortInv, Tiered
      <4> QED
        BY <2>1, <4>1, Sets, TiersFinite DEF RestTypes
    <3>2. \A o \in Locks(running[c]) : plan.cohort[o] \in Cohorts(c)
      BY <2>1, <3>1, LocksFacts DEF Cohorts
    <3>3. \A o \in held[d] : plan.cohort[o] \in Cohorts(d)
      BY DEF Cohorts
    <3>4. Cohorts(c) \cap Cohorts(d) = {}
      BY <2>3 DEF CohortInv
    <3> QED
      BY <3>2, <3>3, <3>4
  <2> QED
    BY <2>2, <2>3
<1> QED
  BY <1>1, Inductive, PTL

\* A restore that comes to its end has run every chosen statement and counted
\* each failure, and leaves no transaction open.
THEOREM EverythingRestored == Spec => []AllRestored
<1>1. ASSUME IInv
      PROVE  AllRestored
  <2> USE <1>1 DEF IInv
  <2> SUFFICES ASSUME stage = "done", ~wasTerminated, ~Gap
               PROVE  /\ committed = Chosen \ failed
                      /\ numErrors = Cardinality(failed)
                      /\ \A c \in Conns : tx[c] = "none"
    BY DEF AllRestored
  <2>1. fatalBy = {}
    BY DEF ErrorInv
  <2>2. Chosen \subseteq committed \cup failed
    BY <2>1 DEF Healthy, ProgressInv
  <2>3. committed \cap failed = {} /\ numErrors = Cardinality(failed)
    <3>1. CASE onErrorContinue
      BY <3>1 DEF ErrorInv
    <3>2. CASE ~onErrorContinue
      BY <2>1, <3>2, FS_EmptySet DEF ErrorInv
    <3> QED
      BY <3>1, <3>2
  <2>4. committed \subseteq Chosen
    BY DEF TxTypes
  <2>5. \A c \in Conns : tx[c] = "none"
    BY DEF TxInv
  <2> QED
    BY <2>2, <2>3, <2>4, <2>5
<1> QED
  BY <1>1, Inductive, PTL

-----------------------------------------------------------------------------
(* Privileges: what is wanted of the statements                            *)

\* What the rows of an object say of it.
Parsed(o) == UNION {RowPrivileges(r) : r \in RowsOf(o)}

Full(o, label) == [owner |-> OwnerName(o), comment |-> o.comment, label |-> label,
                   privileges |-> Parsed(o)]
Describes(m, o) == \E l \in LabelsOf(o) : m = Full(o, l)

\* The object and the statements there may be about it.
Object(i)    == catalog.objects[i]
CreateOf(i)  == Statement(i, "CREATE")
CommentOf(i) == Statement(i, "COMMENT")
OwnerOf(i)   == [Statement(i, "OWNER") EXCEPT !.to = OwnerName(Object(i))]
GrantOf(i)   == PrivilegesStatement(i, Object(i).type, Full(Object(i), "none"))
LabelOf(i, l) == [Statement(i, "LABEL") EXCEPT !.to = Name(l, TRUE)]
ColumnsOf(i) ==
  PrivilegesStatement(i, "COLUMN",
    [Full(Object(i), "none") EXCEPT !.privileges = {ParseACL(a) : a \in PrintedColumns(Object(i))}])
DefaultOf(d) == DefaultStatement(DefaultPrivileges(d))

HasGrant(o) == Parsed(o) # {} /\ Saved(o)

ObjectSteps(i) ==
  {s \in {CreateOf(i), GrantOf(i)} : s = GrantOf(i) => HasGrant(Object(i))} \cup
  {s \in {CommentOf(i), OwnerOf(i), ColumnsOf(i)} \cup {LabelOf(i, l) : l \in Object(i).labels} :
     /\ ~Object(i).extension
     /\ s = CommentOf(i) => Object(i).comment
     /\ s = OwnerOf(i)   => Object(i).type \in OwnerTypes
     /\ s = ColumnsOf(i) => PrintedColumns(Object(i)) # {}}

Steps ==
  (UNION {ObjectSteps(i) : i \in DOMAIN catalog.objects}) \cup
  {DefaultOf(catalog.defaults[i]) : i \in DOMAIN catalog.defaults}

-----------------------------------------------------------------------------
(* Privileges: the inductive invariant                                     *)

Occurs(s, seq) == \E k \in DOMAIN seq : seq[k] = s

Rank(s) ==
  CASE s.kind = "CREATE"              -> 0
    [] s.kind = "COMMENT"             -> 1
    [] s.kind = "OWNER"               -> 2
    [] s.kind = "GRANT" /\ ~s.column  -> 3
    [] s.kind = "LABEL"               -> 4
    [] s.kind = "GRANT" /\ s.column   -> 5
    [] OTHER                          -> 6

\* An object is created, gets its owner, then its privileges, and those of its
\* columns last.  Default privileges are given when all objects are there.
InOrder(seq) ==
  \A j, k \in DOMAIN seq :
    j < k /\ (seq[j].object = seq[k].object \/ seq[j].kind = "DEFAULT")
      => Rank(seq[j]) <= Rank(seq[k]) /\ seq[k].kind # "CREATE"

ScriptTypes ==
  /\ catalog \in Catalogs
  /\ pc \in {"query", "predata", "functions", "restore", "done"}
  /\ next \in Nat \ {0}
  /\ script \in Seq(Steps) /\ statements \in Seq(Steps)
  /\ ~refused

\* The map has the objects that have rows.
Known(i) ==
  IF i \in DOMAIN metadataMap THEN Describes(metadataMap[i], Object(i)) ELSE RowsOf(Object(i)) = {}

RowsLeft(i) == {r \in RowsOf(Object(i)) : <<i, r>> \in rows}

\* The object whose rows come: its rows so far and those that are left.
CollectInv ==
  pc = "query" =>
    /\ next = 1 /\ statements = <<>> /\ script = <<>>
    /\ currentUniqueID \in {0} \cup DOMAIN catalog.objects
    /\ \A r \in rows : \E i \in DOMAIN catalog.objects :
         /\ i >= currentUniqueID
         /\ \E x \in RowsOf(Object(i)) : r = <<i, x>>
    /\ \A i \in DOMAIN catalog.objects :
         /\ i < currentUniqueID => Known(i)
         /\ i >= currentUniqueID => i \notin DOMAIN metadataMap
         /\ i > currentUniqueID => RowsLeft(i) = RowsOf(Object(i))
         /\ i = currentUniqueID =>
              /\ \E l \in LabelsOf(Object(i)) :
                   metadata = [Full(Object(i), l) EXCEPT !.privileges = metadata.privileges]
              /\ metadata.privileges \cup UNION {RowPrivileges(r) : r \in RowsLeft(i)}
                   = Parsed(Object(i))

Printed(i) == pc = "predata" => i < next

MapInv ==
  pc \in {"predata", "functions"} =>
    \A i \in DOMAIN catalog.objects :
      IF Object(i).extension \/ ~Printed(i) THEN Known(i) ELSE i \notin DOMAIN metadataMap

\* Nothing is run while the statements are printed.
PrintInv ==
  /\ pc \in {"query", "predata", "functions"} =>
       /\ DOMAIN target = {} /\ DOMAIN targetDefaults = {}
       /\ \A k \in DOMAIN script : script[k].kind # "DEFAULT"
  /\ pc = "predata" =>
       /\ statements = <<>>
       /\ \A k \in DOMAIN script : script[k].object < next
  /\ \A k \in DOMAIN statements : \E i \in DOMAIN catalog.objects :
       Object(i).extension /\ HasGrant(Object(i)) /\ statements[k] = GrantOf(i)
  /\ InOrder(script)

\* The privileges of an extension's function are printed later.
GrantDue(i) ==
  /\ HasGrant(Object(i))
  /\ Object(i).extension =>
       pc \notin {"query", "predata"} /\ (pc = "functions" => i < next)

\* All that is wanted of an object comes ...
Awaited(i) ==
  /\ Occurs(CreateOf(i), script)
  /\ GrantDue(i) => Occurs(GrantOf(i), script)
  /\ ~Object(i).extension =>
       /\ Object(i).comment => Occurs(CommentOf(i), script)
       /\ Object(i).type \in OwnerTypes => Occurs(OwnerOf(i), script)
       /\ PrintedColumns(Object(i)) # {} => Occurs(ColumnsOf(i), script)
       /\ Object(i).labels # {} => \E l \in Object(i).labels : Occurs(LabelOf(i, l), script)

\* ... until it is there, or comes still.
Given(grants, keyword) ==
  UNION {Entry(Named(g.to), IF g.what = {"ALL"} THEN Rights[keyword] ELSE g.what, g.option) :
           g \in grants}

OwnerInv(i, tg, seq) ==
  /\ tg.owner \in Roles
  /\ Object(i).type \in OwnerTypes =>
       tg.owner = Object(i).owner \/ (~Object(i).extension /\ Occurs(OwnerOf(i), seq))

ListInv(i, tg, seq) ==
  \/ /\ tg.list = NullAcl
     /\ HasGrant(Object(i)) => Occurs(GrantOf(i), seq)
  \/ /\ HasGrant(Object(i)) /\ ~Occurs(OwnerOf(i), seq)
     /\ tg.list = [null |-> FALSE,
                  acl |-> Normal(Given(GrantOf(i).grants, Keyword(Object(i).type)))]

ColumnInv(i, tg, seq) ==
  \/ /\ tg.column = {}
     /\ ~Object(i).extension /\ PrintedColumns(Object(i)) # {} => Occurs(ColumnsOf(i), seq)
  \/ /\ ~Object(i).extension /\ PrintedColumns(Object(i)) # {}
     /\ ~Occurs(OwnerOf(i), seq) /\ ~Occurs(GrantOf(i), seq)
     /\ tg.column = Normal(Given(ColumnsOf(i).grants, "COLUMN"))

NoteInv(i, tg, seq) ==
  /\ tg.comment \in BOOLEAN
  /\ tg.comment => Object(i).comment
  /\ Object(i).comment /\ ~Object(i).extension => tg.comment \/ Occurs(CommentOf(i), seq)
  /\ tg.labels \subseteq Object(i).labels
  /\ Object(i).labels # {} /\ ~Object(i).extension =>
       tg.labels # {} \/ \E l \in Object(i).labels : Occurs(LabelOf(i, l), seq)

\* tg is object i of the new database while the statements of seq are to come.
Present(i, tg, seq) ==
  /\ tg = [type |-> Object(i).type, owner |-> tg.owner, list |-> tg.list, column |-> tg.column,
           comment |-> tg.comment, labels |-> tg.labels]
  /\ ~Occurs(CreateOf(i), seq)
  /\ OwnerInv(i, tg, seq) /\ ListInv(i, tg, seq) /\ ColumnInv(i, tg, seq) /\ NoteInv(i, tg, seq)

ObjectInv ==
  /\ DOMAIN target \subseteq DOMAIN catalog.objects
  /\ pc # "query" =>
       \A i \in DOMAIN catalog.objects :
         Printed(i) => IF i \in DOMAIN target THEN Present(i, target[i], script) ELSE Awaited(i)

DefaultInv ==
  /\ pc \in {"restore", "done"} =>
       \A i \in DOMAIN catalog.defaults :
         \/ catalog.defaults[i].key \in DOMAIN targetDefaults
         \/ Occurs(DefaultOf(catalog.defaults[i]), script)
  /\ \A k \in DOMAIN targetDefaults : \E i \in DOMAIN catalog.defaults :
       k = catalog.defaults[i].key /\ targetDefaults[k] = Held(catalog.defaults[i].items)
  /\ DOMAIN targetDefaults # {} => \A k \in DOMAIN script : script[k].kind = "DEFAULT"
  /\ pc = "done" => script = <<>>

PrivilegesIInv ==
  ScriptTypes /\ CollectInv /\ MapInv /\ PrintInv /\ ObjectInv /\ DefaultInv

-----------------------------------------------------------------------------
(* Privileges: names and letters                                           *)

\* quote_ident gives a role's name back, however it must be written.
LEMMA QuotedNames ==
  ASSUME NEW r \in Roles
  PROVE  Named(QuoteIdent(r)) = r /\ QuoteIdent(r).name = r
<1>1. r # Public /\ r # "none" /\ Folds[r] \in Roles
  BY RolesAssumption
<1>2. CASE r \in Odd \/ Folds[r] # r
  BY <1>1, <1>2 DEF Named, QuoteIdent, Name
<1>3. CASE ~(r \in Odd \/ Folds[r] # r)
  BY <1>1, <1>3 DEF Named, QuoteIdent, Name
<1> QED
  BY <1>2, <1>3

\* So does the way of a grantee from an access item into a statement.
LEMMA GranteeNames ==
  ASSUME NEW g \in Roles \cup {Public}
  PROVE  Named(GranteeName(QuotedGrantee(ItemName(g)))) = g
<1>1. Public \notin Roles /\ "" \notin Roles /\ "none" \notin Roles
  BY RolesAssumption
<1> USE DEF GranteeName, QuotedGrantee, ItemName, QuoteIdent, Name, Named, NoName, PublicName
<1>2. CASE g = Public
  BY <1>1, <1>2
<1>3. CASE g \in Roles /\ g \in Odd
  BY <1>1, <1>3
<1>4. CASE g \in Roles /\ g \notin Odd
  BY <1>1, <1>4, RolesAssumption
<1> QED
  BY <1>2, <1>3, <1>4

GrantTypes == AclTypes \cup {"COLUMN"}

\* All the code counts is all there is, but for a foreign table's TRUNCATE.
LEMMA AllLetters ==
  ASSUME NEW type \in GrantTypes
  PROVE  /\ Keyword(type) \in DOMAIN Rights
         /\ type # "FOREIGN TABLE" => AllPrivileges(type) = Rights[Keyword(type)]
         /\ type = "FOREIGN TABLE" => AllPrivileges(type) = Rights[Keyword(type)] \ {"D"}
         /\ "X" \in Rights[Keyword(type)] => AllPrivileges(type) = {"X"}
         /\ "ALL" \notin Rights[Keyword(type)] /\ AllPrivileges(type) # {}
<1> USE DEF Keyword, AllPrivileges, Rights
<1>1. CASE type \in {"TABLE", "VIEW", "MATERIALIZED VIEW"}
  BY <1>1
<1>2. CASE type = "FOREIGN TABLE"
  BY <1>2
<1>3. CASE type \in {"COLUMN", "SEQUENCE", "DATABASE", "SCHEMA"}
  BY <1>3
<1>4. CASE type \in {"PROTOCOL", "TABLESPACE", "FUNCTION", "AGGREGATE"}
  BY <1>4
<1>5. CASE type \in {"LANGUAGE", "TYPE", "FOREIGN SERVER", "FOREIGN DATA WRAPPER"}
  BY <1>5
<1> QED
  BY <1>1, <1>2, <1>3, <1>4, <1>5 DEF GrantTypes, AclTypes

\* What a grant's privileges stand for.
Meant(what, keyword) == IF what = {"ALL"} THEN Rights[keyword] ELSE what

\* The letters of an item are what the server reads in the statement.
LEMMA LettersMeant ==
  ASSUME NEW type \in GrantTypes, NEW letters \in SUBSET Rights[Keyword(type)],
         NEW l, type = "FOREIGN TABLE" => l # "D"
  PROVE  l \in Meant(PrivilegeString(letters, type), Keyword(type)) <=> l \in letters
<1> DEFINE all == AllPrivileges(type)
           rights == Rights[Keyword(type)]
<1>1. /\ type # "FOREIGN TABLE" => all = rights
      /\ type = "FOREIGN TABLE" => all = rights \ {"D"}
      /\ "X" \in rights => all = {"X"}
      /\ "ALL" \notin rights
  BY AllLetters
<1> HIDE DEF all, rights
<1>2. CASE all \subseteq letters
  <2>1. Meant(PrivilegeString(letters, type), Keyword(type)) = rights
    BY <1>2 DEF Meant, PrivilegeString, all, rights
  <2> QED
    BY <2>1, <1>1, <1>2 DEF rights
<1>3. CASE ~(all \subseteq letters)
  <2>1. "X" \notin letters
    BY <1>1, <1>3 DEF rights
  <2>2. PrivilegeString(letters, type) = letters
    BY <1>3, <2>1 DEF PrivilegeString, all
  <2>3. letters # {"ALL"}
    BY <1>1 DEF rights
  <2> QED
    BY <2>2, <2>3 DEF Meant
<1> QED
  BY <1>2, <1>3

-----------------------------------------------------------------------------
(* Privileges: access lists                                                *)

\* What items and grants give one by one.
Listed(items) ==
  UNION {Entry(i.grantee, i.plain \ i.starred, FALSE) \cup
         Entry(i.grantee, i.starred, TRUE) : i \in items}

LEMMA HeldIsListed ==
  ASSUME NEW items
  PROVE  Held(items) = Normal(Listed(items))
BY DEF Held, Listed

LEMMA ListedEntries ==
  ASSUME NEW items, NEW e
  PROVE  e \in Listed(items) <=>
           \E i \in items : \/ e \in Entry(i.grantee, i.plain \ i.starred, FALSE)
                           \/ e \in Entry(i.grantee, i.starred, TRUE)
<1> DEFINE Both(i) == Entry(i.grantee, i.plain \ i.starred, FALSE)
                      \cup Entry(i.grantee, i.starred, TRUE)
<1>1. Listed(items) = UNION {Both(i) : i \in items}
  BY DEF Listed
<1>2. \A i : e \in Both(i) <=> \/ e \in Entry(i.grantee, i.plain \ i.starred, FALSE)
                               \/ e \in Entry(i.grantee, i.starred, TRUE)
  BY Zenon
<1> HIDE DEF Both
<1> QED
  BY <1>1, <1>2, Zenon

LEMMA GivenEntries ==
  ASSUME NEW grants, NEW keyword, NEW e
  PROVE  e \in Given(grants, keyword) <=>
           \E g \in grants : e \in Entry(Named(g.to), Meant(g.what, keyword), g.option)
BY Zenon DEF Given, Meant

\* Whether an entry is among some depends upon its own letter only.
LEMMA EntryAlike ==
  ASSUME NEW e, NEW to, NEW option, NEW some, NEW others,
         e.right \in some <=> e.right \in others
  PROVE  e \in Entry(to, some, option) <=> e \in Entry(to, others, option)
<1>1. ASSUME NEW l, e = [grantee |-> to, right |-> l, option |-> option]
      PROVE  e.right = l
  BY <1>1
<1>2. ASSUME NEW l \in some, e = [grantee |-> to, right |-> l, option |-> option]
      PROVE  e \in Entry(to, others, option)
  <2>1. l \in others
    BY <1>1, <1>2
  <2> QED
    BY <1>2, <2>1, Zenon DEF Entry
<1>3. ASSUME NEW l \in others, e = [grantee |-> to, right |-> l, option |-> option]
      PROVE  e \in Entry(to, some, option)
  <2>1. l \in some
    BY <1>1, <1>3
  <2> QED
    BY <1>3, <2>1, Zenon DEF Entry
<1> QED
  BY <1>2, <1>3, Zenon DEF Entry

\* The grants printed for parsed items.
GrantsFor(items, type) == Grants({ParseACL(i) : i \in items}, type)

PlainGrant(i, type) ==
  [to |-> GranteeName(QuotedGrantee(ItemName(i.grantee))),
   what |-> PrivilegeString(i.plain \ i.starred, type), option |-> FALSE]
StarredGrant(i, type) ==
  [to |-> GranteeName(QuotedGrantee(ItemName(i.grantee))),
   what |-> PrivilegeString(i.starred, type), option |-> TRUE]

LEMMA GrantsOf ==
  ASSUME NEW items, NEW type, NEW g
  PROVE  g \in GrantsFor(items, type) <=>
           g.what # {} /\ \E i \in items : g = PlainGrant(i, type) \/ g = StarredGrant(i, type)
<1> DEFINE P == {ParseACL(i) : i \in items}
<1>1. \A i : /\ PlainGrant(i, type) =
                  [to |-> GranteeName(ParseACL(i).Grantee),
                   what |-> PrivilegeString(ParseACL(i).plain, type), option |-> FALSE]
             /\ StarredGrant(i, type) =
                  [to |-> GranteeName(ParseACL(i).Grantee),
                   what |-> PrivilegeString(ParseACL(i).starred, type), option |-> TRUE]
  BY DEF ParseACL, PlainGrant, StarredGrant
<1>2. g \in Grants(P, type) <=>
        g.what # {} /\ \E a \in P :
          \/ g = [to |-> GranteeName(a.Grantee), what |-> PrivilegeString(a.plain, type),
                  option |-> FALSE]
          \/ g = [to |-> GranteeName(a.Grantee), what |-> PrivilegeString(a.starred, type),
                  option |-> TRUE]
  <2> HIDE DEF P
  <2> QED
    BY DEF Grants
<1> QED
  BY <1>1, <1>2, Zenon DEF GrantsFor

LEMMA GrantFacts ==
  ASSUME NEW i, NEW type
  PROVE  /\ PlainGrant(i, type).to = GranteeName(QuotedGrantee(ItemName(i.grantee)))
         /\ PlainGrant(i, type).what = PrivilegeString(i.plain \ i.starred, type)
         /\ PlainGrant(i, type).option = FALSE
         /\ StarredGrant(i, type).to = GranteeName(QuotedGrantee(ItemName(i.grantee)))
         /\ StarredGrant(i, type).what = PrivilegeString(i.starred, type)
         /\ StarredGrant(i, type).option = TRUE
BY DEF PlainGrant, StarredGrant

\* What is granted is what the items have.
LEMMA GivenIsListed ==
  ASSUME NEW type \in GrantTypes, NEW items \in SUBSET AccessItems(Rights[Keyword(type)]),
         NEW e, type = "FOREIGN TABLE" => e.right # "D"
  PROVE  e \in Given(GrantsFor(items, type), Keyword(type)) <=> e \in Listed(items)
<1> DEFINE PlainMeant(i)   == Meant(PlainGrant(i, type).what, Keyword(type))
           StarredMeant(i) == Meant(StarredGrant(i, type).what, Keyword(type))
<1>1. ASSUME NEW i \in items
      PROVE  /\ i.plain \ i.starred \in SUBSET Rights[Keyword(type)]
             /\ i.starred \in SUBSET Rights[Keyword(type)]
             /\ i.grantee \in Roles \cup {Public}
  BY DEF AccessItems
<1>2. ASSUME NEW i \in items
      PROVE  /\ e.right \in PlainMeant(i) <=> e.right \in i.plain \ i.starred
             /\ e.right \in StarredMeant(i) <=> e.right \in i.starred
  <2>1. /\ PlainGrant(i, type).what = PrivilegeString(i.plain \ i.starred, type)
        /\ StarredGrant(i, type).what = PrivilegeString(i.starred, type)
    BY GrantFacts, Zenon
  <2>2. /\ e.right \in Meant(PrivilegeString(i.plain \ i.starred, type), Keyword(type))
             <=> e.right \in i.plain \ i.starred
        /\ e.right \in Meant(PrivilegeString(i.starred, type), Keyword(type))
             <=> e.right \in i.starred
    BY <1>1, LettersMeant, Zenon
  <2> QED
    BY <2>1, <2>2, Zenon
<1>3. ASSUME NEW i \in items
      PROVE  /\ e \in Entry(i.grantee, PlainMeant(i), FALSE)
                  <=> e \in Entry(i.grantee, i.plain \ i.starred, FALSE)
             /\ e \in Entry(i.grantee, StarredMeant(i), TRUE)
                  <=> e \in Entry(i.grantee, i.starred, TRUE)
  <2> HIDE DEF PlainMeant, StarredMeant
  <2> QED
    BY <1>2, EntryAlike, Zenon
<1>4. ASSUME NEW i \in items
      PROVE  Named(PlainGrant(i, type).to) = i.grantee /\ Named(StarredGrant(i, type).to) = i.grantee
  <2>1. Named(GranteeName(QuotedGrantee(ItemName(i.grantee)))) = i.grantee
    BY <1>1, GranteeNames
  <2> QED
    BY <2>1, GrantFacts
<1>5. ASSUME NEW i \in items
      PROVE  /\ e \in Entry(Named(PlainGrant(i, type).to), PlainMeant(i), PlainGrant(i, type).option)
                  <=> e \in Entry(i.grantee, i.plain \ i.starred, FALSE)
             /\ e \in Entry(Named(StarredGrant(i, type).to), StarredMeant(i), StarredGrant(i, type).option)
                  <=> e \in Entry(i.grantee, i.starred, TRUE)
  <2>1. PlainGrant(i, type).option = FALSE /\ StarredGrant(i, type).option = TRUE
    BY GrantFacts, Zenon
  <2> HIDE DEF PlainMeant, StarredMeant
  <2> QED
    BY <1>3, <1>4, <2>1, Zenon
<1>6. \A to, option : e \notin Entry(to, Meant({}, Keyword(type)), option)
  BY DEF Entry, Meant
<1>7. \A g : g \in GrantsFor(items, type) <=>
        g.what # {} /\ \E i \in items : g = PlainGrant(i, type) \/ g = StarredGrant(i, type)
  BY GrantsOf, Zenon
<1>8. e \in Given(GrantsFor(items, type), Keyword(type)) <=>
        \E g \in GrantsFor(items, type) :
          e \in Entry(Named(g.to), Meant(g.what, Keyword(type)), g.option)
  BY GivenEntries, Zenon
<1>9. e \in Given(GrantsFor(items, type), Keyword(type)) <=>
        \E i \in items :
          \/ e \in Entry(Named(PlainGrant(i, type).to), PlainMeant(i), PlainGrant(i, type).option)
          \/ e \in Entry(Named(StarredGrant(i, type).to), StarredMeant(i), StarredGrant(i, type).option)
  BY <1>6, <1>7, <1>8, Zenon
<1>10. e \in Given(GrantsFor(items, type), Keyword(type)) <=>
        \E i \in items : \/ e \in Entry(i.grantee, i.plain \ i.starred, FALSE)
                        \/ e \in Entry(i.grantee, i.starred, TRUE)
  <2> HIDE DEF PlainMeant, StarredMeant
  <2> QED
    BY <1>5, <1>9, Zenon
<1>11. e \in Listed(items) <=>
        \E i \in items : \/ e \in Entry(i.grantee, i.plain \ i.starred, FALSE)
                        \/ e \in Entry(i.grantee, i.starred, TRUE)
  BY ListedEntries, Zenon
<1> QED
  BY <1>10, <1>11, Zenon

Revoked(s) == {Named(id) : id \in s.revoke}

\* When all that have something are revoked, only the grants are left.
LEMMA ChangedFirst ==
  ASSUME NEW acl, NEW s, NEW keyword, \A e \in acl : e.grantee \in Revoked(s)
  PROVE  Changed(acl, s, keyword) = Normal(Given(s.grants, keyword))
<1>1. {e \in acl : e.grantee \notin {Named(id) : id \in s.revoke}} \cup Given(s.grants, keyword)
        = Given(s.grants, keyword)
  BY Zenon DEF Revoked
<1> QED
  BY <1>1, Zenon DEF Changed, Given

\* A second time nothing changes.
LEMMA ChangedAgain ==
  ASSUME NEW s, NEW keyword
  PROVE  Changed(Normal(Given(s.grants, keyword)), s, keyword) = Normal(Given(s.grants, keyword))
<1> DEFINE given == Given(s.grants, keyword)
<1>1. Normal(given) \subseteq given
  BY Zenon DEF Normal
<1>2. {e \in Normal(given) : e.grantee \notin {Named(id) : id \in s.revoke}} \cup given = given
  <2> HIDE DEF given
  <2> QED
    BY <1>1, Zenon
<1>3. Changed(Normal(given), s, keyword)
        = Normal({e \in Normal(given) : e.grantee \notin {Named(id) : id \in s.revoke}} \cup given)
  BY Zenon DEF Changed, Given
<1> QED
  BY <1>2, <1>3, Zenon

LEMMA DefaultGrantees ==
  ASSUME NEW keyword, NEW owner, NEW e \in Default(keyword, owner)
  PROVE  e.grantee \in {owner, Public}
<1> DEFINE public == CASE keyword = "DATABASE" -> {"T", "c"}
                       [] keyword = "FUNCTION" -> {"X"}
                       [] keyword \in {"LANGUAGE", "TYPE"} -> {"U"}
                       [] OTHER -> {}
<1>1. e \in Entry(owner, Rights[keyword], FALSE) \/ e \in Entry(Public, public, FALSE)
  BY Zenon DEF Default
<1> HIDE DEF public
<1>2. CASE e \in Entry(owner, Rights[keyword], FALSE)
  BY <1>2 DEF Entry
<1>3. CASE e \in Entry(Public, public, FALSE)
  BY <1>3 DEF Entry
<1> QED
  BY <1>1, <1>2, <1>3

\* The entries of a list are records of their kind.
LEMMA EntryRecords ==
  ASSUME NEW e, NEW items, e \in Listed(items)
  PROVE  \A x : [e EXCEPT !.option = x].right = e.right
<1>1. PICK i \in items : \/ e \in Entry(i.grantee, i.plain \ i.starred, FALSE)
                         \/ e \in Entry(i.grantee, i.starred, TRUE)
  BY ListedEntries
<1>2. CASE e \in Entry(i.grantee, i.plain \ i.starred, FALSE)
  BY <1>2 DEF Entry
<1>3. CASE e \in Entry(i.grantee, i.starred, TRUE)
  BY <1>3 DEF Entry
<1> QED
  BY <1>1, <1>2, <1>3

\* The printed grants are the list of the source, but for a foreign table's
\* TRUNCATE.
LEMMA GrantsHold ==
  ASSUME NEW type \in GrantTypes, NEW items \in SUBSET AccessItems(Rights[Keyword(type)])
  PROVE  /\ Kept(Normal(Given(GrantsFor(items, type), Keyword(type))), type) = Kept(Held(items), type)
         /\ type # "FOREIGN TABLE" =>
              Normal(Given(GrantsFor(items, type), Keyword(type))) = Held(items)
<1> DEFINE given == Given(GrantsFor(items, type), Keyword(type))
           listed == Listed(items)
           Of(e) == type = "FOREIGN TABLE" => e.right # "D"
<1>1. \A e : Of(e) => (e \in given <=> e \in listed)
  BY GivenIsListed, Zenon
<1>2. Held(items) = Normal(listed)
  BY HeldIsListed
<1>3. ASSUME NEW e \in listed, Of(e)
      PROVE  Of([e EXCEPT !.option = TRUE])
  <2>1. [e EXCEPT !.option = TRUE].right = e.right
    BY EntryRecords
  <2> QED
    BY <2>1, <1>3
<1> HIDE DEF given, listed
<1>4. ASSUME NEW e, Of(e)
      PROVE  e \in Normal(given) <=> e \in Normal(listed)
  <2>1. e \in given <=> e \in listed
    BY <1>1, <1>4
  <2>2. e \in listed =>
          ([e EXCEPT !.option = TRUE] \in given <=> [e EXCEPT !.option = TRUE] \in listed)
    <3> HIDE DEF Of
    <3> QED
      BY <1>1, <1>3, <1>4, Zenon
  <2> QED
    BY <2>1, <2>2, Zenon DEF Normal
<1>5. CASE type = "FOREIGN TABLE"
  BY <1>2, <1>4, <1>5 DEF Kept, given
<1>6. CASE type # "FOREIGN TABLE"
  <2>1. \A e : e \in Normal(given) <=> e \in Normal(listed)
    BY <1>4, <1>6
  <2>2. Normal(given) = Normal(listed)
    BY <2>1
  <2> QED
    BY <1>2, <2>2, Zenon DEF given
<1> QED
  BY <1>5, <1>6

-----------------------------------------------------------------------------
(* Privileges: rows                                                        *)

LEMMA TypesApart ==
  ASSUME NEW type \in CommentTypes
  PROVE  type \notin OwnerTypes /\ type \notin AclTypes
BY DEF CommentTypes, OwnerTypes, AclTypes

LEMMA RowsAre ==
  ASSUME NEW o, NEW r
  PROVE  r \in RowsOf(o) <=>
           \/ o.type \in CommentTypes /\ o.comment /\ r = CommentRow
           \/ /\ o.type \notin CommentTypes
              /\ \E l \in LabelsOf(o) : \E i \in ItemsOf(o) : r = MetadataRow(o, l, i)
<1>1. r \in MetadataRows(o) <=>
        \E l \in LabelsOf(o) : \E i \in ItemsOf(o) : r = MetadataRow(o, l, i)
  <2> DEFINE Some(l) == {MetadataRow(o, l, i) : i \in ItemsOf(o)}
  <2>1. MetadataRows(o) = UNION {Some(l) : l \in LabelsOf(o)}
    BY DEF MetadataRows
  <2>2. \A l : r \in Some(l) <=> \E i \in ItemsOf(o) : r = MetadataRow(o, l, i)
    BY Zenon
  <2> HIDE DEF Some
  <2> QED
    BY <2>1, <2>2, Zenon
<1>2. r \in CommentRows(o) <=> o.comment /\ r = CommentRow
  BY Zenon DEF CommentRows
<1> QED
  BY <1>1, <1>2, Zenon DEF RowsOf

LEMMA SomeRow ==
  ASSUME NEW o
  PROVE  (\E l : l \in LabelsOf(o)) /\ (\E i : i \in ItemsOf(o))
BY DEF LabelsOf, ItemsOf

\* No access item is the one of rows without.
LEMMA RealItems ==
  ASSUME NEW items, NEW rights, items \subseteq AccessItems(rights)
  PROVE  NoItem \notin items
<1>1. "none" \notin Roles \cup {Public}
  BY RolesAssumption DEF Public
<1> QED
  BY <1>1 DEF AccessItems, NoItem

\* What the rows of an object say of its privileges.
LEMMA ParsedOf ==
  ASSUME NEW o, o.type \notin AclTypes => o.null, NoItem \notin o.items
  PROVE  /\ o.null => Parsed(o) = {}
         /\ ~o.null /\ o.items = {} => Parsed(o) = {EmptyACL}
         /\ ~o.null /\ o.items # {} => Parsed(o) = {ParseACL(i) : i \in o.items}
<1>1. \A i \in o.items : i # NoItem
  OBVIOUS
<1>2. CASE o.type \in CommentTypes
  <2>1. \A r \in RowsOf(o) : RowPrivileges(r) = {}
    <3>1. \A r \in RowsOf(o) : r = CommentRow
      BY <1>2, RowsAre, Zenon
    <3>2. CommentRow.kind = "" /\ CommentRow.privileges = NoItem
      BY DEF CommentRow
    <3> QED
      BY <3>1, <3>2 DEF RowPrivileges
  <2>2. o.null
    BY <1>2, TypesApart
  <2> QED
    BY <2>1, <2>2 DEF Parsed
<1>3. CASE o.type \notin CommentTypes
  <2>1. \A r \in RowsOf(o) : r.kind = KindOf(o) /\ r.privileges \in ItemsOf(o)
    <3> TAKE r \in RowsOf(o)
    <3>1. PICK l \in LabelsOf(o) : \E i \in ItemsOf(o) : r = MetadataRow(o, l, i)
      BY <1>3, RowsAre
    <3>2. PICK i \in ItemsOf(o) : r = MetadataRow(o, l, i)
      BY <3>1
    <3> QED
      BY <3>2 DEF MetadataRow
  <2>3. \A i \in ItemsOf(o) : \E r \in RowsOf(o) : r.kind = KindOf(o) /\ r.privileges = i
    <3> TAKE i \in ItemsOf(o)
    <3>1. PICK l : l \in LabelsOf(o)
      BY SomeRow
    <3>2. MetadataRow(o, l, i) \in RowsOf(o)
      BY <1>3, <3>1, RowsAre, Zenon
    <3>3. MetadataRow(o, l, i).kind = KindOf(o) /\ MetadataRow(o, l, i).privileges = i
      BY DEF MetadataRow
    <3> QED
      BY <3>2, <3>3, Zenon
  <2>4. PICK i : i \in ItemsOf(o)
    BY SomeRow
  <2>5. \A p : p \in Parsed(o) <=> \E r \in RowsOf(o) : p \in RowPrivileges(r)
    BY Zenon DEF Parsed
  <2>6. CASE o.null
    <3>1. \A r \in RowsOf(o) : RowPrivileges(r) = {}
      BY <2>1, <2>6 DEF RowPrivileges, ItemsOf, KindOf
    <3> QED
      BY <3>1, <2>6 DEF Parsed
  <2>7. CASE ~o.null /\ o.items = {}
    <3>1. \A r \in RowsOf(o) : RowPrivileges(r) = {EmptyACL}
      BY <2>1, <2>7 DEF RowPrivileges, ItemsOf, KindOf
    <3>2. \E r \in RowsOf(o) : TRUE
      BY <2>3, <2>4
    <3>3. \A p : p \in Parsed(o) <=> p = EmptyACL
      BY <3>1, <3>2, <2>5
    <3> QED
      BY <3>3, <2>7
  <2>8. CASE ~o.null /\ o.items # {}
    <3>1. ItemsOf(o) = o.items /\ KindOf(o) = ""
      BY <2>8 DEF ItemsOf, KindOf
    <3>2. \A r \in RowsOf(o) : RowPrivileges(r) = {ParseACL(r.privileges)} /\ r.privileges \in o.items
      BY <3>1, <2>1, <1>1 DEF RowPrivileges
    <3>3. \A j \in o.items : \E r \in RowsOf(o) : r.privileges = j
      BY <3>1, <2>3
    <3>4. \A p : p \in Parsed(o) <=> \E j \in o.items : p = ParseACL(j)
      BY <3>2, <3>3, <2>5
    <3> QED
      BY <3>4, <2>8
  <2> QED
    BY <2>6, <2>7, <2>8
<1> QED
  BY <1>2, <1>3

LEMMA RowFacts ==
  ASSUME NEW o, o.comment \in BOOLEAN, o.type \in CommentTypes => o.labels = {},
         NEW r \in RowsOf(o)
  PROVE  r.owner = OwnerName(o) /\ r.comment = o.comment /\ r.label \in LabelsOf(o)
<1>1. CASE o.type \in CommentTypes
  <2>1. o.comment /\ r = CommentRow
    BY <1>1, RowsAre
  <2>2. r.owner = NoName /\ r.comment = TRUE /\ r.label = "none"
    BY <2>1 DEF CommentRow
  <2> QED
    BY <1>1, <2>1, <2>2, TypesApart DEF OwnerName, LabelsOf
<1>2. CASE o.type \notin CommentTypes
  <2>1. PICK l \in LabelsOf(o) : \E i \in ItemsOf(o) : r = MetadataRow(o, l, i)
    BY <1>2, RowsAre
  <2>2. r.owner = OwnerName(o) /\ r.comment = o.comment /\ r.label = l
    <3>1. PICK i \in ItemsOf(o) : r = MetadataRow(o, l, i)
      BY <2>1
    <3> QED
      BY <3>1 DEF MetadataRow
  <2> QED
    BY <2>2
<1> QED
  BY <1>1, <1>2

\* Without rows an object has the empty metadata.
LEMMA NoRows ==
  ASSUME NEW o, o.comment \in BOOLEAN,
         o.type \in CommentTypes => o.labels = {},
         RowsOf(o) = {}
  PROVE  Describes(NoMetadata, o) /\ o.type \in CommentTypes
<1>1. o.type \in CommentTypes
  BY SomeRow, RowsAre
<1>2. o.comment = FALSE
  BY <1>1, RowsAre
<1>3. Parsed(o) = {}
  BY DEF Parsed
<1>4. OwnerName(o) = NoName /\ "none" \in LabelsOf(o)
  BY <1>1, TypesApart DEF OwnerName, LabelsOf
<1> QED
  BY <1>1, <1>2, <1>3, <1>4 DEF Describes, Full, NoMetadata

-----------------------------------------------------------------------------
(* Privileges: the catalogue and its statements                            *)

LEMMA ObjectTypes ==
  ASSUME catalog \in Catalogs
  PROVE  /\ Len(catalog.objects) \in Nat /\ DOMAIN catalog.objects = 1..Len(catalog.objects)
         /\ \A i \in DOMAIN catalog.objects :
              /\ Object(i).owner \in Roles /\ Object(i).null \in BOOLEAN
              /\ Object(i).comment \in BOOLEAN /\ Object(i).extension \in BOOLEAN
              /\ Object(i).items \subseteq AccessItems(UNION {Rights[k] : k \in DOMAIN Rights})
              /\ Object(i).columnItems \subseteq AccessItems(Rights["COLUMN"])
              /\ PrintedColumns(Object(i)) \subseteq AccessItems(Rights["COLUMN"])
              /\ Object(i).dummy \in BOOLEAN
              /\ Object(i).type # "COLUMN" /\ "none" \notin Object(i).labels
              /\ Object(i).type \in CommentTypes => Object(i).labels = {}
              /\ Object(i).type \notin AclTypes => Object(i).null
              /\ Object(i).type \in AclTypes =>
                   Object(i).items \subseteq AccessItems(Rights[Keyword(Object(i).type)])
              /\ Keyword(Object(i).type) # "TABLE" => PrintedColumns(Object(i)) = {}
              /\ Object(i).extension => Object(i).owner = Restorer
<1> DEFINE S == [type : STRING, owner : Roles, null : BOOLEAN,
                 items : SUBSET AccessItems(UNION {Rights[k] : k \in DOMAIN Rights}),
                 columnItems : SUBSET AccessItems(Rights["COLUMN"]),
                 labels : SUBSET STRING, comment : BOOLEAN, extension : BOOLEAN,
                 dummy : BOOLEAN]
<1>1. catalog.objects \in Seq(S)
  BY CatalogsAssumption, Zenon
<1>2. \A i \in DOMAIN catalog.objects :
              /\ Object(i).type # "COLUMN" /\ "none" \notin Object(i).labels
              /\ Object(i).type \in CommentTypes => Object(i).labels = {}
              /\ Object(i).type \notin AclTypes => Object(i).null
              /\ Object(i).type \in AclTypes =>
                   Object(i).items \subseteq AccessItems(Rights[Keyword(Object(i).type)])
              /\ Keyword(Object(i).type) # "TABLE" => Object(i).columnItems = {}
              /\ Object(i).extension => Object(i).owner = Restorer
  BY CatalogsAssumption, Zenon DEF Object
<1>3. /\ Len(catalog.objects) \in Nat /\ DOMAIN catalog.objects = 1..Len(catalog.objects)
      /\ \A i \in DOMAIN catalog.objects : Object(i) \in S
  <2> HIDE DEF S
  <2> QED
    BY <1>1 DEF Object
<1>4. ASSUME NEW i \in DOMAIN catalog.objects
      PROVE  /\ Object(i).owner \in Roles /\ Object(i).null \in BOOLEAN
             /\ Object(i).comment \in BOOLEAN /\ Object(i).extension \in BOOLEAN
             /\ Object(i).items \subseteq AccessItems(UNION {Rights[k] : k \in DOMAIN Rights})
             /\ Object(i).columnItems \subseteq AccessItems(Rights["COLUMN"])
             /\ Object(i).dummy \in BOOLEAN
  <2>1. Object(i) \in S
    BY <1>3, Zenon
  <2> QED
    BY <2>1
<1>5. ASSUME NEW i \in DOMAIN catalog.objects
      PROVE  /\ PrintedColumns(Object(i)) \subseteq AccessItems(Rights["COLUMN"])
             /\ Keyword(Object(i).type) # "TABLE" => PrintedColumns(Object(i)) = {}
  BY <1>2, <1>4, Zenon DEF PrintedColumns
<1> QED
  BY <1>2, <1>3, <1>4, <1>5, Zenon

DefaultType(d) == DefaultKeyword[d.key.kind]

LEMMA DefaultTypes ==
  ASSUME catalog \in Catalogs
  PROVE  /\ Len(catalog.defaults) \in Nat /\ DOMAIN catalog.defaults = 1..Len(catalog.defaults)
         /\ \A i \in DOMAIN catalog.defaults :
              LET d == catalog.defaults[i]
              IN  /\ d.key.role \in Roles
                  /\ DefaultType(d) \in {"TABLE", "SEQUENCE", "FUNCTION", "TYPE"}
                  /\ d.items \subseteq AccessItems(Rights[DefaultType(d)])
         /\ \A i, j \in DOMAIN catalog.defaults :
              catalog.defaults[i].key = catalog.defaults[j].key => i = j
<1> DEFINE K == [role : Roles, inSchema : BOOLEAN, kind : DOMAIN DefaultKeyword]
           S == [key : K, items : SUBSET AccessItems(UNION {Rights[k] : k \in DOMAIN Rights})]
<1>1. catalog.defaults \in Seq(S)
  BY CatalogsAssumption, Zenon
<1>2. \A i, j \in DOMAIN catalog.defaults :
         /\ catalog.defaults[i].items \subseteq AccessItems(Rights[DefaultKeyword[catalog.defaults[i].key.kind]])
         /\ catalog.defaults[i].key = catalog.defaults[j].key => i = j
  BY CatalogsAssumption, Zenon
<1>3. /\ Len(catalog.defaults) \in Nat /\ DOMAIN catalog.defaults = 1..Len(catalog.defaults)
      /\ \A i \in DOMAIN catalog.defaults : catalog.defaults[i] \in S
  <2> HIDE DEF S
  <2> QED
    BY <1>1
<1>4. ASSUME NEW d \in S
      PROVE  d.key.role \in Roles /\ DefaultType(d) \in {"TABLE", "SEQUENCE", "FUNCTION", "TYPE"}
  <2>1. d.key \in K
    OBVIOUS
  <2>2. d.key.role \in Roles /\ d.key.kind \in {"r", "S", "f", "T"}
    BY <2>1 DEF DefaultKeyword
  <2> QED
    BY <2>2 DEF DefaultType, DefaultKeyword
<1> HIDE DEF S
<1> QED
  BY <1>2, <1>3, <1>4, Zenon DEF DefaultType

\* What statements of each kind are.
LEMMA CreateFacts ==
  ASSUME NEW i, NEW l
  PROVE  /\ CreateOf(i).object = i /\ CreateOf(i).kind = "CREATE"
         /\ CreateOf(i).revoke = {} /\ CreateOf(i).grants = {}
         /\ CommentOf(i).object = i /\ CommentOf(i).kind = "COMMENT"
         /\ CommentOf(i).revoke = {} /\ CommentOf(i).grants = {}
         /\ OwnerOf(i).object = i /\ OwnerOf(i).kind = "OWNER"
         /\ OwnerOf(i).revoke = {} /\ OwnerOf(i).grants = {}
         /\ OwnerOf(i).to = OwnerName(Object(i))
         /\ LabelOf(i, l).object = i /\ LabelOf(i, l).kind = "LABEL"
         /\ LabelOf(i, l).revoke = {} /\ LabelOf(i, l).grants = {}
         /\ LabelOf(i, l).to.name = l
<1>1. /\ CreateOf(i).object = i /\ CreateOf(i).kind = "CREATE"
      /\ CreateOf(i).revoke = {} /\ CreateOf(i).grants = {}
  BY DEF CreateOf, Statement
<1>2. /\ CommentOf(i).object = i /\ CommentOf(i).kind = "COMMENT"
      /\ CommentOf(i).revoke = {} /\ CommentOf(i).grants = {}
  BY DEF CommentOf, Statement
<1>3. /\ OwnerOf(i).object = i /\ OwnerOf(i).kind = "OWNER"
      /\ OwnerOf(i).revoke = {} /\ OwnerOf(i).grants = {}
      /\ OwnerOf(i).to = OwnerName(Object(i))
  BY DEF OwnerOf, Statement
<1>4. /\ LabelOf(i, l).object = i /\ LabelOf(i, l).kind = "LABEL"
      /\ LabelOf(i, l).revoke = {} /\ LabelOf(i, l).grants = {}
      /\ LabelOf(i, l).to = Name(l, TRUE)
  BY DEF LabelOf, Statement
<1>5. Name(l, TRUE).name = l
  BY DEF Name
<1> QED
  BY <1>1, <1>2, <1>3, <1>4, <1>5, Zenon

LEMMA GrantFields ==
  ASSUME NEW object, NEW type, NEW m
  PROVE  LET s == PrivilegesStatement(object, type, m)
         IN  /\ s.object = object /\ s.kind = "GRANT"
             /\ s.revoke = {PublicName} \cup ({m.owner} \ {NoName})
             /\ s.grants = Grants(m.privileges, type)
BY DEF PrivilegesStatement, Statement

LEMMA GrantKeyword ==
  ASSUME NEW object, NEW type, NEW m
  PROVE  LET s == PrivilegesStatement(object, type, m)
         IN  /\ type = "COLUMN" => s.column
             /\ type # "COLUMN" => ~s.column /\ s.keyword = Keyword(type)
BY DEF PrivilegesStatement, Statement

\* A default access list is parsed like an object's.
Defaulted(d) ==
  [type |-> DefaultType(d), owner |-> d.key.role, comment |-> FALSE, labels |-> {},
   null |-> FALSE, items |-> d.items]

LEMMA DefaultFields ==
  ASSUME NEW d
  PROVE  /\ DefaultOf(d).object = 0 /\ DefaultOf(d).kind = "DEFAULT" /\ DefaultOf(d).keyword = d.key
         /\ DefaultOf(d).revoke = {PublicName, QuoteIdent(d.key.role)}
         /\ DefaultOf(d).grants = Grants(Parsed(Defaulted(d)), DefaultType(d))
<1> DEFINE p == DefaultPrivileges(d)
<1>1. p.key = d.key /\ p.owner = QuoteIdent(d.key.role) /\ p.privileges = Parsed(Defaulted(d))
  BY DEF DefaultPrivileges, Parsed, DefaultType, Defaulted
<1> HIDE DEF p
<1>2. /\ DefaultStatement(p).object = 0 /\ DefaultStatement(p).kind = "DEFAULT"
      /\ DefaultStatement(p).keyword = p.key
      /\ DefaultStatement(p).revoke = {PublicName, p.owner}
      /\ DefaultStatement(p).grants = Grants(p.privileges, DefaultKeyword[p.key.kind])
  BY DEF DefaultStatement, Statement
<1>3. DefaultOf(d) = DefaultStatement(p)
  BY Zenon DEF DefaultOf, p
<1> QED
  BY <1>1, <1>2, <1>3 DEF DefaultType

LEMMA FullFields ==
  ASSUME NEW o, NEW l
  PROVE  Full(o, l).owner = OwnerName(o) /\ Full(o, l).comment = o.comment
         /\ Full(o, l).label = l /\ Full(o, l).privileges = Parsed(o)
BY DEF Full

\* The made-up item of an empty list grants nothing.
LEMMA EmptyGrants ==
  ASSUME NEW type \in GrantTypes
  PROVE  Grants({EmptyACL}, type) = GrantsFor({}, type) /\ GrantsFor({}, type) = {}
<1>1. AllPrivileges(type) # {}
  BY AllLetters
<1>2. PrivilegeString({}, type) = {}
  BY <1>1 DEF PrivilegeString
<1>3. EmptyACL.plain = {} /\ EmptyACL.starred = {}
  BY DEF EmptyACL
<1>4. Grants({EmptyACL}, type) = {}
  BY <1>2, <1>3 DEF Grants
<1>5. ASSUME NEW g \in GrantsFor({}, type) PROVE FALSE
  BY GrantsOf
<1> QED
  BY <1>4, <1>5

LEMMA ParsedGrants ==
  ASSUME NEW o, NEW type \in GrantTypes, o.null = FALSE, o.type \in AclTypes, NEW rights,
         o.items \subseteq AccessItems(rights)
  PROVE  Grants(Parsed(o), type) = GrantsFor(o.items, type)
<1>1. /\ o.items = {} => Parsed(o) = {EmptyACL}
      /\ o.items # {} => Parsed(o) = {ParseACL(i) : i \in o.items}
  <2>1. ~o.null /\ (o.type \notin AclTypes => o.null)
    OBVIOUS
  <2> QED
    BY <2>1, ParsedOf, RealItems, Zenon
<1>2. CASE o.items = {}
  BY <1>1, <1>2, EmptyGrants
<1>3. CASE o.items # {}
  BY <1>1, <1>3 DEF GrantsFor
<1> QED
  BY <1>2, <1>3

LEMMA RevokedNames ==
  ASSUME NEW r \in Roles, NEW s, s.revoke = {PublicName, QuoteIdent(r)}
  PROVE  Revoked(s) = {Public, r}
<1>1. Named(PublicName) = Public
  BY RolesAssumption DEF Named, Name, PublicName
<1>2. Named(QuoteIdent(r)) = r
  BY QuotedNames
<1> QED
  BY <1>1, <1>2 DEF Revoked

LEMMA GrantFor ==
  ASSUME catalog \in Catalogs, NEW i \in DOMAIN catalog.objects, HasGrant(Object(i))
  PROVE  /\ ~Object(i).null /\ Object(i).type \in AclTypes
         /\ GrantOf(i).grants = GrantsFor(Object(i).items, Object(i).type)
         /\ Revoked(GrantOf(i)) = {Public, Object(i).owner}
<1> DEFINE o == Object(i)
<1>1. /\ o.owner \in Roles /\ o.null \in BOOLEAN
      /\ o.items \subseteq AccessItems(UNION {Rights[k] : k \in DOMAIN Rights})
      /\ o.type \notin AclTypes => o.null
  BY ObjectTypes
<1>2. ~o.null
  BY <1>1, ParsedOf, RealItems, Zenon DEF HasGrant
<1>3. o.type \in AclTypes /\ o.type \in GrantTypes /\ o.type \in OwnerTypes
  BY <1>1, <1>2 DEF GrantTypes, OwnerTypes
<1>4. /\ GrantOf(i).revoke = {PublicName} \cup ({OwnerName(o)} \ {NoName})
      /\ GrantOf(i).grants = Grants(Parsed(o), o.type)
  <2> DEFINE m == Full(o, "none")
  <2>1. m.owner = OwnerName(o) /\ m.privileges = Parsed(o)
    BY FullFields
  <2>2. GrantOf(i) = PrivilegesStatement(i, o.type, m)
    BY Zenon DEF GrantOf
  <2> HIDE DEF m, o
  <2> QED
    BY <2>1, <2>2, GrantFields
<1>5. OwnerName(o) = QuoteIdent(o.owner)
  BY <1>3 DEF OwnerName
<1>6. QuoteIdent(o.owner) # NoName
  <2>1. QuoteIdent(o.owner).name = o.owner /\ o.owner # ""
    BY <1>1, QuotedNames, RolesAssumption
  <2>2. NoName.name = ""
    BY DEF Name, NoName
  <2> QED
    BY <2>1, <2>2
<1>7. GrantOf(i).revoke = {PublicName, QuoteIdent(o.owner)}
  BY <1>4, <1>5, <1>6
<1>8. Revoked(GrantOf(i)) = {Public, o.owner}
  BY <1>1, <1>7, RevokedNames
<1>9. GrantOf(i).grants = GrantsFor(o.items, o.type)
  <2>1. o.null = FALSE
    BY <1>1, <1>2
  <2> QED
    BY <1>1, <1>3, <1>4, <2>1, ParsedGrants
<1> QED
  BY <1>2, <1>3, <1>8, <1>9

LEMMA GrantKinds ==
  ASSUME catalog \in Catalogs, NEW i \in DOMAIN catalog.objects
  PROVE  /\ GrantOf(i).object = i /\ GrantOf(i).kind = "GRANT"
         /\ ~GrantOf(i).column /\ GrantOf(i).keyword = Keyword(Object(i).type)
         /\ ColumnsOf(i).object = i /\ ColumnsOf(i).kind = "GRANT" /\ ColumnsOf(i).column
         /\ ColumnsOf(i).revoke = {PublicName} \cup ({OwnerName(Object(i))} \ {NoName})
         /\ GrantOf(i).revoke = {PublicName} \cup ({OwnerName(Object(i))} \ {NoName})
         /\ ColumnsOf(i).grants = GrantsFor(PrintedColumns(Object(i)), "COLUMN")
<1> DEFINE m == [Full(Object(i), "none") EXCEPT
                   !.privileges = {ParseACL(a) : a \in PrintedColumns(Object(i))}]
<1>1. Object(i).type # "COLUMN"
  BY ObjectTypes
<1>2. /\ GrantOf(i).object = i /\ GrantOf(i).kind = "GRANT"
      /\ ~GrantOf(i).column /\ GrantOf(i).keyword = Keyword(Object(i).type)
      /\ GrantOf(i).revoke = {PublicName} \cup ({OwnerName(Object(i))} \ {NoName})
  <2> DEFINE f == Full(Object(i), "none")
  <2>1. f.owner = OwnerName(Object(i))
    BY FullFields
  <2>2. GrantOf(i) = PrivilegesStatement(i, Object(i).type, f)
    BY Zenon DEF GrantOf
  <2> HIDE DEF f
  <2> QED
    <3>1. /\ GrantOf(i).object = i /\ GrantOf(i).kind = "GRANT"
          /\ GrantOf(i).revoke = {PublicName} \cup ({f.owner} \ {NoName})
      BY <2>2, GrantFields
    <3>2. ~GrantOf(i).column /\ GrantOf(i).keyword = Keyword(Object(i).type)
      BY <1>1, <2>2, GrantKeyword
    <3> QED
      BY <2>1, <3>1, <3>2, Zenon
<1>3. m.owner = OwnerName(Object(i)) /\ m.privileges = {ParseACL(a) : a \in PrintedColumns(Object(i))}
  BY DEF Full
<1> HIDE DEF m
<1>4. /\ ColumnsOf(i).object = i /\ ColumnsOf(i).kind = "GRANT" /\ ColumnsOf(i).column
      /\ ColumnsOf(i).revoke = {PublicName} \cup ({m.owner} \ {NoName})
      /\ ColumnsOf(i).grants = Grants(m.privileges, "COLUMN")
  <2>1. ColumnsOf(i) = PrivilegesStatement(i, "COLUMN", m)
    BY Zenon DEF ColumnsOf, m
  <2> QED
    <3>1. /\ ColumnsOf(i).object = i /\ ColumnsOf(i).kind = "GRANT"
          /\ ColumnsOf(i).revoke = {PublicName} \cup ({m.owner} \ {NoName})
          /\ ColumnsOf(i).grants = Grants(m.privileges, "COLUMN")
      BY <2>1, GrantFields
    <3>2. ColumnsOf(i).column
      BY <2>1, GrantKeyword
    <3> QED
      BY <3>1, <3>2, Zenon
<1>5. ColumnsOf(i).grants = GrantsFor(PrintedColumns(Object(i)), "COLUMN")
  BY <1>3, <1>4, Zenon DEF GrantsFor
<1> QED
  BY <1>2, <1>3, <1>4, <1>5, Zenon

LEMMA DefaultFor ==
  ASSUME catalog \in Catalogs, NEW i \in DOMAIN catalog.defaults
  PROVE  /\ DefaultOf(catalog.defaults[i]).object = 0
         /\ DefaultOf(catalog.defaults[i]).kind = "DEFAULT"
         /\ DefaultOf(catalog.defaults[i]).keyword = catalog.defaults[i].key
         /\ DefaultOf(catalog.defaults[i]).grants =
              GrantsFor(catalog.defaults[i].items, DefaultType(catalog.defaults[i]))
         /\ Revoked(DefaultOf(catalog.defaults[i])) = {Public, catalog.defaults[i].key.role}
         /\ DefaultType(catalog.defaults[i]) \in GrantTypes
         /\ DefaultType(catalog.defaults[i]) # "FOREIGN TABLE"
         /\ Keyword(DefaultType(catalog.defaults[i])) = DefaultType(catalog.defaults[i])
<1> DEFINE d == catalog.defaults[i]
           s == DefaultOf(d)
           o == Defaulted(d)
<1>1. /\ d.key.role \in Roles
      /\ DefaultType(d) \in {"TABLE", "SEQUENCE", "FUNCTION", "TYPE"}
      /\ d.items \subseteq AccessItems(Rights[DefaultType(d)])
  BY DefaultTypes
<1>2. /\ s.object = 0 /\ s.kind = "DEFAULT" /\ s.keyword = d.key
      /\ s.revoke = {PublicName, QuoteIdent(d.key.role)}
      /\ s.grants = Grants(Parsed(o), DefaultType(d))
  BY DefaultFields, Zenon
<1>3. /\ DefaultType(d) \in GrantTypes /\ DefaultType(d) # "FOREIGN TABLE"
      /\ Keyword(DefaultType(d)) = DefaultType(d) /\ DefaultType(d) \in AclTypes
  BY <1>1 DEF GrantTypes, AclTypes, Keyword
<1>4. o.null = FALSE /\ o.type = DefaultType(d) /\ o.items = d.items
  BY DEF Defaulted
<1> HIDE DEF o, s
<1>5. Grants(Parsed(o), DefaultType(d)) = GrantsFor(d.items, DefaultType(d))
  BY <1>1, <1>3, <1>4, ParsedGrants
<1>6. Revoked(s) = {Public, d.key.role}
  BY <1>1, <1>2, RevokedNames
<1> QED
  BY <1>2, <1>3, <1>5, <1>6 DEF s

\* The statements there may be: one of each kind per object, and labels.
LEMMA StepsAre ==
  ASSUME catalog \in Catalogs, NEW s \in Steps
  PROVE  \/ \E i \in DOMAIN catalog.objects :
              /\ s.object = i /\ s.kind # "DEFAULT" /\ s \in ObjectSteps(i)
              /\ \/ s = CreateOf(i)
                 \/ s = CommentOf(i) /\ ~Object(i).extension /\ Object(i).comment
                 \/ s = OwnerOf(i) /\ ~Object(i).extension /\ Object(i).type \in OwnerTypes
                 \/ s = GrantOf(i) /\ HasGrant(Object(i))
                 \/ s = ColumnsOf(i) /\ ~Object(i).extension /\ PrintedColumns(Object(i)) # {}
                 \/ ~Object(i).extension /\ \E l \in Object(i).labels : s = LabelOf(i, l)
         \/ /\ s.object = 0 /\ s.kind = "DEFAULT"
            /\ \E i \in DOMAIN catalog.defaults : s = DefaultOf(catalog.defaults[i])
<1>1. CASE \E i \in DOMAIN catalog.objects : s \in ObjectSteps(i)
  <2>1. PICK i \in DOMAIN catalog.objects : s \in ObjectSteps(i)
    BY <1>1
  <2>2. \/ s = CreateOf(i)
        \/ s = CommentOf(i) /\ ~Object(i).extension /\ Object(i).comment
        \/ s = OwnerOf(i) /\ ~Object(i).extension /\ Object(i).type \in OwnerTypes
        \/ s = GrantOf(i) /\ HasGrant(Object(i))
        \/ s = ColumnsOf(i) /\ ~Object(i).extension /\ PrintedColumns(Object(i)) # {}
        \/ ~Object(i).extension /\ \E l \in Object(i).labels : s = LabelOf(i, l)
    BY <2>1, Zenon DEF ObjectSteps
  <2>3. s.object = i /\ s.kind # "DEFAULT"
    <3>1. \A l : /\ CreateOf(i).object = i /\ CreateOf(i).kind = "CREATE"
                 /\ CommentOf(i).object = i /\ CommentOf(i).kind = "COMMENT"
                 /\ OwnerOf(i).object = i /\ OwnerOf(i).kind = "OWNER"
                 /\ LabelOf(i, l).object = i /\ LabelOf(i, l).kind = "LABEL"
      BY CreateFacts
    <3>2. /\ GrantOf(i).object = i /\ GrantOf(i).kind = "GRANT"
          /\ ColumnsOf(i).object = i /\ ColumnsOf(i).kind = "GRANT"
      BY GrantKinds
    <3> QED
      BY <2>2, <3>1, <3>2
  <2> QED
    BY <2>1, <2>2, <2>3, Zenon
<1>2. CASE \E i \in DOMAIN catalog.defaults : s = DefaultOf(catalog.defaults[i])
  BY <1>2, DefaultFor, Zenon
<1> QED
  <2> DEFINE ofObjects  == UNION {ObjectSteps(i) : i \in DOMAIN catalog.objects}
             ofDefaults == {DefaultOf(catalog.defaults[i]) : i \in DOMAIN catalog.defaults}
  <2>1. s \in ofObjects \/ s \in ofDefaults
    <3>1. Steps = ofObjects \cup ofDefaults
      BY Zenon DEF Steps
    <3> HIDE DEF ofObjects, ofDefaults
    <3> QED
      BY <3>1
  <2>2. s \in ofObjects => \E i \in DOMAIN catalog.objects : s \in ObjectSteps(i)
    BY Zenon
  <2>3. s \in ofDefaults => \E i \in DOMAIN catalog.defaults : s = DefaultOf(catalog.defaults[i])
    BY Zenon
  <2> HIDE DEF ofObjects, ofDefaults
  <2> QED
    BY <1>1, <1>2, <2>1, <2>2, <2>3, Zenon

\* And those there are when they are wanted.
LEMMA StepsThere ==
  ASSUME catalog \in Catalogs, NEW i \in DOMAIN catalog.objects
  PROVE  /\ CreateOf(i) \in Steps
         /\ HasGrant(Object(i)) => GrantOf(i) \in Steps
         /\ ~Object(i).extension =>
              /\ Object(i).comment => CommentOf(i) \in Steps
              /\ Object(i).type \in OwnerTypes => OwnerOf(i) \in Steps
              /\ PrintedColumns(Object(i)) # {} => ColumnsOf(i) \in Steps
              /\ \A l \in Object(i).labels : LabelOf(i, l) \in Steps
<1>1. CreateOf(i).kind = "CREATE" /\ GrantOf(i).kind = "GRANT" /\ CommentOf(i).kind = "COMMENT"
      /\ OwnerOf(i).kind = "OWNER" /\ ColumnsOf(i).kind = "GRANT"
      /\ \A l : LabelOf(i, l).kind = "LABEL"
  <2>1. CreateOf(i).kind = "CREATE" /\ CommentOf(i).kind = "COMMENT" /\ OwnerOf(i).kind = "OWNER"
        /\ \A l : LabelOf(i, l).kind = "LABEL"
    BY CreateFacts
  <2>2. GrantOf(i).kind = "GRANT" /\ ColumnsOf(i).kind = "GRANT"
    BY GrantKinds
  <2> QED
    BY <2>1, <2>2
<1>2. CreateOf(i) \in ObjectSteps(i)
  <2>1. CreateOf(i) # GrantOf(i)
    BY <1>1
  <2> QED
    BY <2>1, Zenon DEF ObjectSteps
<1>3. HasGrant(Object(i)) => GrantOf(i) \in ObjectSteps(i)
  BY Zenon DEF ObjectSteps
<1>4. ASSUME ~Object(i).extension
      PROVE  /\ Object(i).comment => CommentOf(i) \in ObjectSteps(i)
             /\ Object(i).type \in OwnerTypes => OwnerOf(i) \in ObjectSteps(i)
             /\ PrintedColumns(Object(i)) # {} => ColumnsOf(i) \in ObjectSteps(i)
             /\ \A l \in Object(i).labels : LabelOf(i, l) \in ObjectSteps(i)
  <2>1. /\ CommentOf(i) # OwnerOf(i) /\ CommentOf(i) # ColumnsOf(i) /\ OwnerOf(i) # ColumnsOf(i)
        /\ \A l : LabelOf(i, l) # CommentOf(i) /\ LabelOf(i, l) # OwnerOf(i) /\ LabelOf(i, l) # ColumnsOf(i)
    BY <1>1
  <2>2. Object(i).comment => CommentOf(i) \in ObjectSteps(i)
    BY <1>4, <2>1, Zenon DEF ObjectSteps
  <2>3. Object(i).type \in OwnerTypes => OwnerOf(i) \in ObjectSteps(i)
    BY <1>4, <2>1, Zenon DEF ObjectSteps
  <2>4. PrintedColumns(Object(i)) # {} => ColumnsOf(i) \in ObjectSteps(i)
    BY <1>4, <2>1, Zenon DEF ObjectSteps
  <2>5. \A l \in Object(i).labels : LabelOf(i, l) \in ObjectSteps(i)
    BY <1>4, <2>1, Zenon DEF ObjectSteps
  <2> QED
    BY <2>2, <2>3, <2>4, <2>5
<1>5. ObjectSteps(i) \subseteq Steps
  BY Zenon DEF Steps
<1> QED
  BY <1>2, <1>3, <1>4, <1>5, Zenon

\* Every role a statement names is there.
LEMMA StepsReadable ==
  ASSUME catalog \in Catalogs, NEW s \in Steps
  PROVE  Readable(s)
<1>1. Public # "none" /\ "none" \notin Roles
  BY RolesAssumption DEF Public
<1>2. \A r \in Roles : Named(QuoteIdent(r)) = r
  BY QuotedNames
<1>3. Named(PublicName) = Public
  BY RolesAssumption DEF Named, Name, PublicName
<1>4. ASSUME NEW items, NEW rights, items \subseteq AccessItems(rights), NEW type,
             NEW g \in GrantsFor(items, type)
      PROVE  Named(g.to) # "none"
  <2>1. PICK a \in items : g = PlainGrant(a, type) \/ g = StarredGrant(a, type)
    BY GrantsOf
  <2>2. a.grantee \in Roles \cup {Public}
    BY <1>4 DEF AccessItems
  <2>3. g.to = GranteeName(QuotedGrantee(ItemName(a.grantee)))
    BY <2>1, GrantFacts
  <2>4. Named(g.to) = a.grantee
    BY <2>2, <2>3, GranteeNames
  <2> QED
    BY <2>2, <2>4, <1>1
<1>5. ASSUME NEW o, o.owner \in Roles
      PROVE  \A id \in {PublicName} \cup ({OwnerName(o)} \ {NoName}) : Named(id) # "none"
  BY <1>1, <1>2, <1>3, <1>5 DEF OwnerName
<1>6. CASE \E i \in DOMAIN catalog.objects :
              /\ \/ s = CreateOf(i)
                 \/ s = CommentOf(i)
                 \/ \E l \in Object(i).labels : s = LabelOf(i, l)
  <2>1. s.revoke = {} /\ s.grants = {} /\ s.kind # "OWNER"
    <3>1. ASSUME NEW i, NEW l
          PROVE  /\ CreateOf(i).revoke = {} /\ CreateOf(i).grants = {} /\ CreateOf(i).kind = "CREATE"
                 /\ CommentOf(i).revoke = {} /\ CommentOf(i).grants = {} /\ CommentOf(i).kind = "COMMENT"
                 /\ LabelOf(i, l).revoke = {} /\ LabelOf(i, l).grants = {} /\ LabelOf(i, l).kind = "LABEL"
      BY CreateFacts
    <3> QED
      BY <1>6, <3>1
  <2> QED
    BY <2>1 DEF Readable
<1>7. CASE \E i \in DOMAIN catalog.objects : s = OwnerOf(i) /\ Object(i).type \in OwnerTypes
  <2>1. PICK i \in DOMAIN catalog.objects : s = OwnerOf(i) /\ Object(i).type \in OwnerTypes
    BY <1>7
  <2>2. s.to = QuoteIdent(Object(i).owner) /\ s.kind = "OWNER" /\ s.revoke = {} /\ s.grants = {}
    BY <2>1, CreateFacts DEF OwnerName
  <2>3. Object(i).owner \in Roles
    BY ObjectTypes
  <2>4. Named(s.to) # "none"
    BY <2>2, <2>3, <1>1, <1>2
  <2> QED
    BY <2>2, <2>4 DEF Readable
<1>8. CASE \E i \in DOMAIN catalog.objects : s = GrantOf(i) /\ HasGrant(Object(i))
  <2>1. PICK i \in DOMAIN catalog.objects : s = GrantOf(i) /\ HasGrant(Object(i))
    BY <1>8
  <2>2. /\ Object(i).owner \in Roles
        /\ Object(i).items \subseteq AccessItems(UNION {Rights[k] : k \in DOMAIN Rights})
    BY ObjectTypes
  <2>3. s.grants = GrantsFor(Object(i).items, Object(i).type)
    BY <2>1, GrantFor
  <2>4. s.kind = "GRANT" /\ s.revoke = {PublicName} \cup ({OwnerName(Object(i))} \ {NoName})
    BY <2>1, GrantKinds
  <2>5. \A g \in s.grants : Named(g.to) # "none"
    BY <2>2, <2>3, <1>4
  <2>6. \A id \in s.revoke : Named(id) # "none"
    BY <2>2, <2>4, <1>5
  <2> QED
    BY <2>4, <2>5, <2>6 DEF Readable
<1>9. CASE \E i \in DOMAIN catalog.objects : s = ColumnsOf(i)
  <2>1. PICK i \in DOMAIN catalog.objects : s = ColumnsOf(i)
    BY <1>9
  <2>2. Object(i).owner \in Roles /\ PrintedColumns(Object(i)) \subseteq AccessItems(Rights["COLUMN"])
    BY ObjectTypes
  <2>3. /\ s.grants = GrantsFor(PrintedColumns(Object(i)), "COLUMN") /\ s.kind = "GRANT"
        /\ s.revoke = {PublicName} \cup ({OwnerName(Object(i))} \ {NoName})
    BY <2>1, GrantKinds
  <2>5. \A g \in s.grants : Named(g.to) # "none"
    BY <2>2, <2>3, <1>4
  <2>6. \A id \in s.revoke : Named(id) # "none"
    BY <2>2, <2>3, <1>5
  <2> QED
    BY <2>3, <2>5, <2>6 DEF Readable
<1>10. CASE \E i \in DOMAIN catalog.defaults : s = DefaultOf(catalog.defaults[i])
  <2>1. PICK i \in DOMAIN catalog.defaults : s = DefaultOf(catalog.defaults[i])
    BY <1>10
  <2> DEFINE d == catalog.defaults[i]
  <2>2. d.key.role \in Roles /\ d.items \subseteq AccessItems(Rights[DefaultType(d)])
    BY DefaultTypes
  <2>3. s.kind = "DEFAULT" /\ s.grants = GrantsFor(d.items, DefaultType(d)) /\ Revoked(s) = {Public, d.key.role}
    BY <2>1, DefaultFor
  <2>5. \A g \in s.grants : Named(g.to) # "none"
    BY <2>2, <2>3, <1>4, Zenon
  <2>6. \A id \in s.revoke : Named(id) # "none"
    BY <2>2, <2>3, <1>1, Zenon DEF Revoked
  <2> QED
    BY <2>3, <2>5, <2>6 DEF Readable
<1> QED
  BY StepsAre, <1>6, <1>7, <1>8, <1>9, <1>10, Zenon

-----------------------------------------------------------------------------
(* Privileges: sequences of statements                                     *)

LEMMA RankFacts ==
  ASSUME NEW s
  PROVE  /\ Rank(s) \in 0..6
         /\ s.kind = "CREATE" <=> Rank(s) = 0
         /\ s.kind = "COMMENT" => Rank(s) = 1
         /\ s.kind = "OWNER" => Rank(s) = 2
         /\ s.kind = "GRANT" /\ ~s.column => Rank(s) = 3
         /\ s.kind = "LABEL" => Rank(s) = 4
         /\ s.kind = "GRANT" /\ s.column => Rank(s) = 5
         /\ s.kind = "DEFAULT" => Rank(s) = 6
BY DEF Rank

LEMMA TailFacts ==
  ASSUME NEW S, NEW seq \in Seq(S), seq # <<>>, InOrder(seq)
  PROVE  /\ Tail(seq) \in Seq(S) /\ Head(seq) \in S /\ Occurs(Head(seq), seq)
         /\ InOrder(Tail(seq))
         /\ \A x : Occurs(x, Tail(seq)) => Occurs(x, seq)
         /\ \A x : Occurs(x, seq) /\ x # Head(seq) => Occurs(x, Tail(seq))
         /\ \A x : Occurs(x, Tail(seq))
                   /\ (x.object = Head(seq).object \/ Head(seq).kind = "DEFAULT")
              => Rank(Head(seq)) <= Rank(x) /\ x.kind # "CREATE"
         /\ \A k \in DOMAIN Tail(seq) : Occurs(Tail(seq)[k], seq)
<1>1. /\ Len(seq) \in Nat \ {0} /\ Tail(seq) \in Seq(S) /\ Head(seq) \in S
      /\ DOMAIN seq = 1..Len(seq) /\ DOMAIN Tail(seq) = 1..(Len(seq) - 1)
      /\ Head(seq) = seq[1]
  OBVIOUS
<1>2. \A k \in 1..(Len(seq) - 1) : k + 1 \in DOMAIN seq /\ Tail(seq)[k] = seq[k + 1]
  BY <1>1
<1>3. InOrder(Tail(seq))
  <2> SUFFICES ASSUME NEW j \in DOMAIN Tail(seq), NEW k \in DOMAIN Tail(seq), j < k,
                      Tail(seq)[j].object = Tail(seq)[k].object \/ Tail(seq)[j].kind = "DEFAULT"
               PROVE  Rank(Tail(seq)[j]) <= Rank(Tail(seq)[k]) /\ Tail(seq)[k].kind # "CREATE"
    BY DEF InOrder
  <2>1. j + 1 \in DOMAIN seq /\ k + 1 \in DOMAIN seq /\ j + 1 < k + 1
        /\ Tail(seq)[j] = seq[j + 1] /\ Tail(seq)[k] = seq[k + 1]
    BY <1>1, <1>2
  <2> QED
    BY <2>1 DEF InOrder
<1>4. \A x : Occurs(x, Tail(seq)) => Occurs(x, seq)
  BY <1>1, <1>2 DEF Occurs
<1>5. ASSUME NEW x, Occurs(x, seq), x # Head(seq)
      PROVE  Occurs(x, Tail(seq))
  <2>1. PICK k \in 1..Len(seq) : seq[k] = x
    BY <1>1, <1>5 DEF Occurs
  <2>2. k # 1
    BY <1>1, <1>5, <2>1
  <2>3. k - 1 \in 1..(Len(seq) - 1)
    BY <1>1, <2>2
  <2>4. Tail(seq)[k - 1] = seq[(k - 1) + 1] /\ (k - 1) + 1 = k
    BY <1>2, <2>3
  <2> QED
    BY <1>1, <2>1, <2>3, <2>4 DEF Occurs
<1>6. ASSUME NEW x, Occurs(x, Tail(seq)), x.object = Head(seq).object \/ Head(seq).kind = "DEFAULT"
      PROVE  Rank(Head(seq)) <= Rank(x) /\ x.kind # "CREATE"
  <2>1. PICK k \in 1..(Len(seq) - 1) : Tail(seq)[k] = x
    BY <1>1, <1>6 DEF Occurs
  <2>2. 1 \in DOMAIN seq /\ k + 1 \in DOMAIN seq /\ 1 < k + 1 /\ seq[k + 1] = x
    BY <1>1, <1>2, <2>1
  <2> QED
    BY <1>1, <1>6, <2>2 DEF InOrder
<1>7. \A k \in DOMAIN Tail(seq) : Occurs(Tail(seq)[k], seq)
  BY <1>1, <1>2 DEF Occurs
<1>8. Occurs(Head(seq), seq)
  BY <1>1 DEF Occurs
<1> QED
  BY <1>1, <1>3, <1>4, <1>5, <1>6, <1>7, <1>8

LEMMA JoinFacts ==
  ASSUME NEW S, NEW u \in Seq(S), NEW v \in Seq(S)
  PROVE  /\ u \o v \in Seq(S)
         /\ \A x : Occurs(x, u \o v) <=> Occurs(x, u) \/ Occurs(x, v)
         /\ InOrder(u) /\ InOrder(v) =>
              \/ InOrder(u \o v)
              \/ \E x, y : /\ Occurs(x, u) /\ Occurs(y, v)
                           /\ x.object = y.object \/ x.kind = "DEFAULT"
                           /\ ~(Rank(x) <= Rank(y) /\ y.kind # "CREATE")
<1> DEFINE w == u \o v
<1>1. /\ w \in Seq(S) /\ Len(u) \in Nat /\ Len(v) \in Nat /\ Len(w) = Len(u) + Len(v)
      /\ DOMAIN u = 1..Len(u) /\ DOMAIN v = 1..Len(v) /\ DOMAIN w = 1..Len(w)
  OBVIOUS
<1>2. \A k \in 1..Len(u) : w[k] = u[k]
  OBVIOUS
<1>3. \A k \in 1..Len(v) : w[Len(u) + k] = v[k]
  OBVIOUS
<1> HIDE DEF w
<1>4. ASSUME NEW k \in DOMAIN w
      PROVE  \/ k \in DOMAIN u /\ w[k] = u[k]
             \/ k > Len(u) /\ k - Len(u) \in DOMAIN v /\ w[k] = v[k - Len(u)]
  <2>1. CASE k <= Len(u)
    BY <1>1, <1>2, <2>1
  <2>2. CASE k > Len(u)
    <3>1. k - Len(u) \in 1..Len(v) /\ Len(u) + (k - Len(u)) = k
      BY <1>1, <2>2
    <3>2. w[Len(u) + (k - Len(u))] = v[k - Len(u)]
      BY <1>3, <3>1
    <3> QED
      BY <1>1, <2>2, <3>1, <3>2
  <2> QED
    BY <1>1, <2>1, <2>2
<1>5. \A x : Occurs(x, w) => Occurs(x, u) \/ Occurs(x, v)
  BY <1>4 DEF Occurs
<1>6. ASSUME NEW x, Occurs(x, u) PROVE Occurs(x, w)
  <2>1. PICK k \in 1..Len(u) : u[k] = x
    BY <1>1, <1>6 DEF Occurs
  <2>2. k \in DOMAIN w /\ w[k] = x
    BY <1>1, <1>2, <2>1
  <2> QED
    BY <2>2 DEF Occurs
<1>7. ASSUME NEW x, Occurs(x, v) PROVE Occurs(x, w)
  <2>1. PICK k \in 1..Len(v) : v[k] = x
    BY <1>1, <1>7 DEF Occurs
  <2>2. Len(u) + k \in DOMAIN w /\ w[Len(u) + k] = x
    BY <1>1, <1>3, <2>1
  <2> QED
    BY <2>2 DEF Occurs
<1>8. ASSUME InOrder(u), InOrder(v),
             \A x, y : Occurs(x, u) /\ Occurs(y, v) /\ (x.object = y.object \/ x.kind = "DEFAULT")
               => Rank(x) <= Rank(y) /\ y.kind # "CREATE"
      PROVE  InOrder(w)
  <2> SUFFICES ASSUME NEW j \in DOMAIN w, NEW k \in DOMAIN w, j < k,
                      w[j].object = w[k].object \/ w[j].kind = "DEFAULT"
               PROVE  Rank(w[j]) <= Rank(w[k]) /\ w[k].kind # "CREATE"
    BY DEF InOrder
  <2>1. CASE j \in DOMAIN u /\ k \in DOMAIN u
    <3>1. w[j] = u[j] /\ w[k] = u[k]
      BY <1>1, <1>2, <2>1
    <3> QED
      BY <1>8, <2>1, <3>1 DEF InOrder
  <2>2. CASE j \in DOMAIN u /\ k \notin DOMAIN u
    <3>1. w[j] = u[j] /\ k - Len(u) \in DOMAIN v /\ w[k] = v[k - Len(u)]
      BY <1>1, <1>2, <1>4, <2>2
    <3>2. Occurs(w[j], u) /\ Occurs(w[k], v)
      BY <2>2, <3>1 DEF Occurs
    <3> QED
      BY <1>8, <3>2
  <2>3. CASE j \notin DOMAIN u
    <3>1. j > Len(u) /\ k > Len(u) /\ j - Len(u) \in DOMAIN v /\ k - Len(u) \in DOMAIN v
          /\ w[j] = v[j - Len(u)] /\ w[k] = v[k - Len(u)] /\ j - Len(u) < k - Len(u)
      <4>1. j \in Nat /\ k \in Nat
        BY <1>1
      <4>2. j > Len(u)
        BY <1>4, <2>3
      <4>3. k > Len(u) /\ k \notin DOMAIN u
        BY <4>1, <4>2, <1>1
      <4> QED
        BY <1>1, <1>4, <2>3, <4>1, <4>2, <4>3
    <3> QED
      BY <1>8, <3>1 DEF InOrder
  <2> QED
    BY <2>1, <2>2, <2>3
<1>9. InOrder(u) /\ InOrder(v) =>
              \/ InOrder(w)
              \/ \E x, y : /\ Occurs(x, u) /\ Occurs(y, v)
                           /\ x.object = y.object \/ x.kind = "DEFAULT"
                           /\ ~(Rank(x) <= Rank(y) /\ y.kind # "CREATE")
  BY <1>8, Zenon
<1> QED
  BY <1>1, <1>5, <1>6, <1>7, <1>9, Zenon DEF w

\* Statements of one object with ranks in a range, in order.
Block(u, i, low, high) ==
  /\ u \in Seq(Steps) /\ InOrder(u)
  /\ \A x : Occurs(x, u) => /\ x.object = i /\ x.kind # "DEFAULT"
                            /\ low <= Rank(x) /\ Rank(x) <= high

LEMMA OneBlock ==
  ASSUME NEW s \in Steps, s.kind # "DEFAULT"
  PROVE  /\ Block(<<s>>, s.object, Rank(s), Rank(s))
         /\ \A x : Occurs(x, <<s>>) <=> x = s
<1> DEFINE u == <<s>>
<1>1. u \in Seq(Steps) /\ DOMAIN u = {1} /\ u[1] = s
  OBVIOUS
<1> HIDE DEF u
<1>2. InOrder(u)
  BY <1>1 DEF InOrder
<1>3. \A x : Occurs(x, u) <=> x = s
  BY <1>1 DEF Occurs
<1>4. Rank(s) \in 0..6
  BY RankFacts
<1>5. Block(u, s.object, Rank(s), Rank(s))
  BY <1>1, <1>2, <1>3, <1>4 DEF Block
<1> QED
  BY <1>3, <1>5 DEF u

LEMMA NoBlock ==
  ASSUME NEW i, NEW low, NEW high
  PROVE  Block(<<>>, i, low, high) /\ \A x : ~Occurs(x, <<>>)
<1>1. <<>> \in Seq(Steps) /\ DOMAIN <<>> = {}
  OBVIOUS
<1> QED
  BY <1>1 DEF Block, InOrder, Occurs

LEMMA JoinBlocks ==
  ASSUME NEW i, NEW u, NEW v, NEW a \in Nat, NEW b \in Nat, NEW c \in Nat, NEW d \in Nat,
         Block(u, i, a, b), Block(v, i, c, d), a <= b, b < c, c <= d
  PROVE  /\ Block(u \o v, i, a, d)
         /\ \A x : Occurs(x, u \o v) <=> Occurs(x, u) \/ Occurs(x, v)
<1>1. u \in Seq(Steps) /\ v \in Seq(Steps) /\ InOrder(u) /\ InOrder(v)
  BY DEF Block
<1>2. \A x : Occurs(x, u \o v) <=> Occurs(x, u) \/ Occurs(x, v)
  BY <1>1, JoinFacts
<1>3. u \o v \in Seq(Steps)
  BY <1>1, JoinFacts
<1>4. ASSUME NEW x, NEW y, Occurs(x, u), Occurs(y, v)
      PROVE  Rank(x) <= Rank(y) /\ y.kind # "CREATE"
  <2>1. Rank(x) \in 0..6 /\ Rank(y) \in 0..6 /\ (y.kind = "CREATE" => Rank(y) = 0)
    BY RankFacts
  <2>2. Rank(x) <= b /\ c <= Rank(y)
    BY <1>4 DEF Block
  <2> QED
    BY <2>1, <2>2
<1>5. InOrder(u \o v)
  BY <1>1, <1>4, JoinFacts
<1>6. ASSUME NEW x, Occurs(x, u \o v)
      PROVE  x.object = i /\ x.kind # "DEFAULT" /\ a <= Rank(x) /\ Rank(x) <= d
  <2>1. Rank(x) \in 0..6
    BY RankFacts
  <2>2. CASE Occurs(x, u)
    BY <2>1, <2>2 DEF Block
  <2>3. CASE Occurs(x, v)
    BY <2>1, <2>3 DEF Block
  <2> QED
    BY <1>2, <1>6, <2>2, <2>3
<1> QED
  BY <1>2, <1>3, <1>5, <1>6 DEF Block

-----------------------------------------------------------------------------
(* Privileges: the steps                                                   *)

LEMMA CatalogSame ==
  ASSUME catalog' = catalog
  PROVE  /\ \A i : /\ Object(i)' = Object(i) /\ CreateOf(i)' = CreateOf(i) /\ CommentOf(i)' = CommentOf(i)
                   /\ OwnerOf(i)' = OwnerOf(i) /\ GrantOf(i)' = GrantOf(i)
                   /\ ColumnsOf(i)' = ColumnsOf(i)
                   /\ \A l : LabelOf(i, l)' = LabelOf(i, l)
                   /\ ObjectSteps(i)' = ObjectSteps(i)
         /\ Steps' = Steps
<1>1. \A i : Object(i)' = Object(i)
  BY DEF Object
<1>2. \A i, l : /\ CreateOf(i)' = CreateOf(i) /\ CommentOf(i)' = CommentOf(i)
                /\ LabelOf(i, l)' = LabelOf(i, l)
  BY DEF CreateOf, CommentOf, LabelOf
<1>3. \A i : OwnerOf(i)' = OwnerOf(i)
  BY <1>1 DEF OwnerOf, OwnerName
<1>4. \A i : GrantOf(i)' = GrantOf(i) /\ ColumnsOf(i)' = ColumnsOf(i)
  BY <1>1 DEF GrantOf, ColumnsOf
<1>5. \A i : ObjectSteps(i)' = ObjectSteps(i)
  BY <1>1, <1>2, <1>3, <1>4 DEF ObjectSteps
<1>6. Steps' = Steps
  BY <1>5 DEF Steps
<1> QED
  BY <1>1, <1>2, <1>3, <1>4, <1>5, <1>6, Zenon

LEMMA EmptyFacts ==
  /\ <<>> \in Seq(Steps) /\ DOMAIN <<>> = {} /\ (\A x : ~Occurs(x, <<>>)) /\ InOrder(<<>>)
<1>1. <<>> \in Seq(Steps) /\ DOMAIN <<>> = {}
  OBVIOUS
<1> QED
  BY <1>1 DEF Occurs, InOrder

LEMMA PrivilegesStart ==
  ASSUME PrivilegesInit
  PROVE  PrivilegesIInv
<1> USE DEF PrivilegesInit
<1>1. /\ DOMAIN metadataMap = {} /\ DOMAIN target = {} /\ DOMAIN targetDefaults = {}
      /\ DOMAIN script = {} /\ DOMAIN statements = {}
  BY EmptyFacts
<1>2. ScriptTypes
  BY EmptyFacts DEF ScriptTypes
<1>3. CollectInv
  <2> DEFINE Some(i) == {<<i, r>> : r \in RowsOf(catalog.objects[i])}
  <2>1. rows = UNION {Some(i) : i \in DOMAIN catalog.objects}
    OBVIOUS
  <2>2. \A i, z : z \in Some(i) <=> \E r \in RowsOf(Object(i)) : z = <<i, r>>
    BY Zenon DEF Object
  <2> HIDE DEF Some
  <2>3. \A i \in DOMAIN catalog.objects : i \in Nat \ {0}
    BY ObjectTypes
  <2>4. ASSUME NEW r \in rows
        PROVE  \E i \in DOMAIN catalog.objects : i >= 0 /\ \E x \in RowsOf(Object(i)) : r = <<i, x>>
    <3>1. PICK i \in DOMAIN catalog.objects : r \in Some(i)
      BY <2>1
    <3> QED
      BY <2>2, <2>3, <3>1
  <2>5. ASSUME NEW i \in DOMAIN catalog.objects, NEW r \in RowsOf(Object(i))
        PROVE  <<i, r>> \in rows
    <3>1. <<i, r>> \in Some(i)
      BY <2>2
    <3> QED
      BY <2>1, <3>1
  <2>6. \A i \in DOMAIN catalog.objects : RowsLeft(i) = RowsOf(Object(i))
    BY <2>5 DEF RowsLeft
  <2>7. \A i \in DOMAIN catalog.objects : ~(i < 0) /\ i # 0 /\ i \notin DOMAIN metadataMap
    BY <1>1, <2>3
  <2> HIDE DEF PrivilegesInit
  <2>8. next = 1 /\ statements = <<>> /\ script = <<>> /\ currentUniqueID = 0
    BY DEF PrivilegesInit
  <2> QED
    BY <2>4, <2>6, <2>7, <2>8 DEF CollectInv
<1>4. pc = "query" /\ refused = FALSE
  OBVIOUS
<1>5. MapInv
  BY <1>4 DEF MapInv
<1>6. PrintInv
  BY <1>1, <1>4, EmptyFacts DEF PrintInv
<1>7. ObjectInv
  BY <1>1, <1>4 DEF ObjectInv
<1>8. DefaultInv
  BY <1>1, <1>4 DEF DefaultInv
<1> QED
  BY <1>2, <1>3, <1>5, <1>6, <1>7, <1>8 DEF PrivilegesIInv

LEMMA TakeRow ==
  ASSUME NEW left, NEW x \in left
  PROVE  RowPrivileges(x) \cup UNION {RowPrivileges(r) : r \in left \ {x}}
           = UNION {RowPrivileges(r) : r \in left}
OBVIOUS

LEMMA WithFacts ==
  ASSUME NEW f, NEW k, NEW value
  PROVE  /\ DOMAIN With(f, k, value) = DOMAIN f \cup {k}
         /\ With(f, k, value)[k] = value
         /\ \A x \in DOMAIN f : x # k => With(f, k, value)[x] = f[x]
BY DEF With

LEMMA FullAgain ==
  ASSUME NEW o, NEW l
  PROVE  /\ \A m : m = [Full(o, l) EXCEPT !.privileges = m.privileges] /\ m.privileges = Parsed(o)
                   => m = Full(o, l)
         /\ \A p : LET m == [Full(o, l) EXCEPT !.privileges = p]
                   IN  m.privileges = p /\ m = [Full(o, l) EXCEPT !.privileges = m.privileges]
BY DEF Full

\* The object before has all its rows: it is put into the map as it is.
LEMMA CollectedKnown ==
  ASSUME ScriptTypes, CollectInv, pc = "query",
         NEW i \in Nat, i > currentUniqueID,
         \A s \in rows : i <= s[1]
  PROVE  \A j \in DOMAIN catalog.objects :
           /\ j < i => IF j \in DOMAIN Collected THEN Describes(Collected[j], Object(j))
                       ELSE RowsOf(Object(j)) = {}
           /\ j >= i => j \notin DOMAIN Collected
<1> DEFINE c == currentUniqueID
<1>1. catalog \in Catalogs
  BY DEF ScriptTypes
<1>2. DOMAIN catalog.objects \subseteq Nat \ {0} /\ c \in {0} \cup DOMAIN catalog.objects
  BY <1>1, ObjectTypes DEF CollectInv
<1>3. c \in Nat /\ \A j \in DOMAIN catalog.objects : j \in Nat \ {0}
  BY <1>2
<1>4. \A j \in DOMAIN catalog.objects : j < i => RowsLeft(j) = {}
  <2> SUFFICES ASSUME NEW j \in DOMAIN catalog.objects, j < i, NEW r, <<j, r>> \in rows
               PROVE  FALSE
    BY DEF RowsLeft
  <2>1. i <= <<j, r>>[1]
    OBVIOUS
  <2> QED
    BY <1>3, <2>1
<1>5. ASSUME c # 0
      PROVE  Describes(metadata, Object(c))
  <2>1. c \in DOMAIN catalog.objects /\ c < i
    BY <1>2, <1>3, <1>5
  <2>2. /\ \E l \in LabelsOf(Object(c)) :
              metadata = [Full(Object(c), l) EXCEPT !.privileges = metadata.privileges]
        /\ metadata.privileges \cup UNION {RowPrivileges(r) : r \in RowsLeft(c)} = Parsed(Object(c))
    BY <2>1 DEF CollectInv
  <2>3. metadata.privileges = Parsed(Object(c))
    BY <1>4, <2>1, <2>2
  <2>4. PICK l \in LabelsOf(Object(c)) :
          metadata = [Full(Object(c), l) EXCEPT !.privileges = metadata.privileges]
    BY <2>2
  <2>5. metadata = Full(Object(c), l)
    BY <2>3, <2>4, FullAgain, Zenon
  <2> QED
    BY <2>4, <2>5 DEF Describes
<1> SUFFICES ASSUME NEW j \in DOMAIN catalog.objects
             PROVE  /\ j < i => IF j \in DOMAIN Collected THEN Describes(Collected[j], Object(j))
                                ELSE RowsOf(Object(j)) = {}
                    /\ j >= i => j \notin DOMAIN Collected
  OBVIOUS
<1>6. /\ j < c => Known(j)
      /\ j >= c => j \notin DOMAIN metadataMap
      /\ j > c => RowsLeft(j) = RowsOf(Object(j))
  BY DEF CollectInv
<1>7. /\ c = 0 => Collected = metadataMap
      /\ c # 0 => /\ DOMAIN Collected = DOMAIN metadataMap \cup {c}
                  /\ Collected[c] = metadata
                  /\ \A x \in DOMAIN metadataMap : x # c => Collected[x] = metadataMap[x]
  <2>1. /\ c = 0 => Collected = metadataMap
        /\ c # 0 => Collected = With(metadataMap, c, metadata)
    BY DEF Collected
  <2>2. /\ DOMAIN With(metadataMap, c, metadata) = DOMAIN metadataMap \cup {c}
        /\ With(metadataMap, c, metadata)[c] = metadata
        /\ \A x \in DOMAIN metadataMap : x # c => With(metadataMap, c, metadata)[x] = metadataMap[x]
    BY DEF With
  <2> QED
    BY <2>1, <2>2
<1>8. CASE j < c
  BY <1>3, <1>6, <1>7, <1>8 DEF Known
<1>9. CASE j = c
  BY <1>3, <1>5, <1>7, <1>9
<1>10. CASE j > c
  BY <1>3, <1>4, <1>6, <1>7, <1>10
<1> QED
  BY <1>3, <1>8, <1>9, <1>10

LEMMA NextRowKeeps ==
  ASSUME PrivilegesIInv, NextRow
  PROVE  PrivilegesIInv'
<1> DEFINE c == currentUniqueID
<1>1. /\ pc = "query" /\ pc' = "query" /\ catalog' = catalog
      /\ next' = next /\ statements' = statements /\ script' = script
      /\ target' = target /\ targetDefaults' = targetDefaults /\ refused' = refused
  BY DEF NextRow, printVars
<1>2. PICK r \in rows :
        /\ \A s \in rows : r[1] <= s[1]
        /\ rows' = rows \ {r}
        /\ currentUniqueID' = r[1]
        /\ IF r[1] # c
           THEN metadataMap' = Collected /\ metadata' = StartOf(r[2])
           ELSE /\ metadata' = [metadata EXCEPT !.privileges = @ \cup RowPrivileges(r[2])]
                /\ metadataMap' = metadataMap
  BY DEF NextRow
<1>3. ScriptTypes /\ CollectInv /\ PrintInv /\ DefaultInv /\ ObjectInv
  BY DEF PrivilegesIInv
<1>4. catalog \in Catalogs
  BY <1>3 DEF ScriptTypes
<1>5. PICK i \in DOMAIN catalog.objects : i >= c /\ \E x \in RowsOf(Object(i)) : r = <<i, x>>
  BY <1>1, <1>3 DEF CollectInv
<1>6. PICK x \in RowsOf(Object(i)) : r = <<i, x>>
  BY <1>5
<1>7. r[1] = i /\ r[2] = x /\ x \in RowsLeft(i)
  BY <1>6 DEF RowsLeft
<1>8. DOMAIN catalog.objects \subseteq Nat \ {0} /\ c \in Nat /\ i \in Nat \ {0}
  BY <1>1, <1>3, <1>4, ObjectTypes DEF CollectInv
<1>9. \A j \in DOMAIN catalog.objects : RowsLeft(j)' = {y \in RowsOf(Object(j)) : <<j, y>> \in rows'}
  BY <1>1, CatalogSame DEF RowsLeft
<1>10. \A j \in DOMAIN catalog.objects : j # i => RowsLeft(j)' = RowsLeft(j)
  BY <1>2, <1>6, <1>9 DEF RowsLeft
<1>11. RowsLeft(i)' = RowsLeft(i) \ {x}
  <2>1. \A y : <<i, y>> \in rows' <=> <<i, y>> \in rows /\ y # x
    BY <1>2, <1>6
  <2> QED
    BY <1>9, <2>1 DEF RowsLeft
<1>12. RowPrivileges(x) \cup UNION {RowPrivileges(s) : s \in RowsLeft(i)'}
         = UNION {RowPrivileges(s) : s \in RowsLeft(i)}
  BY <1>7, <1>11, TakeRow, Zenon
<1>13. /\ \E l \in LabelsOf(Object(i)) :
             metadata' = [Full(Object(i), l) EXCEPT !.privileges = metadata'.privileges]
       /\ metadata'.privileges \cup UNION {RowPrivileges(s) : s \in RowsLeft(i)'} = Parsed(Object(i))
  <2>1. CASE i # c
    <3>1. RowsLeft(i) = RowsOf(Object(i))
      BY <1>1, <1>3, <1>5, <1>8, <2>1 DEF CollectInv
    <3>2. /\ x.owner = OwnerName(Object(i)) /\ x.comment = Object(i).comment
          /\ x.label \in LabelsOf(Object(i))
      BY <1>4, ObjectTypes, RowFacts
    <3>3. metadata' = [owner |-> OwnerName(Object(i)), comment |-> Object(i).comment,
                       label |-> x.label, privileges |-> RowPrivileges(x)]
      BY <1>2, <1>7, <2>1, <3>2 DEF StartOf
    <3>4. metadata'.privileges = RowPrivileges(x)
      BY <3>3
    <3>5. metadata' = [Full(Object(i), x.label) EXCEPT !.privileges = metadata'.privileges]
      BY <3>3, <3>4 DEF Full
    <3>6. metadata'.privileges \cup UNION {RowPrivileges(s) : s \in RowsLeft(i)'}
            = UNION {RowPrivileges(s) : s \in RowsOf(Object(i))}
      BY <1>12, <3>1, <3>4
    <3> QED
      BY <3>2, <3>5, <3>6 DEF Parsed
  <2>2. CASE i = c
    <3>1. /\ \E l \in LabelsOf(Object(i)) :
                metadata = [Full(Object(i), l) EXCEPT !.privileges = metadata.privileges]
          /\ metadata.privileges \cup UNION {RowPrivileges(s) : s \in RowsLeft(i)} = Parsed(Object(i))
      BY <1>1, <1>3, <2>2 DEF CollectInv
    <3>2. PICK l \in LabelsOf(Object(i)) :
            metadata = [Full(Object(i), l) EXCEPT !.privileges = metadata.privileges]
      BY <3>1
    <3>3. metadata' = [metadata EXCEPT !.privileges = metadata.privileges \cup RowPrivileges(x)]
      BY <1>2, <1>7, <2>2
    <3>4. metadata' = [Full(Object(i), l) EXCEPT !.privileges = metadata.privileges \cup RowPrivileges(x)]
      BY <3>2, <3>3 DEF Full
    <3>5. /\ metadata'.privileges = metadata.privileges \cup RowPrivileges(x)
          /\ metadata' = [Full(Object(i), l) EXCEPT !.privileges = metadata'.privileges]
      BY <3>4 DEF Full
    <3>6. (metadata.privileges \cup RowPrivileges(x)) \cup UNION {RowPrivileges(s) : s \in RowsLeft(i)'}
            = metadata.privileges \cup UNION {RowPrivileges(s) : s \in RowsLeft(i)}
      BY <1>12
    <3> QED
      BY <3>1, <3>5, <3>6
  <2> QED
    BY <2>1, <2>2
<1>14. \A j \in DOMAIN catalog.objects :
         /\ j < i => Known(j)'
         /\ j >= i => j \notin DOMAIN metadataMap'
  <2>1. CASE i # c
    <3>1. \A j \in DOMAIN catalog.objects :
            /\ j < i => IF j \in DOMAIN Collected THEN Describes(Collected[j], Object(j))
                        ELSE RowsOf(Object(j)) = {}
            /\ j >= i => j \notin DOMAIN Collected
      BY <1>1, <1>2, <1>3, <1>5, <1>7, <1>8, <2>1, CollectedKnown
    <3>2. metadataMap' = Collected
      BY <1>2, <1>7, <2>1
    <3>3. \A j : Object(j)' = Object(j)
      BY <1>1, CatalogSame
    <3> QED
      BY <3>1, <3>2, <3>3 DEF Known
  <2>2. CASE i = c
    <3>1. metadataMap' = metadataMap
      BY <1>2, <1>7, <2>2
    <3>3. \A j : Object(j)' = Object(j)
      BY <1>1, CatalogSame
    <3> QED
      BY <1>1, <1>3, <2>2, <3>1, <3>3 DEF Known, CollectInv
  <2> QED
    BY <2>1, <2>2
<1>15. CollectInv'
  <2>1. \A s \in rows' : \E j \in DOMAIN catalog.objects :
          j >= i /\ \E y \in RowsOf(Object(j)) : s = <<j, y>>
    <3> SUFFICES ASSUME NEW s \in rows'
                 PROVE  \E j \in DOMAIN catalog.objects :
                          j >= i /\ \E y \in RowsOf(Object(j)) : s = <<j, y>>
      OBVIOUS
    <3>1. s \in rows /\ i <= s[1]
      BY <1>2, <1>7
    <3>2. PICK j \in DOMAIN catalog.objects : \E y \in RowsOf(Object(j)) : s = <<j, y>>
      BY <1>1, <1>3, <3>1 DEF CollectInv
    <3>3. s[1] = j
      BY <3>2
    <3> QED
      BY <1>8, <3>1, <3>2, <3>3
  <2>2. \A j \in DOMAIN catalog.objects : j > i => RowsLeft(j)' = RowsOf(Object(j))
    <3> SUFFICES ASSUME NEW j \in DOMAIN catalog.objects, j > i
                 PROVE  RowsLeft(j)' = RowsOf(Object(j))
      OBVIOUS
    <3>1. j # i /\ j > c
      BY <1>5, <1>8
    <3> QED
      BY <1>1, <1>3, <1>10, <3>1 DEF CollectInv
  <2>3. currentUniqueID' = i
    BY <1>2, <1>7
  <2>4. \A j : Object(j)' = Object(j)
    BY <1>1, CatalogSame
  <2>5. next' = 1 /\ statements' = <<>> /\ script' = <<>>
    BY <1>1, <1>3 DEF CollectInv
  <2> QED
    BY <1>1, <1>13, <1>14, <2>1, <2>2, <2>3, <2>4, <2>5 DEF CollectInv
<1>16. /\ Steps' = Steps
       /\ \A j : CreateOf(j)' = CreateOf(j) /\ GrantOf(j)' = GrantOf(j) /\ Object(j)' = Object(j)
  BY <1>1, CatalogSame
<1>17. ScriptTypes'
  BY <1>1, <1>3, <1>16 DEF ScriptTypes
<1>18. MapInv'
  BY <1>1 DEF MapInv
<1>19. PrintInv'
  BY <1>1, <1>3, <1>16 DEF PrintInv, InOrder
<1>20. ObjectInv'
  BY <1>1, <1>3 DEF ObjectInv
<1>21. DefaultInv'
  BY <1>1, <1>3 DEF DefaultInv
<1> QED
  BY <1>15, <1>17, <1>18, <1>19, <1>20, <1>21 DEF PrivilegesIInv

LEMMA RowsEndKeeps ==
  ASSUME PrivilegesIInv, RowsEnd
  PROVE  PrivilegesIInv'
<1>1. /\ pc = "query" /\ pc' = "predata" /\ catalog' = catalog /\ rows = {}
      /\ next' = next /\ statements' = statements /\ script' = script
      /\ target' = target /\ targetDefaults' = targetDefaults /\ refused' = refused
      /\ metadataMap' = Collected
  BY DEF RowsEnd, printVars
<1>2. ScriptTypes /\ CollectInv /\ PrintInv /\ DefaultInv /\ ObjectInv
  BY DEF PrivilegesIInv
<1>3. catalog \in Catalogs
  BY <1>2 DEF ScriptTypes
<1>4. /\ Steps' = Steps
      /\ \A j : CreateOf(j)' = CreateOf(j) /\ GrantOf(j)' = GrantOf(j) /\ Object(j)' = Object(j)
  BY <1>1, CatalogSame
<1>5. Len(catalog.objects) \in Nat /\ DOMAIN catalog.objects = 1..Len(catalog.objects)
      /\ currentUniqueID \in 0..Len(catalog.objects)
  BY <1>1, <1>2, <1>3, ObjectTypes DEF CollectInv
<1>6. \A j \in DOMAIN catalog.objects : Known(j)'
  <2> DEFINE i == Len(catalog.objects) + 1
  <2>1. i \in Nat /\ i > currentUniqueID /\ \A j \in DOMAIN catalog.objects : j < i
    BY <1>5
  <2> HIDE DEF i
  <2>2. \A s \in rows : i <= s[1]
    BY <1>1
  <2>3. \A j \in DOMAIN catalog.objects :
          IF j \in DOMAIN Collected THEN Describes(Collected[j], Object(j))
          ELSE RowsOf(Object(j)) = {}
    BY <1>1, <1>2, <2>1, <2>2, CollectedKnown
  <2> QED
    BY <1>1, <1>4, <2>3 DEF Known
<1>7. next = 1 /\ statements = <<>> /\ script = <<>>
  BY <1>1, <1>2 DEF CollectInv
<1>8. ScriptTypes'
  BY <1>1, <1>2, <1>4 DEF ScriptTypes
<1>9. CollectInv'
  BY <1>1 DEF CollectInv
<1>10. MapInv'
  <2>1. \A j \in DOMAIN catalog.objects : ~(Printed(j)')
    BY <1>1, <1>5, <1>7 DEF Printed
  <2> QED
    BY <1>1, <1>4, <1>6, <2>1 DEF MapInv
<1>11. PrintInv'
  <2>1. \A k \in DOMAIN script : script[k].object < next
    BY <1>7, EmptyFacts
  <2> QED
    BY <1>1, <1>2, <1>4, <1>7, <2>1 DEF PrintInv, InOrder
<1>12. ObjectInv'
  <2>1. \A j \in DOMAIN catalog.objects : ~(Printed(j)')
    BY <1>1, <1>5, <1>7 DEF Printed
  <2> QED
    BY <1>1, <1>2, <2>1 DEF ObjectInv
<1>13. DefaultInv'
  BY <1>1, <1>2 DEF DefaultInv
<1> QED
  BY <1>8, <1>9, <1>10, <1>11, <1>12, <1>13 DEF PrivilegesIInv

LEMMA MaybeBlock ==
  ASSUME NEW s, NEW u, NEW i, NEW r,
         \/ u = <<>>
         \/ u = <<s>> /\ s \in Steps /\ s.object = i /\ s.kind # "DEFAULT" /\ Rank(s) = r
  PROVE  /\ Block(u, i, r, r)
         /\ u # <<>> => Occurs(s, u)
<1>1. CASE u = <<>>
  BY <1>1, NoBlock
<1>2. CASE u = <<s>> /\ s \in Steps /\ s.object = i /\ s.kind # "DEFAULT" /\ Rank(s) = r
  BY <1>2, OneBlock
<1> QED
  BY <1>1, <1>2

\* A statement says of the metadata only the owner and the privileges.
LEMMA SameStatement ==
  ASSUME NEW n, NEW type, NEW m, NEW k, m.owner = k.owner, m.privileges = k.privileges
  PROVE  PrivilegesStatement(n, type, m) = PrivilegesStatement(n, type, k)
BY Zenon DEF PrivilegesStatement

LEMMA FullMetadata ==
  ASSUME catalog \in Catalogs, NEW n \in DOMAIN catalog.objects,
         NEW l \in LabelsOf(Object(n)), NEW m, m = Full(Object(n), l)
  PROVE  /\ GetCommentStatement(n, m) = IF Object(n).comment THEN <<CommentOf(n)>> ELSE <<>>
         /\ GetOwnerStatement(n, m) =
              IF Object(n).type \in OwnerTypes THEN <<OwnerOf(n)>> ELSE <<>>
         /\ GetPrivilegesStatements(n, Object(n).type, m) =
              IF Parsed(Object(n)) # {} THEN <<GrantOf(n)>> ELSE <<>>
         /\ GetSecurityLabelStatement(n, m) =
              IF Object(n).labels # {} THEN <<LabelOf(n, l)>> ELSE <<>>
         /\ ColumnStatements(n, Object(n), m) =
              IF PrintedColumns(Object(n)) # {} THEN <<ColumnsOf(n)>> ELSE <<>>
<1> DEFINE o == Object(n)
           f == Full(o, "none")
           P == {ParseACL(a) : a \in PrintedColumns(o)}
<1>1. /\ m.owner = OwnerName(o) /\ m.comment = o.comment /\ m.label = l
      /\ m.privileges = Parsed(o)
      /\ f.owner = OwnerName(o) /\ f.privileges = Parsed(o)
  BY FullFields
<1>2. o.owner \in Roles /\ "none" \notin o.labels
  BY ObjectTypes
<1>3. GetCommentStatement(n, m) = IF o.comment THEN <<CommentOf(n)>> ELSE <<>>
  BY <1>1 DEF GetCommentStatement, CommentOf
<1>4. GetOwnerStatement(n, m) = IF o.type \in OwnerTypes THEN <<OwnerOf(n)>> ELSE <<>>
  <2>1. m.owner.name = "" <=> o.type \notin OwnerTypes
    <3>1. NoName.name = "" /\ QuoteIdent(o.owner).name = o.owner /\ o.owner # ""
      BY <1>2, RolesAssumption, QuotedNames DEF NoName, Name
    <3> QED
      BY <1>1, <3>1 DEF OwnerName
  <2> QED
    BY <1>1, <2>1, Zenon DEF GetOwnerStatement, OwnerOf
<1>5. GetPrivilegesStatements(n, o.type, m) = IF Parsed(o) # {} THEN <<GrantOf(n)>> ELSE <<>>
  <2>1. PrivilegesStatement(n, o.type, m) = GrantOf(n)
    <3>1. PrivilegesStatement(n, o.type, m) = PrivilegesStatement(n, o.type, f)
      <4> HIDE DEF f
      <4> QED
        BY <1>1, SameStatement
    <3>2. PrivilegesStatement(n, o.type, f) = GrantOf(n)
      BY Zenon DEF GrantOf
    <3> QED
      BY <3>1, <3>2
  <2> QED
    BY <1>1, <2>1 DEF GetPrivilegesStatements
<1>6. GetSecurityLabelStatement(n, m) = IF o.labels # {} THEN <<LabelOf(n, l)>> ELSE <<>>
  <2>1. l = "none" <=> o.labels = {}
    BY <1>2 DEF LabelsOf
  <2> QED
    BY <1>1, <2>1, Zenon DEF GetSecurityLabelStatement, LabelOf
<1>7. ColumnStatements(n, o, m) = IF PrintedColumns(o) # {} THEN <<ColumnsOf(n)>> ELSE <<>>
  <2> DEFINE k == [m EXCEPT !.privileges = P]
             h == [f EXCEPT !.privileges = P]
  <2>1. k.owner = m.owner /\ k.privileges = P /\ h.owner = f.owner /\ h.privileges = P
    <3> HIDE DEF P
    <3> QED
      BY DEF Full
  <2>2. PrivilegesStatement(n, "COLUMN", k) = PrivilegesStatement(n, "COLUMN", h)
    <3> HIDE DEF k, h
    <3> QED
      BY <1>1, <2>1, SameStatement
  <2>3. PrivilegesStatement(n, "COLUMN", h) = ColumnsOf(n)
    BY Zenon DEF ColumnsOf
  <2>4. k.privileges = {} <=> PrintedColumns(o) = {}
    BY <2>1
  <2>5. ColumnStatements(n, o, m) = GetPrivilegesStatements(n, "COLUMN", k)
    BY Zenon DEF ColumnStatements
  <2> HIDE DEF k, h
  <2> QED
    BY <2>2, <2>3, <2>4, <2>5, Zenon DEF GetPrivilegesStatements
<1> QED
  BY <1>3, <1>4, <1>5, <1>6, <1>7

\* What is printed of an object comes in order, and nothing is left out.
LEMMA PostCreateFacts ==
  ASSUME catalog \in Catalogs, NEW n \in DOMAIN catalog.objects, ~Object(n).extension,
         NEW m, Describes(m, Object(n)), NEW u, u = PostCreate(n, Object(n), m)
  PROVE  /\ Block(u, n, 1, 5)
         /\ HasGrant(Object(n)) => Occurs(GrantOf(n), u)
         /\ Object(n).comment => Occurs(CommentOf(n), u)
         /\ Object(n).type \in OwnerTypes => Occurs(OwnerOf(n), u)
         /\ PrintedColumns(Object(n)) # {} => Occurs(ColumnsOf(n), u)
         /\ Object(n).labels # {} => \E l \in Object(n).labels : Occurs(LabelOf(n, l), u)
<1> DEFINE o == Object(n)
<1>1. PICK l \in LabelsOf(o) : m = Full(o, l)
  BY DEF Describes
<1> DEFINE u1 == GetCommentStatement(n, m)
           u2 == GetOwnerStatement(n, m)
           u3 == GetPrivilegesStatements(n, o.type, m)
           u4 == GetSecurityLabelStatement(n, m)
           u5 == IF Keyword(o.type) = "TABLE" THEN ColumnStatements(n, o, m) ELSE <<>>
<1>2. /\ u1 = IF o.comment THEN <<CommentOf(n)>> ELSE <<>>
      /\ u2 = IF o.type \in OwnerTypes THEN <<OwnerOf(n)>> ELSE <<>>
      /\ u3 = IF Parsed(o) # {} THEN <<GrantOf(n)>> ELSE <<>>
      /\ u4 = IF o.labels # {} THEN <<LabelOf(n, l)>> ELSE <<>>
  BY <1>1, FullMetadata
<1>3. u5 = IF PrintedColumns(o) # {} THEN <<ColumnsOf(n)>> ELSE <<>>
  <2>1. Keyword(o.type) # "TABLE" => PrintedColumns(o) = {}
    BY ObjectTypes
  <2>2. ColumnStatements(n, o, m) = IF PrintedColumns(o) # {} THEN <<ColumnsOf(n)>> ELSE <<>>
    BY <1>1, FullMetadata
  <2> QED
    BY <2>1, <2>2
<1>4. u = (((u1 \o u2) \o u3) \o u4) \o u5
  BY DEF PostCreate, PrintObjectMetadata
<1> HIDE DEF u1, u2, u3, u4, u5
<1>5. o.labels # {} => l \in o.labels
  BY DEF LabelsOf
<1>6. HasGrant(o) <=> Parsed(o) # {}
  BY DEF HasGrant, Saved
<1>7. /\ CommentOf(n).object = n /\ CommentOf(n).kind = "COMMENT"
      /\ OwnerOf(n).object = n /\ OwnerOf(n).kind = "OWNER"
      /\ LabelOf(n, l).object = n /\ LabelOf(n, l).kind = "LABEL"
  BY CreateFacts
<1>8. /\ GrantOf(n).object = n /\ GrantOf(n).kind = "GRANT" /\ ~GrantOf(n).column
      /\ ColumnsOf(n).object = n /\ ColumnsOf(n).kind = "GRANT" /\ ColumnsOf(n).column
  BY GrantKinds
<1>9. Block(u1, n, 1, 1) /\ (u1 # <<>> => Occurs(CommentOf(n), u1))
  <2>1. Rank(CommentOf(n)) = 1 /\ (o.comment => CommentOf(n) \in Steps)
    BY <1>7, RankFacts, StepsThere
  <2>2. u1 = <<>> \/ (u1 = <<CommentOf(n)>> /\ CommentOf(n) \in Steps)
    BY <1>2, <2>1
  <2> QED
    BY <1>7, <2>1, <2>2, MaybeBlock
<1>10. Block(u2, n, 2, 2) /\ (u2 # <<>> => Occurs(OwnerOf(n), u2))
  <2>1. Rank(OwnerOf(n)) = 2 /\ (o.type \in OwnerTypes => OwnerOf(n) \in Steps)
    BY <1>7, RankFacts, StepsThere
  <2>2. u2 = <<>> \/ (u2 = <<OwnerOf(n)>> /\ OwnerOf(n) \in Steps)
    BY <1>2, <2>1
  <2> QED
    BY <1>7, <2>1, <2>2, MaybeBlock
<1>11. Block(u3, n, 3, 3) /\ (u3 # <<>> => Occurs(GrantOf(n), u3))
  <2>1. Rank(GrantOf(n)) = 3 /\ (Parsed(o) # {} => GrantOf(n) \in Steps)
    BY <1>6, <1>8, RankFacts, StepsThere
  <2>2. u3 = <<>> \/ (u3 = <<GrantOf(n)>> /\ GrantOf(n) \in Steps)
    BY <1>2, <2>1
  <2> QED
    BY <1>8, <2>1, <2>2, MaybeBlock
<1>12. Block(u4, n, 4, 4) /\ (u4 # <<>> => Occurs(LabelOf(n, l), u4))
  <2>1. Rank(LabelOf(n, l)) = 4 /\ (o.labels # {} => LabelOf(n, l) \in Steps)
    BY <1>5, <1>7, RankFacts, StepsThere
  <2>2. u4 = <<>> \/ (u4 = <<LabelOf(n, l)>> /\ LabelOf(n, l) \in Steps)
    BY <1>2, <2>1
  <2> QED
    BY <1>7, <2>1, <2>2, MaybeBlock
<1>13. Block(u5, n, 5, 5) /\ (u5 # <<>> => Occurs(ColumnsOf(n), u5))
  <2>1. Rank(ColumnsOf(n)) = 5 /\ (PrintedColumns(o) # {} => ColumnsOf(n) \in Steps)
    BY <1>8, RankFacts, StepsThere
  <2>2. u5 = <<>> \/ (u5 = <<ColumnsOf(n)>> /\ ColumnsOf(n) \in Steps)
    BY <1>3, <2>1
  <2> QED
    BY <1>8, <2>1, <2>2, MaybeBlock
<1>14. /\ Block(u1 \o u2, n, 1, 2)
       /\ \A x : Occurs(x, u1 \o u2) <=> Occurs(x, u1) \/ Occurs(x, u2)
  BY <1>9, <1>10, JoinBlocks, SMTT(30)
<1>15. /\ Block((u1 \o u2) \o u3, n, 1, 3)
       /\ \A x : Occurs(x, (u1 \o u2) \o u3) <=> Occurs(x, u1 \o u2) \/ Occurs(x, u3)
  <2> DEFINE v == u1 \o u2
  <2> HIDE DEF v
  <2>1. Block(v, n, 1, 2)
    BY <1>14 DEF v
  <2>2. /\ Block(v \o u3, n, 1, 3)
        /\ \A x : Occurs(x, v \o u3) <=> Occurs(x, v) \/ Occurs(x, u3)
    <3>1. Block(u3, n, 3, 3)
      BY <1>11
    <3>2. 1 \in Nat /\ 2 \in Nat /\ 3 \in Nat /\ 1 <= 2 /\ 2 < 3 /\ 3 <= 3
      OBVIOUS
    <3> QED
      BY <2>1, <3>1, <3>2, JoinBlocks, SMTT(30)
  <2> QED
    BY <2>2 DEF v
<1>16. /\ Block(((u1 \o u2) \o u3) \o u4, n, 1, 4)
       /\ \A x : Occurs(x, ((u1 \o u2) \o u3) \o u4) <=> Occurs(x, (u1 \o u2) \o u3) \/ Occurs(x, u4)
  <2> DEFINE v == (u1 \o u2) \o u3
  <2> HIDE DEF v
  <2>1. Block(v, n, 1, 3)
    BY <1>15 DEF v
  <2>2. /\ Block(v \o u4, n, 1, 4)
        /\ \A x : Occurs(x, v \o u4) <=> Occurs(x, v) \/ Occurs(x, u4)
    BY <1>12, <2>1, JoinBlocks
  <2> QED
    BY <2>2 DEF v
<1>17. /\ Block(u, n, 1, 5)
       /\ \A x : Occurs(x, u) <=> Occurs(x, ((u1 \o u2) \o u3) \o u4) \/ Occurs(x, u5)
  <2> DEFINE v == ((u1 \o u2) \o u3) \o u4
  <2> HIDE DEF v
  <2>1. Block(v, n, 1, 4)
    BY <1>16 DEF v
  <2>2. /\ Block(v \o u5, n, 1, 5)
        /\ \A x : Occurs(x, v \o u5) <=> Occurs(x, v) \/ Occurs(x, u5)
    BY <1>13, <2>1, JoinBlocks
  <2>3. u = v \o u5
    BY <1>4 DEF v
  <2> QED
    BY <2>2, <2>3 DEF v
<1>18. \A x : Occurs(x, u) <=>
         Occurs(x, u1) \/ Occurs(x, u2) \/ Occurs(x, u3) \/ Occurs(x, u4) \/ Occurs(x, u5)
  BY <1>14, <1>15, <1>16, <1>17, Zenon
<1>19. \A s : <<s>> # <<>>
  OBVIOUS
<1>20. /\ Parsed(o) # {} => Occurs(GrantOf(n), u3)
       /\ o.comment => Occurs(CommentOf(n), u1)
       /\ o.type \in OwnerTypes => Occurs(OwnerOf(n), u2)
       /\ PrintedColumns(o) # {} => Occurs(ColumnsOf(n), u5)
       /\ o.labels # {} => Occurs(LabelOf(n, l), u4)
  BY <1>2, <1>3, <1>9, <1>10, <1>11, <1>12, <1>13, <1>19
<1> QED
  BY <1>5, <1>6, <1>17, <1>18, <1>20

LEMMA JoinSteps ==
  ASSUME NEW u \in Seq(Steps), NEW v \in Seq(Steps)
  PROVE  /\ u \o v \in Seq(Steps)
         /\ \A x : Occurs(x, u \o v) <=> Occurs(x, u) \/ Occurs(x, v)
BY JoinFacts

LEMMA JoinOrder ==
  ASSUME NEW u \in Seq(Steps), NEW v \in Seq(Steps), InOrder(u), InOrder(v),
         \A x, y : Occurs(x, u) /\ Occurs(y, v) /\ (x.object = y.object \/ x.kind = "DEFAULT")
           => Rank(x) <= Rank(y) /\ y.kind # "CREATE"
  PROVE  InOrder(u \o v)
BY JoinFacts

\* What is printed stays printed.
LEMMA MoreAwaited ==
  ASSUME catalog' = catalog, NEW i,
         \A x : Occurs(x, script) => Occurs(x, script'),
         GrantDue(i)' => GrantDue(i) \/ Occurs(GrantOf(i), script'),
         Awaited(i)
  PROVE  Awaited(i)'
<1>1. /\ Object(i)' = Object(i) /\ CreateOf(i)' = CreateOf(i) /\ CommentOf(i)' = CommentOf(i)
      /\ OwnerOf(i)' = OwnerOf(i) /\ GrantOf(i)' = GrantOf(i) /\ ColumnsOf(i)' = ColumnsOf(i)
      /\ \A l : LabelOf(i, l)' = LabelOf(i, l)
  BY CatalogSame
<1>2. Occurs(CreateOf(i), script') /\ (GrantDue(i)' => Occurs(GrantOf(i), script'))
  BY DEF Awaited
<1>3. ~Object(i).extension =>
        /\ Object(i).comment => Occurs(CommentOf(i), script')
        /\ Object(i).type \in OwnerTypes => Occurs(OwnerOf(i), script')
        /\ PrintedColumns(Object(i)) # {} => Occurs(ColumnsOf(i), script')
        /\ Object(i).labels # {} => \E l \in Object(i).labels : Occurs(LabelOf(i, l), script')
  BY DEF Awaited
<1> QED
  BY <1>1, <1>2, <1>3 DEF Awaited

LEMMA KnownMetadata ==
  ASSUME catalog \in Catalogs, NEW n \in DOMAIN catalog.objects, Known(n)
  PROVE  Describes(MetadataOf(n), Object(n))
<1>1. CASE n \in DOMAIN metadataMap
  BY <1>1 DEF Known, MetadataOf
<1>2. CASE n \notin DOMAIN metadataMap
  BY <1>2, NoRows, ObjectTypes DEF Known, MetadataOf
<1> QED
  BY <1>1, <1>2

\* The statements of the next object go behind those of the objects before.
LEMMA PrintedFacts ==
  ASSUME PrivilegesIInv, pc = "predata", next \in DOMAIN catalog.objects, NEW more,
         Block(more, next, 1, 5), NEW longer, longer = script \o <<CreateOf(next)>> \o more
  PROVE  /\ longer \in Seq(Steps) /\ InOrder(longer)
         /\ \A x : Occurs(x, script) => Occurs(x, longer)
         /\ Occurs(CreateOf(next), longer)
         /\ \A x : Occurs(x, more) => Occurs(x, longer)
         /\ \A x : Occurs(x, longer) => x.object < next + 1 /\ x.kind # "DEFAULT"
<1> DEFINE n == next
           c == <<CreateOf(n)>>
           v == script \o c
<1>1. catalog \in Catalogs /\ n \in Nat /\ script \in Seq(Steps) /\ InOrder(script)
  BY DEF PrivilegesIInv, ScriptTypes, PrintInv
<1>2. \A x : Occurs(x, script) => x.object < n /\ x.kind # "DEFAULT"
  BY DEF PrivilegesIInv, PrintInv, Occurs
<1>3. CreateOf(n).object = n /\ CreateOf(n).kind = "CREATE" /\ Rank(CreateOf(n)) = 0
  <2>1. CreateOf(n).object = n /\ CreateOf(n).kind = "CREATE"
    BY CreateFacts
  <2> QED
    BY <2>1, RankFacts
<1>4. c \in Seq(Steps) /\ InOrder(c) /\ \A x : Occurs(x, c) <=> x = CreateOf(n)
  <2>1. CreateOf(n) \in Steps
    BY <1>1, StepsThere
  <2> QED
    BY <1>3, <2>1, OneBlock DEF Block
<1> HIDE DEF c
<1>5. \A x : Occurs(x, v) <=> Occurs(x, script) \/ x = CreateOf(n)
  BY <1>1, <1>4, JoinSteps
<1>6. ASSUME NEW x, NEW y, Occurs(x, script), Occurs(y, c)
      PROVE  ~(x.object = y.object \/ x.kind = "DEFAULT")
  BY <1>1, <1>2, <1>3, <1>4, <1>6
<1>7. v \in Seq(Steps) /\ InOrder(v)
  BY <1>1, <1>4, <1>6, JoinSteps, JoinOrder
<1> HIDE DEF v
<1>8. more \in Seq(Steps) /\ InOrder(more)
      /\ \A x : Occurs(x, more) => x.object = n /\ x.kind # "DEFAULT" /\ 1 <= Rank(x)
  BY DEF Block
<1>9. ASSUME NEW x, NEW y, Occurs(x, v), Occurs(y, more), x.object = y.object \/ x.kind = "DEFAULT"
      PROVE  Rank(x) <= Rank(y) /\ y.kind # "CREATE"
  <2>1. x = CreateOf(n)
    BY <1>1, <1>2, <1>5, <1>8, <1>9
  <2>2. Rank(y) \in 0..6 /\ (y.kind = "CREATE" => Rank(y) = 0)
    BY RankFacts
  <2> QED
    BY <1>3, <1>8, <1>9, <2>1, <2>2
<1>10. longer = v \o more
  BY DEF v, c
<1>11. longer \in Seq(Steps) /\ InOrder(longer)
  BY <1>7, <1>8, <1>9, <1>10, JoinSteps, JoinOrder
<1>12. \A x : Occurs(x, longer) <=> Occurs(x, v) \/ Occurs(x, more)
  <2>1. more \in Seq(Steps)
    BY <1>8
  <2>2. \A x : Occurs(x, v \o more) <=> Occurs(x, v) \/ Occurs(x, more)
    BY <1>7, <2>1, JoinSteps
  <2> QED
    BY <1>10, <2>2
<1>13. ASSUME NEW x, Occurs(x, longer)
       PROVE  x.object < n + 1 /\ x.kind # "DEFAULT"
  <2>1. CASE Occurs(x, script)
    <3>1. script # <<>> /\ x \in Steps
      BY <1>1, <2>1 DEF Occurs
    <3>2. x.object \in Nat
      BY <1>1, <3>1, ObjectTypes, StepsAre
    <3> QED
      BY <1>1, <1>2, <2>1, <3>2
  <2>2. CASE x = CreateOf(n)
    BY <1>1, <1>3, <2>2
  <2>3. CASE Occurs(x, more)
    BY <1>1, <1>8, <2>3
  <2> QED
    BY <1>5, <1>12, <1>13, <2>1, <2>2, <2>3
<1> QED
  BY <1>5, <1>11, <1>12, <1>13

LEMMA PrintObjectKeeps ==
  ASSUME PrivilegesIInv, PrintObject
  PROVE  PrivilegesIInv'
<1> DEFINE n == next
           o == Object(n)
           more == IF o.extension THEN <<>> ELSE PostCreate(n, o, MetadataOf(n))
<1>1. /\ pc = "predata" /\ pc' = "predata" /\ catalog' = catalog /\ n \in DOMAIN catalog.objects
      /\ next' = n + 1 /\ statements' = statements
      /\ target' = target /\ targetDefaults' = targetDefaults /\ refused' = refused
      /\ metadataMap' = IF o.extension THEN metadataMap
                        ELSE [j \in DOMAIN metadataMap \ {n} |-> metadataMap[j]]
  BY DEF PrintObject, Object
<1>2. script' = script \o <<CreateOf(n)>> \o more
  BY DEF PrintObject, Object, CreateOf
<1>3. ScriptTypes /\ MapInv /\ PrintInv /\ DefaultInv /\ ObjectInv
  BY DEF PrivilegesIInv
<1>4. catalog \in Catalogs /\ n \in Nat \ {0}
  BY <1>3 DEF ScriptTypes
<1>5. DOMAIN catalog.objects \subseteq Nat \ {0}
  BY <1>4, ObjectTypes
<1>6. /\ Steps' = Steps
      /\ \A j : CreateOf(j)' = CreateOf(j) /\ GrantOf(j)' = GrantOf(j) /\ Object(j)' = Object(j)
  BY <1>1, CatalogSame
<1>7. \A j \in DOMAIN catalog.objects : (Printed(j) <=> j < n) /\ (Printed(j)' <=> j < n + 1)
  BY <1>1 DEF Printed
<1>8. Known(n) /\ Describes(MetadataOf(n), o)
  <2>1. Known(n)
    BY <1>1, <1>3, <1>4, <1>7 DEF MapInv
  <2> QED
    BY <1>1, <1>4, <2>1, KnownMetadata
<1>9. /\ Block(more, n, 1, 5)
      /\ ~o.extension =>
           /\ HasGrant(o) => Occurs(GrantOf(n), more)
           /\ o.comment => Occurs(CommentOf(n), more)
           /\ o.type \in OwnerTypes => Occurs(OwnerOf(n), more)
           /\ PrintedColumns(o) # {} => Occurs(ColumnsOf(n), more)
           /\ o.labels # {} => \E l \in o.labels : Occurs(LabelOf(n, l), more)
  <2>1. CASE o.extension
    BY <2>1, NoBlock
  <2>2. CASE ~o.extension
    <3>1. more = PostCreate(n, o, MetadataOf(n))
      BY <2>2
    <3> HIDE DEF more
    <3> QED
      BY <1>1, <1>4, <1>8, <2>2, <3>1, PostCreateFacts
  <2> QED
    BY <2>1, <2>2
<1> HIDE DEF more
<1>10. /\ script' \in Seq(Steps) /\ InOrder(script')
       /\ \A x : Occurs(x, script) => Occurs(x, script')
       /\ Occurs(CreateOf(n), script')
       /\ \A x : Occurs(x, more) => Occurs(x, script')
       /\ \A x : Occurs(x, script') => x.object < n + 1 /\ x.kind # "DEFAULT"
  BY <1>1, <1>2, <1>9, PrintedFacts
<1>11. ScriptTypes'
  <2>1. n + 1 \in Nat \ {0}
    BY <1>4
  <2> QED
    BY <1>1, <1>3, <1>6, <1>10, <2>1 DEF ScriptTypes
<1>12. CollectInv'
  BY <1>1 DEF CollectInv
<1>13. MapInv'
  <2> SUFFICES ASSUME NEW j \in DOMAIN catalog.objects
               PROVE  IF Object(j).extension \/ ~(j < n + 1) THEN Known(j)'
                      ELSE j \notin DOMAIN metadataMap'
    BY <1>1, <1>6, <1>7 DEF MapInv
  <2>1. IF Object(j).extension \/ ~(j < n) THEN Known(j) ELSE j \notin DOMAIN metadataMap
    BY <1>1, <1>3, <1>7 DEF MapInv
  <2>2. CASE o.extension
    <3>1. Known(j)' <=> Known(j)
      BY <1>1, <1>6, <2>2 DEF Known
    <3>2. j < n + 1 /\ ~(j < n) => j = n
      BY <1>4, <1>5
    <3> QED
      BY <1>1, <1>4, <1>5, <2>1, <2>2, <3>1, <3>2
  <2>3. CASE ~o.extension
    <3>1. metadataMap' = [k \in DOMAIN metadataMap \ {n} |-> metadataMap[k]]
      BY <1>1, <2>3
    <3>2. j # n => (Known(j)' <=> Known(j)) /\ (j \in DOMAIN metadataMap' <=> j \in DOMAIN metadataMap)
      BY <1>6, <3>1 DEF Known
    <3>3. n \notin DOMAIN metadataMap'
      BY <3>1
    <3>4. j < n + 1 /\ j # n => j < n
      BY <1>4, <1>5
    <3>5. n < n + 1
      BY <1>4
    <3>6. j < n => j < n + 1
      BY <1>4, <1>5
    <3>7. CASE j = n
      BY <2>3, <3>3, <3>5, <3>7
    <3>8. CASE j # n
      BY <2>1, <3>2, <3>4, <3>6, <3>8
    <3> QED
      BY <3>7, <3>8
  <2> QED
    BY <2>2, <2>3
<1>14. PrintInv'
  <2>1. \A k \in DOMAIN script' : script'[k].object < n + 1 /\ script'[k].kind # "DEFAULT"
    BY <1>10 DEF Occurs
  <2> QED
    BY <1>1, <1>3, <1>6, <1>10, <2>1 DEF PrintInv, InOrder
<1>15. ObjectInv'
  <2> SUFFICES ASSUME NEW j \in DOMAIN catalog.objects, j < n + 1
               PROVE  Awaited(j)'
    BY <1>1, <1>3, <1>7 DEF ObjectInv, PrintInv
  <2>1. GrantDue(j) <=> HasGrant(Object(j)) /\ ~Object(j).extension
    BY <1>1 DEF GrantDue
  <2>2. GrantDue(j)' <=> HasGrant(Object(j)) /\ ~Object(j).extension
    BY <1>1, <1>6 DEF GrantDue
  <2>3. CASE j < n
    <3>1. Awaited(j)
      BY <1>1, <1>3, <1>7, <2>3 DEF ObjectInv, PrintInv
    <3> QED
      BY <1>1, <1>10, <2>1, <2>2, <3>1, MoreAwaited
  <2>4. CASE j = n
    <3>1. /\ CommentOf(j)' = CommentOf(j) /\ OwnerOf(j)' = OwnerOf(j) /\ ColumnsOf(j)' = ColumnsOf(j)
          /\ \A l : LabelOf(j, l)' = LabelOf(j, l)
      BY <1>1, CatalogSame
    <3>2. Occurs(CreateOf(j), script') /\ (GrantDue(j)' => Occurs(GrantOf(j), script'))
      BY <1>9, <1>10, <2>2, <2>4
    <3>3. ~Object(j).extension =>
            /\ Object(j).comment => Occurs(CommentOf(j), script')
            /\ Object(j).type \in OwnerTypes => Occurs(OwnerOf(j), script')
            /\ PrintedColumns(Object(j)) # {} => Occurs(ColumnsOf(j), script')
            /\ Object(j).labels # {} => \E l \in Object(j).labels : Occurs(LabelOf(j, l), script')
      BY <1>9, <1>10, <2>4
    <3> QED
      BY <1>6, <3>1, <3>2, <3>3 DEF Awaited
  <2> QED
    BY <1>4, <1>5, <2>3, <2>4
<1>16. DefaultInv'
  BY <1>1, <1>3 DEF DefaultInv, PrintInv
<1> QED
  BY <1>11, <1>12, <1>13, <1>14, <1>15, <1>16 DEF PrivilegesIInv

LEMMA ObjectsEndKeeps ==
  ASSUME PrivilegesIInv, ObjectsEnd
  PROVE  PrivilegesIInv'
<1>1. /\ pc = "predata" /\ pc' = "functions" /\ catalog' = catalog
      /\ next \notin DOMAIN catalog.objects /\ next' = 1
      /\ statements' = statements /\ script' = script /\ metadataMap' = metadataMap
      /\ target' = target /\ targetDefaults' = targetDefaults /\ refused' = refused
  BY DEF ObjectsEnd, backupVars
<1>2. ScriptTypes /\ MapInv /\ PrintInv /\ DefaultInv /\ ObjectInv
  BY DEF PrivilegesIInv
<1>3. catalog \in Catalogs /\ next \in Nat \ {0}
  BY <1>2 DEF ScriptTypes
<1>4. \A j \in DOMAIN catalog.objects : j \in Nat \ {0} /\ j < next
  BY <1>1, <1>3, ObjectTypes
<1>5. /\ Steps' = Steps
      /\ \A j : CreateOf(j)' = CreateOf(j) /\ GrantOf(j)' = GrantOf(j) /\ Object(j)' = Object(j)
  BY <1>1, CatalogSame
<1>6. \A j \in DOMAIN catalog.objects : Printed(j) /\ Printed(j)' /\ (Known(j)' <=> Known(j))
  BY <1>1, <1>4, <1>5 DEF Printed, Known
<1>7. ScriptTypes'
  BY <1>1, <1>2, <1>5 DEF ScriptTypes
<1>8. CollectInv'
  BY <1>1 DEF CollectInv
<1>9. MapInv'
  BY <1>1, <1>2, <1>5, <1>6 DEF MapInv
<1>10. PrintInv'
  BY <1>1, <1>2, <1>5 DEF PrintInv, InOrder
<1>11. ObjectInv'
  <2> SUFFICES ASSUME NEW j \in DOMAIN catalog.objects
               PROVE  Awaited(j)'
    BY <1>1, <1>2 DEF ObjectInv, PrintInv
  <2>1. Awaited(j)
    BY <1>1, <1>2, <1>6 DEF ObjectInv, PrintInv
  <2>2. GrantDue(j)' => GrantDue(j)
    BY <1>1, <1>4, <1>5 DEF GrantDue
  <2> QED
    BY <1>1, <2>1, <2>2, MoreAwaited
<1>12. DefaultInv'
  BY <1>1, <1>2 DEF DefaultInv, PrintInv
<1> QED
  BY <1>7, <1>8, <1>9, <1>10, <1>11, <1>12 DEF PrivilegesIInv

\* The grants of an extension's function.
Extra(s) == \E i \in DOMAIN catalog.objects :
              Object(i).extension /\ HasGrant(Object(i)) /\ s = GrantOf(i)

LEMMA ExtraFacts ==
  ASSUME catalog \in Catalogs, NEW s, Extra(s)
  PROVE  /\ s \in Steps /\ s.kind = "GRANT" /\ Rank(s) = 3
         /\ \A x \in Steps : x.object = s.object => Rank(x) <= 3
<1>1. PICK i \in DOMAIN catalog.objects :
        Object(i).extension /\ HasGrant(Object(i)) /\ s = GrantOf(i)
  BY DEF Extra
<1>2. s.object = i /\ s.kind = "GRANT" /\ ~s.column
  BY <1>1, GrantKinds
<1>3. s \in Steps
  BY <1>1, StepsThere
<1>4. Rank(s) = 3
  BY <1>2, RankFacts
<1>5. ASSUME NEW x \in Steps, x.object = i
      PROVE  Rank(x) <= 3
  <2>1. i # 0
    BY ObjectTypes
  <2>2. x = CreateOf(i) \/ x = GrantOf(i)
    BY <1>1, <1>5, <2>1, StepsAre
  <2>3. CreateOf(i).kind = "CREATE"
    BY CreateFacts
  <2>4. x = CreateOf(i) => Rank(x) = 0
    BY <2>3, RankFacts
  <2> QED
    BY <1>1, <1>4, <2>2, <2>4
<1> QED
  BY <1>2, <1>3, <1>4, <1>5

\* They can be printed at the end, and more than once.
LEMMA ExtraOrder ==
  ASSUME catalog \in Catalogs, NEW u \in Seq(Steps), InOrder(u),
         \A x : Occurs(x, u) => x.kind # "DEFAULT",
         NEW v \in Seq(Steps), \A x : Occurs(x, v) => Extra(x)
  PROVE  InOrder(u \o v) /\ \A x : Occurs(x, u \o v) => x.kind # "DEFAULT"
<1>1. \A x : Occurs(x, v) => Rank(x) = 3 /\ x.kind = "GRANT"
  BY ExtraFacts
<1>2. InOrder(v)
  <2>1. \A k \in DOMAIN v : Rank(v[k]) = 3 /\ v[k].kind = "GRANT"
    BY <1>1 DEF Occurs
  <2> QED
    BY <2>1 DEF InOrder
<1>3. ASSUME NEW x, NEW y, Occurs(x, u), Occurs(y, v), x.object = y.object \/ x.kind = "DEFAULT"
      PROVE  Rank(x) <= Rank(y) /\ y.kind # "CREATE"
  <2>1. x \in Steps
    BY <1>3 DEF Occurs
  <2>2. x.object = y.object
    BY <1>3
  <2>3. Rank(x) <= 3
    BY <1>3, <2>1, <2>2, ExtraFacts
  <2> QED
    BY <1>1, <1>3, <2>3
<1>4. InOrder(u \o v)
  BY <1>2, <1>3, JoinOrder
<1>5. \A x : Occurs(x, u \o v) <=> Occurs(x, u) \/ Occurs(x, v)
  BY JoinSteps
<1> QED
  BY <1>1, <1>4, <1>5

LEMMA printExtensionFunctionACLsKeeps ==
  ASSUME PrivilegesIInv, printExtensionFunctionACLs
  PROVE  PrivilegesIInv'
<1> DEFINE n == next
           o == Object(n)
           more == IF n \in DOMAIN metadataMap /\ o.type = "FUNCTION"
                   THEN GetPrivilegesStatements(n, "FUNCTION", metadataMap[n]) ELSE <<>>
<1>1. /\ pc = "functions" /\ pc' = "functions" /\ catalog' = catalog
      /\ n \in DOMAIN catalog.objects /\ next' = n + 1 /\ metadataMap' = metadataMap
      /\ target' = target /\ targetDefaults' = targetDefaults /\ refused' = refused
  BY DEF printExtensionFunctionACLs, backupVars
<1>2. /\ statements' = statements \o more
      /\ script' = IF more = <<>> THEN script ELSE script \o statements \o more
  BY Zenon DEF printExtensionFunctionACLs, Object
<1>3. ScriptTypes /\ MapInv /\ PrintInv /\ DefaultInv /\ ObjectInv
  BY DEF PrivilegesIInv
<1>4. /\ catalog \in Catalogs /\ n \in Nat \ {0} /\ script \in Seq(Steps) /\ statements \in Seq(Steps)
      /\ InOrder(script)
  BY <1>3 DEF ScriptTypes, PrintInv
<1>5. /\ Steps' = Steps
      /\ \A j : CreateOf(j)' = CreateOf(j) /\ GrantOf(j)' = GrantOf(j) /\ Object(j)' = Object(j)
  BY <1>1, CatalogSame
<1>6. \A j \in DOMAIN catalog.objects : Printed(j) /\ Printed(j)' /\ (Known(j)' <=> Known(j))
  BY <1>1, <1>5 DEF Printed, Known
<1>7. IF o.extension THEN Known(n) ELSE n \notin DOMAIN metadataMap
  BY <1>1, <1>3, <1>6 DEF MapInv
<1>8. /\ more = <<>> \/ (more = <<GrantOf(n)>> /\ o.extension /\ HasGrant(o))
      /\ o.extension /\ HasGrant(o) => more = <<GrantOf(n)>>
  <2>1. CASE n \in DOMAIN metadataMap /\ o.type = "FUNCTION"
    <3>1. o.extension /\ Describes(metadataMap[n], o)
      BY <1>7, <2>1 DEF Known
    <3>2. PICK l \in LabelsOf(o) : metadataMap[n] = Full(o, l)
      BY <3>1 DEF Describes
    <3>3. more = IF Parsed(o) # {} THEN <<GrantOf(n)>> ELSE <<>>
      <4>1. more = GetPrivilegesStatements(n, o.type, metadataMap[n])
        BY <2>1
      <4> HIDE DEF more
      <4> QED
        BY <1>1, <1>4, <3>2, <4>1, FullMetadata
    <3>4. HasGrant(o) <=> Parsed(o) # {}
      BY <2>1 DEF HasGrant, Saved
    <3> QED
      BY <3>1, <3>3, <3>4
  <2>2. CASE n \notin DOMAIN metadataMap
    <3>1. more = <<>>
      BY <2>2
    <3>2. o.extension => RowsOf(o) = {}
      BY <1>7, <2>2 DEF Known
    <3>3. o.extension => ~HasGrant(o)
      BY <3>2 DEF HasGrant, Parsed
    <3> QED
      BY <3>1, <3>3
  <2>3. CASE o.type # "FUNCTION"
    <3>1. more = <<>>
      BY <2>3
    <3>2. o.extension => ~HasGrant(o)
      BY <2>3 DEF HasGrant, Saved
    <3> QED
      BY <3>1, <3>2
  <2> QED
    BY <2>1, <2>2, <2>3
<1> HIDE DEF more
<1>9. more \in Seq(Steps) /\ \A x : Occurs(x, more) => Extra(x)
  <2>1. CASE more = <<>>
    BY <2>1, EmptyFacts
  <2>2. CASE more = <<GrantOf(n)>> /\ o.extension /\ HasGrant(o)
    <3>1. Extra(GrantOf(n))
      BY <1>1, <2>2, Zenon DEF Extra
    <3>2. GrantOf(n) \in Steps /\ GrantOf(n).kind = "GRANT"
      BY <1>4, <3>1, ExtraFacts
    <3>3. more \in Seq(Steps) /\ \A x : Occurs(x, more) <=> x = GrantOf(n)
      BY <2>2, <3>2, OneBlock DEF Block
    <3> QED
      BY <3>1, <3>3
  <2> QED
    BY <1>8, <2>1, <2>2
<1>10. \A x : Occurs(x, statements) => Extra(x)
  BY <1>3 DEF PrintInv, Occurs, Extra
<1>11. /\ statements' \in Seq(Steps)
       /\ \A x : Occurs(x, statements') => Extra(x)
       /\ \A x : Occurs(x, more) => Occurs(x, statements')
  <2>1. /\ statements \o more \in Seq(Steps)
        /\ \A x : Occurs(x, statements \o more) <=> Occurs(x, statements) \/ Occurs(x, more)
    BY <1>4, <1>9, JoinSteps
  <2> QED
    BY <1>2, <1>9, <1>10, <2>1
<1>12. /\ script' \in Seq(Steps) /\ InOrder(script')
       /\ \A x : Occurs(x, script) => Occurs(x, script')
       /\ \A x : Occurs(x, more) => Occurs(x, script')
       /\ \A x : Occurs(x, script') => x.kind # "DEFAULT"
  <2>1. \A x : Occurs(x, script) => x.kind # "DEFAULT"
    BY <1>1, <1>3 DEF PrintInv, Occurs
  <2>2. CASE more = <<>>
    BY <1>2, <1>4, <2>1, <2>2, EmptyFacts
  <2>3. CASE more # <<>>
    <3> DEFINE v == script \o statements
    <3>1. /\ v \in Seq(Steps)
          /\ \A x : Occurs(x, v) <=> Occurs(x, script) \/ Occurs(x, statements)
      BY <1>4, JoinSteps
    <3>2. InOrder(v) /\ \A x : Occurs(x, v) => x.kind # "DEFAULT"
      BY <1>4, <1>10, <2>1, ExtraOrder
    <3>3. script' = v \o more
      BY <1>2, <2>3
    <3> HIDE DEF v
    <3>4. /\ v \o more \in Seq(Steps)
          /\ \A x : Occurs(x, v \o more) <=> Occurs(x, v) \/ Occurs(x, more)
      BY <1>9, <3>1, JoinSteps
    <3>5. InOrder(v \o more) /\ \A x : Occurs(x, v \o more) => x.kind # "DEFAULT"
      BY <1>4, <1>9, <3>1, <3>2, ExtraOrder
    <3> QED
      BY <3>1, <3>3, <3>4, <3>5
  <2> QED
    BY <2>2, <2>3
<1>13. ScriptTypes'
  <2>1. n + 1 \in Nat \ {0}
    BY <1>4
  <2> QED
    BY <1>1, <1>3, <1>5, <1>11, <1>12, <2>1 DEF ScriptTypes
<1>14. CollectInv'
  BY <1>1 DEF CollectInv
<1>15. MapInv'
  BY <1>1, <1>3, <1>5, <1>6 DEF MapInv
<1>16. PrintInv'
  <2>1. \A k \in DOMAIN script' : script'[k].kind # "DEFAULT"
    BY <1>12 DEF Occurs
  <2>2. \A k \in DOMAIN statements' : Extra(statements'[k])
    BY <1>11 DEF Occurs
  <2>3. \A k \in DOMAIN statements' : \E i \in DOMAIN catalog.objects :
          Object(i).extension /\ HasGrant(Object(i)) /\ statements'[k] = GrantOf(i)
    BY <2>2 DEF Extra
  <2>4. InOrder(script)' <=> InOrder(script')
    BY DEF InOrder
  <2> QED
    BY <1>1, <1>3, <1>5, <1>12, <2>1, <2>3, <2>4 DEF PrintInv
<1>17. ObjectInv'
  <2> SUFFICES ASSUME NEW j \in DOMAIN catalog.objects
               PROVE  Awaited(j)'
    BY <1>1, <1>3 DEF ObjectInv, PrintInv
  <2>1. Awaited(j)
    BY <1>1, <1>3, <1>6 DEF ObjectInv, PrintInv
  <2>2. GrantDue(j)' => GrantDue(j) \/ Occurs(GrantOf(j), script')
    <3>1. j \in Nat
      BY <1>4, ObjectTypes
    <3>2. CASE j = n
      <4>1. more = <<GrantOf(n)>> => Occurs(GrantOf(n), more)
        BY <1>9, EmptyFacts DEF Occurs
      <4>2. GrantDue(j)' /\ o.extension => Occurs(GrantOf(n), script')
        BY <1>5, <1>8, <1>12, <3>2, <4>1 DEF GrantDue
      <4>3. GrantDue(j)' /\ ~o.extension => GrantDue(j)
        BY <1>5, <3>2 DEF GrantDue
      <4> QED
        BY <3>2, <4>2, <4>3
    <3>3. CASE j # n
      <4>1. j < n + 1 => j < n
        BY <1>4, <3>1, <3>3
      <4> QED
        BY <1>1, <1>5, <4>1 DEF GrantDue
    <3> QED
      BY <3>2, <3>3
  <2> QED
    BY <1>1, <1>12, <2>1, <2>2, MoreAwaited
<1>18. DefaultInv'
  BY <1>1, <1>3 DEF DefaultInv, PrintInv
<1> QED
  BY <1>13, <1>14, <1>15, <1>16, <1>17, <1>18 DEF PrivilegesIInv

LEMMA PresentSame ==
  ASSUME catalog' = catalog
  PROVE  \A j, tg, seq : Present(j, tg, seq)' <=> Present(j, tg, seq)
<1>1. \A j : /\ CreateOf(j)' = CreateOf(j) /\ GrantOf(j)' = GrantOf(j)
             /\ Object(j)' = Object(j) /\ OwnerOf(j)' = OwnerOf(j) /\ ColumnsOf(j)' = ColumnsOf(j)
             /\ CommentOf(j)' = CommentOf(j) /\ \A l : LabelOf(j, l)' = LabelOf(j, l)
  BY CatalogSame
<1>2. \A j, tg, seq : OwnerInv(j, tg, seq)' <=> OwnerInv(j, tg, seq)
  BY <1>1, Zenon DEF OwnerInv
<1>3. \A j, tg, seq : ListInv(j, tg, seq)' <=> ListInv(j, tg, seq)
  BY <1>1, Zenon DEF ListInv
<1>4. \A j, tg, seq : ColumnInv(j, tg, seq)' <=> ColumnInv(j, tg, seq)
  BY <1>1, Zenon DEF ColumnInv
<1>5. \A j, tg, seq : NoteInv(j, tg, seq)' <=> NoteInv(j, tg, seq)
  BY <1>1, SMTT(30) DEF NoteInv
<1> QED
  BY <1>1, <1>2, <1>3, <1>4, <1>5, ZenonT(60) DEF Present

LEMMA PrintDefaultsKeeps ==
  ASSUME PrivilegesIInv, PrintDefaultPrivilegesStatements
  PROVE  PrivilegesIInv'
<1> DEFINE v == [i \in DOMAIN catalog.defaults |-> DefaultOf(catalog.defaults[i])]
<1>1. /\ pc = "functions" /\ pc' = "restore" /\ catalog' = catalog
      /\ next \notin DOMAIN catalog.objects /\ next' = next /\ statements' = statements
      /\ target' = target /\ targetDefaults' = targetDefaults /\ refused' = refused
  BY DEF PrintDefaultPrivilegesStatements, backupVars, printVars
<1>2. script' = script \o v
  BY Zenon DEF PrintDefaultPrivilegesStatements, DefaultOf
<1>3. ScriptTypes /\ PrintInv /\ DefaultInv /\ ObjectInv
  BY DEF PrivilegesIInv
<1>4. /\ catalog \in Catalogs /\ next \in Nat \ {0} /\ script \in Seq(Steps) /\ InOrder(script)
  BY <1>3 DEF ScriptTypes, PrintInv
<1>5. /\ Steps' = Steps
      /\ \A j : /\ CreateOf(j)' = CreateOf(j) /\ GrantOf(j)' = GrantOf(j)
                /\ Object(j)' = Object(j)
  BY <1>1, CatalogSame
<1>6. Len(catalog.defaults) \in Nat /\ DOMAIN catalog.defaults = 1..Len(catalog.defaults)
  BY <1>4, DefaultTypes
<1>7. \A i \in DOMAIN catalog.defaults :
        LET s == DefaultOf(catalog.defaults[i])
        IN  s \in Steps /\ s.kind = "DEFAULT" /\ Rank(s) = 6
  <2> SUFFICES ASSUME NEW i \in DOMAIN catalog.defaults
               PROVE  /\ DefaultOf(catalog.defaults[i]) \in Steps
                      /\ DefaultOf(catalog.defaults[i]).kind = "DEFAULT"
                      /\ Rank(DefaultOf(catalog.defaults[i])) = 6
    BY Zenon
  <2>1. DefaultOf(catalog.defaults[i]).kind = "DEFAULT"
    BY <1>4, DefaultFor
  <2>2. DefaultOf(catalog.defaults[i]) \in Steps
    BY DEF Steps
  <2> QED
    BY <2>1, <2>2, RankFacts
<1>8. /\ v \in Seq(Steps) /\ DOMAIN v = DOMAIN catalog.defaults
      /\ \A i \in DOMAIN catalog.defaults : v[i] = DefaultOf(catalog.defaults[i])
  BY <1>6, <1>7
<1> HIDE DEF v
<1>9. /\ \A x : Occurs(x, v) => x.kind = "DEFAULT" /\ Rank(x) = 6
      /\ \A i \in DOMAIN catalog.defaults : Occurs(DefaultOf(catalog.defaults[i]), v)
  BY <1>7, <1>8 DEF Occurs
<1>10. InOrder(v)
  <2>1. \A k \in DOMAIN v : Rank(v[k]) = 6 /\ v[k].kind = "DEFAULT"
    BY <1>9 DEF Occurs
  <2> QED
    BY <2>1 DEF InOrder
<1>11. ASSUME NEW x, NEW y, Occurs(x, script), Occurs(y, v)
       PROVE  Rank(x) <= Rank(y) /\ y.kind # "CREATE"
  <2>1. Rank(x) \in 0..6
    BY RankFacts
  <2> QED
    BY <1>9, <1>11, <2>1
<1>12. /\ script' \in Seq(Steps) /\ InOrder(script')
       /\ \A x : Occurs(x, script') <=> Occurs(x, script) \/ Occurs(x, v)
  <2>1. /\ script \o v \in Seq(Steps)
        /\ \A x : Occurs(x, script \o v) <=> Occurs(x, script) \/ Occurs(x, v)
    BY <1>4, <1>8, JoinSteps
  <2>2. InOrder(script \o v)
    BY <1>4, <1>8, <1>10, <1>11, JoinOrder
  <2> QED
    BY <1>2, <2>1, <2>2
<1>13. \A j \in DOMAIN catalog.objects : Printed(j) /\ Printed(j)'
  BY <1>1 DEF Printed
<1>14. ScriptTypes'
  BY <1>1, <1>3, <1>5, <1>12 DEF ScriptTypes
<1>15. CollectInv'
  BY <1>1 DEF CollectInv
<1>16. MapInv'
  BY <1>1 DEF MapInv
<1>17. PrintInv'
  <2>1. InOrder(script)' <=> InOrder(script')
    BY DEF InOrder
  <2> QED
    BY <1>1, <1>3, <1>5, <1>12, <2>1 DEF PrintInv
<1>18. ObjectInv'
  <2> SUFFICES ASSUME NEW j \in DOMAIN catalog.objects
               PROVE  Awaited(j)'
    BY <1>1, <1>3 DEF ObjectInv, PrintInv
  <2>1. Awaited(j)
    BY <1>1, <1>3, <1>13 DEF ObjectInv, PrintInv
  <2>2. GrantDue(j)' => GrantDue(j)
    <3>1. j < next
      BY <1>1, <1>4, ObjectTypes
    <3> QED
      BY <1>1, <1>5, <3>1 DEF GrantDue
  <2> QED
    BY <1>1, <1>12, <2>1, <2>2, MoreAwaited
<1>19. DefaultInv'
  <2>1. \A d : DefaultOf(d)' = DefaultOf(d)
    BY DEF DefaultOf
  <2>2. \A i \in DOMAIN catalog.defaults : Occurs(DefaultOf(catalog.defaults[i]), script')
    BY <1>9, <1>12
  <2>3. \A i \in DOMAIN catalog.defaults : Occurs(DefaultOf(catalog.defaults[i]), script)'
    BY <1>1, <2>2 DEF Occurs
  <2> QED
    BY <1>1, <1>3, <2>3 DEF DefaultInv, PrintInv
<1> QED
  BY <1>14, <1>15, <1>16, <1>17, <1>18, <1>19 DEF PrivilegesIInv

LEMMA RestoreEndsKeeps ==
  ASSUME PrivilegesIInv, RestoreEnds
  PROVE  PrivilegesIInv'
<1>1. /\ pc = "restore" /\ pc' = "done" /\ catalog' = catalog /\ script = <<>>
      /\ next' = next /\ statements' = statements /\ script' = script
      /\ target' = target /\ targetDefaults' = targetDefaults /\ refused' = refused
  BY DEF RestoreEnds, backupVars, printVars
<1>2. ScriptTypes /\ PrintInv /\ DefaultInv /\ ObjectInv
  BY DEF PrivilegesIInv
<1>3. /\ Steps' = Steps
      /\ \A j : /\ CreateOf(j)' = CreateOf(j) /\ GrantOf(j)' = GrantOf(j)
                /\ Object(j)' = Object(j) /\ OwnerOf(j)' = OwnerOf(j) /\ ColumnsOf(j)' = ColumnsOf(j)
                /\ CommentOf(j)' = CommentOf(j) /\ \A l : LabelOf(j, l)' = LabelOf(j, l)
  BY <1>1, CatalogSame
<1>4. ScriptTypes'
  BY <1>1, <1>2, <1>3 DEF ScriptTypes
<1>5. CollectInv' /\ MapInv'
  BY <1>1 DEF CollectInv, MapInv
<1>6. PrintInv'
  BY <1>1, <1>2, <1>3 DEF PrintInv, InOrder
<1>7. \A j : Printed(j) /\ Printed(j)'
  BY <1>1 DEF Printed
<1>8. \A j : (Awaited(j)' <=> Awaited(j)) /\ \A tg, seq : Present(j, tg, seq)' <=> Present(j, tg, seq)
  <2> TAKE j
  <2>1. GrantDue(j)' <=> GrantDue(j)
    BY <1>1, <1>3 DEF GrantDue
  <2>2. Awaited(j)' <=> Awaited(j)
    BY <1>1, <1>3, <2>1, Zenon DEF Awaited
  <2> QED
    BY <1>1, <2>2, PresentSame
<1>9. ObjectInv'
  BY <1>1, <1>2, <1>7, <1>8 DEF ObjectInv
<1>10. DefaultInv'
  BY <1>1, <1>2 DEF DefaultInv, Occurs, DefaultOf
<1> QED
  BY <1>4, <1>5, <1>6, <1>9, <1>10 DEF PrivilegesIInv

\* rest is what is left of seq when s, its first statement, is run.
Runs(s, seq, rest) ==
  /\ s \in Steps /\ rest \in Seq(Steps) /\ InOrder(rest) /\ Occurs(s, seq)
  /\ \A x : Occurs(x, rest) => Occurs(x, seq)
  /\ \A x : Occurs(x, seq) /\ x # s => Occurs(x, rest)
  /\ \A x : Occurs(x, rest) /\ (x.object = s.object \/ s.kind = "DEFAULT")
       => Rank(s) <= Rank(x) /\ x.kind # "CREATE"

LEMMA RunsTail ==
  ASSUME NEW seq \in Seq(Steps), seq # <<>>, InOrder(seq)
  PROVE  Runs(Head(seq), seq, Tail(seq))
BY TailFacts, Zenon DEF Runs

LEMMA StepRanks ==
  ASSUME catalog \in Catalogs, NEW i \in DOMAIN catalog.objects
  PROVE  /\ CreateOf(i).object = i /\ CreateOf(i).kind = "CREATE" /\ Rank(CreateOf(i)) = 0
         /\ CommentOf(i).object = i /\ CommentOf(i).kind = "COMMENT" /\ Rank(CommentOf(i)) = 1
         /\ OwnerOf(i).object = i /\ OwnerOf(i).kind = "OWNER" /\ Rank(OwnerOf(i)) = 2
         /\ GrantOf(i).object = i /\ GrantOf(i).kind = "GRANT" /\ Rank(GrantOf(i)) = 3
         /\ \A l : /\ LabelOf(i, l).object = i /\ LabelOf(i, l).kind = "LABEL"
                   /\ Rank(LabelOf(i, l)) = 4 /\ LabelOf(i, l).to.name = l
         /\ ColumnsOf(i).object = i /\ ColumnsOf(i).kind = "GRANT" /\ Rank(ColumnsOf(i)) = 5
<1>1. /\ CreateOf(i).object = i /\ CreateOf(i).kind = "CREATE"
      /\ CommentOf(i).object = i /\ CommentOf(i).kind = "COMMENT"
      /\ OwnerOf(i).object = i /\ OwnerOf(i).kind = "OWNER"
  BY CreateFacts
<1>2. \A l : LabelOf(i, l).object = i /\ LabelOf(i, l).kind = "LABEL" /\ LabelOf(i, l).to.name = l
  BY CreateFacts
<1>3. /\ GrantOf(i).object = i /\ GrantOf(i).kind = "GRANT" /\ ~GrantOf(i).column
      /\ ColumnsOf(i).object = i /\ ColumnsOf(i).kind = "GRANT" /\ ColumnsOf(i).column
  BY GrantKinds
<1> QED
  BY <1>1, <1>2, <1>3, RankFacts

LEMMA DefaultRank ==
  ASSUME catalog \in Catalogs, NEW s \in Steps
  PROVE  /\ s.object \in Nat /\ (s.object = 0 <=> s.kind = "DEFAULT")
         /\ s.kind = "DEFAULT" <=> Rank(s) = 6
         /\ Rank(s) \in 0..6
<1>1. Rank(s) \in 0..6 /\ (s.kind = "DEFAULT" => Rank(s) = 6)
  BY RankFacts
<1>2. CASE s.object = 0 /\ s.kind = "DEFAULT"
  BY <1>1, <1>2
<1>3. CASE s.kind # "DEFAULT"
  <2>1. PICK i \in DOMAIN catalog.objects :
          /\ s.object = i
          /\ \/ s = CreateOf(i) \/ s = CommentOf(i) \/ s = OwnerOf(i) \/ s = GrantOf(i)
             \/ s = ColumnsOf(i) \/ \E l \in Object(i).labels : s = LabelOf(i, l)
    BY <1>3, StepsAre
  <2>2. i \in Nat \ {0}
    BY ObjectTypes
  <2>3. Rank(s) # 6
    BY <2>1, StepRanks
  <2> QED
    BY <1>1, <1>3, <2>1, <2>2, <2>3
<1> QED
  BY <1>2, <1>3, StepsAre

\* What a statement leaves of the statements about its object.
LEMMA RunsFacts ==
  ASSUME catalog \in Catalogs, NEW i \in DOMAIN catalog.objects, NEW s, s.object = i,
         NEW seq, NEW rest, Runs(s, seq, rest)
  PROVE  /\ ~Occurs(CreateOf(i), rest)
         /\ \A x : Occurs(x, rest) => Occurs(x, seq)
         /\ \A x : Rank(x) # Rank(s) /\ Occurs(x, seq) => Occurs(x, rest)
         /\ 1 < Rank(s) => ~Occurs(CommentOf(i), rest)
         /\ 2 < Rank(s) => ~Occurs(OwnerOf(i), rest)
         /\ 3 < Rank(s) => ~Occurs(GrantOf(i), rest)
<1>1. Rank(s) \in 0..6
  BY RankFacts
<1>2. \A x : Occurs(x, rest) /\ x.object = i => Rank(s) <= Rank(x) /\ x.kind # "CREATE"
  BY DEF Runs
<1>3. \A x : Occurs(x, rest) => Occurs(x, seq)
  BY DEF Runs
<1>4. \A x : Rank(x) # Rank(s) /\ Occurs(x, seq) => Occurs(x, rest)
  BY DEF Runs
<1>5. /\ CreateOf(i).object = i /\ CreateOf(i).kind = "CREATE"
      /\ CommentOf(i).object = i /\ Rank(CommentOf(i)) = 1
      /\ OwnerOf(i).object = i /\ Rank(OwnerOf(i)) = 2
      /\ GrantOf(i).object = i /\ Rank(GrantOf(i)) = 3
  BY StepRanks
<1>6. ~Occurs(CreateOf(i), rest)
  BY <1>2, <1>5
<1>7. 1 < Rank(s) => ~Occurs(CommentOf(i), rest)
  BY <1>1, <1>2, <1>5
<1>8. 2 < Rank(s) => ~Occurs(OwnerOf(i), rest)
  BY <1>1, <1>2, <1>5
<1>9. 3 < Rank(s) => ~Occurs(GrantOf(i), rest)
  BY <1>1, <1>2, <1>5
<1> QED
  BY <1>3, <1>4, <1>6, <1>7, <1>8, <1>9

\* The object with the fields that a statement changes.
Thing(type, owner, list, column, comment, labels) ==
  [type |-> type, owner |-> owner, list |-> list, column |-> column, comment |-> comment,
   labels |-> labels]

LEMMA ExecutedThing ==
  ASSUME NEW s, NEW tg, tg = Thing(tg.type, tg.owner, tg.list, tg.column, tg.comment, tg.labels)
  PROVE  /\ s.kind = "COMMENT" =>
              Executed(tg, s) = [type |-> tg.type, owner |-> tg.owner, list |-> tg.list,
                                column |-> tg.column, comment |-> TRUE, labels |-> tg.labels]
         /\ s.kind = "LABEL" =>
              Executed(tg, s) = Thing(tg.type, tg.owner, tg.list, tg.column, tg.comment,
                                     tg.labels \cup {s.to.name})
         /\ s.kind = "OWNER" =>
              Executed(tg, s) = Thing(tg.type, Named(s.to),
                                      [tg.list EXCEPT !.acl = Renamed(tg.list.acl, tg.owner, Named(s.to))],
                                      Renamed(tg.column, tg.owner, Named(s.to)), tg.comment, tg.labels)
         /\ s.kind = "GRANT" /\ s.column =>
              Executed(tg, s) = Thing(tg.type, tg.owner, tg.list, Changed(tg.column, s, "COLUMN"),
                                     tg.comment, tg.labels)
<1>1. PICK type, owner, list, column, comment, labels :
        /\ tg = Thing(type, owner, list, column, comment, labels)
        /\ tg.type = type /\ tg.owner = owner /\ tg.list = list /\ tg.column = column
        /\ tg.comment = comment /\ tg.labels = labels
  BY Zenon
<1>2. s.kind = "COMMENT" =>
        Executed(tg, s) = [type |-> type, owner |-> owner, list |-> list, column |-> column,
                          comment |-> TRUE, labels |-> labels]
  BY <1>1 DEF Executed, Thing
<1>3. s.kind = "LABEL" =>
        Executed(tg, s) = Thing(type, owner, list, column, comment, labels \cup {s.to.name})
  BY <1>1 DEF Executed, Thing
<1>4. s.kind = "OWNER" =>
        Executed(tg, s) = Thing(type, Named(s.to),
                               [list EXCEPT !.acl = Renamed(list.acl, owner, Named(s.to))],
                               Renamed(column, owner, Named(s.to)), comment, labels)
  BY <1>1 DEF Executed, AfterOwner, Thing
<1>5. s.kind = "GRANT" /\ s.column =>
        Executed(tg, s) = Thing(type, owner, list, Changed(column, s, "COLUMN"), comment, labels)
  BY <1>1 DEF Executed, AfterGrant, Thing
<1> QED
  BY <1>1, <1>2, <1>3, <1>4, <1>5, Zenon

Listing(tg, full, few) == [tg EXCEPT !.list = full, !.column = few]

LEMMA ThingListing ==
  ASSUME NEW type, NEW owner, NEW list, NEW column, NEW comment, NEW labels, NEW full, NEW few
  PROVE  Listing(Thing(type, owner, list, column, comment, labels), full, few)
           = Thing(type, owner, full, few, comment, labels)
<1>1. [Thing(type, owner, list, column, comment, labels) EXCEPT !.list = full]
        = Thing(type, owner, full, column, comment, labels)
  BY DEF Thing
<1>2. [Thing(type, owner, full, column, comment, labels) EXCEPT !.column = few]
        = Thing(type, owner, full, few, comment, labels)
  BY DEF Thing
<1> QED
  BY <1>1, <1>2, Zenon DEF Listing

LEMMA GrantThing ==
  ASSUME NEW s, s.kind = "GRANT", ~s.column,
         NEW tg, tg = Thing(tg.type, tg.owner, tg.list, tg.column, tg.comment, tg.labels),
         NEW full, full = [null |-> FALSE,
                           acl |-> Changed(Effective(tg.list, tg.type, tg.owner), s, s.keyword)],
         NEW few, few = {e \in tg.column : e.grantee \notin Revoked(s)}
  PROVE  Executed(tg, s) = Thing(tg.type, tg.owner, full, few, tg.comment, tg.labels)
<1>1. Executed(tg, s) = Listing(tg, full, few)
  BY Zenon DEF Executed, AfterGrant, Revoked, Listing
<1>2. Listing(Thing(tg.type, tg.owner, tg.list, tg.column, tg.comment, tg.labels), full, few)
        = Thing(tg.type, tg.owner, full, few, tg.comment, tg.labels)
  BY ThingListing
<1> QED
  BY <1>1, <1>2

LEMMA PresentThing ==
  ASSUME NEW i, NEW tg, NEW seq, Present(i, tg, seq)
  PROVE  /\ tg = Thing(tg.type, tg.owner, tg.list, tg.column, tg.comment, tg.labels)
         /\ tg.type = Object(i).type
BY DEF Present, Thing

LEMMA ThingPresent ==
  ASSUME NEW i, NEW owner, NEW list, NEW column, NEW comment, NEW labels, NEW seq,
         NEW tg, tg = Thing(Object(i).type, owner, list, column, comment, labels),
         ~Occurs(CreateOf(i), seq),
         OwnerInv(i, tg, seq), ListInv(i, tg, seq), ColumnInv(i, tg, seq), NoteInv(i, tg, seq)
  PROVE  Present(i, tg, seq)
<1>1. tg = [type |-> Object(i).type, owner |-> tg.owner, list |-> tg.list, column |-> tg.column,
           comment |-> tg.comment, labels |-> tg.labels]
  BY DEF Thing
<1> QED
  BY <1>1, Zenon DEF Present

\* A statement about something else than an owner, a list or a column.
LEMMA RightsStay ==
  ASSUME catalog \in Catalogs, NEW i \in DOMAIN catalog.objects, NEW s, s.object = i,
         Rank(s) \in {1, 4}, NEW seq, NEW rest, Runs(s, seq, rest),
         NEW tg, NEW u, u.owner = tg.owner, u.list = tg.list, u.column = tg.column,
         Present(i, tg, seq)
  PROVE  OwnerInv(i, u, rest) /\ ListInv(i, u, rest) /\ ColumnInv(i, u, rest)
<1>1. /\ \A x : Occurs(x, rest) => Occurs(x, seq)
      /\ \A x : Rank(x) # Rank(s) /\ Occurs(x, seq) => Occurs(x, rest)
  BY RunsFacts
<1>2. Rank(OwnerOf(i)) = 2 /\ Rank(GrantOf(i)) = 3 /\ Rank(ColumnsOf(i)) = 5
  BY StepRanks
<1>3. /\ Occurs(OwnerOf(i), rest) <=> Occurs(OwnerOf(i), seq)
      /\ Occurs(GrantOf(i), rest) <=> Occurs(GrantOf(i), seq)
      /\ Occurs(ColumnsOf(i), rest) <=> Occurs(ColumnsOf(i), seq)
  BY <1>1, <1>2
<1>4. OwnerInv(i, tg, seq) /\ ListInv(i, tg, seq) /\ ColumnInv(i, tg, seq)
  BY DEF Present
<1>5. OwnerInv(i, u, rest)
  BY <1>3, <1>4 DEF OwnerInv
<1>6. ListInv(i, u, rest)
  BY <1>3, <1>4 DEF ListInv
<1>7. ColumnInv(i, u, rest)
  BY <1>3, <1>4 DEF ColumnInv
<1> QED
  BY <1>5, <1>6, <1>7

LEMMA CommentRun ==
  ASSUME catalog \in Catalogs, NEW i \in DOMAIN catalog.objects, Object(i).comment,
         NEW seq, NEW rest, Runs(CommentOf(i), seq, rest), NEW tg, Present(i, tg, seq),
         NEW u, u = Executed(tg, CommentOf(i))
  PROVE  Present(i, u, rest)
<1> DEFINE s == CommentOf(i)
<1>1. s.object = i /\ s.kind = "COMMENT" /\ Rank(s) = 1
  BY StepRanks
<1> HIDE DEF s
<1>2. /\ tg = Thing(tg.type, tg.owner, tg.list, tg.column, tg.comment, tg.labels)
      /\ tg.type = Object(i).type
  BY PresentThing
<1>3. u = [type |-> Object(i).type, owner |-> tg.owner, list |-> tg.list, column |-> tg.column,
           comment |-> TRUE, labels |-> tg.labels]
  <2>1. Executed(tg, s) = [type |-> tg.type, owner |-> tg.owner, list |-> tg.list,
                          column |-> tg.column, comment |-> TRUE, labels |-> tg.labels]
    BY <1>1, <1>2, ExecutedThing, Zenon
  <2> QED
    BY <1>2, <2>1 DEF s
<1>4. /\ u.owner = tg.owner /\ u.list = tg.list /\ u.column = tg.column /\ u.comment = TRUE
      /\ u.labels = tg.labels
  BY <1>3
<1>5. u = Thing(Object(i).type, tg.owner, tg.list, tg.column, u.comment, tg.labels)
  BY <1>3, <1>4 DEF Thing
<1>6. Runs(s, seq, rest)
  BY DEF s
<1>7. OwnerInv(i, u, rest) /\ ListInv(i, u, rest) /\ ColumnInv(i, u, rest)
  BY <1>1, <1>4, <1>6, RightsStay
<1>8. /\ \A x : Rank(x) # 1 /\ Occurs(x, seq) => Occurs(x, rest)
      /\ ~Occurs(CreateOf(i), rest)
  BY <1>1, <1>6, RunsFacts
<1>9. NoteInv(i, u, rest)
  <2>1. NoteInv(i, tg, seq)
    BY DEF Present
  <2>2. \A l : Occurs(LabelOf(i, l), seq) => Occurs(LabelOf(i, l), rest)
    BY <1>8, StepRanks
  <2> QED
    BY <1>4, <2>1, <2>2 DEF NoteInv
<1> QED
  BY <1>5, <1>7, <1>8, <1>9, ThingPresent, Zenon

LEMMA LabelRun ==
  ASSUME catalog \in Catalogs, NEW i \in DOMAIN catalog.objects, NEW l \in Object(i).labels,
         NEW seq, NEW rest, Runs(LabelOf(i, l), seq, rest), NEW tg, Present(i, tg, seq),
         NEW u, u = Executed(tg, LabelOf(i, l))
  PROVE  Present(i, u, rest)
<1> DEFINE s == LabelOf(i, l)
<1>1. s.object = i /\ s.kind = "LABEL" /\ Rank(s) = 4 /\ s.to.name = l
  BY StepRanks
<1> HIDE DEF s
<1>2. /\ tg = Thing(tg.type, tg.owner, tg.list, tg.column, tg.comment, tg.labels)
      /\ tg.type = Object(i).type
  BY PresentThing
<1>3. u = Thing(Object(i).type, tg.owner, tg.list, tg.column, tg.comment, tg.labels \cup {l})
  <2>1. Executed(tg, s) = Thing(tg.type, tg.owner, tg.list, tg.column, tg.comment, tg.labels \cup {s.to.name})
    BY <1>1, <1>2, ExecutedThing, Zenon
  <2> QED
    BY <1>1, <1>2, <2>1, Zenon DEF s
<1>4. /\ u.owner = tg.owner /\ u.list = tg.list /\ u.column = tg.column /\ u.comment = tg.comment
      /\ u.labels = tg.labels \cup {l}
  BY <1>3 DEF Thing
<1>5. Runs(s, seq, rest)
  BY DEF s
<1>6. OwnerInv(i, u, rest) /\ ListInv(i, u, rest) /\ ColumnInv(i, u, rest)
  BY <1>1, <1>4, <1>5, RightsStay
<1>7. /\ \A x : Rank(x) # 4 /\ Occurs(x, seq) => Occurs(x, rest)
      /\ ~Occurs(CreateOf(i), rest)
  BY <1>1, <1>5, RunsFacts
<1>8. NoteInv(i, u, rest)
  <2>1. NoteInv(i, tg, seq)
    BY DEF Present
  <2>2. Occurs(CommentOf(i), seq) => Occurs(CommentOf(i), rest)
    BY <1>7, StepRanks
  <2> QED
    BY <1>4, <2>1, <2>2 DEF NoteInv
<1> QED
  BY <1>3, <1>6, <1>7, <1>8, ThingPresent, Zenon

\* Neither privileges nor those of columns have come when the owner comes.
LEMMA OwnerRun ==
  ASSUME catalog \in Catalogs, NEW i \in DOMAIN catalog.objects, Object(i).type \in OwnerTypes,
         NEW seq, NEW rest, Runs(OwnerOf(i), seq, rest), NEW tg, Present(i, tg, seq),
         NEW u, u = Executed(tg, OwnerOf(i))
  PROVE  Present(i, u, rest)
<1> DEFINE s == OwnerOf(i)
<1>1. s.object = i /\ s.kind = "OWNER" /\ Rank(s) = 2
  BY StepRanks
<1>2. Named(s.to) = Object(i).owner
  <2>1. s.to = OwnerName(Object(i))
    BY CreateFacts
  <2> QED
    BY <2>1, ObjectTypes, QuotedNames DEF OwnerName
<1> HIDE DEF s
<1>3. Runs(s, seq, rest)
  BY DEF s
<1>4. /\ tg = Thing(tg.type, tg.owner, tg.list, tg.column, tg.comment, tg.labels)
      /\ tg.type = Object(i).type
  BY PresentThing
<1>5. Occurs(OwnerOf(i), seq)
  BY <1>3 DEF Runs, s
<1>6. /\ tg.list = NullAcl /\ (HasGrant(Object(i)) => Occurs(GrantOf(i), seq))
      /\ tg.column = {}
      /\ ~Object(i).extension /\ PrintedColumns(Object(i)) # {} => Occurs(ColumnsOf(i), seq)
  BY <1>5 DEF Present, ListInv, ColumnInv
<1>7. [tg.list EXCEPT !.acl = Renamed(tg.list.acl, tg.owner, Named(s.to))] = NullAcl
  <2>1. NullAcl.acl = {}
    BY DEF NullAcl
  <2>2. \A old, new : Renamed({}, old, new) = {}
    BY DEF Renamed, Normal
  <2>3. [NullAcl EXCEPT !.acl = {}] = NullAcl
    BY DEF NullAcl
  <2> QED
    BY <1>6, <2>1, <2>2, <2>3, Zenon
<1>8. Renamed(tg.column, tg.owner, Named(s.to)) = {}
  <2>1. \A old, new : Renamed({}, old, new) = {}
    BY DEF Renamed, Normal
  <2> QED
    BY <1>6, <2>1, Zenon
<1>9. u = Thing(Object(i).type, Object(i).owner, NullAcl, {}, tg.comment, tg.labels)
  <2>1. Executed(tg, s) = Thing(tg.type, Named(s.to),
                                [tg.list EXCEPT !.acl = Renamed(tg.list.acl, tg.owner, Named(s.to))],
                                Renamed(tg.column, tg.owner, Named(s.to)), tg.comment, tg.labels)
    BY <1>1, <1>4, ExecutedThing, Zenon
  <2>2. u = Executed(tg, s)
    BY DEF s
  <2> QED
    BY <1>2, <1>4, <1>7, <1>8, <2>1, <2>2, Zenon
<1>10. /\ u.owner = Object(i).owner /\ u.list = NullAcl /\ u.column = {} /\ u.comment = tg.comment
       /\ u.labels = tg.labels
  BY <1>9 DEF Thing
<1>11. /\ \A x : Rank(x) # 2 /\ Occurs(x, seq) => Occurs(x, rest)
       /\ ~Occurs(CreateOf(i), rest)
  BY <1>1, <1>3, RunsFacts
<1>12. /\ Occurs(GrantOf(i), seq) => Occurs(GrantOf(i), rest)
       /\ Occurs(ColumnsOf(i), seq) => Occurs(ColumnsOf(i), rest)
       /\ Occurs(CommentOf(i), seq) => Occurs(CommentOf(i), rest)
       /\ \A l : Occurs(LabelOf(i, l), seq) => Occurs(LabelOf(i, l), rest)
  BY <1>11, StepRanks
<1>13. OwnerInv(i, u, rest)
  <2>1. Object(i).owner \in Roles
    BY ObjectTypes
  <2> QED
    BY <1>10, <2>1 DEF OwnerInv
<1>14. ListInv(i, u, rest)
  BY <1>6, <1>10, <1>12 DEF ListInv
<1>15. ColumnInv(i, u, rest)
  BY <1>6, <1>10, <1>12 DEF ColumnInv
<1>16. NoteInv(i, u, rest)
  BY <1>10, <1>12 DEF NoteInv, Present
<1> QED
  BY <1>9, <1>11, <1>13, <1>14, <1>15, <1>16, ThingPresent, Zenon

LEMMA EffectiveFacts ==
  ASSUME NEW type, NEW owner
  PROVE  /\ Effective(NullAcl, type, owner) =
              IF Keyword(type) \in DOMAIN Rights THEN Default(Keyword(type), owner) ELSE {}
         /\ \A list : ~list.null => Effective(list, type, owner) = list.acl
BY DEF Effective, NullAcl

\* The first access list takes the place of the one by default, and repeating the
\* statement changes nothing.
LEMMA GrantRun ==
  ASSUME catalog \in Catalogs, NEW i \in DOMAIN catalog.objects, HasGrant(Object(i)),
         NEW seq, NEW rest, Runs(GrantOf(i), seq, rest), NEW tg, Present(i, tg, seq),
         NEW u, u = Executed(tg, GrantOf(i))
  PROVE  Present(i, u, rest)
<1> DEFINE s == GrantOf(i)
           acl == Normal(Given(s.grants, Keyword(Object(i).type)))
           full == [null |-> FALSE, acl |-> acl]
           column == {e \in tg.column : e.grantee \notin Revoked(s)}
<1>1. s.object = i /\ s.kind = "GRANT" /\ Rank(s) = 3
  BY StepRanks
<1>2. ~s.column /\ s.keyword = Keyword(Object(i).type)
  BY GrantKinds
<1>3. Object(i).type \in OwnerTypes /\ Revoked(s) = {Public, Object(i).owner}
  BY GrantFor DEF OwnerTypes
<1> HIDE DEF s, acl, full
<1>4. Runs(s, seq, rest)
  BY DEF s
<1>5. /\ tg = Thing(tg.type, tg.owner, tg.list, tg.column, tg.comment, tg.labels)
      /\ tg.type = Object(i).type
  BY PresentThing
<1>6. /\ \A x : Occurs(x, rest) => Occurs(x, seq)
      /\ \A x : Rank(x) # 3 /\ Occurs(x, seq) => Occurs(x, rest)
      /\ ~Occurs(CreateOf(i), rest) /\ ~Occurs(CommentOf(i), rest) /\ ~Occurs(OwnerOf(i), rest)
  BY <1>1, <1>4, RunsFacts
<1>7. ~Occurs(OwnerOf(i), seq) /\ ~Occurs(CommentOf(i), seq) /\ Occurs(GrantOf(i), seq)
  <2>1. Rank(OwnerOf(i)) # 3 /\ Rank(CommentOf(i)) # 3
    BY StepRanks
  <2> QED
    BY <1>4, <1>6, <2>1 DEF Runs, s
<1>8. tg.owner = Object(i).owner /\ tg.owner \in Roles
  BY <1>3, <1>7 DEF Present, OwnerInv
<1>9. Changed(Effective(tg.list, tg.type, tg.owner), s, s.keyword) = acl
  <2>1. CASE tg.list = NullAcl
    <3>1. ASSUME NEW e \in Effective(tg.list, tg.type, tg.owner)
          PROVE  e.grantee \in Revoked(s)
      <4>1. e \in Default(Keyword(tg.type), tg.owner)
        <5>1. Effective(NullAcl, tg.type, tg.owner) =
                IF Keyword(tg.type) \in DOMAIN Rights THEN Default(Keyword(tg.type), tg.owner) ELSE {}
          BY EffectiveFacts
        <5> QED
          BY <2>1, <3>1, <5>1
      <4>2. e.grantee \in {tg.owner, Public}
        BY <4>1, DefaultGrantees
      <4> QED
        BY <1>3, <1>8, <4>2
    <3>2. Changed(Effective(tg.list, tg.type, tg.owner), s, s.keyword)
            = Normal(Given(s.grants, s.keyword))
      BY <3>1, ChangedFirst
    <3> QED
      BY <1>2, <3>2, Zenon DEF acl
  <2>2. CASE tg.list # NullAcl
    <3>1. tg.list = full
      BY <2>2 DEF Present, ListInv, full, acl, s
    <3>2. ~tg.list.null /\ tg.list.acl = acl
      BY <3>1 DEF full
    <3>3. Effective(tg.list, tg.type, tg.owner) = acl
      BY <3>2, EffectiveFacts
    <3> QED
      BY <1>2, <3>3, ChangedAgain DEF acl
  <2> QED
    BY <2>1, <2>2
<1>10. /\ tg.column = {}
       /\ ~Object(i).extension /\ PrintedColumns(Object(i)) # {} => Occurs(ColumnsOf(i), rest)
  <2>1. ColumnInv(i, tg, seq)
    BY DEF Present
  <2>2. /\ tg.column = {}
        /\ ~Object(i).extension /\ PrintedColumns(Object(i)) # {} => Occurs(ColumnsOf(i), seq)
    BY <1>7, <2>1 DEF ColumnInv
  <2>3. Rank(ColumnsOf(i)) # 3
    BY StepRanks
  <2> QED
    BY <1>6, <2>2, <2>3
<1>11. u = Thing(Object(i).type, tg.owner, full, {}, tg.comment, tg.labels)
  <2>1. column = {}
    BY <1>10
  <2> HIDE DEF column
  <2>2. full = [null |-> FALSE,
                acl |-> Changed(Effective(tg.list, tg.type, tg.owner), s, s.keyword)]
    BY <1>9, Zenon DEF full
  <2>3. Executed(tg, s) = Thing(tg.type, tg.owner, full, column, tg.comment, tg.labels)
    BY <1>1, <1>2, <1>5, <2>2, GrantThing, ZenonT(60) DEF column
  <2>4. u = Executed(tg, s)
    BY DEF s
  <2> QED
    BY <1>5, <2>1, <2>3, <2>4, Zenon
<1>12. /\ u.owner = tg.owner /\ u.list = full /\ u.column = {} /\ u.comment = tg.comment
       /\ u.labels = tg.labels
  BY <1>11 DEF Thing
<1>13. OwnerInv(i, u, rest)
  BY <1>8, <1>12 DEF OwnerInv
<1>14. ListInv(i, u, rest)
  BY <1>6, <1>12, Zenon DEF ListInv, full, acl, s
<1>15. ColumnInv(i, u, rest)
  BY <1>10, <1>12 DEF ColumnInv
<1>16. NoteInv(i, u, rest)
  <2>1. NoteInv(i, tg, seq)
    BY DEF Present
  <2>2. \A l : Occurs(LabelOf(i, l), seq) => Occurs(LabelOf(i, l), rest)
    BY <1>6, StepRanks
  <2> QED
    BY <1>7, <1>12, <2>1, <2>2 DEF NoteInv
<1> QED
  BY <1>6, <1>11, <1>13, <1>14, <1>15, <1>16, ThingPresent, Zenon

\* The columns' privileges come when nothing will take them away.
LEMMA ColumnsRun ==
  ASSUME catalog \in Catalogs, NEW i \in DOMAIN catalog.objects, ~Object(i).extension,
         PrintedColumns(Object(i)) # {},
         NEW seq, NEW rest, Runs(ColumnsOf(i), seq, rest), NEW tg, Present(i, tg, seq),
         NEW u, u = Executed(tg, ColumnsOf(i))
  PROVE  Present(i, u, rest)
<1> DEFINE s == ColumnsOf(i)
           acl == Normal(Given(s.grants, "COLUMN"))
<1>1. s.object = i /\ s.kind = "GRANT" /\ Rank(s) = 5
  BY StepRanks
<1>2. s.column
  BY GrantKinds
<1> HIDE DEF s, acl
<1>3. Runs(s, seq, rest)
  BY DEF s
<1>4. /\ tg = Thing(tg.type, tg.owner, tg.list, tg.column, tg.comment, tg.labels)
      /\ tg.type = Object(i).type
  BY PresentThing
<1>5. /\ \A x : Rank(x) # 5 /\ Occurs(x, seq) => Occurs(x, rest)
      /\ ~Occurs(CreateOf(i), rest) /\ ~Occurs(OwnerOf(i), rest) /\ ~Occurs(GrantOf(i), rest)
  BY <1>1, <1>3, RunsFacts
<1>6. /\ \A l : Occurs(LabelOf(i, l), seq) => Occurs(LabelOf(i, l), rest)
      /\ Occurs(CommentOf(i), seq) => Occurs(CommentOf(i), rest)
      /\ Occurs(OwnerOf(i), seq) => Occurs(OwnerOf(i), rest)
      /\ Occurs(GrantOf(i), seq) => Occurs(GrantOf(i), rest)
  BY <1>5, StepRanks
<1>7. Changed(tg.column, s, "COLUMN") = acl
  <2>1. ColumnInv(i, tg, seq)
    BY DEF Present
  <2>2. CASE tg.column = {}
    BY <2>2, ChangedFirst DEF acl
  <2>3. CASE tg.column # {}
    <3>1. tg.column = acl
      BY <2>1, <2>3 DEF ColumnInv, acl, s
    <3> QED
      BY <3>1, ChangedAgain DEF acl
  <2> QED
    BY <2>2, <2>3
<1>8. u = Thing(Object(i).type, tg.owner, tg.list, acl, tg.comment, tg.labels)
  <2>1. Executed(tg, s) = Thing(tg.type, tg.owner, tg.list, Changed(tg.column, s, "COLUMN"),
                               tg.comment, tg.labels)
    BY <1>1, <1>2, <1>4, ExecutedThing, Zenon
  <2>2. u = Executed(tg, s)
    BY DEF s
  <2> QED
    BY <1>4, <1>7, <2>1, <2>2, Zenon
<1>9. /\ u.owner = tg.owner /\ u.list = tg.list /\ u.column = acl /\ u.comment = tg.comment
      /\ u.labels = tg.labels
  BY <1>8 DEF Thing
<1>10. OwnerInv(i, u, rest)
  <2>1. OwnerInv(i, tg, seq)
    BY DEF Present
  <2> QED
    BY <1>6, <1>9, <2>1 DEF OwnerInv
<1>11. ListInv(i, u, rest)
  <2>1. ListInv(i, tg, seq)
    BY DEF Present
  <2> QED
    BY <1>5, <1>6, <1>9, <2>1, Zenon DEF ListInv
<1>12. ColumnInv(i, u, rest)
  BY <1>5, <1>9, Zenon DEF ColumnInv, acl, s
<1>13. NoteInv(i, u, rest)
  <2>1. NoteInv(i, tg, seq)
    BY DEF Present
  <2> QED
    BY <1>6, <1>9, <2>1 DEF NoteInv
<1> QED
  BY <1>5, <1>8, <1>10, <1>11, <1>12, <1>13, ThingPresent, Zenon

LEMMA CreateRun ==
  ASSUME catalog \in Catalogs, NEW i \in DOMAIN catalog.objects, DOMAIN targetDefaults = {},
         pc = "restore", Awaited(i), NEW rest, Runs(CreateOf(i), script, rest),
         NEW u, u = Created(Object(i).type)
  PROVE  Present(i, u, rest)
<1> DEFINE s == CreateOf(i)
<1>1. s.object = i /\ s.kind = "CREATE" /\ Rank(s) = 0
  BY StepRanks
<1> HIDE DEF s
<1>2. Runs(s, script, rest)
  BY DEF s
<1>3. /\ \A x : Rank(x) # 0 /\ Occurs(x, script) => Occurs(x, rest)
      /\ ~Occurs(CreateOf(i), rest)
  BY <1>1, <1>2, RunsFacts
<1>4. /\ \A l : Occurs(LabelOf(i, l), script) => Occurs(LabelOf(i, l), rest)
      /\ Occurs(CommentOf(i), script) => Occurs(CommentOf(i), rest)
      /\ Occurs(OwnerOf(i), script) => Occurs(OwnerOf(i), rest)
      /\ Occurs(GrantOf(i), script) => Occurs(GrantOf(i), rest)
      /\ Occurs(ColumnsOf(i), script) => Occurs(ColumnsOf(i), rest)
  BY <1>3, StepRanks
<1>5. CreatedAcl(Object(i).type) = NullAcl
  BY DEF CreatedAcl
<1>6. u = [type |-> Object(i).type, owner |-> Restorer, list |-> NullAcl, column |-> {},
           comment |-> FALSE, labels |-> {}]
  BY <1>5, Zenon DEF Created
<1>7. /\ u.owner = Restorer /\ u.list = NullAcl /\ u.column = {} /\ u.comment = FALSE /\ u.labels = {}
  BY <1>6
<1>8. u = Thing(Object(i).type, Restorer, NullAcl, {}, u.comment, {})
  BY <1>6, <1>7 DEF Thing
<1>9. GrantDue(i) <=> HasGrant(Object(i))
  BY DEF GrantDue
<1>10. OwnerInv(i, u, rest)
  <2>1. Restorer \in Roles
    BY RolesAssumption
  <2>2. Object(i).extension => Object(i).owner = Restorer
    BY ObjectTypes
  <2> QED
    BY <1>4, <1>7, <2>1, <2>2 DEF OwnerInv, Awaited
<1>11. ListInv(i, u, rest)
  BY <1>4, <1>7, <1>9 DEF ListInv, Awaited
<1>12. ColumnInv(i, u, rest)
  BY <1>4, <1>7 DEF ColumnInv, Awaited
<1>13. NoteInv(i, u, rest)
  BY <1>4, <1>7 DEF NoteInv, Awaited
<1> QED
  BY <1>3, <1>8, <1>10, <1>11, <1>12, <1>13, ThingPresent, Zenon

\* The statement sets what the source gives, whatever there is before.
LEMMA DefaultRun ==
  ASSUME catalog \in Catalogs, NEW i \in DOMAIN catalog.defaults,
         \A k \in DOMAIN targetDefaults : \E j \in DOMAIN catalog.defaults :
           k = catalog.defaults[j].key /\ targetDefaults[k] = Held(catalog.defaults[j].items),
         NEW d, d = catalog.defaults[i]
  PROVE  Changed(DefaultsOf(d.key), DefaultOf(d), DefaultKeyword[d.key.kind]) = Held(d.items)
<1> DEFINE s == DefaultOf(d)
           type == DefaultType(d)
<1>1. /\ s.grants = GrantsFor(d.items, type) /\ Revoked(s) = {Public, d.key.role}
      /\ type \in GrantTypes /\ type # "FOREIGN TABLE" /\ Keyword(type) = type
  BY DefaultFor
<1>2. d.items \in SUBSET AccessItems(Rights[type])
  BY DefaultTypes
<1>3. type = DefaultKeyword[d.key.kind]
  BY DEF DefaultType
<1> HIDE DEF s, type
<1>4. Normal(Given(s.grants, type)) = Held(d.items)
  <2>1. d.items \in SUBSET AccessItems(Rights[Keyword(type)])
    BY <1>1, <1>2
  <2>2. Normal(Given(GrantsFor(d.items, type), Keyword(type))) = Held(d.items)
    BY <1>1, <2>1, GrantsHold
  <2> QED
    BY <1>1, <2>2
<1>5. CASE d.key \in DOMAIN targetDefaults
  <2>1. PICK j \in DOMAIN catalog.defaults :
          d.key = catalog.defaults[j].key /\ targetDefaults[d.key] = Held(catalog.defaults[j].items)
    BY <1>5
  <2>2. j = i
    BY <2>1, DefaultTypes
  <2>3. DefaultsOf(d.key) = Normal(Given(s.grants, type))
    BY <1>4, <1>5, <2>1, <2>2 DEF DefaultsOf
  <2>4. Changed(Normal(Given(s.grants, type)), s, type) = Normal(Given(s.grants, type))
    BY ChangedAgain
  <2> QED
    BY <1>3, <1>4, <2>3, <2>4 DEF s
<1>6. CASE d.key \notin DOMAIN targetDefaults
  <2>1. ASSUME NEW e \in DefaultsOf(d.key)
        PROVE  e.grantee \in Revoked(s)
    <3>1. e \in Default(type, d.key.role)
      BY <1>3, <1>6, <2>1 DEF DefaultsOf
    <3>2. e.grantee \in {d.key.role, Public}
      BY <3>1, DefaultGrantees
    <3> QED
      BY <1>1, <3>2
  <2>2. Changed(DefaultsOf(d.key), s, type) = Normal(Given(s.grants, type))
    BY <2>1, ChangedFirst
  <2> QED
    BY <1>3, <1>4, <2>2 DEF s
<1> QED
  BY <1>5, <1>6

\* A statement about another object.
LEMMA OthersStay ==
  ASSUME catalog \in Catalogs, NEW j \in DOMAIN catalog.objects,
         NEW s, NEW seq, NEW rest, Runs(s, seq, rest), s.object # j
  PROVE  /\ Occurs(CreateOf(j), rest) <=> Occurs(CreateOf(j), seq)
         /\ Occurs(CommentOf(j), rest) <=> Occurs(CommentOf(j), seq)
         /\ Occurs(OwnerOf(j), rest) <=> Occurs(OwnerOf(j), seq)
         /\ Occurs(GrantOf(j), rest) <=> Occurs(GrantOf(j), seq)
         /\ Occurs(ColumnsOf(j), rest) <=> Occurs(ColumnsOf(j), seq)
         /\ \A l : Occurs(LabelOf(j, l), rest) <=> Occurs(LabelOf(j, l), seq)
         /\ \A tg : Present(j, tg, seq) => Present(j, tg, rest)
<1>1. \A x : x.object = j => (Occurs(x, rest) <=> Occurs(x, seq))
  BY DEF Runs
<1>2. /\ Occurs(CreateOf(j), rest) <=> Occurs(CreateOf(j), seq)
      /\ Occurs(CommentOf(j), rest) <=> Occurs(CommentOf(j), seq)
      /\ Occurs(OwnerOf(j), rest) <=> Occurs(OwnerOf(j), seq)
      /\ Occurs(GrantOf(j), rest) <=> Occurs(GrantOf(j), seq)
      /\ Occurs(ColumnsOf(j), rest) <=> Occurs(ColumnsOf(j), seq)
      /\ \A l : Occurs(LabelOf(j, l), rest) <=> Occurs(LabelOf(j, l), seq)
  BY <1>1, StepRanks
<1>3. ASSUME NEW tg, Present(j, tg, seq)
      PROVE  Present(j, tg, rest)
  <2>1. OwnerInv(j, tg, rest)
    BY <1>2, <1>3 DEF Present, OwnerInv
  <2>2. ListInv(j, tg, rest)
    BY <1>2, <1>3 DEF Present, ListInv
  <2>3. ColumnInv(j, tg, rest)
    BY <1>2, <1>3 DEF Present, ColumnInv
  <2>4. NoteInv(j, tg, rest)
    BY <1>2, <1>3 DEF Present, NoteInv
  <2> QED
    BY <1>2, <1>3, <2>1, <2>2, <2>3, <2>4, Zenon DEF Present
<1> QED
  BY <1>2, <1>3

LEMMA AwaitedStay ==
  ASSUME catalog \in Catalogs, catalog' = catalog, pc' = pc, next' = next,
         NEW j \in DOMAIN catalog.objects,
         NEW s, Runs(s, script, script'), s.object # j, Awaited(j)
  PROVE  Awaited(j)'
<1>1. /\ Occurs(CreateOf(j), script') <=> Occurs(CreateOf(j), script)
      /\ Occurs(CommentOf(j), script') <=> Occurs(CommentOf(j), script)
      /\ Occurs(OwnerOf(j), script') <=> Occurs(OwnerOf(j), script)
      /\ Occurs(GrantOf(j), script') <=> Occurs(GrantOf(j), script)
      /\ Occurs(ColumnsOf(j), script') <=> Occurs(ColumnsOf(j), script)
      /\ \A l : Occurs(LabelOf(j, l), script') <=> Occurs(LabelOf(j, l), script)
  BY OthersStay
<1>2. /\ Object(j)' = Object(j) /\ CreateOf(j)' = CreateOf(j) /\ CommentOf(j)' = CommentOf(j)
      /\ OwnerOf(j)' = OwnerOf(j) /\ GrantOf(j)' = GrantOf(j) /\ ColumnsOf(j)' = ColumnsOf(j)
      /\ \A l : LabelOf(j, l)' = LabelOf(j, l)
  BY CatalogSame
<1>3. GrantDue(j)' <=> GrantDue(j)
  BY <1>2 DEF GrantDue
<1>4. /\ Occurs(CreateOf(j), script')
      /\ GrantDue(j)' => Occurs(GrantOf(j), script')
      /\ ~Object(j).extension =>
           /\ Object(j).comment => Occurs(CommentOf(j), script')
           /\ Object(j).type \in OwnerTypes => Occurs(OwnerOf(j), script')
           /\ PrintedColumns(Object(j)) # {} => Occurs(ColumnsOf(j), script')
           /\ Object(j).labels # {} => \E l \in Object(j).labels : Occurs(LabelOf(j, l), script')
  BY <1>1, <1>3 DEF Awaited
<1> QED
  BY <1>2, <1>4 DEF Awaited

\* A statement is run on the object it is about, which is there.
LEMMA StatementRun ==
  ASSUME catalog \in Catalogs, NEW s \in Steps, s.kind \notin {"CREATE", "DEFAULT"},
         NEW seq, NEW rest, Runs(s, seq, rest), NEW tg, Present(s.object, tg, seq)
  PROVE  Present(s.object, Executed(tg, s), rest)
<1>1. PICK i \in DOMAIN catalog.objects :
        /\ s.object = i
        /\ \/ s = CreateOf(i)
           \/ s = CommentOf(i) /\ Object(i).comment
           \/ s = OwnerOf(i) /\ Object(i).type \in OwnerTypes
           \/ s = GrantOf(i) /\ HasGrant(Object(i))
           \/ s = ColumnsOf(i) /\ ~Object(i).extension /\ PrintedColumns(Object(i)) # {}
           \/ \E l \in Object(i).labels : s = LabelOf(i, l)
  BY StepsAre
<1>2. Present(i, tg, seq)
  BY <1>1
<1>3. CASE s = CreateOf(i)
  BY <1>3, StepRanks
<1>4. CASE s = CommentOf(i) /\ Object(i).comment
  BY <1>1, <1>2, <1>4, CommentRun
<1>5. CASE s = OwnerOf(i) /\ Object(i).type \in OwnerTypes
  BY <1>1, <1>2, <1>5, OwnerRun
<1>6. CASE s = GrantOf(i) /\ HasGrant(Object(i))
  BY <1>1, <1>2, <1>6, GrantRun
<1>7. CASE s = ColumnsOf(i) /\ ~Object(i).extension /\ PrintedColumns(Object(i)) # {}
  BY <1>1, <1>2, <1>7, ColumnsRun
<1>8. CASE \E l \in Object(i).labels : s = LabelOf(i, l)
  BY <1>1, <1>2, <1>8, LabelRun
<1> QED
  BY <1>1, <1>3, <1>4, <1>5, <1>6, <1>7, <1>8

LEMMA ExecuteFacts ==
  ASSUME ScriptTypes, PrintInv, ExecuteStatement, NEW s, s = Head(script)
  PROVE  /\ pc = "restore" /\ pc' = "restore" /\ catalog' = catalog /\ next' = next
         /\ statements' = statements /\ refused' = FALSE
         /\ s \in Steps /\ Runs(s, script, script')
         /\ s.kind = "CREATE" =>
              /\ target' = With(target, s.object, Created(Object(s.object).type))
              /\ targetDefaults' = targetDefaults
         /\ s.kind = "DEFAULT" =>
              /\ targetDefaults' = With(targetDefaults, s.keyword,
                   Changed(DefaultsOf(s.keyword), s, DefaultKeyword[s.keyword.kind]))
              /\ target' = target
         /\ s.kind \notin {"CREATE", "DEFAULT"} =>
              /\ target' = [target EXCEPT ![s.object] = Executed(@, s)]
              /\ targetDefaults' = targetDefaults
<1>1. /\ pc = "restore" /\ pc' = "restore" /\ catalog' = catalog /\ next' = next
      /\ statements' = statements /\ script # <<>> /\ script' = Tail(script)
      /\ refused' = (refused \/ ~Readable(s))
  BY Zenon DEF ExecuteStatement, backupVars, printVars
<1>2. catalog \in Catalogs /\ script \in Seq(Steps) /\ InOrder(script) /\ ~refused
  BY DEF ScriptTypes, PrintInv
<1>3. s \in Steps /\ Runs(s, script, script')
  <2>1. Runs(s, script, script')
    BY <1>1, <1>2, RunsTail
  <2> QED
    BY <2>1 DEF Runs
<1>4. Readable(s)
  BY <1>2, <1>3, StepsReadable
<1>5. refused' = FALSE
  BY <1>1, <1>2, <1>4
<1> DEFINE new == With(target, s.object, Created(Object(s.object).type))
           given == With(targetDefaults, s.keyword,
                         Changed(DefaultsOf(s.keyword), s, DefaultKeyword[s.keyword.kind]))
           run == [target EXCEPT ![s.object] = Executed(@, s)]
<1>6. \/ s.kind = "CREATE" /\ target' = new /\ targetDefaults' = targetDefaults
      \/ s.kind = "DEFAULT" /\ targetDefaults' = given /\ target' = target
      \/ s.kind \notin {"CREATE", "DEFAULT"} /\ target' = run /\ targetDefaults' = targetDefaults
      \/ ~Readable(s)
  BY Zenon DEF ExecuteStatement, Object
<1> HIDE DEF new, given, run
<1>7. /\ s.kind = "CREATE" => target' = new /\ targetDefaults' = targetDefaults
      /\ s.kind = "DEFAULT" => targetDefaults' = given /\ target' = target
      /\ s.kind \notin {"CREATE", "DEFAULT"} => target' = run /\ targetDefaults' = targetDefaults
  BY <1>4, <1>6
<1> QED
  BY <1>1, <1>3, <1>5, <1>7 DEF new, given, run

LEMMA ExecuteKeeps ==
  ASSUME PrivilegesIInv, ExecuteStatement
  PROVE  PrivilegesIInv'
<1> DEFINE s == Head(script)
<1>1. ScriptTypes /\ PrintInv /\ DefaultInv /\ ObjectInv
  BY DEF PrivilegesIInv
<1>2. /\ pc = "restore" /\ pc' = "restore" /\ catalog' = catalog /\ next' = next
      /\ statements' = statements /\ refused' = FALSE
      /\ s \in Steps /\ Runs(s, script, script')
  BY <1>1, ExecuteFacts
<1>3. s.kind = "CREATE" =>
        /\ target' = With(target, s.object, Created(Object(s.object).type))
        /\ targetDefaults' = targetDefaults
  BY <1>1, ExecuteFacts
<1>4. s.kind = "DEFAULT" =>
        /\ targetDefaults' = With(targetDefaults, s.keyword,
             Changed(DefaultsOf(s.keyword), s, DefaultKeyword[s.keyword.kind]))
        /\ target' = target
  BY <1>1, ExecuteFacts
<1>5. s.kind \notin {"CREATE", "DEFAULT"} =>
        /\ target' = [target EXCEPT ![s.object] = Executed(@, s)]
        /\ targetDefaults' = targetDefaults
  BY <1>1, ExecuteFacts
<1> HIDE DEF s
<1>6. catalog \in Catalogs /\ statements \in Seq(Steps)
  BY <1>1 DEF ScriptTypes
<1>7. /\ Steps' = Steps
      /\ \A j : CreateOf(j)' = CreateOf(j) /\ GrantOf(j)' = GrantOf(j) /\ Object(j)' = Object(j)
  BY <1>2, CatalogSame
<1>8. script' \in Seq(Steps) /\ InOrder(script')
  BY <1>2 DEF Runs
<1>9. ScriptTypes'
  BY <1>1, <1>2, <1>7, <1>8 DEF ScriptTypes
<1>10. CollectInv' /\ MapInv'
  BY <1>2 DEF CollectInv, MapInv
<1>11. PrintInv'
  <2>1. InOrder(script)' <=> InOrder(script')
    BY DEF InOrder
  <2> QED
    BY <1>1, <1>2, <1>7, <1>8, <2>1 DEF PrintInv
<1>12. \A j : Printed(j) /\ Printed(j)'
  BY <1>2 DEF Printed
<1>13. \A j, tg, seq : Present(j, tg, seq)' <=> Present(j, tg, seq)
  BY <1>2, PresentSame
<1>14. /\ DOMAIN target \subseteq DOMAIN catalog.objects
       /\ \A j \in DOMAIN catalog.objects :
            /\ j \in DOMAIN target => Present(j, target[j], script)
            /\ j \notin DOMAIN target => Awaited(j)
  BY <1>1, <1>2, <1>12 DEF ObjectInv
<1>15. s.kind # "DEFAULT" => s.object \in DOMAIN catalog.objects
  BY <1>2, <1>6, StepsAre
<1>16. \A j \in DOMAIN catalog.objects : j # s.object =>
         /\ \A tg : Present(j, tg, script) => Present(j, tg, script')
         /\ Awaited(j) => Awaited(j)'
  <2> SUFFICES ASSUME NEW j \in DOMAIN catalog.objects, j # s.object
               PROVE  /\ \A tg : Present(j, tg, script) => Present(j, tg, script')
                      /\ Awaited(j) => Awaited(j)'
    OBVIOUS
  <2>1. \A tg : Present(j, tg, script) => Present(j, tg, script')
    BY <1>2, <1>6, OthersStay
  <2>2. Awaited(j) => Awaited(j)'
    BY <1>2, <1>6, AwaitedStay
  <2> QED
    BY <2>1, <2>2
<1>17. /\ DOMAIN target' \subseteq DOMAIN catalog.objects
       /\ \A j \in DOMAIN catalog.objects :
            /\ j \in DOMAIN target' => Present(j, target'[j], script')
            /\ j \notin DOMAIN target' => Awaited(j)'
  <2>1. CASE s.kind = "CREATE"
    <3> DEFINE i == s.object
               u == Created(Object(i).type)
    <3>1. s = CreateOf(i) /\ i \in DOMAIN catalog.objects
      <4>1. PICK k \in DOMAIN catalog.objects :
              /\ s.object = k
              /\ \/ s = CreateOf(k) \/ s = CommentOf(k) \/ s = OwnerOf(k) \/ s = GrantOf(k)
                 \/ s = ColumnsOf(k) \/ \E l \in Object(k).labels : s = LabelOf(k, l)
        BY <1>2, <1>6, <2>1, StepsAre
      <4> QED
        BY <1>6, <2>1, <4>1, StepRanks
    <3>2. Occurs(CreateOf(i), script)
      BY <1>2, <3>1 DEF Runs
    <3>3. i \notin DOMAIN target /\ Awaited(i)
      BY <1>14, <3>1, <3>2 DEF Present
    <3>4. DOMAIN targetDefaults = {}
      <4>1. PICK k \in DOMAIN script : script[k] = s
        BY <1>2, <3>1 DEF Runs, Occurs
      <4> QED
        BY <1>1, <2>1, <4>1 DEF DefaultInv
    <3>5. Present(i, u, script')
      BY <1>2, <1>6, <3>1, <3>3, <3>4, CreateRun
    <3>6. /\ DOMAIN target' = DOMAIN target \cup {i} /\ target'[i] = u
          /\ \A x \in DOMAIN target : x # i => target'[x] = target[x]
      BY <1>3, <2>1 DEF With
    <3> HIDE DEF u, i
    <3> QED
      BY <1>14, <1>16, <3>1, <3>5, <3>6 DEF i
  <2>2. CASE s.kind = "DEFAULT"
    <3>1. \A j \in DOMAIN catalog.objects : j # s.object
      BY <1>2, <1>6, <2>2, DefaultRank, ObjectTypes
    <3> QED
      BY <1>4, <1>14, <1>16, <2>2, <3>1
  <2>3. CASE s.kind \notin {"CREATE", "DEFAULT"}
    <3> DEFINE i == s.object
    <3>1. i \in DOMAIN catalog.objects
      BY <1>15, <2>3
    <3>2. i \in DOMAIN target
      <4>1. CreateOf(i).object = i /\ CreateOf(i).kind = "CREATE"
        BY <1>6, <3>1, StepRanks
      <4>2. ~Occurs(CreateOf(i), script')
        BY <1>2, <4>1 DEF Runs
      <4>3. ~Occurs(CreateOf(i), script)
        BY <1>2, <2>3, <4>1, <4>2 DEF Runs
      <4> QED
        BY <1>14, <3>1, <4>3 DEF Awaited
    <3>3. Present(i, Executed(target[i], s), script')
      BY <1>2, <1>6, <1>14, <2>3, <3>1, <3>2, StatementRun
    <3>4. /\ DOMAIN target' = DOMAIN target /\ target'[i] = Executed(target[i], s)
          /\ \A x \in DOMAIN target : x # i => target'[x] = target[x]
      BY <1>5, <2>3, <3>2
    <3>5. \A j \in DOMAIN catalog.objects : j # i =>
            /\ j \in DOMAIN target => Present(j, target'[j], script')
            /\ j \notin DOMAIN target => Awaited(j)'
      BY <1>14, <1>16, <3>4
    <3> HIDE DEF i
    <3> QED
      BY <1>14, <3>1, <3>2, <3>3, <3>4, <3>5
  <2> QED
    BY <2>1, <2>2, <2>3
<1>18. ObjectInv'
  BY <1>2, <1>13, <1>17 DEF ObjectInv
<1>19. DefaultInv'
  <2>1. \A d : DefaultOf(d)' = DefaultOf(d)
    BY DEF DefaultOf
  <2>2. CASE s.kind # "DEFAULT"
    <3>1. targetDefaults' = targetDefaults
      BY <1>3, <1>5, <2>2
    <3>2. DOMAIN targetDefaults = {}
      <4>1. PICK k \in DOMAIN script : script[k] = s
        BY <1>2 DEF Runs, Occurs
      <4> QED
        BY <1>1, <2>2, <4>1 DEF DefaultInv
    <3>3. \A i \in DOMAIN catalog.defaults : Occurs(DefaultOf(catalog.defaults[i]), script')
      <4>1. \A i \in DOMAIN catalog.defaults : DefaultOf(catalog.defaults[i]).kind = "DEFAULT"
        BY <1>6, DefaultFor
      <4>2. \A i \in DOMAIN catalog.defaults : Occurs(DefaultOf(catalog.defaults[i]), script)
        BY <1>1, <1>2, <3>2 DEF DefaultInv
      <4> QED
        BY <1>2, <2>2, <4>1, <4>2 DEF Runs
    <3>4. \A i \in DOMAIN catalog.defaults : Occurs(DefaultOf(catalog.defaults[i]), script)'
      BY <1>2, <3>3 DEF Occurs
    <3> QED
      BY <1>1, <1>2, <3>1, <3>2, <3>4 DEF DefaultInv
  <2>3. CASE s.kind = "DEFAULT"
    <3>1. PICK i \in DOMAIN catalog.defaults : s = DefaultOf(catalog.defaults[i])
      BY <1>2, <1>6, <2>3, StepsAre
    <3> DEFINE d == catalog.defaults[i]
    <3>2. s.keyword = d.key
      BY <1>6, <3>1, DefaultFor
    <3>3. Changed(DefaultsOf(d.key), s, DefaultKeyword[d.key.kind]) = Held(d.items)
      <4>1. \A k \in DOMAIN targetDefaults : \E j \in DOMAIN catalog.defaults :
              k = catalog.defaults[j].key /\ targetDefaults[k] = Held(catalog.defaults[j].items)
        BY <1>1 DEF DefaultInv
      <4> QED
        BY <1>6, <3>1, <4>1, DefaultRun
    <3>4. targetDefaults' = With(targetDefaults, d.key, Held(d.items))
      BY <1>4, <2>3, <3>2, <3>3
    <3>5. /\ DOMAIN targetDefaults' = DOMAIN targetDefaults \cup {d.key}
          /\ targetDefaults'[d.key] = Held(d.items)
          /\ \A x \in DOMAIN targetDefaults : x # d.key => targetDefaults'[x] = targetDefaults[x]
      BY <3>4 DEF With
    <3>6. \A j \in DOMAIN catalog.defaults :
            \/ catalog.defaults[j].key \in DOMAIN targetDefaults'
            \/ Occurs(DefaultOf(catalog.defaults[j]), script')
      <4> SUFFICES ASSUME NEW j \in DOMAIN catalog.defaults
                   PROVE  \/ catalog.defaults[j].key \in DOMAIN targetDefaults'
                          \/ Occurs(DefaultOf(catalog.defaults[j]), script')
        OBVIOUS
      <4>1. CASE catalog.defaults[j].key \in DOMAIN targetDefaults
        BY <3>5, <4>1
      <4>2. CASE Occurs(DefaultOf(catalog.defaults[j]), script)
        <5>1. CASE DefaultOf(catalog.defaults[j]) = s
          <6>1. catalog.defaults[j].key = d.key
            BY <1>6, <3>2, <5>1, DefaultFor
          <6> QED
            BY <3>5, <6>1
        <5>2. CASE DefaultOf(catalog.defaults[j]) # s
          BY <1>2, <4>2, <5>2 DEF Runs
        <5> QED
          BY <5>1, <5>2
      <4> QED
        BY <1>1, <1>2, <4>1, <4>2 DEF DefaultInv
    <3>7. \A k \in DOMAIN targetDefaults' : \E j \in DOMAIN catalog.defaults :
            k = catalog.defaults[j].key /\ targetDefaults'[k] = Held(catalog.defaults[j].items)
      <4> SUFFICES ASSUME NEW k \in DOMAIN targetDefaults'
                   PROVE  \E j \in DOMAIN catalog.defaults :
                            /\ k = catalog.defaults[j].key
                            /\ targetDefaults'[k] = Held(catalog.defaults[j].items)
        OBVIOUS
      <4>1. CASE k = d.key
        BY <3>5, <4>1
      <4>2. CASE k # d.key
        <5>1. k \in DOMAIN targetDefaults /\ targetDefaults'[k] = targetDefaults[k]
          BY <3>5, <4>2
        <5> QED
          BY <1>1, <5>1 DEF DefaultInv
      <4> QED
        BY <4>1, <4>2
    <3>8. \A k \in DOMAIN script' : script'[k].kind = "DEFAULT"
      <4> SUFFICES ASSUME NEW k \in DOMAIN script'
                   PROVE  script'[k].kind = "DEFAULT"
        OBVIOUS
      <4>1. Occurs(script'[k], script') /\ script'[k] \in Steps
        BY <1>8 DEF Occurs
      <4>2. Rank(s) = 6 /\ Rank(s) <= Rank(script'[k])
        BY <1>2, <1>6, <2>3, <4>1, DefaultRank DEF Runs
      <4> QED
        BY <1>6, <4>1, <4>2, DefaultRank
    <3>9. \A j \in DOMAIN catalog.defaults :
            \/ catalog.defaults[j].key \in DOMAIN targetDefaults'
            \/ Occurs(DefaultOf(catalog.defaults[j]), script)'
      BY <1>2, <3>6 DEF Occurs
    <3> QED
      BY <1>2, <3>7, <3>8, <3>9 DEF DefaultInv
  <2> QED
    BY <2>2, <2>3
<1> QED
  BY <1>9, <1>10, <1>11, <1>18, <1>19 DEF PrivilegesIInv

LEMMA PrivilegesStutter ==
  ASSUME PrivilegesIInv, UNCHANGED privilegesVars
  PROVE  PrivilegesIInv'
<1>1. /\ catalog' = catalog /\ pc' = pc /\ rows' = rows /\ currentUniqueID' = currentUniqueID
      /\ metadata' = metadata /\ metadataMap' = metadataMap /\ next' = next
      /\ statements' = statements /\ script' = script /\ target' = target
      /\ targetDefaults' = targetDefaults /\ refused' = refused
  BY DEF privilegesVars, backupVars, printVars
<1>2. ScriptTypes /\ CollectInv /\ MapInv /\ PrintInv /\ DefaultInv /\ ObjectInv
  BY DEF PrivilegesIInv
<1>3. catalog \in Catalogs
  BY <1>2 DEF ScriptTypes
<1>4. /\ Steps' = Steps
      /\ \A j : /\ CreateOf(j)' = CreateOf(j) /\ GrantOf(j)' = GrantOf(j)
                /\ Object(j)' = Object(j)
  BY <1>1, CatalogSame
<1>5. \A j : /\ Printed(j)' <=> Printed(j)
             /\ Known(j)' <=> Known(j)
             /\ RowsLeft(j)' = RowsLeft(j)
  BY <1>1, <1>4 DEF Printed, Known, RowsLeft
<1>6. ScriptTypes'
  BY <1>1, <1>2, <1>4 DEF ScriptTypes
<1>7. CollectInv'
  BY <1>1, <1>2, <1>4, <1>5, Zenon DEF CollectInv
<1>8. MapInv'
  BY <1>1, <1>2, <1>4, <1>5 DEF MapInv
<1>9. PrintInv'
  BY <1>1, <1>2, <1>4 DEF PrintInv, InOrder
<1>10. \A j \in DOMAIN catalog.objects : Awaited(j) => Awaited(j)'
  <2> SUFFICES ASSUME NEW j \in DOMAIN catalog.objects, Awaited(j)
               PROVE  Awaited(j)'
    OBVIOUS
  <2>1. GrantDue(j)' => GrantDue(j)
    BY <1>1, <1>4 DEF GrantDue
  <2> QED
    BY <1>1, <2>1, MoreAwaited
<1>11. \A j, tg, seq : Present(j, tg, seq)' <=> Present(j, tg, seq)
  BY <1>1, PresentSame
<1>12. ObjectInv'
  BY <1>1, <1>2, <1>5, <1>10, <1>11 DEF ObjectInv
<1>13. DefaultInv'
  BY <1>1, <1>2 DEF DefaultInv, Occurs, DefaultOf
<1> QED
  BY <1>6, <1>7, <1>8, <1>9, <1>12, <1>13 DEF PrivilegesIInv

-----------------------------------------------------------------------------
(* Privileges: the theorems                                                *)

\* What the statements that are printed, and those that are to be run, still owe
\* each object of the catalogue: no step loses it, at any point of the backup and
\* of the restore, for all roles, names and catalogues.
THEOREM PrivilegesInductive ==
  PrivilegesSpec => []PrivilegesIInv
<1>1. PrivilegesInit => PrivilegesIInv
  BY PrivilegesStart
<1>2. PrivilegesIInv /\ [PrivilegesNext]_privilegesVars => PrivilegesIInv'
  <2> SUFFICES ASSUME PrivilegesIInv, [PrivilegesNext]_privilegesVars
               PROVE  PrivilegesIInv'
    OBVIOUS
  <2>1. CASE NextRow
    BY <2>1, NextRowKeeps
  <2>2. CASE RowsEnd
    BY <2>2, RowsEndKeeps
  <2>3. CASE PrintObject
    BY <2>3, PrintObjectKeeps
  <2>4. CASE ObjectsEnd
    BY <2>4, ObjectsEndKeeps
  <2>5. CASE printExtensionFunctionACLs
    BY <2>5, printExtensionFunctionACLsKeeps
  <2>6. CASE PrintDefaultPrivilegesStatements
    BY <2>6, PrintDefaultsKeeps
  <2>7. CASE ExecuteStatement
    BY <2>7, ExecuteKeeps
  <2>8. CASE RestoreEnds
    BY <2>8, RestoreEndsKeeps
  <2>9. CASE UNCHANGED privilegesVars
    BY <2>9, PrivilegesStutter
  <2> QED
    BY <2>1, <2>2, <2>3, <2>4, <2>5, <2>6, <2>7, <2>8, <2>9 DEF PrivilegesNext
<1> QED
  BY <1>1, <1>2, PTL DEF PrivilegesSpec

\* An object when all statements are run.
LEMMA PresentAtEnd ==
  ASSUME PrivilegesIInv, pc = "done", NEW i \in DOMAIN catalog.objects
  PROVE  Present(i, target[i], <<>>)
<1>1. script = <<>>
  BY DEF PrivilegesIInv, DefaultInv
<1>2. ~Awaited(i)
  BY <1>1, EmptyFacts DEF Awaited
<1> QED
  BY <1>1, <1>2 DEF PrivilegesIInv, ObjectInv, Printed

LEMMA EndFields ==
  ASSUME NEW i, NEW tg, Present(i, tg, <<>>)
  PROVE  /\ tg.type = Object(i).type
         /\ Object(i).type \in OwnerTypes => tg.owner = Object(i).owner
         /\ \/ tg.list = NullAcl /\ ~HasGrant(Object(i))
            \/ /\ HasGrant(Object(i))
               /\ tg.list = [null |-> FALSE,
                            acl |-> Normal(Given(GrantOf(i).grants, Keyword(Object(i).type)))]
         /\ \/ tg.column = {} /\ (Object(i).extension \/ PrintedColumns(Object(i)) = {})
            \/ tg.column = Normal(Given(ColumnsOf(i).grants, "COLUMN"))
         /\ tg.comment \in BOOLEAN
         /\ tg.comment => Object(i).comment
         /\ Object(i).comment /\ ~Object(i).extension => tg.comment
         /\ tg.labels \subseteq Object(i).labels
         /\ Object(i).labels # {} /\ ~Object(i).extension => tg.labels # {}
<1>1. \A x : ~Occurs(x, <<>>)
  BY EmptyFacts
<1>2. tg.type = Object(i).type
  BY PresentThing
<1>3. OwnerInv(i, tg, <<>>) /\ ListInv(i, tg, <<>>) /\ ColumnInv(i, tg, <<>>) /\ NoteInv(i, tg, <<>>)
  BY DEF Present
<1>4. Object(i).type \in OwnerTypes => tg.owner = Object(i).owner
  BY <1>1, <1>3 DEF OwnerInv
<1>5. \/ tg.list = NullAcl /\ ~HasGrant(Object(i))
      \/ /\ HasGrant(Object(i))
         /\ tg.list = [null |-> FALSE,
                      acl |-> Normal(Given(GrantOf(i).grants, Keyword(Object(i).type)))]
  BY <1>1, <1>3, Zenon DEF ListInv
<1>6. \/ tg.column = {} /\ (Object(i).extension \/ PrintedColumns(Object(i)) = {})
      \/ tg.column = Normal(Given(ColumnsOf(i).grants, "COLUMN"))
  BY <1>1, <1>3, Zenon DEF ColumnInv
<1>7. /\ tg.comment \in BOOLEAN /\ (tg.comment => Object(i).comment)
      /\ Object(i).comment /\ ~Object(i).extension => tg.comment
      /\ tg.labels \subseteq Object(i).labels
      /\ Object(i).labels # {} /\ ~Object(i).extension => tg.labels # {}
  BY <1>1, <1>3 DEF NoteInv
<1> QED
  BY <1>2, <1>4, <1>5, <1>6, <1>7

LEMMA ListKept ==
  ASSUME catalog \in Catalogs, NEW i \in DOMAIN catalog.objects, Saved(Object(i)),
         NEW tg, Present(i, tg, <<>>), NEW source, source.null <=> Object(i).null,
         source.acl = Held(Object(i).items)
  PROVE  Kept(Effective(tg.list, tg.type, tg.owner), Object(i).type)
           = Kept(Effective(source, Object(i).type, Object(i).owner), Object(i).type)
<1> DEFINE o == Object(i)
<1>1. /\ tg.type = o.type
      /\ o.type \in OwnerTypes => tg.owner = o.owner
      /\ \/ tg.list = NullAcl /\ ~HasGrant(o)
         \/ /\ HasGrant(o)
            /\ tg.list = [null |-> FALSE, acl |-> Normal(Given(GrantOf(i).grants, Keyword(o.type)))]
  BY EndFields, Zenon
<1>2. CASE HasGrant(o)
  <2> DEFINE acl == Normal(Given(GrantOf(i).grants, Keyword(o.type)))
  <2>1. /\ ~o.null /\ o.type \in AclTypes
        /\ GrantOf(i).grants = GrantsFor(o.items, o.type)
    BY <1>2, GrantFor
  <2>2. o.type \in GrantTypes /\ o.items \in SUBSET AccessItems(Rights[Keyword(o.type)])
    BY <2>1, ObjectTypes DEF GrantTypes
  <2>3. Kept(acl, o.type) = Kept(Held(o.items), o.type)
    BY <2>1, <2>2, GrantsHold
  <2> HIDE DEF acl
  <2>4. ~tg.list.null /\ tg.list.acl = acl
    BY <1>1, <1>2 DEF acl
  <2>5. Effective(tg.list, tg.type, tg.owner) = acl
    BY <2>4, Zenon DEF Effective
  <2>6. Effective(source, o.type, o.owner) = Held(o.items)
    BY <2>1, Zenon DEF Effective
  <2> QED
    BY <2>3, <2>5, <2>6
<1>3. CASE ~HasGrant(o)
  <2>1. o.null
    <3>1. Parsed(o) = {}
      BY <1>3 DEF HasGrant
    <3>2. (o.type \notin AclTypes => o.null) /\ NoItem \notin o.items
      BY ObjectTypes, RealItems
    <3>3. EmptyACL \in {EmptyACL} /\ \A a \in o.items : ParseACL(a) \in {ParseACL(b) : b \in o.items}
      OBVIOUS
    <3> QED
      BY <3>1, <3>2, <3>3, ParsedOf
  <2>2. Effective(source, o.type, o.owner) =
          IF Keyword(o.type) \in DOMAIN Rights THEN Default(Keyword(o.type), o.owner) ELSE {}
    BY <2>1 DEF Effective
  <2>3. Effective(tg.list, tg.type, tg.owner) =
          IF Keyword(o.type) \in DOMAIN Rights THEN Default(Keyword(o.type), tg.owner) ELSE {}
    BY <1>1, <1>3, EffectiveFacts
  <2>4. Keyword(o.type) \in DOMAIN Rights => o.type \in OwnerTypes
    <3>1. o.type # "COLUMN"
      BY ObjectTypes
    <3> QED
      BY <3>1 DEF Keyword, Rights, OwnerTypes, AclTypes
  <2> QED
    BY <1>1, <2>2, <2>3, <2>4
<1> QED
  BY <1>2, <1>3

LEMMA ColumnKept ==
  ASSUME catalog \in Catalogs, NEW i \in DOMAIN catalog.objects, Saved(Object(i)),
         NEW tg, Present(i, tg, <<>>)
  PROVE  tg.column = Held(PrintedColumns(Object(i)))
<1> DEFINE o == Object(i)
<1>1. \/ tg.column = {} /\ (o.extension \/ PrintedColumns(o) = {})
      \/ tg.column = Normal(Given(ColumnsOf(i).grants, "COLUMN"))
  BY EndFields, Zenon
<1>2. CASE tg.column = {} /\ (o.extension \/ PrintedColumns(o) = {})
  <2>1. PrintedColumns(o) = {}
    <3>1. o.extension => Keyword(o.type) # "TABLE"
      BY DEF Saved, Keyword
    <3> QED
      BY <1>2, <3>1, ObjectTypes
  <2>2. Held({}) = {}
    BY DEF Held, Normal
  <2> QED
    BY <1>2, <2>1, <2>2
<1>3. CASE tg.column = Normal(Given(ColumnsOf(i).grants, "COLUMN"))
  <2>1. ColumnsOf(i).grants = GrantsFor(PrintedColumns(o), "COLUMN")
    BY GrantKinds
  <2>2. "COLUMN" \in GrantTypes /\ Keyword("COLUMN") = "COLUMN"
    BY DEF GrantTypes, Keyword
  <2>3. PrintedColumns(o) \in SUBSET AccessItems(Rights[Keyword("COLUMN")])
    BY <2>2, ObjectTypes
  <2>4. Normal(Given(GrantsFor(PrintedColumns(o), "COLUMN"), Keyword("COLUMN"))) = Held(PrintedColumns(o))
    BY <2>2, <2>3, GrantsHold
  <2> QED
    BY <1>3, <2>1, <2>2, <2>4
<1> QED
  BY <1>1, <1>2, <1>3

\* Every role has after the restore what it had, on every object and column but
\* the columns of views that depend on a constraint (PrintCreateDummyViewStatement
\* prints none of theirs), and no statement fails; owners, comments and labels are
\* there as well.
THEOREM OwnersAndPrivilegesRestored ==
  PrivilegesSpec => []PrivilegesRestored
<1>1. PrivilegesIInv => PrivilegesRestored
  <2> SUFFICES ASSUME PrivilegesIInv, pc = "done"
               PROVE  PrivilegesRestored
    BY DEF PrivilegesRestored
  <2>1. catalog \in Catalogs /\ ~refused
    BY DEF PrivilegesIInv, ScriptTypes
  <2>2. ASSUME NEW i \in DOMAIN catalog.objects, Saved(Object(i)),
               NEW source, source = [null |-> Object(i).null, acl |-> Held(Object(i).items)]
        PROVE  /\ Kept(Effective(target[i].list, target[i].type, target[i].owner), Object(i).type)
                    = Kept(Effective(source, Object(i).type, Object(i).owner), Object(i).type)
               /\ ~Object(i).dummy => target[i].column = Held(Object(i).columnItems)
               /\ ~Object(i).extension =>
                    /\ Object(i).type \in OwnerTypes => target[i].owner = Object(i).owner
                    /\ target[i].comment = Object(i).comment
                    /\ target[i].labels \subseteq Object(i).labels
                    /\ target[i].labels = {} <=> Object(i).labels = {}
    <3>1. Present(i, target[i], <<>>)
      BY PresentAtEnd
    <3>2. (source.null <=> Object(i).null) /\ source.acl = Held(Object(i).items)
      BY <2>2
    <3>3. Kept(Effective(target[i].list, target[i].type, target[i].owner), Object(i).type)
            = Kept(Effective(source, Object(i).type, Object(i).owner), Object(i).type)
      BY <2>1, <2>2, <3>1, <3>2, ListKept
    <3>4. ~Object(i).dummy => target[i].column = Held(Object(i).columnItems)
      <4>1. target[i].column = Held(PrintedColumns(Object(i)))
        BY <2>1, <2>2, <3>1, ColumnKept
      <4> QED
        BY <4>1 DEF PrintedColumns
    <3>5. /\ Object(i).type \in OwnerTypes => target[i].owner = Object(i).owner
          /\ target[i].comment \in BOOLEAN
          /\ target[i].comment => Object(i).comment
          /\ Object(i).comment /\ ~Object(i).extension => target[i].comment
          /\ target[i].labels \subseteq Object(i).labels
          /\ Object(i).labels # {} /\ ~Object(i).extension => target[i].labels # {}
      BY <3>1, EndFields
    <3>6. Object(i).comment \in BOOLEAN
      BY <2>1, ObjectTypes
    <3>7. ~Object(i).extension =>
                    /\ Object(i).type \in OwnerTypes => target[i].owner = Object(i).owner
                    /\ target[i].comment = Object(i).comment
                    /\ target[i].labels \subseteq Object(i).labels
                    /\ target[i].labels = {} <=> Object(i).labels = {}
      BY <3>5, <3>6
    <3> QED
      BY <3>3, <3>4, <3>7
  <2> QED
    BY <2>1, <2>2, Zenon DEF PrivilegesRestored, Object
<1> QED
  BY <1>1, PrivilegesInductive, PTL

\* So has what the server gives to new objects, and none of it has reached an
\* object of the restore itself.
THEOREM DefaultPrivilegesRestored ==
  PrivilegesSpec => []DefaultsRestored
<1>1. PrivilegesIInv => DefaultsRestored
  <2> SUFFICES ASSUME PrivilegesIInv, pc = "done"
               PROVE  DefaultsRestored
    BY DEF DefaultsRestored
  <2>1. catalog \in Catalogs /\ script = <<>> /\ DefaultInv
    BY DEF PrivilegesIInv, ScriptTypes, DefaultInv
  <2>2. ASSUME NEW i \in DOMAIN catalog.defaults, NEW d, d = catalog.defaults[i]
        PROVE  d.key \in DOMAIN targetDefaults /\ targetDefaults[d.key] = Held(d.items)
    <3>1. d.key \in DOMAIN targetDefaults
      BY <2>1, <2>2, EmptyFacts DEF DefaultInv
    <3>2. PICK j \in DOMAIN catalog.defaults :
            /\ d.key = catalog.defaults[j].key
            /\ targetDefaults[d.key] = Held(catalog.defaults[j].items)
      BY <2>1, <3>1 DEF DefaultInv
    <3>3. j = i
      BY <2>1, <2>2, <3>2, DefaultTypes
    <3> QED
      BY <2>2, <3>1, <3>2, <3>3
  <2>3. ASSUME NEW i \in DOMAIN catalog.objects, Object(i).null, ~Object(i).extension
        PROVE  target[i].list.null
    <3>1. Present(i, target[i], <<>>)
      BY PresentAtEnd
    <3>2. HasGrant(Object(i)) => ~Object(i).null
      BY <2>1, GrantFor
    <3>3. target[i].list = NullAcl
      BY <2>3, <3>1, <3>2, EndFields
    <3> QED
      BY <3>3 DEF NullAcl
  <2> QED
    BY <2>2, <2>3, Zenon DEF DefaultsRestored, Object
<1> QED
  BY <1>1, PrivilegesInductive, PTL
=============================================================================
