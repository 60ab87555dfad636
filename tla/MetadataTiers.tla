---------------------------- MODULE MetadataTiers ----------------------------
(***************************************************************************)
(* What backup records about the order of the pre-data objects and restore *)
(* relies upon.  A backup writes a tier <<depth, cohort>> with each object *)
(* (toc.MetadataEntry.Tier): objects of one depth may be created at the    *)
(* same time, those of one cohort must go to one connection.               *)
(* TopologicalSort computes the numbers, PredataRestore uses them.         *)
(*                                                                         *)
(* deps[o] is the set of objects o refers to, a DependencyMap.             *)
(***************************************************************************)
EXTENDS Naturals

CONSTANT NumObjects     \* objects of the backup, numbered in the slice's order
Objects == 1..NumObjects

ASSUME NumObjectsAssumption == NumObjects \in Nat

\* Some objects depend on each other in a circle.
Circular(Objs, deps) ==
  \E S \in SUBSET Objs : S # {} /\ \A o \in S : deps[o] \cap S # {}

Neighbours(Objs, deps, o) == deps[o] \cup {p \in Objs : o \in deps[p]}

\* Nothing outside S refers to S or is referred to from it.
Closed(Objs, deps, S) == \A o \in S : Neighbours(Objs, deps, o) \subseteq S

\* Depths start at 1 and leave no gap below an object.
TiersFollow(Objs, deps, tier) ==
  \A o \in Objs :
    /\ tier[o] \in Nat \ {0}
    /\ \A d \in deps[o] : tier[d] < tier[o]
    /\ tier[o] > 1 => \E d \in deps[o] : tier[d] = tier[o] - 1

\* A cohort holds whatever is connected by dependencies, and no more.
CohortsIsolate(Objs, deps, cohort) ==
  /\ \A o \in Objs : \A d \in deps[o] : cohort[d] = cohort[o]
  /\ \A S \in SUBSET Objs : Closed(Objs, deps, S) =>
       \A o \in S : \A p \in Objs \ S : cohort[p] # cohort[o]

\* Cohorts are numbered from 1 without a gap.
CohortsDense(Objs, cohort) ==
  \A o \in Objs :
    /\ cohort[o] \in Nat \ {0}
    /\ \A k \in 1..cohort[o] : \E p \in Objs : cohort[p] = k
=============================================================================
