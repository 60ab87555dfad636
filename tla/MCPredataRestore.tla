-------------------------- MODULE MCPredataRestore --------------------------
(***************************************************************************)
(* PredataRestore on small instances.                                      *)
(***************************************************************************)
EXTENDS PredataRestore

\* Object 1 (an extension, say) and 6 (a conversion) take no part in the sort;
\* statement 3 is a second one on object 2.
StatementObjects == <<1, 2, 2, 3, 4, 5, 6>>

Plan(deps) ==
  LET sorting == 2..5
      numbered == [o \in Objects |-> deps[o] \cap sorting]
      Extend(f) == [o \in Objects |-> IF o \in sorting THEN f[o] ELSE 0]
      tiers == CHOOSE f \in [sorting -> 1..4] : TiersFollow(sorting, numbered, f)
      cohorts == CHOOSE f \in [sorting -> 1..4] :
                   CohortsIsolate(sorting, numbered, f) /\ CohortsDense(sorting, f)
  IN [object |-> StatementObjects, deps |-> deps,
      tier |-> Extend(tiers), cohort |-> Extend(cohorts)]

\* Two pairs; a table with two views next to a lone table; a chain; objects
\* that have nothing to do with each other.
Pairs == Plan(<<{}, {1}, {}, {2}, {3}, {2, 5}>>)
Views == Plan(<<{}, {1}, {}, {2}, {2}, {1, 4}>>)
Chain == Plan(<<{}, {}, {2}, {3}, {3}, {5}>>)
Loose == Plan(<<{}, {}, {1}, {}, {}, {3}>>)
\* A backup made before there were tiers.
Old   == [Pairs EXCEPT !.tier = [o \in Objects |-> 0],
                       !.cohort = [o \in Objects |-> 0]]

AllPlans   == {Pairs, Views, Chain, Loose, Old}
AllFilters == {Objects, 2..5, {2, 3, 5}, {1, 4, 5, 6}, {2, 4, 6}, {2, 5, 6}, {3, 4}}
JobCounts  == {1, 2, 3}
=============================================================================
