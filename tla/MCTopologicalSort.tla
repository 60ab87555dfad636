------------------------- MODULE MCTopologicalSort --------------------------
(***************************************************************************)
(* TopologicalSort on every relation of four objects.                      *)
(***************************************************************************)
EXTENDS TopologicalSort

\* Object 1 is a base type, 2 and 3 may be its input and output functions.
BaseTypes   == {1}
IOFunctions == {2, 3}

AnyRelation ==
  {r \in [Objects -> SUBSET Objects] : \A o \in Objects : o \notin r[o]}
=============================================================================
