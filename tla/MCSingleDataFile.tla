-------------------------- MODULE MCSingleDataFile --------------------------
(***************************************************************************)
(* SingleDataFile on small instances.                                      *)
(***************************************************************************)
EXTENDS SingleDataFile

AllFaults == FaultKinds

\* A table larger than the pipe, an empty one, and ones in between.
MixedSizes == [t \in Tables |-> CASE t = 1 -> 2 [] t = 3 -> 1 [] OTHER -> 0]
=============================================================================
