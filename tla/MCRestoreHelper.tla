-------------------------- MODULE MCRestoreHelper ---------------------------
(***************************************************************************)
(* RestoreHelper on small instances.                                       *)
(***************************************************************************)
EXTENDS RestoreHelper

\* Table 2 is filtered out of the restore; table 3 is empty.
MixedSizes == <<2, 1, 0, 1>>
Filtered   == <<1, 3, 4>>

Setup(reader, replicated, files) ==
  [reader |-> reader, replicated |-> replicated, files |-> files,
   latest |-> TRUE]

\* Two old segments to read, or one and nothing; replicated tables with each
\* reader; an older backup of an incremental restore plan.
AllSetups == {Setup("seekable", {4}, 2), Setup("discard", {1, 3}, 1),
              Setup("subset", {}, 2), Setup("subset", {1}, 2),
              [Setup("discard", {}, 1) EXCEPT !.latest = FALSE]}

AllFaults == FaultKinds
=============================================================================
