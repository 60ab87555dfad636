---------------------------- MODULE MCBackupChain ---------------------------
(***************************************************************************)
(* BackupChain with a heap table and an append-optimized leaf partition,   *)
(* and backups with and without the filter --include-table leaf.           *)
(***************************************************************************)
EXTENDS BackupChain

CONSTANTS heap, leaf, root, noRoot, everything, onlyLeaf

MCTables        == {heap, leaf}
MCAOTables      == {leaf}
MCPartitionRoot == [t \in MCTables |-> IF t = leaf THEN root ELSE noRoot]
MCSignatures    == {everything, onlyLeaf}
MCOneSignature  == {everything}
MCIncluded(s)   == IF s = everything THEN MCTables ELSE {leaf}
=============================================================================
