------------------------------ MODULE Archive -------------------------------
(***************************************************************************)
(* What a set of backups promises to somebody who restores from it.        *)
(*                                                                         *)
(* A database changes at will.  A backup sees the database as it was when  *)
(* it began, and at some later moment an archive of what it saw is there.  *)
(* From then on the archive never changes: later backups, however they are *)
(* based on it, may not alter it.  It can only be lost, when files are     *)
(* deleted.                                                                *)
(***************************************************************************)
CONSTANTS Tables, Timestamps, Contents, Empty

VARIABLES db,       \* the tables that exist, with their contents
          seen,     \* what each backup saw when it began: at most one database
          archive   \* what a restore of each backup gives: at most one database

IsDatabase(d) == DOMAIN d \subseteq Tables /\ \A t \in DOMAIN d : d[t] \in Contents

vars == <<db, seen, archive>>

Init ==
  /\ IsDatabase(db)
  /\ seen = [b \in Timestamps |-> {}]
  /\ archive = [b \in Timestamps |-> {}]

Change ==
  /\ UNCHANGED <<seen, archive>>
  /\ IsDatabase(db')

Begin(b) ==
  /\ seen[b] = {}
  /\ seen' = [seen EXCEPT ![b] = {db}]
  /\ UNCHANGED <<db, archive>>

\* Truncated: the tables whose rows a truncation hid from a snapshot that was
\* taken before it.
Finish(b) ==
  /\ seen[b] # {}
  /\ archive[b] = {}
  /\ \E d \in seen[b] : \E S, Truncated \in SUBSET Tables :
       /\ S \subseteq DOMAIN d
       /\ archive' = [archive EXCEPT ![b] = {[t \in S |-> IF t \in Truncated THEN Empty ELSE d[t]]}]
  /\ UNCHANGED <<db, seen>>

Lose(B) ==
  /\ B # {}
  /\ archive' = [b \in Timestamps |-> IF b \in B THEN {} ELSE archive[b]]
  /\ UNCHANGED <<db, seen>>

Next ==
  \/ Change
  \/ \E b \in Timestamps : Begin(b) \/ Finish(b)
  \/ \E B \in SUBSET Timestamps : Lose(B)

Spec == Init /\ [][Next]_vars
=============================================================================
