------------------------------ MODULE DataPhase ------------------------------
(***************************************************************************)
(* What the data phase of gpbackup promises, without its goroutines: each  *)
(* table is copied out at most once, by one connection; success is         *)
(* reported only when every table has been copied, unless a termination    *)
(* signal arrived, in which case the signal handler reports the outcome;   *)
(* and nothing is copied once success has been reported or the process is  *)
(* gone.  BackupData implements this specification.                        *)
(***************************************************************************)
CONSTANTS Tables, Conns

VARIABLES
  copiedBy,   \* the connection that copied each table, as a set of at most one
  signalled,  \* a termination signal has arrived
  outcome     \* what became of the phase

vars == <<copiedBy, signalled, outcome>>

Init ==
  /\ copiedBy = [t \in Tables |-> {}]
  /\ signalled = FALSE
  /\ outcome = "running"

Copy(t, c) ==
  /\ outcome \in {"running", "failed"}
  /\ copiedBy[t] = {}
  /\ copiedBy' = [copiedBy EXCEPT ![t] = {c}]
  /\ UNCHANGED <<signalled, outcome>>

Signal ==
  /\ signalled' = TRUE
  /\ UNCHANGED <<copiedBy, outcome>>

Return ==
  /\ outcome = "running"
  /\ signalled \/ \A t \in Tables : copiedBy[t] # {}
  /\ outcome' = "returned"
  /\ UNCHANGED <<copiedBy, signalled>>

Fail ==
  /\ outcome = "running"
  /\ outcome' = "failed"
  /\ UNCHANGED <<copiedBy, signalled>>

Kill ==
  /\ outcome = "running" /\ signalled
  /\ outcome' = "killed"
  /\ UNCHANGED <<copiedBy, signalled>>

Next ==
  \/ \E t \in Tables, c \in Conns : Copy(t, c)
  \/ Signal \/ Return \/ Fail \/ Kill

Spec == Init /\ [][Next]_vars
=============================================================================
