------------------------ MODULE RestoreLifecycleProofs ------------------------
(***************************************************************************)
(* Proofs about RestoreLifecycle, for any command lines, plans, files of   *)
(* statements, number of connections and failures: a restore that ends     *)
(* with status 0 is complete, post-data statements keep their order, the   *)
(* files of failed tables are exact and no helper stays behind.            *)
(***************************************************************************)
EXTENDS RestoreLifecycle, FiniteSetTheorems, WellFoundedInduction, TLAPS

-----------------------------------------------------------------------------
(* The inductive invariant                                                 *)

\* The statements of a file that the restore takes.
Chosen(ss, types) ==
  {s \in ToSet(ss) : s.type \in types /\ StatementSelected(s)}

Copies(b) ==
  {[type |-> "COPY", object |-> t, of |-> b] : t \in ToSet(EntriesOf(b))}

\* Sections whose statements go through the worker pool.
Pooled == {"predata", "sequences", "qd-data", "batch-1", "batch-2", "batch-3",
           "statistics", "analyze"}

\* What a section has to do.
Work(p) ==
  CASE p = "schemas"    -> Chosen(Predata, {"SCHEMA"})
    [] p = "predata"    -> Chosen(Predata, {"TABLE", "SEQUENCE"})
    [] p = "sequences"  -> {Setval(s) : s \in Chosen(Predata, {"SEQUENCE"})}
    [] p = "qd-data"    -> Chosen(Predata, {"QD-DATA"})
    [] p = "data"       -> UNION {Copies(b) : b \in DueBackups}
    [] p = "batch-1"    -> FirstIndexes(Postdatas)
    [] p = "batch-2"    -> {s \in Chosen(Postdata, StatementTypes) :
                              ~IsMetadata(s)} \ FirstIndexes(Postdatas)
    [] p = "batch-3"    -> {s \in Chosen(Postdata, StatementTypes) : IsMetadata(s)}
    [] p = "statistics" -> Chosen(Statistics, StatementTypes)
    [] p = "analyze"    -> {Analyze(t) : t \in LoadedTables \cup QDDone}
    [] OTHER            -> {}
Works == [n \in DOMAIN Sections |-> Work(Sections[n])]
Asked == {n \in DOMAIN Sections : Asks(Sections[n])}

Early   == {"validation", "connect", "plugin", "config", "backup", "globals",
            "relations"}
Leaving == {"teardown", "report", "clean-plugin", "error-files", "end",
            "cleanup", "exit"}
PCs     == Early \cup Leaving \cup {"restore", "run", "data", "load", "recover"}

MainTypes == cmd \in Commands /\ pc \in PCs /\ section \in 1..13
PoolTypes ==
  /\ parallel \in BOOLEAN
  /\ worker \in [Conns -> {"idle", "busy", "done", "gucs"}]
  /\ running = [c \in Conns |-> running[c]]
  /\ fatalBy \in Conns \cup {-1} /\ numErrors \in Nat
  /\ errorTables = [metadata |-> errorTables.metadata, data |-> errorTables.data]
DataTypes ==
  /\ backupsLeft \subseteq ToSet(Backups)
  /\ entry \in [Conns -> Nat] /\ cancelled \in BOOLEAN /\ panicked \in BOOLEAN
  /\ rows \in [Tables -> {"old", "empty", "backup", "added"}]
  /\ failures \in 0..MaxFailures /\ helpers \subseteq ToSet(Backups)
EndTypes ==
  /\ setUp \subseteq {"pool", "fpInfo", "plugin", "config"}
  /\ files.written \in BOOLEAN
  /\ wasTerminated \in BOOLEAN /\ handler \in {"waiting", "cleanup", "exit"}
  /\ group \in {0, 1} /\ cleanupFailed \in BOOLEAN
  /\ overlooked \subseteq ToSet(Backups)
  /\ errorCode \in 0..2 /\ exitCode \in -1..2
Types == MainTypes /\ PoolTypes /\ DataTypes /\ EndTypes

\* What is set up where the main goroutine stands, and what ended it.
Ready ==
  /\ pc \in {"backup", "globals", "relations", "restore", "run", "data", "load"} =>
       "config" \in setUp /\ ("pool" \in setUp \/ wasTerminated)
  /\ pc \in {"plugin", "config"} => "pool" \in setUp \/ wasTerminated
  /\ handler = "waiting" <=> ~wasTerminated
  /\ exitCode # -1 => exitCode = 2 \/ (exitCode = errorCode /\ pc = "exit")
  /\ \/ ValidateFlagCombinations(cmd.flags)
     \/ section = 1 /\ pc \in {"validation", "recover"} \cup Leaving

\* The section it has come to.
Places ==
  /\ pc \in Early => section = 1
  /\ pc = "run" => section \in 1..12 \cap Asked /\ Sections[section] \in Pooled
  /\ pc \in {"data", "load"} => section = 7 /\ backupsLeft \subseteq DueBackups
  /\ pc = "load" => loading \in DueBackups \ backupsLeft
  /\ pc \in Leaving => section = 13 \/ errorCode = 2

\* Helpers run only for a restore whose clean-up looks for them; behind a
\* clean-up there are but those it did not find, and no others are started.
Helpers ==
  /\ helpers # {} => UsesHelpers /\ "config" \in setUp
  /\ group = 0 => pc = "exit" \/ handler = "exit"
  /\ handler = "exit" \/ pc = "exit" \/ exitCode # -1 =>
       helpers \subseteq overlooked \/ cleanupFailed

\* A failure is on its way to the error code.
FailuresNoticed ==
  failed # {} => \/ errorCode # 0 \/ pc = "recover"
                 \/ pc = "run" /\ (numErrors > 0 \/ fatalBy # -1)

\* A worker of the data section stops early only with an error or a signal.
StopsNoticed == panicked \/ cancelled => errorCode # 0 \/ wasTerminated

Undisturbed == errorCode = 0 /\ ~wasTerminated

TablesOf(types) == {s.object : s \in {x \in failed : x.type \in types}}

\* The two maps of failed tables, and the files once they are written.
ErrorTables ==
  OnErrorContinue /\ errorCode < 2 /\ ~wasTerminated =>
    /\ errorTables.metadata = TablesOf({"TABLE"})
    /\ errorTables.data \subseteq TablesOf({"COPY", "QD-DATA"})
    /\ ~UsesHelpers => errorTables.data = TablesOf({"COPY", "QD-DATA"})
Files ==
  files.written => /\ pc \in {"end", "cleanup", "exit"}
                   /\ files.metadata = errorTables.metadata
                   /\ files.data = errorTables.data

\* The statements of the section the worker pool runs: taken from it, each
\* index once, and none lost before an error or a signal.
Executing(c) == pc = "run" /\ worker[c] = "busy"
Pool ==
  pc = "run" =>
    /\ tasks \in Seq(Works[section])
    /\ \A c \in Conns : Executing(c) => running[c] \in Works[section]
    /\ ~wasTerminated /\ fatalBy = -1 =>
         /\ \A s \in Works[section] :
              \/ s \in done \cup failed \cup ToSet(tasks)
              \/ \E c \in Conns : Executing(c) /\ running[c] = s
         /\ tasks # <<>> => \E c \in Conns : worker[c] # "done"
EachIndexOnce ==
  pc = "run" =>
    /\ \A i, j \in DOMAIN tasks :
         tasks[i].type = "INDEX" /\ tasks[i] = tasks[j] => i = j
    /\ \A c \in Conns : Executing(c) /\ running[c].type = "INDEX" =>
         /\ running[c] \notin ToSet(tasks)
         /\ \A d \in Conns : Executing(d) /\ running[c] = running[d] => c = d

\* Sections that are over did their work, as long as no signal came before.
Going == ~wasTerminated \/ (\E c \in Conns : Executing(c))
Past ==
  Going =>
    \A n \in Asked : n < section /\ (n = 7 => errorCode = 0) =>
      Works[n] \subseteq done \cup failed

\* QD-only tables are loaded before ANALYZE is run on them.
QDTables == \A s \in done :
  s.type = "QD-DATA" => s \in ToSet(Predata) /\ section >= 5

\* Statements that load a table: one for each entry that is behind.
Owner(i) == i % NumConns
Entries  == EntriesOf(loading)
Behind(i) == i < entry[Owner(i)]
CopiesKnown ==
  \A s \in done : s.type = "COPY" =>
    /\ section > 7 \/ (section = 7 /\ pc # "restore")
    /\ s.of \in ToSet(Backups) /\ s.object \in ToSet(EntriesOf(s.of))
    /\ pc \in {"data", "load"} => s.of \notin backupsLeft
    /\ pc = "load" /\ s.of = loading =>
         \E i \in 0..(Len(Entries) - 1) : s.object = Entries[i + 1] /\ Behind(i)
Loading ==
  pc = "load" => \A c \in Conns : Owner(entry[c]) = c
Loaded ==
  Undisturbed =>
    /\ pc \in {"data", "load"} =>
         \A b \in DueBackups \ backupsLeft :
           pc = "data" \/ b # loading => Copies(b) \subseteq done
    /\ pc = "load" =>
         /\ \A i \in 0..(Len(Entries) - 1) : Behind(i) => Copy(Entries[i + 1]) \in done
         /\ \A c \in Conns : worker[c] = "done" => ~HasTable(c)

\* The rows of each table, until an error or a signal.
Copied(t)   == \E s \in done : s.type = "COPY" /\ s.object = t
BusyWith(t) == pc = "load" /\ \E c \in Conns : worker[c] = "busy" /\ NextTable(c) = t
RowsKnown ==
  Undisturbed =>
    \A t \in Tables :
      rows[t] = IF Copied(t)
                THEN IF Truncates \/ t \notin cmd.objects THEN "backup" ELSE "added"
                ELSE IF Truncates /\ BusyWith(t) THEN "empty"
                ELSE IF t \in cmd.objects THEN "old" ELSE "empty"
\* A busy loader has a table.
BusyLoaders == pc = "load" => \A c \in Conns : worker[c] = "busy" => HasTable(c)

IInv ==
  /\ Types /\ Ready /\ Places /\ Helpers /\ FailuresNoticed /\ StopsNoticed
  /\ ErrorTables /\ Files /\ Pool /\ EachIndexOnce /\ Past /\ QDTables
  /\ CopiesKnown /\ Loading /\ Loaded /\ BusyLoaders /\ RowsKnown

-----------------------------------------------------------------------------
(* Sequences                                                               *)

\* A set of numbers has a least one.
LEMMA LeastNumber ==
  ASSUME NEW T, T \subseteq Nat, T # {}
  PROVE  \E n \in T : \A m \in T : n <= m
<1> DEFINE R == OpToRel(<, Nat)
<1>1. PICK x \in T : \A y \in T : ~(<<y, x>> \in R)
  <2> HIDE DEF R
  <2> QED
    BY WFMin, NatLessThanWellFounded DEF R
<1>2. \A a, b \in Nat : a < b => <<a, b>> \in R
  <2>1. R = {ss \in Nat \X Nat : ss[1] < ss[2]}
    BY DEF OpToRel
  <2> QED
    BY <2>1
<1>3. \A y \in T : x <= y
  <2> SUFFICES ASSUME NEW y \in T PROVE x <= y
    OBVIOUS
  <2>1. x \in Nat /\ y \in Nat
    OBVIOUS
  <2>2. ~(y < x)
    <3> HIDE DEF R
    <3> QED
      BY <1>1, <1>2, <2>1, Zenon
  <2> QED
    BY <2>1, <2>2
<1> QED
  BY <1>3

\* f is what Keep computes, up to place n.
Keeps(f, ss, S, n) ==
  f = [i \in 0..n |-> IF i = 0 THEN <<>>
         ELSE IF ss[i] \in S THEN Append(f[i - 1], ss[i]) ELSE f[i - 1]]

\* The recursion of Keep defines a function.
LEMMA KeepExists ==
  ASSUME NEW X, NEW ss \in Seq(X), NEW S
  PROVE  \A n \in 0..Len(ss) : \E f : Keeps(f, ss, S, n)
<1> DEFINE T == {n \in 0..Len(ss) : ~\E f : Keeps(f, ss, S, n)}
<1> SUFFICES ASSUME T # {} PROVE FALSE
  OBVIOUS
<1>0. Len(ss) \in Nat
  OBVIOUS
<1>1. T \subseteq Nat
  BY <1>0
<1>2. PICK n \in T : \A m \in T : n <= m
  <2> HIDE DEF T
  <2> QED
    BY <1>1, LeastNumber
<1>3. n \in 0..Len(ss) /\ ~\E f : Keeps(f, ss, S, n)
  BY <1>2
<1>4. n # 0
  <2> SUFFICES ASSUME n = 0 PROVE FALSE
    OBVIOUS
  <2> DEFINE f == [i \in 0..0 |-> <<>>]
  <2>1. Keeps(f, ss, S, 0)
    BY DEF Keeps
  <2> QED
    BY <2>1, <1>3
<1>5. n - 1 \in 0..Len(ss) /\ n - 1 \notin T
  BY <1>0, <1>2, <1>3, <1>4
<1>6. PICK g : Keeps(g, ss, S, n - 1)
  BY <1>5
<1> DEFINE last == IF ss[n] \in S THEN Append(g[n - 1], ss[n]) ELSE g[n - 1]
           h == [i \in 0..n |-> IF i = n THEN last ELSE g[i]]
<1>7. \A i \in 0..(n - 1) : g[i] = IF i = 0 THEN <<>>
            ELSE IF ss[i] \in S THEN Append(g[i - 1], ss[i]) ELSE g[i - 1]
  BY <1>6 DEF Keeps
<1>8. \A i \in 0..(n - 1) : h[i] = g[i]
  BY <1>3, <1>4
<1>9. \A i \in 0..n : h[i] = IF i = 0 THEN <<>>
            ELSE IF ss[i] \in S THEN Append(h[i - 1], ss[i]) ELSE h[i - 1]
  <2> SUFFICES ASSUME NEW i \in 0..n
               PROVE  h[i] = IF i = 0 THEN <<>>
                        ELSE IF ss[i] \in S THEN Append(h[i - 1], ss[i])
                        ELSE h[i - 1]
    OBVIOUS
  <2>1. CASE i = n
    <3>1. h[n] = last /\ h[n - 1] = g[n - 1]
      BY <1>3, <1>4, <1>8
    <3> HIDE DEF h
    <3> QED
      BY <3>1, <2>1, <1>4
  <2>2. CASE i # n
    <3>1. i \in 0..(n - 1) /\ (i # 0 => i - 1 \in 0..(n - 1))
      BY <2>2, <1>3
    <3>2. h[i] = g[i] /\ (i # 0 => h[i - 1] = g[i - 1])
      BY <3>1, <1>8
    <3> HIDE DEF h
    <3> QED
      BY <3>1, <3>2, <1>7
  <2> QED
    BY <2>1, <2>2
<1>10. Keeps(h, ss, S, n)
  <2>1. h = [i \in 0..n |-> h[i]]
    OBVIOUS
  <2> HIDE DEF h
  <2> QED
    BY <2>1, <1>9 DEF Keeps
<1> QED
  BY <1>3, <1>10

\* What Keep computes, place by place.
LEMMA KeepUnfolds ==
  ASSUME NEW X, NEW ss \in Seq(X), NEW S
  PROVE  \E f : Keeps(f, ss, S, Len(ss)) /\ Keep(ss, S) = f[Len(ss)]
<1> DEFINE F == CHOOSE f : f = [i \in 0..Len(ss) |-> IF i = 0 THEN <<>>
            ELSE IF ss[i] \in S THEN Append(f[i - 1], ss[i]) ELSE f[i - 1]]
<1>1. \E f : f = [i \in 0..Len(ss) |-> IF i = 0 THEN <<>>
            ELSE IF ss[i] \in S THEN Append(f[i - 1], ss[i]) ELSE f[i - 1]]
  <2>1. Len(ss) \in 0..Len(ss)
    OBVIOUS
  <2>2. \A n \in 0..Len(ss) : \E f : Keeps(f, ss, S, n)
    BY KeepExists
  <2>3. \E f : Keeps(f, ss, S, Len(ss))
    BY <2>1, <2>2
  <2> QED
    BY <2>3 DEF Keeps
<1>2. Keeps(F, ss, S, Len(ss))
  BY <1>1 DEF Keeps
<1>3. Keep(ss, S) = F[Len(ss)]
  BY DEF Keep
<1> QED
  BY <1>2, <1>3

\* The statements of S that are in ss up to place n, and no place twice: g
\* tells from which place of ss each of them is.
Picks(s, g, ss, S, n) ==
  /\ s \in Seq(ToSet(ss) \cap S)
  /\ g \in [1..Len(s) -> 1..n]
  /\ \A k \in 1..Len(s) : s[k] = ss[g[k]]
  /\ \A k, l \in 1..Len(s) : g[k] = g[l] => k = l
  /\ \A i \in 1..n : ss[i] \in S => \E k \in 1..Len(s) : s[k] = ss[i]

LEMMA KeepPicks ==
  ASSUME NEW X, NEW ss \in Seq(X), NEW S
  PROVE  \E g : Picks(Keep(ss, S), g, ss, S, Len(ss))
<1>1. PICK f : Keeps(f, ss, S, Len(ss)) /\ Keep(ss, S) = f[Len(ss)]
  BY KeepUnfolds
<1>2. /\ f[0] = <<>>
      /\ \A i \in 1..Len(ss) :
           f[i] = IF ss[i] \in S THEN Append(f[i - 1], ss[i]) ELSE f[i - 1]
  <2>1. Len(ss) \in Nat
    OBVIOUS
  <2>2. \A i \in 0..Len(ss) : f[i] = IF i = 0 THEN <<>>
            ELSE IF ss[i] \in S THEN Append(f[i - 1], ss[i]) ELSE f[i - 1]
    BY <1>1 DEF Keeps
  <2> QED
    BY <2>1, <2>2
<1> DEFINE T == {n \in 0..Len(ss) : ~\E g : Picks(f[n], g, ss, S, n)}
<1>3. T = {}
  <2> SUFFICES ASSUME T # {} PROVE FALSE
    OBVIOUS
  <2>1. T \subseteq Nat
    OBVIOUS
  <2>2. PICK n \in T : \A m \in T : n <= m
    <3> HIDE DEF T
    <3> QED
      BY <2>1, LeastNumber
  <2>3. n \in 0..Len(ss) /\ ~\E g : Picks(f[n], g, ss, S, n)
    BY <2>2
  <2>4. n # 0
    <3> SUFFICES ASSUME n = 0 PROVE FALSE
      OBVIOUS
    <3>1. Picks(<<>>, [k \in 1..0 |-> 0], ss, S, 0)
      BY DEF Picks
    <3> QED
      BY <3>1, <2>3, <1>2
  <2>5. n - 1 \in 0..Len(ss) /\ n - 1 \notin T /\ n \in 1..Len(ss)
    BY <2>1, <2>2, <2>3, <2>4, SMTT(30)
  <2>6. PICK g : Picks(f[n - 1], g, ss, S, n - 1)
    BY <2>5
  <2> DEFINE s == f[n - 1]
  <2>7. CASE ss[n] \notin S
    <3>1. f[n] = s
      BY <2>5, <2>7, <1>2
    <3>2. Picks(s, g, ss, S, n)
      BY <2>5, <2>6, <2>7 DEF Picks
    <3> QED
      BY <3>1, <3>2, <2>3
  <2>8. CASE ss[n] \in S
    <3> DEFINE r == Append(s, ss[n])
               h == [k \in 1..(Len(s) + 1) |-> IF k <= Len(s) THEN g[k] ELSE n]
    <3>1. f[n] = r
      BY <2>5, <2>8, <1>2
    <3>2. /\ s \in Seq(ToSet(ss) \cap S) /\ Len(s) \in Nat
          /\ g \in [1..Len(s) -> 1..(n - 1)]
          /\ \A k \in 1..Len(s) : s[k] = ss[g[k]]
          /\ \A k, l \in 1..Len(s) : g[k] = g[l] => k = l
          /\ \A i \in 1..(n - 1) : ss[i] \in S => \E k \in 1..Len(s) : s[k] = ss[i]
      BY <2>6 DEF Picks
    <3>3. ss[n] \in ToSet(ss) \cap S
      BY <2>5, <2>8 DEF ToSet
    <3> HIDE DEF s
    <3>4. /\ r \in Seq(ToSet(ss) \cap S) /\ Len(r) = Len(s) + 1
          /\ \A k \in 1..Len(s) : r[k] = s[k]
          /\ r[Len(s) + 1] = ss[n]
      BY <3>2, <3>3
    <3>5. /\ h \in [1..(Len(s) + 1) -> 1..n]
          /\ \A k \in 1..Len(s) : h[k] = g[k]
          /\ h[Len(s) + 1] = n
      BY <3>2, <2>5
    <3> HIDE DEF r, h
    <3>0. \A k \in 1..Len(r) : k \in 1..Len(s) \/ k = Len(s) + 1
      BY <3>2, <3>4
    <3>6. \A k \in 1..Len(r) : r[k] = ss[h[k]]
      <4>1. \A k \in 1..Len(s) : r[k] = ss[h[k]]
        BY <3>2, <3>4, <3>5
      <4>2. r[Len(s) + 1] = ss[h[Len(s) + 1]]
        BY <3>4, <3>5
      <4> QED
        BY <4>1, <4>2, <3>0
    <3>7. \A k, l \in 1..Len(r) : h[k] = h[l] => k = l
      <4>1. \A k \in 1..Len(s) : h[k] \in 1..(n - 1)
        BY <3>2, <3>5
      <4>2. n \notin 1..(n - 1)
        BY <2>5
      <4>3. \A k, l \in 1..Len(s) : h[k] = h[l] => k = l
        BY <3>2, <3>5
      <4> QED
        BY <4>1, <4>2, <4>3, <3>0, <3>5
    <3>8. \A i \in 1..n : ss[i] \in S => \E k \in 1..Len(r) : r[k] = ss[i]
      <4> SUFFICES ASSUME NEW i \in 1..n, ss[i] \in S
                   PROVE  \E k \in 1..Len(r) : r[k] = ss[i]
        OBVIOUS
      <4>1. CASE i = n
        <5>1. Len(s) + 1 \in 1..Len(r)
          BY <3>2, <3>4
        <5> QED
          BY <5>1, <4>1, <3>4
      <4>2. CASE i # n
        <5>1. PICK k \in 1..Len(s) : s[k] = ss[i]
          BY <4>2, <3>2, <2>5
        <5> QED
          BY <5>1, <3>2, <3>4
      <4> QED
        BY <4>1, <4>2
    <3>9. Picks(r, h, ss, S, n)
      BY <3>4, <3>5, <3>6, <3>7, <3>8 DEF Picks
    <3> QED
      BY <3>1, <3>9, <2>3
  <2> QED
    BY <2>7, <2>8
<1>4. Len(ss) \in 0..Len(ss)
  OBVIOUS
<1> QED
  BY <1>1, <1>3, <1>4

\* Keep returns the members of a sequence that are in a set, and what the
\* sequence holds once is once in it.
LEMMA KeepIsSelection ==
  ASSUME NEW X, NEW ss \in Seq(X), NEW S
  PROVE  /\ Keep(ss, S) \in Seq(ToSet(ss) \cap S)
         /\ ToSet(Keep(ss, S)) = ToSet(ss) \cap S
<1>1. PICK g : Picks(Keep(ss, S), g, ss, S, Len(ss))
  BY KeepPicks
<1>2. Keep(ss, S) \in Seq(ToSet(ss) \cap S)
  BY <1>1 DEF Picks
<1> DEFINE kept == Keep(ss, S)
<1> HIDE DEF kept
<1>3. kept \in Seq(ToSet(ss) \cap S)
      /\ \A i \in 1..Len(ss) : ss[i] \in S => \E k \in 1..Len(kept) : kept[k] = ss[i]
  BY <1>1 DEF kept, Picks
<1>4. ToSet(kept) = ToSet(ss) \cap S
  BY <1>3 DEF ToSet
<1> QED
  BY <1>2, <1>4 DEF kept

LEMMA KeepOnce ==
  ASSUME NEW X, NEW ss \in Seq(X), NEW S, NEW P,
         \A i, j \in DOMAIN ss : ss[i] \in P /\ ss[i] = ss[j] => i = j
  PROVE  \A k, l \in DOMAIN Keep(ss, S) :
           Keep(ss, S)[k] \in P /\ Keep(ss, S)[k] = Keep(ss, S)[l] => k = l
<1>1. PICK g : Picks(Keep(ss, S), g, ss, S, Len(ss))
  BY KeepPicks
<1> DEFINE kept == Keep(ss, S)
<1>2. /\ kept \in Seq(ToSet(ss) \cap S)
      /\ g \in [1..Len(kept) -> 1..Len(ss)]
      /\ \A k \in 1..Len(kept) : kept[k] = ss[g[k]]
      /\ \A k, l \in 1..Len(kept) : g[k] = g[l] => k = l
  BY <1>1 DEF Picks
<1> HIDE DEF kept
<1>3. ASSUME NEW k \in DOMAIN kept, NEW l \in DOMAIN kept,
             kept[k] \in P, kept[k] = kept[l]
      PROVE  k = l
  <2>1. k \in 1..Len(kept) /\ l \in 1..Len(kept)
    BY <1>2
  <2>2. g[k] \in DOMAIN ss /\ g[l] \in DOMAIN ss
    BY <1>2, <2>1
  <2>3. kept[k] = ss[g[k]] /\ kept[l] = ss[g[l]]
    BY <1>2, <2>1
  <2>4. g[k] = g[l]
    BY <1>3, <2>2, <2>3
  <2> QED
    BY <1>2, <2>1, <2>4
<1> QED
  BY <1>3 DEF kept

\* SetToSeq lists a finite set.
LEMMA SetToSeqLists ==
  ASSUME NEW S, IsFiniteSet(S)
  PROVE  SetToSeq(S) \in Seq(S) /\ ToSet(SetToSeq(S)) = S
<1> DEFINE n == Cardinality(S)
           f == SetToSeq(S)
<1>1. n \in Nat /\ ExistsBijection(1..n, S)
  BY FS_CardinalityType
<1>2. \E g \in [1..n -> S] : IsInjective(g)
  BY <1>1 DEF ExistsBijection, Bijection, Injection
<1>3. f \in [1..n -> S] /\ IsInjective(f)
  BY <1>2 DEF SetToSeq
<1> HIDE DEF f
<1>4. f \in Injection(1..n, S)
  BY <1>3 DEF Injection
<1>5. Cardinality(1..n) = n
  BY <1>1, FS_Interval
<1>6. f \in Surjection(1..n, S)
  BY <1>4, <1>5, FS_Injection
<1>7. \A x \in S : \E i \in 1..n : f[i] = x
  BY <1>6 DEF Surjection
<1>8. f \in Seq(S) /\ DOMAIN f = 1..n
  BY <1>1, <1>3
<1>9. ToSet(f) = S
  BY <1>3, <1>7, <1>8 DEF ToSet
<1> QED
  BY <1>8, <1>9 DEF f

\* The images of the members of a sequence are finitely many.
LEMMA FiniteImage ==
  ASSUME NEW X, NEW ss \in Seq(X), NEW f, DOMAIN f = DOMAIN ss
  PROVE  IsFiniteSet({f[i] : i \in DOMAIN ss})
<1> DEFINE T == {f[i] : i \in DOMAIN ss}
           h == [i \in 1..Len(ss) |-> f[i]]
<1>1. Len(ss) \in Nat /\ DOMAIN ss = 1..Len(ss)
  OBVIOUS
<1>2. h \in Surjection(1..Len(ss), T)
  BY <1>1 DEF Surjection
<1>3. IsFiniteSet(1..Len(ss))
  BY <1>1, FS_Interval
<1> HIDE DEF T, h
<1>4. IsFiniteSet(T)
  BY <1>2, <1>3, FS_Surjection
<1> QED
  BY <1>4 DEF T

-----------------------------------------------------------------------------
(* Division                                                                *)

LEMMA DivMod ==
  ASSUME NEW n \in Nat \ {0}, NEW x \in Nat
  PROVE  x = n * (x \div n) + (x % n) /\ x % n \in 0..(n - 1) /\ x \div n \in Nat
OBVIOUS

LEMMA Multiples ==
  ASSUME NEW n \in Nat \ {0}, NEW k \in Int
  PROVE  /\ k >= 1 => n * k >= n
         /\ k <= 0 => n * k <= 0
         /\ k >= 2 => n * k >= n + n
OBVIOUS

\* A connection keeps to its own places in the list of tables.
LEMMA OwnerKept ==
  ASSUME NEW n \in Nat \ {0}, NEW x \in Nat
  PROVE  (x + n) % n = x % n
<1> DEFINE q == x \div n
           r == x % n
           p == (x + n) \div n
           s == (x + n) % n
           k == p - q
<1>1. x = n * q + r /\ r \in 0..(n - 1) /\ q \in Nat
  BY DivMod
<1>2. x + n \in Nat
  OBVIOUS
<1>3. x + n = n * p + s /\ s \in 0..(n - 1) /\ p \in Nat
  BY DivMod, <1>2
<1> HIDE DEF q, r, p, s
<1>4. n * k = n + r - s
  BY <1>1, <1>3
<1>5. k \in Int /\ k >= 1 /\ k < 2
  BY <1>4, <1>1, <1>3, Multiples
<1>6. k = 1
  BY <1>5
<1>7. r = s
  BY <1>1, <1>3, <1>4, <1>6
<1> QED
  BY <1>7 DEF r, s

\* Between two places of a connection there is none of its own.
LEMMA OwnersApart ==
  ASSUME NEW n \in Nat \ {0}, NEW x \in Nat, NEW y \in Nat,
         x % n = y % n, x <= y, y < x + n
  PROVE  y = x
<1> DEFINE q == x \div n
           r == x % n
           p == y \div n
           k == p - q
<1>1. x = n * q + r /\ r \in 0..(n - 1) /\ q \in Nat
  BY DivMod
<1>2. y = n * p + r /\ p \in Nat
  BY DivMod
<1> HIDE DEF q, r, p
<1>3. n * k = y - x
  BY <1>1, <1>2
<1>4. k \in Int /\ k < 1
  BY <1>3, <1>1, <1>2, Multiples
<1>5. n * k <= 0
  BY <1>4, Multiples
<1> QED
  BY <1>3, <1>5

-----------------------------------------------------------------------------
(* The sections and their work                                             *)

LEMMA SectionNames ==
  /\ DOMAIN Sections = 1..12
  /\ Sections[1] = "incremental"
  /\ Sections[2] = "schemas"
  /\ Sections[3] = "predata"
  /\ Sections[4] = "sequences"
  /\ Sections[5] = "qd-data"
  /\ Sections[6] = "file-count"
  /\ Sections[7] = "data"
  /\ Sections[8] = "batch-1"
  /\ Sections[9] = "batch-2"
  /\ Sections[10] = "batch-3"
  /\ Sections[11] = "statistics"
  /\ Sections[12] = "analyze"
BY DEF Sections

LEMMA TheConns == 0 \in Conns /\ Conns \subseteq Nat /\ -1 \notin Conns
BY StatementsAssumption DEF Conns

LEMMA TheSections == 1..12 = {1, 2, 3, 4, 5, 6, 7, 8, 9, 10, 11, 12}
OBVIOUS

WorksListed ==
  /\ DOMAIN Works = 1..12
  /\ Works[1] = {}
  /\ Works[2] = Chosen(Predata, {"SCHEMA"})
  /\ Works[3] = Chosen(Predata, {"TABLE", "SEQUENCE"})
  /\ Works[4] = {Setval(s) : s \in Chosen(Predata, {"SEQUENCE"})}
  /\ Works[5] = Chosen(Predata, {"QD-DATA"})
  /\ Works[6] = {}
  /\ Works[7] = UNION {Copies(b) : b \in DueBackups}
  /\ Works[8] = FirstIndexes(Postdatas)
  /\ Works[9] = {s \in Chosen(Postdata, StatementTypes) :
       ~IsMetadata(s)} \ FirstIndexes(Postdatas)
  /\ Works[10] = {s \in Chosen(Postdata, StatementTypes) : IsMetadata(s)}
  /\ Works[11] = Chosen(Statistics, StatementTypes)
  /\ Works[12] = {Analyze(t) : t \in LoadedTables \cup QDDone}

LEMMA WorksList == WorksListed
<1>1. DOMAIN Works = 1..12 /\ \A n \in 1..12 : Works[n] = Work(Sections[n])
  BY SectionNames DEF Works
<1>2. Works[1] = {}
  <2>1. Works[1] = Work("incremental")
    BY <1>1, SectionNames
  <2> QED
    BY <2>1 DEF Work
<1>3. Works[2] = Chosen(Predata, {"SCHEMA"})
  <2>1. Works[2] = Work("schemas")
    BY <1>1, SectionNames
  <2> QED
    BY <2>1 DEF Work
<1>4. Works[3] = Chosen(Predata, {"TABLE", "SEQUENCE"})
  <2>1. Works[3] = Work("predata")
    BY <1>1, SectionNames
  <2> QED
    BY <2>1 DEF Work
<1>5. Works[4] = {Setval(s) : s \in Chosen(Predata, {"SEQUENCE"})}
  <2>1. Works[4] = Work("sequences")
    BY <1>1, SectionNames
  <2> QED
    BY <2>1 DEF Work
<1>6. Works[5] = Chosen(Predata, {"QD-DATA"})
  <2>1. Works[5] = Work("qd-data")
    BY <1>1, SectionNames
  <2> QED
    BY <2>1 DEF Work
<1>7. Works[6] = {}
  <2>1. Works[6] = Work("file-count")
    BY <1>1, SectionNames
  <2> QED
    BY <2>1 DEF Work
<1>8. Works[7] = UNION {Copies(b) : b \in DueBackups}
  <2>1. Works[7] = Work("data")
    BY <1>1, SectionNames
  <2> QED
    BY <2>1 DEF Work
<1>9. Works[8] = FirstIndexes(Postdatas)
  <2>1. Works[8] = Work("batch-1")
    BY <1>1, SectionNames
  <2> QED
    BY <2>1 DEF Work
<1>10. Works[9] = {s \in Chosen(Postdata, StatementTypes) :
         ~IsMetadata(s)} \ FirstIndexes(Postdatas)
  <2>1. Works[9] = Work("batch-2")
    BY <1>1, SectionNames
  <2> QED
    BY <2>1 DEF Work
<1>11. Works[10] = {s \in Chosen(Postdata, StatementTypes) : IsMetadata(s)}
  <2>1. Works[10] = Work("batch-3")
    BY <1>1, SectionNames
  <2> QED
    BY <2>1 DEF Work
<1>12. Works[11] = Chosen(Statistics, StatementTypes)
  <2>1. Works[11] = Work("statistics")
    BY <1>1, SectionNames
  <2> QED
    BY <2>1 DEF Work
<1>13. Works[12] = {Analyze(t) : t \in LoadedTables \cup QDDone}
  <2>1. Works[12] = Work("analyze")
    BY <1>1, SectionNames
  <2> QED
    BY <2>1 DEF Work
<1> QED
  BY <1>1, <1>2, <1>3, <1>4, <1>5, <1>6, <1>7, <1>8, <1>9, <1>10, <1>11, <1>12, <1>13
     DEF WorksListed

\* Sections whose statements are pooled.
LEMMA PooledSections ==
  ASSUME NEW n \in 1..12
  PROVE  Sections[n] \in Pooled <=> n \in {3, 4, 5, 8, 9, 10, 11, 12}
BY SectionNames, TheSections DEF Pooled

\* The statements selected from a file, as a sequence and as a set.
LEMMA Selections ==
  ASSUME NEW ss \in {Predata, Postdata, Statistics}, NEW types
  PROVE  /\ StatementsOf(ss, types) \in Seq(Chosen(ss, types))
         /\ ToSet(StatementsOf(ss, types)) = Chosen(ss, types)
         /\ Chosen(ss, types) \subseteq ToSet(ss)
         /\ \A s \in Chosen(ss, types) : s.type \in types
<1> DEFINE S == {s \in ToSet(ss) : s.type \in types /\ StatementSelected(s)}
<1>1. ss \in Seq(ToSet(ss))
  BY StatementsAssumption
<1>2. ToSet(ss) \cap S = S /\ S = Chosen(ss, types)
  BY DEF Chosen
<1> HIDE DEF S
<1>3. Keep(ss, S) \in Seq(ToSet(ss) \cap S) /\ ToSet(Keep(ss, S)) = ToSet(ss) \cap S
  BY <1>1, KeepIsSelection
<1>4. StatementsOf(ss, types) = Keep(ss, S)
  BY DEF StatementsOf, S
<1>5. Chosen(ss, types) \subseteq ToSet(ss)
        /\ \A s \in Chosen(ss, types) : s.type \in types
  BY DEF Chosen
<1> QED
  BY <1>2, <1>3, <1>4, <1>5

\* The entries of a backup: each table once, and in one backup only.
LEMMA TheEntries ==
  ASSUME NEW b \in ToSet(Backups)
  PROVE  /\ EntriesOf(b) \in Seq(Tables)
         /\ ToSet(EntriesOf(b)) \subseteq ToSet(DataEntries[b])
         /\ \A i, j \in 1..Len(EntriesOf(b)) :
              EntriesOf(b)[i] = EntriesOf(b)[j] => i = j
<1> DEFINE S == {t \in Tables : Selected(t)}
           ss == DataEntries[b]
<1>1. ss \in Seq(ToSet(ss)) /\ \A i, j \in DOMAIN ss : ss[i] = ss[j] => i = j
  BY PlanAssumption DEF IsInjective
<1>2. S \subseteq Tables
  OBVIOUS
<1>3. EntriesOf(b) = Keep(ss, S)
  BY DEF EntriesOf
<1> HIDE DEF S, ss
<1>4. Keep(ss, S) \in Seq(ToSet(ss) \cap S) /\ ToSet(Keep(ss, S)) = ToSet(ss) \cap S
  BY <1>1, KeepIsSelection
<1>5. \A k, l \in DOMAIN Keep(ss, S) :
        Keep(ss, S)[k] \in ToSet(ss) /\ Keep(ss, S)[k] = Keep(ss, S)[l] => k = l
  BY <1>1, KeepOnce
<1> DEFINE kept == Keep(ss, S)
<1> HIDE DEF kept
<1>6. \A i, j \in 1..Len(kept) : kept[i] = kept[j] => i = j
  <2>1. kept \in Seq(ToSet(ss) \cap S)
    BY <1>4 DEF kept
  <2>2. \A i \in 1..Len(kept) : kept[i] \in ToSet(ss) /\ i \in DOMAIN kept
    BY <2>1
  <2> QED
    BY <2>2, <1>5 DEF kept
<1>7. kept \in Seq(Tables)
  BY <1>2, <1>4 DEF kept
<1> QED
  BY <1>3, <1>4, <1>6, <1>7 DEF kept, ss

LEMMA EntriesDisjoint ==
  ASSUME NEW a \in ToSet(Backups), NEW b \in ToSet(Backups), NEW t,
         t \in ToSet(EntriesOf(a)), t \in ToSet(EntriesOf(b))
  PROVE  a = b
BY TheEntries, PlanAssumption

\* The plan has a newest backup, and the restore takes what is in the plan.
LEMMA PlanOfRestore ==
  Newest \in ToSet(Backups) /\ DueBackups \subseteq ToSet(Backups)
<1>1. Len(Backups) \in DOMAIN Backups
  BY PlanAssumption
<1>2. Newest \in ToSet(Backups)
  BY <1>1 DEF Newest, ToSet
<1> QED
  BY <1>2 DEF DueBackups

\* What kind of statements a section has.
LEMMA WorkTypes ==
  /\ \A s \in Works[2] : s.type = "SCHEMA"
  /\ \A s \in Works[3] : s.type \in {"TABLE", "SEQUENCE"}
  /\ \A s \in Works[4] : s.type = "SETVAL"
  /\ \A s \in Works[5] : s.type = "QD-DATA" /\ s \in ToSet(Predata)
  /\ \A s \in Works[8] : s.type = "INDEX"
  /\ \A s \in Works[9] : s.type \in {"INDEX", "TRIGGER"}
  /\ \A s \in Works[10] : s.type = "INDEX-METADATA"
  /\ \A s \in Works[11] : s.type = "STATISTICS"
  /\ \A s \in Works[12] : s.type = "ANALYZE"
<1>1. \A s \in Works[2] : s.type = "SCHEMA"
  BY WorksList DEF WorksListed, Chosen
<1>2. \A s \in Works[3] : s.type \in {"TABLE", "SEQUENCE"}
  BY WorksList DEF WorksListed, Chosen
<1>3. \A s \in Works[4] : s.type = "SETVAL"
  BY WorksList DEF WorksListed, Setval
<1>4. \A s \in Works[5] : s.type = "QD-DATA" /\ s \in ToSet(Predata)
  BY WorksList DEF WorksListed, Chosen
<1>5. \A s \in Works[8] : s.type = "INDEX"
  BY WorksList DEF WorksListed, FirstIndexes
<1>6. \A s \in Works[9] : s.type \in {"INDEX", "TRIGGER"}
  BY WorksList, StatementsAssumption DEF WorksListed, Chosen, IsMetadata, MetadataTypes
<1>7. \A s \in Works[10] : s.type = "INDEX-METADATA"
  BY WorksList DEF WorksListed, IsMetadata, MetadataTypes
<1>8. \A s \in Works[11] : s.type = "STATISTICS"
  BY WorksList, StatementsAssumption DEF WorksListed, Chosen
<1>9. \A s \in Works[12] : s.type = "ANALYZE"
  BY WorksList DEF WorksListed, Analyze
<1> QED
  BY <1>1, <1>2, <1>3, <1>4, <1>5, <1>6, <1>7, <1>8, <1>9

LEMMA PooledTypes ==
  ASSUME NEW n \in {3, 4, 5, 8, 9, 10, 11, 12}, NEW s \in Works[n]
  PROVE  /\ s.type \in StatementTypes
         /\ s.type = "QD-DATA" <=> n = 5
         /\ s.type = "INDEX" => n \in {8, 9}
         /\ s.type = "INDEX-METADATA" <=> n = 10
         /\ s.type = "QD-DATA" => s \in ToSet(Predata)
BY WorkTypes DEF StatementTypes

\* The work of the sections before "analyze" is fixed by the command line.
LEMMA WorksFixed ==
  ASSUME cmd' = cmd
  PROVE  /\ Asked' = Asked /\ DueBackups' = DueBackups
         /\ UsesHelpers' = UsesHelpers /\ OnErrorContinue' = OnErrorContinue
         /\ Truncates' = Truncates /\ Postdatas' = Postdatas
         /\ \A n \in 1..11 : Works'[n] = Works[n]
         /\ DOMAIN Works' = 1..12
         /\ QDDone' = QDDone => Works' = Works
<1>1. \A ss, types : Chosen(ss, types)' = Chosen(ss, types)
  BY DEF Chosen, StatementSelected, Selected
<1>2. \A b : EntriesOf(b)' = EntriesOf(b)
  BY DEF EntriesOf, Selected
<1>3. /\ DueBackups' = DueBackups /\ UsesHelpers' = UsesHelpers
      /\ OnErrorContinue' = OnErrorContinue /\ Truncates' = Truncates
  BY DEF DueBackups, UsesHelpers, OnErrorContinue, Truncates, Flag
<1>4. Postdatas' = Postdatas
  BY DEF Postdatas, StatementsOf, StatementSelected, Selected
<1>5. \A p : Asks(p)' = Asks(p)
  BY DEF Asks, Metadata, DataOnly, MetadataOnly, WithStats, Flag
<1>6. Asked' = Asked
  BY <1>5 DEF Asked
<1>7. LoadedTables' = LoadedTables
  BY <1>2, <1>3 DEF LoadedTables, MetadataOnly, Flag
<1>8. WorksListed /\ WorksListed'
  BY WorksList, PTL
<1>9. (UNION {Copies(b) : b \in DueBackups})' = UNION {Copies(b) : b \in DueBackups}
  BY <1>2, <1>3 DEF Copies
<1>10. FirstIndexes(Postdatas)' = FirstIndexes(Postdatas)
  BY <1>4 DEF FirstIndexes
<1>11. \A n \in 1..11 : Works'[n] = Works[n]
  <2>1. Works'[1] = Works[1]
    BY <1>1, <1>8, <1>9, <1>10 DEF WorksListed
  <2>2. Works'[2] = Works[2]
    BY <1>1, <1>8, <1>9, <1>10 DEF WorksListed
  <2>3. Works'[3] = Works[3]
    BY <1>1, <1>8, <1>9, <1>10 DEF WorksListed
  <2>4. Works'[4] = Works[4]
    BY <1>1, <1>8, <1>9, <1>10 DEF WorksListed
  <2>5. Works'[5] = Works[5]
    BY <1>1, <1>8, <1>9, <1>10 DEF WorksListed
  <2>6. Works'[6] = Works[6]
    BY <1>1, <1>8, <1>9, <1>10 DEF WorksListed
  <2>7. Works'[7] = Works[7]
    BY <1>1, <1>8, <1>9, <1>10 DEF WorksListed
  <2>8. Works'[8] = Works[8]
    BY <1>1, <1>8, <1>9, <1>10 DEF WorksListed
  <2>9. Works'[9] = Works[9]
    BY <1>1, <1>8, <1>9, <1>10 DEF WorksListed
  <2>10. Works'[10] = Works[10]
    BY <1>1, <1>8, <1>9, <1>10 DEF WorksListed
  <2>11. Works'[11] = Works[11]
    BY <1>1, <1>8, <1>9, <1>10 DEF WorksListed
  <2> QED
    BY <2>1, <2>2, <2>3, <2>4, <2>5, <2>6, <2>7, <2>8, <2>9, <2>10, <2>11
<1>12. QDDone' = QDDone => Works'[12] = Works[12]
  BY <1>7, <1>8 DEF WorksListed, Analyze
<1>13. DOMAIN Works = 1..12 /\ DOMAIN Works' = 1..12
  BY <1>8 DEF WorksListed
<1>14. QDDone' = QDDone => Works' = Works
  <2>1. Works = [n \in 1..12 |-> Works[n]] /\ Works' = [n \in 1..12 |-> Works'[n]]
    BY SectionNames DEF Works
  <2>2. \A n \in 1..12 : n \in 1..11 \/ n = 12
    OBVIOUS
  <2> QED
    BY <2>1, <2>2, <1>11, <1>12, Zenon
<1> QED
  BY <1>3, <1>4, <1>6, <1>11, <1>13, <1>14

\* The post-data statements, each index once.
LEMMA ThePostdatas ==
  /\ Postdatas \in Seq(Chosen(Postdata, StatementTypes))
  /\ ToSet(Postdatas) = Chosen(Postdata, StatementTypes)
  /\ \A i, j \in DOMAIN Postdatas :
       Postdatas[i].type = "INDEX" /\ Postdatas[i] = Postdatas[j] => i = j
<1>1. /\ Postdatas \in Seq(Chosen(Postdata, StatementTypes))
      /\ ToSet(Postdatas) = Chosen(Postdata, StatementTypes)
  BY Selections DEF Postdatas
<1> DEFINE P == {s \in ToSet(Postdata) : s.type = "INDEX"}
           S == {s \in ToSet(Postdata) : s.type \in StatementTypes
             /\ StatementSelected(s)}
<1>2. Postdata \in Seq(ToSet(Postdata))
      /\ \A i, j \in DOMAIN Postdata : Postdata[i] \in P
           /\ Postdata[i] = Postdata[j] => i = j
  BY StatementsAssumption
<1>3. Postdatas = Keep(Postdata, S)
  BY DEF Postdatas, StatementsOf
<1> HIDE DEF P, S
<1>4. \A k, l \in DOMAIN Postdatas :
        Postdatas[k] \in P /\ Postdatas[k] = Postdatas[l] => k = l
  BY <1>2, <1>3, KeepOnce
<1>5. \A k \in DOMAIN Postdatas : Postdatas[k] \in ToSet(Postdata)
  BY <1>1, Selections DEF ToSet
<1>6. \A k \in DOMAIN Postdatas : Postdatas[k].type = "INDEX" => Postdatas[k] \in P
  BY <1>5 DEF P
<1> QED
  BY <1>1, <1>4, <1>6

LEMMA FirstsAreIndexes ==
  ASSUME NEW s \in FirstIndexes(Postdatas)
  PROVE  s \in ToSet(Postdatas) /\ s.type = "INDEX"
BY DEF FirstIndexes, ToSet

\* What is kept of the post-data statements has each index once.
LEMMA PostdataKept ==
  ASSUME NEW S, S \subseteq ToSet(Postdatas)
  PROVE  /\ Keep(Postdatas, S) \in Seq(S) /\ ToSet(Keep(Postdatas, S)) = S
         /\ \A i, j \in DOMAIN Keep(Postdatas, S) :
              /\ Keep(Postdatas, S)[i].type = "INDEX"
              /\ Keep(Postdatas, S)[i] = Keep(Postdatas, S)[j]
              => i = j
<1> DEFINE P == {s \in ToSet(Postdatas) : s.type = "INDEX"}
           ss == Postdatas
           kept == Keep(ss, S)
<1>1. ss \in Seq(ToSet(ss))
      /\ \A i, j \in DOMAIN ss : ss[i] \in P /\ ss[i] = ss[j] => i = j
  <2>1. ss \in Seq(ToSet(ss))
    BY ThePostdatas
  <2>2. \A i \in DOMAIN ss : ss[i] \in P => ss[i].type = "INDEX"
    OBVIOUS
  <2> HIDE DEF P
  <2> QED
    BY <2>1, <2>2, ThePostdatas
<1>2. ToSet(ss) \cap S = S
  OBVIOUS
<1> HIDE DEF P, ss
<1>3. Keep(ss, S) \in Seq(ToSet(ss) \cap S) /\ ToSet(Keep(ss, S)) = ToSet(ss) \cap S
  BY <1>1, KeepIsSelection
<1>4. \A k, l \in DOMAIN Keep(ss, S) :
        Keep(ss, S)[k] \in P /\ Keep(ss, S)[k] = Keep(ss, S)[l] => k = l
  BY <1>1, KeepOnce
<1> HIDE DEF kept
<1>5. kept \in Seq(S) /\ ToSet(kept) = S
  BY <1>2, <1>3 DEF kept
<1>6. \A k \in DOMAIN kept : kept[k].type = "INDEX" => kept[k] \in P
  BY <1>5 DEF P, ss
<1>7. \A k, l \in DOMAIN kept : kept[k] \in P /\ kept[k] = kept[l] => k = l
  BY <1>4 DEF kept
<1>8. \A k, l \in DOMAIN kept : kept[k].type = "INDEX" /\ kept[k] = kept[l] => k = l
  BY <1>6, <1>7
<1> QED
  BY <1>5, <1>8 DEF kept, ss

\* The setval statements of the sequences.
LEMMA SetvalBatch ==
  Batch("sequences") \in Seq(Works[4]) /\ ToSet(Batch("sequences")) = Works[4]
<1> DEFINE X == StatementsOf(Predata, {"SEQUENCE"})
           B == Chosen(Predata, {"SEQUENCE"})
           f == [i \in DOMAIN X |-> Setval(X[i])]
<1>1. X \in Seq(B) /\ ToSet(X) = B
  BY Selections
<1>2. Works[4] = {Setval(s) : s \in B}
  BY WorksList DEF WorksListed
<1>3. Batch("sequences") = f
  BY DEF Batch
<1> HIDE DEF X, B
<1>4. Len(X) \in Nat /\ DOMAIN X = 1..Len(X) /\ \A i \in 1..Len(X) : X[i] \in B
  BY <1>1
<1>5. f \in [1..Len(X) -> Works[4]]
  BY <1>2, <1>4
<1>6. f \in Seq(Works[4])
  BY <1>4, <1>5
<1>7. \A s \in B : \E i \in DOMAIN X : X[i] = s
  BY <1>1 DEF ToSet
<1>8. ToSet(f) = Works[4]
  <2>1. DOMAIN f = DOMAIN X /\ \A i \in DOMAIN X : f[i] = Setval(X[i])
    OBVIOUS
  <2>2. ToSet(f) = {f[i] : i \in DOMAIN X}
    BY <2>1 DEF ToSet
  <2> HIDE DEF f
  <2> QED
    BY <2>1, <2>2, <1>2, <1>4, <1>7
<1> QED
  BY <1>3, <1>6, <1>8

\* The tables ANALYZE is run on are finitely many.
LEMMA FiniteAnalyze ==
  ASSUME QDTables
  PROVE  IsFiniteSet({Analyze(t) : t \in LoadedTables \cup QDDone})
<1>1. \A b \in ToSet(Backups) : IsFiniteSet(ToSet(EntriesOf(b)))
  <2> SUFFICES ASSUME NEW b \in ToSet(Backups) PROVE IsFiniteSet(ToSet(EntriesOf(b)))
    OBVIOUS
  <2> DEFINE f == EntriesOf(b)
  <2>1. f \in Seq(Tables)
    BY TheEntries
  <2> HIDE DEF f
  <2>2. IsFiniteSet({f[i] : i \in DOMAIN f})
    BY <2>1, FiniteImage
  <2> QED
    BY <2>2 DEF ToSet, f
<1>2. IsFiniteSet(LoadedTables)
  <2> DEFINE f == [i \in DOMAIN Backups |-> ToSet(EntriesOf(Backups[i]))]
             W == {f[i] : i \in DOMAIN Backups}
  <2>1. DOMAIN f = DOMAIN Backups
    OBVIOUS
  <2>2. \A x \in W : IsFiniteSet(x)
    BY <1>1 DEF ToSet
  <2>3. LoadedTables \subseteq UNION W
    <3>1. LoadedTables \subseteq UNION {ToSet(EntriesOf(b)) : b \in ToSet(Backups)}
      BY PlanOfRestore DEF LoadedTables
    <3>2. \A b \in ToSet(Backups) : ToSet(EntriesOf(b)) \in W
      BY DEF ToSet
    <3> HIDE DEF W
    <3> QED
      BY <3>1, <3>2
  <2> HIDE DEF f
  <2>4. IsFiniteSet(W)
    BY <2>1, PlanAssumption, FiniteImage
  <2> HIDE DEF W
  <2>5. IsFiniteSet(UNION W)
    BY <2>2, <2>4, FS_UNION
  <2> QED
    BY <2>3, <2>5, FS_Subset
<1>3. IsFiniteSet(QDDone)
  <2> DEFINE f == [i \in DOMAIN Predata |-> Predata[i].object]
             W == {f[i] : i \in DOMAIN Predata}
  <2>1. QDDone \subseteq W
    BY DEF QDDone, QDTables, ToSet
  <2>2. DOMAIN f = DOMAIN Predata
    OBVIOUS
  <2> HIDE DEF f
  <2>3. IsFiniteSet(W)
    BY <2>2, StatementsAssumption, FiniteImage
  <2> QED
    BY <2>1, <2>3, FS_Subset
<1> DEFINE T == LoadedTables \cup QDDone
<1>4. IsFiniteSet(T)
  BY <1>2, <1>3, FS_Union
<1> HIDE DEF T
<1> DEFINE A == {Analyze(t) : t \in T}
           f == [t \in T |-> Analyze(t)]
<1>5. f \in Surjection(T, A)
  BY DEF Surjection
<1> HIDE DEF A, f
<1>6. IsFiniteSet(A)
  BY <1>4, <1>5, FS_Surjection
<1> QED
  BY <1>6 DEF A, T

\* The statements given to the pool are the work of the section, and an index
\* is among them once.
LEMMA BatchIsWork ==
  ASSUME QDTables, NEW n \in {3, 4, 5, 8, 9, 10, 11, 12}
  PROVE  /\ Batch(Sections[n]) \in Seq(Works[n])
         /\ ToSet(Batch(Sections[n])) = Works[n]
<1>1. CASE n = 3
  <2>1. Batch(Sections[3]) = StatementsOf(Predata, {"TABLE", "SEQUENCE"})
    BY SectionNames DEF Batch
  <2> QED
    BY <2>1, <1>1, WorksList, Selections DEF WorksListed
<1>2. CASE n = 4
  BY <1>2, SectionNames, SetvalBatch
<1>3. CASE n = 5
  <2>1. Batch(Sections[5]) = StatementsOf(Predata, {"QD-DATA"})
    BY SectionNames DEF Batch
  <2> QED
    BY <2>1, <1>3, WorksList, Selections DEF WorksListed
<1>4. CASE n = 8
  <2>1. Batch(Sections[8]) = Keep(Postdatas, FirstIndexes(Postdatas))
    BY SectionNames DEF Batch, FirstBatch
  <2>2. Works[8] = FirstIndexes(Postdatas) /\ Works[8] \subseteq ToSet(Postdatas)
    BY WorksList, FirstsAreIndexes DEF WorksListed
  <2> QED
    BY <2>1, <2>2, <1>4, PostdataKept
<1>5. CASE n = 9
  <2>1. Batch(Sections[9]) =
          Keep(Postdatas, {s \in ToSet(Postdatas) :
            ~IsMetadata(s)} \ FirstIndexes(Postdatas))
    BY SectionNames DEF Batch, SecondBatch
  <2>2. Works[9] = {s \in ToSet(Postdatas) : ~IsMetadata(s)} \ FirstIndexes(Postdatas)
    BY WorksList, ThePostdatas DEF WorksListed
  <2>3. Batch(Sections[9]) = Keep(Postdatas, Works[9])
    BY <2>1, <2>2
  <2>4. Works[9] \subseteq ToSet(Postdatas)
    BY <2>2
  <2> QED
    BY <2>3, <2>4, <1>5, PostdataKept
<1>6. CASE n = 10
  <2>1. Batch(Sections[10]) = Keep(Postdatas, {s \in ToSet(Postdatas) : IsMetadata(s)})
    BY SectionNames DEF Batch, ThirdBatch
  <2>2. Works[10] = {s \in ToSet(Postdatas) : IsMetadata(s)}
    BY WorksList, ThePostdatas DEF WorksListed
  <2>3. Batch(Sections[10]) = Keep(Postdatas, Works[10])
    BY <2>1, <2>2
  <2>4. Works[10] \subseteq ToSet(Postdatas)
    BY <2>2
  <2> QED
    BY <2>3, <2>4, <1>6, PostdataKept
<1>7. CASE n = 11
  <2>1. Batch(Sections[11]) = StatementsOf(Statistics, StatementTypes)
    BY SectionNames DEF Batch
  <2> QED
    BY <2>1, <1>7, WorksList, Selections DEF WorksListed
<1>8. CASE n = 12
  <2>1. Batch(Sections[12]) = SetToSeq({Analyze(t) : t \in LoadedTables \cup QDDone})
    BY SectionNames DEF Batch, AnalyzeStatements
  <2>2. Works[12] = {Analyze(t) : t \in LoadedTables \cup QDDone}
    BY WorksList DEF WorksListed
  <2> QED
    BY <2>1, <2>2, <1>8, FiniteAnalyze, SetToSeqLists
<1> QED
  BY <1>1, <1>2, <1>3, <1>4, <1>5, <1>6, <1>7, <1>8

LEMMA BatchHasIndexOnce ==
  ASSUME QDTables, NEW n \in {3, 4, 5, 8, 9, 10, 11, 12},
         NEW i \in DOMAIN Batch(Sections[n]), NEW j \in DOMAIN Batch(Sections[n]),
         Batch(Sections[n])[i].type = "INDEX",
         Batch(Sections[n])[i] = Batch(Sections[n])[j]
  PROVE  i = j
<1> DEFINE ss == Batch(Sections[n])
<1>0. ss \in Seq(Works[n]) /\ i \in DOMAIN ss
  BY BatchIsWork
<1> HIDE DEF ss
<1>1. ss[i] \in Works[n] /\ ss[i].type = "INDEX"
  BY <1>0 DEF ss
<1>2. n \in {8, 9}
  BY <1>1, PooledTypes
<1>3. CASE n = 8
  <2>1. Batch(Sections[8]) = Keep(Postdatas, FirstIndexes(Postdatas))
    BY SectionNames DEF Batch, FirstBatch
  <2>2. FirstIndexes(Postdatas) \subseteq ToSet(Postdatas)
    BY FirstsAreIndexes
  <2> QED
    BY <2>1, <2>2, <1>3, PostdataKept
<1>4. CASE n = 9
  <2>1. Batch(Sections[9]) =
          Keep(Postdatas, {s \in ToSet(Postdatas) :
            ~IsMetadata(s)} \ FirstIndexes(Postdatas))
    BY SectionNames DEF Batch, SecondBatch
  <2>2. {s \in ToSet(Postdatas) : ~IsMetadata(s)} \ FirstIndexes(Postdatas)
          \subseteq ToSet(Postdatas)
    OBVIOUS
  <2> QED
    BY <2>1, <2>2, <1>4, PostdataKept
<1> QED
  BY <1>2, <1>3, <1>4

-----------------------------------------------------------------------------
(* The steps                                                               *)

\* Steps outside the sections: nothing is restored, and a restore leaves
\* after its last section or by a panic.
Outside ==
  /\ UNCHANGED <<cmd, section, tasks, parallel, worker, running, fatalBy, numErrors,
                 backupsLeft, loading, entry, cancelled, panicked, objects, rows,
                 done, failed, errorTables>>
  /\ pc' # pc => /\ pc \notin {"run", "data", "load"}
                 /\ pc' \in Early \cup Leaving \cup {"restore", "recover"}
  /\ pc' \in Early \cup {"restore"} => pc' = pc \/ pc \in Early
  /\ pc' \in Leaving =>
       pc \in Leaving \/ section \notin DOMAIN Sections \/ errorCode' = 2
  /\ pc = "recover" => pc' = "recover" \/ errorCode' = 2
  /\ errorCode \in {1, 2} => errorCode' \in {errorCode, 2}
  /\ wasTerminated => wasTerminated'
  /\ helpers' \subseteq helpers

\* Sections that have no statements, or are not called.
Passed ==
  /\ pc = "restore" /\ section \in DOMAIN Sections
  /\ \/ /\ section' = section + 1 /\ pc' = "restore" /\ errorCode' = errorCode
        /\ section \notin Asked \/ wasTerminated \/ section \in {1, 6}
     \/ section' = section /\ pc' = "recover" /\ errorCode' = 2
  /\ UNCHANGED <<cmd, tasks, parallel, worker, running, fatalBy, numErrors,
                 backupsLeft, loading, entry, cancelled, panicked, objects, rows,
                 done, failed, failures, errorTables, files, setUp, helpers, plugin,
                 wasTerminated, handler, group, cleanupFailed, overlooked, exitCode>>

LEMMA OutsideSteps ==
  ASSUME \/ DoValidation \/ Connect \/ SetUpPlugin \/ ReadConfig
         \/ CheckBackup \/ RestoreGlobals \/ CheckRelations
         \/ ReturnFromRestore \/ Recover \/ LookForSignal \/ WriteReport
         \/ CleanUpPlugin \/ WriteErrorTables \/ EndTeardown \/ MainCleansUp \/ Exit
         \/ Signal \/ HandlerCleansUp \/ HandlerExits \/ Stopped
         \/ UNCHANGED vars
  PROVE  Outside
<1> USE DEF Outside, Early, Leaving, At, Alive, poolVars, loadVars, dbVars, errVars,
      outVars, endVars
<1>1. CASE DoValidation
  BY <1>1 DEF DoValidation, Fatal
<1>2. CASE Connect
  BY <1>2 DEF Connect, Fatal
<1>3. CASE SetUpPlugin
  BY <1>3 DEF SetUpPlugin, Fatal
<1>4. CASE ReadConfig
  BY <1>4 DEF ReadConfig, Fatal
<1>5. CASE CheckBackup
  BY <1>5 DEF CheckBackup, Fatal
<1>6. CASE RestoreGlobals
  BY <1>6 DEF RestoreGlobals, Fatal, LogsError
<1>7. CASE CheckRelations
  BY <1>7 DEF CheckRelations, Fatal
<1>8. CASE ReturnFromRestore
  BY <1>8 DEF ReturnFromRestore
<1>9. CASE Recover
  BY <1>9 DEF Recover
<1>10. CASE LookForSignal
  BY <1>10 DEF LookForSignal
<1>11. CASE WriteReport
  BY <1>11 DEF WriteReport
<1>12. CASE CleanUpPlugin
  BY <1>12 DEF CleanUpPlugin
<1>13. CASE WriteErrorTables
  BY <1>13 DEF WriteErrorTables
<1>14. CASE EndTeardown
  BY <1>14 DEF EndTeardown
<1>15. CASE MainCleansUp
  BY <1>15 DEF MainCleansUp, CleanUp, HelpersToStop, Done, LogsError, PlannedBackups
<1>16. CASE Exit
  BY <1>16 DEF Exit
<1>17. CASE Signal
  BY <1>17 DEF Signal
<1>18. CASE HandlerCleansUp
  BY <1>18 DEF HandlerCleansUp, CleanUp, HelpersToStop, Done, LogsError,
     PlannedBackups
<1>19. CASE HandlerExits
  BY <1>19 DEF HandlerExits
<1>20. CASE Stopped
  BY <1>20 DEF Stopped, vars
<1>21. CASE UNCHANGED vars
  BY <1>21 DEF vars
<1> QED
  BY <1>1, <1>2, <1>3, <1>4, <1>5, <1>6, <1>7, <1>8, <1>9, <1>10, <1>11, <1>12,
     <1>13, <1>14, <1>15, <1>16, <1>17, <1>18, <1>19, <1>20, <1>21

LEMMA PassedSteps ==
  ASSUME SkipSection \/ VerifyIncrementalState \/ VerifyFileCount
  PROVE  Passed
<1>0. section \in DOMAIN Sections =>
        /\ Asks(Sections[section]) <=> section \in Asked
        /\ Sections[section] = "incremental" => section = 1
        /\ Sections[section] = "file-count" => section = 6
  <2> SUFFICES ASSUME section \in DOMAIN Sections
               PROVE  /\ Asks(Sections[section]) <=> section \in Asked
                      /\ Sections[section] = "incremental" => section = 1
                      /\ Sections[section] = "file-count" => section = 6
    OBVIOUS
  <2>1. Asks(Sections[section]) <=> section \in Asked
    BY DEF Asked
  <2>2. /\ Sections[section] = "incremental" => section = 1
        /\ Sections[section] = "file-count" => section = 6
    BY SectionNames, TheSections
  <2> QED
    BY <2>1, <2>2
<1>1. CASE SkipSection
  BY <1>0, <1>1 DEF Passed, SkipSection, NextSection, At, Alive, poolVars, loadVars,
     dbVars, errVars, outVars, endVars
<1>2. CASE VerifyIncrementalState
  BY <1>0, <1>2 DEF Passed, VerifyIncrementalState, Fatal, NextSection, Section, At,
     Alive, poolVars, loadVars, dbVars, errVars, outVars, endVars
<1>3. CASE VerifyFileCount
  BY <1>0, <1>3 DEF Passed, VerifyFileCount, Fatal, NextSection, Section, At, Alive,
     poolVars, loadVars, dbVars, errVars, outVars, endVars
<1> QED
  BY <1>1, <1>2, <1>3

LEMMA StepKinds ==
  ASSUME [Next]_vars
  PROVE  \/ Outside \/ Passed
         \/ RestoreSchemas \/ StartSection \/ StartQDData \/ FinishStatements
         \/ StartData \/ (\E b \in ToSet(Backups) : StartBackup(b))
         \/ DataDone \/ FinishBackup
         \/ \E c \in Conns :
              \/ TakeStatement(c) \/ WorkerEnds(c) \/ StatementSucceeds(c)
              \/ StatementFails(c) \/ ConnectionGone(c) \/ SetGUCs(c)
              \/ LoaderEnds(c) \/ TakeTable(c) \/ TableLoaded(c)
              \/ (\E agent \in BOOLEAN : TableFails(c, agent)) \/ LoaderPanics(c)
BY OutsideSteps, PassedSteps DEF Next, Main, Worker, Handler

-----------------------------------------------------------------------------
(* Types                                                                   *)

\* Numbers of failures stay in their bound.
LEMMA FailuresBounded ==
  ASSUME Types, [Next]_vars
  PROVE  failures' \in 0..MaxFailures
<1>0. failures \in 0..MaxFailures /\ MaxFailures \in Nat
  BY StatementsAssumption DEF Types, DataTypes
<1>1. CASE RestoreSchemas
  <2>1. PICK bad \in SUBSET ToSet(StatementsOf(Predata, {"SCHEMA"})) :
              /\ failures + Cardinality(bad) <= MaxFailures
              /\ failures' = failures + Cardinality(bad)
    BY <1>1 DEF RestoreSchemas
  <2>2. IsFiniteSet(ToSet(Predata))
    BY StatementsAssumption, FiniteImage DEF ToSet
  <2>3. bad \in SUBSET ToSet(Predata)
    BY <2>1, Selections
  <2>4. Cardinality(bad) \in Nat
    BY <2>2, <2>3, FS_Subset, FS_CardinalityType
  <2> QED
    BY <1>0, <2>1, <2>4
<1>2. CASE StartQDData
  <2>1. PICK bad \in SUBSET ToSet(Batch("qd-data")) :
              /\ failures + Cardinality(bad) <= MaxFailures
              /\ failures' = failures + Cardinality(bad)
    BY <1>2 DEF StartQDData
  <2>2. IsFiniteSet(ToSet(Predata))
    BY StatementsAssumption, FiniteImage DEF ToSet
  <2>3. bad \in SUBSET ToSet(Predata)
    BY <2>1, Selections DEF Batch
  <2>4. Cardinality(bad) \in Nat
    BY <2>2, <2>3, FS_Subset, FS_CardinalityType
  <2> QED
    BY <1>0, <2>1, <2>4
<1>3. CASE ~RestoreSchemas /\ ~StartQDData
  <2>1. failures' = failures \/ (failures < MaxFailures /\ failures' = failures + 1)
    <3>1. CASE DoValidation
      BY <3>1 DEF DoValidation, Fatal, At, Alive, poolVars, loadVars, dbVars,
         errVars, outVars, endVars
    <3>2. CASE Connect
      BY <3>2 DEF Connect, Fatal, At, Alive, poolVars, loadVars, dbVars,
         errVars, outVars, endVars
    <3>3. CASE SetUpPlugin
      BY <3>3 DEF SetUpPlugin, Fatal, At, Alive, poolVars, loadVars, dbVars,
         errVars, outVars, endVars
    <3>4. CASE ReadConfig
      BY <3>4 DEF ReadConfig, Fatal, At, Alive, poolVars, loadVars, dbVars,
         errVars, outVars, endVars
    <3>5. CASE CheckBackup
      BY <3>5 DEF CheckBackup, Fatal, At, Alive, poolVars, loadVars, dbVars,
         errVars, outVars, endVars
    <3>6. CASE RestoreGlobals
      BY <3>6 DEF RestoreGlobals, Fatal, LogsError, At, Alive, poolVars,
         loadVars, dbVars, errVars, outVars, endVars
    <3>7. CASE CheckRelations
      BY <3>7 DEF CheckRelations, Fatal, At, Alive, poolVars, loadVars, dbVars,
         errVars, outVars, endVars
    <3>8. CASE SkipSection
      BY <3>8 DEF SkipSection, NextSection, At, Alive, poolVars, loadVars,
         dbVars, errVars, outVars, endVars
    <3>9. CASE VerifyIncrementalState
      BY <3>9 DEF VerifyIncrementalState, Fatal, NextSection, Section, At,
         Alive, poolVars, loadVars, dbVars, errVars, outVars, endVars
    <3>10. CASE VerifyFileCount
      BY <3>10 DEF VerifyFileCount, Fatal, NextSection, Section, At, Alive,
         poolVars, loadVars, dbVars, errVars, outVars, endVars
    <3>11. CASE StartSection
      BY <3>11 DEF StartSection, Enters, Section, StartPool, NextSection, At,
         Alive, poolVars, loadVars, dbVars, errVars, outVars, endVars
    <3>12. CASE FinishStatements
      BY <3>12 DEF FinishStatements, Fatal, ReportErrors, LogsError, AllDone,
         NextSection, At, Alive, poolVars, loadVars, dbVars, errVars, outVars,
         endVars
    <3>13. CASE StartData
      BY <3>13 DEF StartData, Enters, Section, At, Alive, poolVars, loadVars,
         dbVars, errVars, outVars, endVars
    <3>14. ASSUME NEW b \in ToSet(Backups), StartBackup(b)
          PROVE  failures' = failures
                 \/ (failures < MaxFailures /\ failures' = failures + 1)
      BY <3>14 DEF StartBackup, Fatal, At, Alive, poolVars, loadVars, dbVars,
         errVars, outVars, endVars
    <3>15. CASE DataDone
      BY <3>15 DEF DataDone, NextSection, At, Alive, poolVars, loadVars,
         dbVars, errVars, outVars, endVars
    <3>16. CASE FinishBackup
      BY <3>16 DEF FinishBackup, Fatal, AllDone, At, Alive, poolVars, loadVars,
         dbVars, errVars, outVars, endVars
    <3>17. CASE ReturnFromRestore
      BY <3>17 DEF ReturnFromRestore, At, Alive, poolVars, loadVars, dbVars,
         errVars, outVars, endVars
    <3>18. CASE Recover
      BY <3>18 DEF Recover, At, Alive, poolVars, loadVars, dbVars, errVars,
         outVars, endVars
    <3>19. CASE LookForSignal
      BY <3>19 DEF LookForSignal, At, Alive, poolVars, loadVars, dbVars,
         errVars, outVars, endVars
    <3>20. CASE WriteReport
      BY <3>20 DEF WriteReport, At, Alive, poolVars, loadVars, dbVars, errVars,
         outVars, endVars
    <3>21. CASE CleanUpPlugin
      BY <3>21 DEF CleanUpPlugin, At, Alive, poolVars, loadVars, dbVars,
         errVars, outVars, endVars
    <3>22. CASE WriteErrorTables
      BY <3>22 DEF WriteErrorTables, At, Alive, poolVars, loadVars, dbVars,
         errVars, outVars, endVars
    <3>23. CASE EndTeardown
      BY <3>23 DEF EndTeardown, At, Alive, poolVars, loadVars, dbVars, errVars,
         outVars, endVars
    <3>24. CASE MainCleansUp
      BY <3>24 DEF MainCleansUp, CleanUp, HelpersToStop, Done, LogsError,
         PlannedBackups, At, Alive, poolVars, loadVars, dbVars, errVars, outVars,
         endVars
    <3>25. CASE Exit
      BY <3>25 DEF Exit, At, Alive, poolVars, loadVars, dbVars, errVars,
         outVars, endVars
    <3>26. CASE Signal
      BY <3>26 DEF Signal, At, Alive, poolVars, loadVars, dbVars, errVars,
         outVars, endVars
    <3>27. CASE HandlerCleansUp
      BY <3>27 DEF HandlerCleansUp, CleanUp, HelpersToStop, Done, LogsError,
         PlannedBackups, At, Alive, poolVars, loadVars, dbVars, errVars, outVars,
         endVars
    <3>28. CASE HandlerExits
      BY <3>28 DEF HandlerExits, At, Alive, poolVars, loadVars, dbVars,
         errVars, outVars, endVars
    <3>29. CASE Stopped
      BY <3>29 DEF Stopped, vars, At, Alive, poolVars, loadVars, dbVars,
         errVars, outVars, endVars
    <3>30. ASSUME NEW c \in Conns, TakeStatement(c)
          PROVE  failures' = failures
                 \/ (failures < MaxFailures /\ failures' = failures + 1)
      BY <3>30 DEF TakeStatement, At, Alive, poolVars, loadVars, dbVars,
         errVars, outVars, endVars
    <3>31. ASSUME NEW c \in Conns, WorkerEnds(c)
          PROVE  failures' = failures
                 \/ (failures < MaxFailures /\ failures' = failures + 1)
      BY <3>31 DEF WorkerEnds, At, Alive, poolVars, loadVars, dbVars, errVars,
         outVars, endVars
    <3>32. ASSUME NEW c \in Conns, StatementSucceeds(c)
          PROVE  failures' = failures
                 \/ (failures < MaxFailures /\ failures' = failures + 1)
      BY <3>32 DEF StatementSucceeds, PoolOpen, At, Alive, poolVars, loadVars,
         dbVars, errVars, outVars, endVars
    <3>33. ASSUME NEW c \in Conns, StatementFails(c)
          PROVE  failures' = failures
                 \/ (failures < MaxFailures /\ failures' = failures + 1)
      BY <3>33 DEF StatementFails, PoolOpen, WithErrorTable, At, Alive,
         poolVars, loadVars, dbVars, errVars, outVars, endVars
    <3>34. ASSUME NEW c \in Conns, ConnectionGone(c)
          PROVE  failures' = failures
                 \/ (failures < MaxFailures /\ failures' = failures + 1)
      BY <3>34 DEF ConnectionGone, PoolOpen, At, Alive, poolVars, loadVars,
         dbVars, errVars, outVars, endVars
    <3>35. ASSUME NEW c \in Conns, SetGUCs(c)
          PROVE  failures' = failures
                 \/ (failures < MaxFailures /\ failures' = failures + 1)
      BY <3>35 DEF SetGUCs, LogsError, PoolOpen, At, Alive, poolVars, loadVars,
         dbVars, errVars, outVars, endVars
    <3>36. ASSUME NEW c \in Conns, LoaderEnds(c)
          PROVE  failures' = failures
                 \/ (failures < MaxFailures /\ failures' = failures + 1)
      BY <3>36 DEF LoaderEnds, At, Alive, poolVars, loadVars, dbVars, errVars,
         outVars, endVars
    <3>37. ASSUME NEW c \in Conns, TakeTable(c)
          PROVE  failures' = failures
                 \/ (failures < MaxFailures /\ failures' = failures + 1)
      BY <3>37 DEF TakeTable, LogsError, PoolOpen, At, Alive, poolVars,
         loadVars, dbVars, errVars, outVars, endVars
    <3>38. ASSUME NEW c \in Conns, TableLoaded(c)
          PROVE  failures' = failures
                 \/ (failures < MaxFailures /\ failures' = failures + 1)
      BY <3>38 DEF TableLoaded, PoolOpen, At, Alive, poolVars, loadVars,
         dbVars, errVars, outVars, endVars
    <3>39. ASSUME NEW c \in Conns, NEW agent \in BOOLEAN, TableFails(c, agent)
          PROVE  failures' = failures
                 \/ (failures < MaxFailures /\ failures' = failures + 1)
      BY <3>39 DEF TableFails, LogsError, At, Alive, poolVars, loadVars,
         dbVars, errVars, outVars, endVars
    <3>40. ASSUME NEW c \in Conns, LoaderPanics(c)
          PROVE  failures' = failures
                 \/ (failures < MaxFailures /\ failures' = failures + 1)
      BY <3>40 DEF LoaderPanics, PoolOpen, At, Alive, poolVars, loadVars,
         dbVars, errVars, outVars, endVars
    <3>41. CASE UNCHANGED vars
      BY <3>41 DEF vars, dbVars
    <3> QED
      BY <1>3, <3>1, <3>2, <3>3, <3>4, <3>5, <3>6, <3>7, <3>8, <3>9, <3>10,
         <3>11, <3>12, <3>13, <3>14, <3>15, <3>16, <3>17, <3>18, <3>19, <3>20,
         <3>21, <3>22, <3>23, <3>24, <3>25, <3>26, <3>27, <3>28, <3>29, <3>30,
         <3>31, <3>32, <3>33, <3>34, <3>35, <3>36, <3>37, <3>38, <3>39, <3>40,
         <3>41 DEF Next, Main, Worker, Handler
  <2> QED
    BY <1>0, <2>1
<1> QED
  BY <1>1, <1>2, <1>3

\* The place of the main goroutine.
LEMMA MainTypesStep ==
  ASSUME Types, Places, [Next]_vars
  PROVE  MainTypes'
<1>1. CASE Outside
  <2>1. cmd' = cmd /\ section' = section
    BY <1>1 DEF Outside
  <2>2. pc' = pc \/ pc' \in Early \cup Leaving \cup {"restore", "recover"}
    BY <1>1, Zenon DEF Outside
  <2>3. pc \in PCs /\ pc' \in PCs
    BY <2>2 DEF Types, MainTypes, PCs
  <2> QED
    BY <2>1, <2>3 DEF Types, MainTypes
<1>2. CASE Passed
  BY SectionNames, <1>2 DEF Passed, Leaving, Early, MainTypes, Types, Places,
     PCs
<1>3. CASE RestoreSchemas
  BY SectionNames, <1>3 DEF RestoreSchemas, Fatal, LogsError, NextSection,
     Enters, Section, Leaving, Early, MainTypes, Types, Places, PCs, At, Alive,
     poolVars, loadVars, dbVars, errVars, outVars, endVars
<1>4. CASE StartSection
  BY SectionNames, <1>4 DEF StartSection, Enters, Section, StartPool,
     NextSection, MainTypes, Types, Places, PCs, At, Alive, poolVars, loadVars,
     dbVars, errVars, outVars, endVars
<1>5. CASE StartQDData
  BY SectionNames, <1>5 DEF StartQDData, Fatal, LogsError, Enters, Section,
     StartPool, NextSection, MainTypes, Types, Places, PCs, At, Alive,
     poolVars, loadVars, dbVars, errVars, outVars, endVars
<1>6. CASE FinishStatements
  BY SectionNames, <1>6 DEF FinishStatements, Fatal, ReportErrors, LogsError,
     AllDone, NextSection, MainTypes, Types, Places, PCs, At, Alive, poolVars,
     loadVars, dbVars, errVars, outVars, endVars
<1>7. CASE StartData
  BY SectionNames, <1>7 DEF StartData, Enters, Section, MainTypes, Types,
     Places, PCs, At, Alive, poolVars, loadVars, dbVars, errVars, outVars,
     endVars
<1>8. ASSUME NEW b \in ToSet(Backups), StartBackup(b)
      PROVE  MainTypes'
  BY SectionNames, <1>8 DEF StartBackup, Fatal, MainTypes, Types, Places, PCs,
     At, Alive, poolVars, loadVars, dbVars, errVars, outVars, endVars
<1>9. CASE DataDone
  BY SectionNames, <1>9 DEF DataDone, NextSection, MainTypes, Types, Places,
     PCs, At, Alive, poolVars, loadVars, dbVars, errVars, outVars, endVars
<1>10. CASE FinishBackup
  BY SectionNames, <1>10 DEF FinishBackup, Fatal, AllDone, MainTypes, Types,
     Places, PCs, At, Alive, poolVars, loadVars, dbVars, errVars, outVars,
     endVars
<1>11. ASSUME NEW c \in Conns, TakeStatement(c)
      PROVE  MainTypes'
  BY SectionNames, <1>11 DEF TakeStatement, MainTypes, Types, Places, PCs, At,
     Alive, poolVars, loadVars, dbVars, errVars, outVars, endVars
<1>12. ASSUME NEW c \in Conns, WorkerEnds(c)
      PROVE  MainTypes'
  BY SectionNames, <1>12 DEF WorkerEnds, MainTypes, Types, Places, PCs, At,
     Alive, poolVars, loadVars, dbVars, errVars, outVars, endVars
<1>13. ASSUME NEW c \in Conns, StatementSucceeds(c)
      PROVE  MainTypes'
  BY SectionNames, <1>13 DEF StatementSucceeds, PoolOpen, MainTypes, Types,
     Places, PCs, At, Alive, poolVars, loadVars, dbVars, errVars, outVars,
     endVars
<1>14. ASSUME NEW c \in Conns, StatementFails(c)
      PROVE  MainTypes'
  BY SectionNames, <1>14 DEF StatementFails, PoolOpen, WithErrorTable,
     MainTypes, Types, Places, PCs, At, Alive, poolVars, loadVars, dbVars,
     errVars, outVars, endVars
<1>15. ASSUME NEW c \in Conns, ConnectionGone(c)
      PROVE  MainTypes'
  BY SectionNames, <1>15 DEF ConnectionGone, PoolOpen, MainTypes, Types,
     Places, PCs, At, Alive, poolVars, loadVars, dbVars, errVars, outVars,
     endVars
<1>16. ASSUME NEW c \in Conns, SetGUCs(c)
      PROVE  MainTypes'
  BY SectionNames, <1>16 DEF SetGUCs, LogsError, PoolOpen, MainTypes, Types,
     Places, PCs, At, Alive, poolVars, loadVars, dbVars, errVars, outVars,
     endVars
<1>17. ASSUME NEW c \in Conns, LoaderEnds(c)
      PROVE  MainTypes'
  BY SectionNames, <1>17 DEF LoaderEnds, MainTypes, Types, Places, PCs, At,
     Alive, poolVars, loadVars, dbVars, errVars, outVars, endVars
<1>18. ASSUME NEW c \in Conns, TakeTable(c)
      PROVE  MainTypes'
  BY SectionNames, <1>18 DEF TakeTable, LogsError, PoolOpen, MainTypes, Types,
     Places, PCs, At, Alive, poolVars, loadVars, dbVars, errVars, outVars,
     endVars
<1>19. ASSUME NEW c \in Conns, TableLoaded(c)
      PROVE  MainTypes'
  BY SectionNames, <1>19 DEF TableLoaded, PoolOpen, MainTypes, Types, Places,
     PCs, At, Alive, poolVars, loadVars, dbVars, errVars, outVars, endVars
<1>20. ASSUME NEW c \in Conns, NEW agent \in BOOLEAN, TableFails(c, agent)
      PROVE  MainTypes'
  BY SectionNames, <1>20 DEF TableFails, LogsError, MainTypes, Types, Places,
     PCs, At, Alive, poolVars, loadVars, dbVars, errVars, outVars, endVars
<1>21. ASSUME NEW c \in Conns, LoaderPanics(c)
      PROVE  MainTypes'
  BY SectionNames, <1>21 DEF LoaderPanics, PoolOpen, MainTypes, Types, Places,
     PCs, At, Alive, poolVars, loadVars, dbVars, errVars, outVars, endVars
<1> QED
  BY StepKinds, <1>1, <1>2, <1>3, <1>4, <1>5, <1>6, <1>7, <1>8, <1>9, <1>10,
     <1>11, <1>12, <1>13, <1>14, <1>15, <1>16, <1>17, <1>18, <1>19, <1>20,
     <1>21

\* The workers and their results.
LEMMA PoolTypesStep ==
  ASSUME Types, [Next]_vars
  PROVE  PoolTypes'
<1>1. CASE Outside
  BY <1>1 DEF Outside, PoolTypes, Types
<1>2. CASE Passed
  BY <1>2 DEF Passed, PoolTypes, Types
<1>3. CASE RestoreSchemas
  BY <1>3 DEF RestoreSchemas, Fatal, LogsError, NextSection, Enters, Section,
     PoolTypes, Types, At, Alive, poolVars, loadVars, dbVars, errVars, outVars,
     endVars
<1>4. CASE StartSection
  BY <1>4 DEF StartSection, Enters, Section, StartPool, NextSection, PoolTypes,
     Types, At, Alive, poolVars, loadVars, dbVars, errVars, outVars, endVars
<1>5. CASE StartQDData
  <2>1. parallel' = parallel \/ parallel' = (NumConns > 1)
    BY <1>5 DEF StartQDData, Fatal, LogsError, Enters, Section, StartPool,
       NextSection, At, Alive, poolVars, loadVars, dbVars, errVars, outVars,
       endVars
  <2>2. (NumConns > 1) \in BOOLEAN
    OBVIOUS
  <2>3. parallel' \in BOOLEAN
    BY <2>1, <2>2, Zenon DEF PoolTypes, Types
  <2>4. fatalBy' = fatalBy /\ numErrors' = numErrors /\ running' = running
    BY <1>5 DEF StartQDData, Fatal, LogsError, Enters, Section, StartPool,
       NextSection, At, Alive, poolVars, loadVars, dbVars, errVars, outVars,
       endVars
  <2>5. worker' \in [Conns -> {"idle", "busy", "done", "gucs"}]
    BY <1>5 DEF StartQDData, Fatal, LogsError, Enters, Section, StartPool,
       NextSection, PoolTypes, Types, At, Alive, poolVars, loadVars, dbVars,
       errVars, outVars, endVars
  <2>6. errorTables' = [metadata |-> errorTables'.metadata, data |-> errorTables'.data]
    BY <1>5 DEF StartQDData, Fatal, LogsError, Enters, Section, StartPool,
       NextSection, PoolTypes, Types, At, Alive, poolVars, loadVars, dbVars,
       errVars, outVars, endVars
  <2> QED
    BY <2>1, <2>2, <2>3, <2>4, <2>5, <2>6 DEF PoolTypes, Types
<1>6. CASE FinishStatements
  BY <1>6 DEF FinishStatements, Fatal, ReportErrors, LogsError, AllDone,
     NextSection, PoolTypes, Types, At, Alive, poolVars, loadVars, dbVars,
     errVars, outVars, endVars
<1>7. CASE StartData
  BY <1>7 DEF StartData, Enters, Section, PoolTypes, Types, At, Alive,
     poolVars, loadVars, dbVars, errVars, outVars, endVars
<1>8. ASSUME NEW b \in ToSet(Backups), StartBackup(b)
      PROVE  PoolTypes'
  BY <1>8 DEF StartBackup, Fatal, PoolTypes, Types, At, Alive, poolVars,
     loadVars, dbVars, errVars, outVars, endVars
<1>9. CASE DataDone
  BY <1>9 DEF DataDone, NextSection, PoolTypes, Types, At, Alive, poolVars,
     loadVars, dbVars, errVars, outVars, endVars
<1>10. CASE FinishBackup
  BY <1>10 DEF FinishBackup, Fatal, AllDone, PoolTypes, Types, At, Alive,
     poolVars, loadVars, dbVars, errVars, outVars, endVars
<1>11. ASSUME NEW c \in Conns, TakeStatement(c)
      PROVE  PoolTypes'
  BY <1>11 DEF TakeStatement, PoolTypes, Types, At, Alive, poolVars, loadVars,
     dbVars, errVars, outVars, endVars
<1>12. ASSUME NEW c \in Conns, WorkerEnds(c)
      PROVE  PoolTypes'
  BY <1>12 DEF WorkerEnds, PoolTypes, Types, At, Alive, poolVars, loadVars,
     dbVars, errVars, outVars, endVars
<1>13. ASSUME NEW c \in Conns, StatementSucceeds(c)
      PROVE  PoolTypes'
  BY <1>13 DEF StatementSucceeds, PoolOpen, PoolTypes, Types, At, Alive,
     poolVars, loadVars, dbVars, errVars, outVars, endVars
<1>14. ASSUME NEW c \in Conns, StatementFails(c)
      PROVE  PoolTypes'
  BY <1>14 DEF StatementFails, PoolOpen, WithErrorTable, WithErrorTable,
     PoolTypes, Types, At, Alive, poolVars, loadVars, dbVars, errVars, outVars,
     endVars
<1>15. ASSUME NEW c \in Conns, ConnectionGone(c)
      PROVE  PoolTypes'
  BY <1>15 DEF ConnectionGone, PoolOpen, PoolTypes, Types, At, Alive, poolVars,
     loadVars, dbVars, errVars, outVars, endVars
<1>16. ASSUME NEW c \in Conns, SetGUCs(c)
      PROVE  PoolTypes'
  BY <1>16 DEF SetGUCs, LogsError, PoolOpen, PoolTypes, Types, At, Alive,
     poolVars, loadVars, dbVars, errVars, outVars, endVars
<1>17. ASSUME NEW c \in Conns, LoaderEnds(c)
      PROVE  PoolTypes'
  BY <1>17 DEF LoaderEnds, PoolTypes, Types, At, Alive, poolVars, loadVars,
     dbVars, errVars, outVars, endVars
<1>18. ASSUME NEW c \in Conns, TakeTable(c)
      PROVE  PoolTypes'
  BY <1>18 DEF TakeTable, LogsError, PoolOpen, PoolTypes, Types, At, Alive,
     poolVars, loadVars, dbVars, errVars, outVars, endVars
<1>19. ASSUME NEW c \in Conns, TableLoaded(c)
      PROVE  PoolTypes'
  BY <1>19 DEF TableLoaded, PoolOpen, PoolTypes, Types, At, Alive, poolVars,
     loadVars, dbVars, errVars, outVars, endVars
<1>20. ASSUME NEW c \in Conns, NEW agent \in BOOLEAN, TableFails(c, agent)
      PROVE  PoolTypes'
  BY <1>20 DEF TableFails, LogsError, PoolTypes, Types, At, Alive, poolVars,
     loadVars, dbVars, errVars, outVars, endVars
<1>21. ASSUME NEW c \in Conns, LoaderPanics(c)
      PROVE  PoolTypes'
  BY <1>21 DEF LoaderPanics, PoolOpen, PoolTypes, Types, At, Alive, poolVars,
     loadVars, dbVars, errVars, outVars, endVars
<1> QED
  BY StepKinds, <1>1, <1>2, <1>3, <1>4, <1>5, <1>6, <1>7, <1>8, <1>9, <1>10,
     <1>11, <1>12, <1>13, <1>14, <1>15, <1>16, <1>17, <1>18, <1>19, <1>20,
     <1>21

\* What is set up and how the restore ends.
LEMMA EndTypesStep ==
  ASSUME Types, [Next]_vars
  PROVE  EndTypes'
<1>1. CASE DoValidation
  BY <1>1 DEF DoValidation, Fatal, EndTypes, Types, At, Alive, poolVars,
     loadVars, dbVars, errVars, outVars, endVars
<1>2. CASE Connect
  <2>1. setUp' \subseteq {"pool", "fpInfo", "plugin", "config"}
    BY <1>2 DEF Connect, Fatal, EndTypes, Types, At, Alive, poolVars, loadVars,
       dbVars, errVars, outVars, endVars
  <2>2. errorCode' \in 0..2
    BY <1>2 DEF Connect, Fatal, EndTypes, Types, At, Alive, poolVars, loadVars,
       dbVars, errVars, outVars, endVars
  <2>3. exitCode' \in -1..2
    BY <1>2 DEF Connect, Fatal, EndTypes, Types, At, Alive, poolVars, loadVars,
       dbVars, errVars, outVars, endVars
  <2>4. /\ group' \in {0, 1} /\ cleanupFailed' \in BOOLEAN
       /\ overlooked' \subseteq ToSet(Backups)
    BY <1>2 DEF Connect, Fatal, EndTypes, Types, At, Alive, poolVars, loadVars,
       dbVars, errVars, outVars, endVars
  <2>5. /\ files'.written \in BOOLEAN /\ wasTerminated' \in BOOLEAN
       /\ handler' \in {"waiting", "cleanup", "exit"}
    BY <1>2 DEF Connect, Fatal, EndTypes, Types, At, Alive, poolVars, loadVars,
       dbVars, errVars, outVars, endVars
  <2> QED
    BY <2>1, <2>2, <2>3, <2>4, <2>5 DEF EndTypes
<1>3. CASE SetUpPlugin
  <2>1. setUp' \subseteq {"pool", "fpInfo", "plugin", "config"}
    BY <1>3 DEF SetUpPlugin, Fatal, EndTypes, Types, At, Alive, poolVars,
       loadVars, dbVars, errVars, outVars, endVars
  <2>2. errorCode' \in 0..2
    BY <1>3 DEF SetUpPlugin, Fatal, EndTypes, Types, At, Alive, poolVars,
       loadVars, dbVars, errVars, outVars, endVars
  <2>3. exitCode' \in -1..2
    BY <1>3 DEF SetUpPlugin, Fatal, EndTypes, Types, At, Alive, poolVars,
       loadVars, dbVars, errVars, outVars, endVars
  <2>4. /\ group' \in {0, 1} /\ cleanupFailed' \in BOOLEAN
       /\ overlooked' \subseteq ToSet(Backups)
    BY <1>3 DEF SetUpPlugin, Fatal, EndTypes, Types, At, Alive, poolVars,
       loadVars, dbVars, errVars, outVars, endVars
  <2>5. /\ files'.written \in BOOLEAN /\ wasTerminated' \in BOOLEAN
       /\ handler' \in {"waiting", "cleanup", "exit"}
    BY <1>3 DEF SetUpPlugin, Fatal, EndTypes, Types, At, Alive, poolVars,
       loadVars, dbVars, errVars, outVars, endVars
  <2> QED
    BY <2>1, <2>2, <2>3, <2>4, <2>5 DEF EndTypes
<1>4. CASE ReadConfig
  <2>1. setUp' \subseteq {"pool", "fpInfo", "plugin", "config"}
    BY <1>4 DEF ReadConfig, Fatal, EndTypes, Types, At, Alive, poolVars, loadVars,
       dbVars, errVars, outVars, endVars
  <2>2. errorCode' \in 0..2
    BY <1>4 DEF ReadConfig, Fatal, EndTypes, Types, At, Alive, poolVars, loadVars,
       dbVars, errVars, outVars, endVars
  <2>3. exitCode' \in -1..2
    BY <1>4 DEF ReadConfig, Fatal, EndTypes, Types, At, Alive, poolVars, loadVars,
       dbVars, errVars, outVars, endVars
  <2>4. /\ group' \in {0, 1} /\ cleanupFailed' \in BOOLEAN
       /\ overlooked' \subseteq ToSet(Backups)
    BY <1>4 DEF ReadConfig, Fatal, EndTypes, Types, At, Alive, poolVars, loadVars,
       dbVars, errVars, outVars, endVars
  <2>5. /\ files'.written \in BOOLEAN /\ wasTerminated' \in BOOLEAN
       /\ handler' \in {"waiting", "cleanup", "exit"}
    BY <1>4 DEF ReadConfig, Fatal, EndTypes, Types, At, Alive, poolVars, loadVars,
       dbVars, errVars, outVars, endVars
  <2> QED
    BY <2>1, <2>2, <2>3, <2>4, <2>5 DEF EndTypes
<1>5. CASE CheckBackup
  BY <1>5 DEF CheckBackup, Fatal, EndTypes, Types, At, Alive, poolVars,
     loadVars, dbVars, errVars, outVars, endVars
<1>6. CASE RestoreGlobals
  BY <1>6 DEF RestoreGlobals, Fatal, LogsError, EndTypes, Types, At, Alive,
     poolVars, loadVars, dbVars, errVars, outVars, endVars
<1>7. CASE CheckRelations
  BY <1>7 DEF CheckRelations, Fatal, EndTypes, Types, At, Alive, poolVars,
     loadVars, dbVars, errVars, outVars, endVars
<1>8. CASE SkipSection
  BY <1>8 DEF SkipSection, NextSection, EndTypes, Types, At, Alive, poolVars,
     loadVars, dbVars, errVars, outVars, endVars
<1>9. CASE VerifyIncrementalState
  BY <1>9 DEF VerifyIncrementalState, Fatal, NextSection, Section, EndTypes,
     Types, At, Alive, poolVars, loadVars, dbVars, errVars, outVars, endVars
<1>10. CASE VerifyFileCount
  BY <1>10 DEF VerifyFileCount, Fatal, NextSection, Section, EndTypes, Types,
     At, Alive, poolVars, loadVars, dbVars, errVars, outVars, endVars
<1>11. CASE RestoreSchemas
  BY <1>11 DEF RestoreSchemas, Fatal, LogsError, NextSection, Enters, Section,
     EndTypes, Types, At, Alive, poolVars, loadVars, dbVars, errVars, outVars,
     endVars
<1>12. CASE StartSection
  BY <1>12 DEF StartSection, Enters, Section, StartPool, NextSection, EndTypes,
     Types, At, Alive, poolVars, loadVars, dbVars, errVars, outVars, endVars
<1>13. CASE StartQDData
  BY <1>13 DEF StartQDData, Fatal, LogsError, Enters, Section, StartPool,
     NextSection, EndTypes, Types, At, Alive, poolVars, loadVars, dbVars,
     errVars, outVars, endVars
<1>14. CASE FinishStatements
  BY <1>14 DEF FinishStatements, Fatal, ReportErrors, LogsError, AllDone,
     NextSection, EndTypes, Types, At, Alive, poolVars, loadVars, dbVars,
     errVars, outVars, endVars
<1>15. CASE StartData
  BY <1>15 DEF StartData, Enters, Section, EndTypes, Types, At, Alive,
     poolVars, loadVars, dbVars, errVars, outVars, endVars
<1>16. ASSUME NEW b \in ToSet(Backups), StartBackup(b)
      PROVE  EndTypes'
  BY <1>16 DEF StartBackup, Fatal, EndTypes, Types, At, Alive, poolVars,
     loadVars, dbVars, errVars, outVars, endVars
<1>17. CASE DataDone
  BY <1>17 DEF DataDone, NextSection, EndTypes, Types, At, Alive, poolVars,
     loadVars, dbVars, errVars, outVars, endVars
<1>18. CASE FinishBackup
  BY <1>18 DEF FinishBackup, Fatal, AllDone, EndTypes, Types, At, Alive,
     poolVars, loadVars, dbVars, errVars, outVars, endVars
<1>19. CASE ReturnFromRestore
  BY <1>19 DEF ReturnFromRestore, EndTypes, Types, At, Alive, poolVars,
     loadVars, dbVars, errVars, outVars, endVars
<1>20. CASE Recover
  BY <1>20 DEF Recover, EndTypes, Types, At, Alive, poolVars, loadVars, dbVars,
     errVars, outVars, endVars
<1>21. CASE LookForSignal
  BY <1>21 DEF LookForSignal, EndTypes, Types, At, Alive, poolVars, loadVars,
     dbVars, errVars, outVars, endVars
<1>22. CASE WriteReport
  BY <1>22 DEF WriteReport, EndTypes, Types, At, Alive, poolVars, loadVars,
     dbVars, errVars, outVars, endVars
<1>23. CASE CleanUpPlugin
  BY <1>23 DEF CleanUpPlugin, EndTypes, Types, At, Alive, poolVars, loadVars,
     dbVars, errVars, outVars, endVars
<1>24. CASE WriteErrorTables
  BY <1>24 DEF WriteErrorTables, EndTypes, Types, At, Alive, poolVars,
     loadVars, dbVars, errVars, outVars, endVars
<1>25. CASE EndTeardown
  BY <1>25 DEF EndTeardown, EndTypes, Types, At, Alive, poolVars, loadVars,
     dbVars, errVars, outVars, endVars
<1>26. CASE MainCleansUp
  <2>1. setUp' \subseteq {"pool", "fpInfo", "plugin", "config"}
    BY <1>26 DEF MainCleansUp, CleanUp, HelpersToStop, Done, LogsError,
       PlannedBackups, EndTypes, Types, At, Alive, poolVars, loadVars, dbVars,
       errVars, outVars, endVars
  <2>2. errorCode' \in 0..2
    BY <1>26 DEF MainCleansUp, CleanUp, HelpersToStop, Done, LogsError,
       PlannedBackups, EndTypes, Types, At, Alive, poolVars, loadVars, dbVars,
       errVars, outVars, endVars
  <2>3. exitCode' \in -1..2
    BY <1>26 DEF MainCleansUp, CleanUp, HelpersToStop, Done, LogsError,
       PlannedBackups, EndTypes, Types, At, Alive, poolVars, loadVars, dbVars,
       errVars, outVars, endVars
  <2>4. /\ group' \in {0, 1} /\ cleanupFailed' \in BOOLEAN
       /\ overlooked' \subseteq ToSet(Backups)
    BY <1>26 DEF MainCleansUp, CleanUp, HelpersToStop, Done, LogsError,
       PlannedBackups, EndTypes, Types, At, Alive, poolVars, loadVars, dbVars,
       errVars, outVars, endVars
  <2>5. /\ files'.written \in BOOLEAN /\ wasTerminated' \in BOOLEAN
       /\ handler' \in {"waiting", "cleanup", "exit"}
    BY <1>26 DEF MainCleansUp, CleanUp, HelpersToStop, Done, LogsError,
       PlannedBackups, EndTypes, Types, At, Alive, poolVars, loadVars, dbVars,
       errVars, outVars, endVars
  <2> QED
    BY <2>1, <2>2, <2>3, <2>4, <2>5 DEF EndTypes
<1>27. CASE Exit
  BY <1>27 DEF Exit, EndTypes, Types, At, Alive, poolVars, loadVars, dbVars,
     errVars, outVars, endVars
<1>28. CASE Signal
  BY <1>28 DEF Signal, EndTypes, Types, At, Alive, poolVars, loadVars, dbVars,
     errVars, outVars, endVars
<1>29. CASE HandlerCleansUp
  <2>1. setUp' \subseteq {"pool", "fpInfo", "plugin", "config"}
    BY <1>29 DEF HandlerCleansUp, CleanUp, HelpersToStop, Done, LogsError,
       PlannedBackups, EndTypes, Types, At, Alive, poolVars, loadVars, dbVars,
       errVars, outVars, endVars
  <2>2. errorCode' \in 0..2
    BY <1>29 DEF HandlerCleansUp, CleanUp, HelpersToStop, Done, LogsError,
       PlannedBackups, EndTypes, Types, At, Alive, poolVars, loadVars, dbVars,
       errVars, outVars, endVars
  <2>3. exitCode' \in -1..2
    BY <1>29 DEF HandlerCleansUp, CleanUp, HelpersToStop, Done, LogsError,
       PlannedBackups, EndTypes, Types, At, Alive, poolVars, loadVars, dbVars,
       errVars, outVars, endVars
  <2>4. /\ group' \in {0, 1} /\ cleanupFailed' \in BOOLEAN
       /\ overlooked' \subseteq ToSet(Backups)
    BY <1>29 DEF HandlerCleansUp, CleanUp, HelpersToStop, Done, LogsError,
       PlannedBackups, EndTypes, Types, At, Alive, poolVars, loadVars, dbVars,
       errVars, outVars, endVars
  <2>5. /\ files'.written \in BOOLEAN /\ wasTerminated' \in BOOLEAN
       /\ handler' \in {"waiting", "cleanup", "exit"}
    BY <1>29 DEF HandlerCleansUp, CleanUp, HelpersToStop, Done, LogsError,
       PlannedBackups, EndTypes, Types, At, Alive, poolVars, loadVars, dbVars,
       errVars, outVars, endVars
  <2> QED
    BY <2>1, <2>2, <2>3, <2>4, <2>5 DEF EndTypes
<1>30. CASE HandlerExits
  BY <1>30 DEF HandlerExits, EndTypes, Types, At, Alive, poolVars, loadVars,
     dbVars, errVars, outVars, endVars
<1>31. CASE Stopped
  BY <1>31 DEF Stopped, EndTypes, Types, vars, At, Alive, poolVars, loadVars,
     dbVars, errVars, outVars, endVars
<1>32. ASSUME NEW c \in Conns, TakeStatement(c)
      PROVE  EndTypes'
  BY <1>32 DEF TakeStatement, EndTypes, Types, At, Alive, poolVars, loadVars,
     dbVars, errVars, outVars, endVars
<1>33. ASSUME NEW c \in Conns, WorkerEnds(c)
      PROVE  EndTypes'
  BY <1>33 DEF WorkerEnds, EndTypes, Types, At, Alive, poolVars, loadVars,
     dbVars, errVars, outVars, endVars
<1>34. ASSUME NEW c \in Conns, StatementSucceeds(c)
      PROVE  EndTypes'
  BY <1>34 DEF StatementSucceeds, PoolOpen, EndTypes, Types, At, Alive,
     poolVars, loadVars, dbVars, errVars, outVars, endVars
<1>35. ASSUME NEW c \in Conns, StatementFails(c)
      PROVE  EndTypes'
  BY <1>35 DEF StatementFails, PoolOpen, WithErrorTable, EndTypes, Types, At,
     Alive, poolVars, loadVars, dbVars, errVars, outVars, endVars
<1>36. ASSUME NEW c \in Conns, ConnectionGone(c)
      PROVE  EndTypes'
  BY <1>36 DEF ConnectionGone, PoolOpen, EndTypes, Types, At, Alive, poolVars,
     loadVars, dbVars, errVars, outVars, endVars
<1>37. ASSUME NEW c \in Conns, SetGUCs(c)
      PROVE  EndTypes'
  BY <1>37 DEF SetGUCs, LogsError, PoolOpen, EndTypes, Types, At, Alive,
     poolVars, loadVars, dbVars, errVars, outVars, endVars
<1>38. ASSUME NEW c \in Conns, LoaderEnds(c)
      PROVE  EndTypes'
  BY <1>38 DEF LoaderEnds, EndTypes, Types, At, Alive, poolVars, loadVars,
     dbVars, errVars, outVars, endVars
<1>39. ASSUME NEW c \in Conns, TakeTable(c)
      PROVE  EndTypes'
  BY <1>39 DEF TakeTable, LogsError, PoolOpen, EndTypes, Types, At, Alive,
     poolVars, loadVars, dbVars, errVars, outVars, endVars
<1>40. ASSUME NEW c \in Conns, TableLoaded(c)
      PROVE  EndTypes'
  BY <1>40 DEF TableLoaded, PoolOpen, EndTypes, Types, At, Alive, poolVars,
     loadVars, dbVars, errVars, outVars, endVars
<1>41. ASSUME NEW c \in Conns, NEW agent \in BOOLEAN, TableFails(c, agent)
      PROVE  EndTypes'
  BY <1>41 DEF TableFails, LogsError, EndTypes, Types, At, Alive, poolVars,
     loadVars, dbVars, errVars, outVars, endVars
<1>42. ASSUME NEW c \in Conns, LoaderPanics(c)
      PROVE  EndTypes'
  BY <1>42 DEF LoaderPanics, PoolOpen, EndTypes, Types, At, Alive, poolVars,
     loadVars, dbVars, errVars, outVars, endVars
<1>43. CASE UNCHANGED vars
  BY <1>43 DEF EndTypes, Types, vars, At, Alive, poolVars, loadVars, dbVars,
     errVars, outVars, endVars
<1> QED
  BY <1>1, <1>2, <1>3, <1>4, <1>5, <1>6, <1>7, <1>8, <1>9, <1>10, <1>11, <1>12,
     <1>13, <1>14, <1>15, <1>16, <1>17, <1>18, <1>19, <1>20, <1>21, <1>22,
     <1>23, <1>24, <1>25, <1>26, <1>27, <1>28, <1>29, <1>30, <1>31, <1>32,
     <1>33, <1>34, <1>35, <1>36, <1>37, <1>38, <1>39, <1>40, <1>41, <1>42,
     <1>43 DEF Next, Main, Worker, Handler

-----------------------------------------------------------------------------
(* What steps keep                                                         *)

LEMMA SectionNumbers ==
  /\ DOMAIN Sections = 1..12
  /\ \A n \in 1..12 : /\ Sections[n] = "schemas" <=> n = 2
                      /\ Sections[n] = "qd-data" <=> n = 5
                      /\ Sections[n] = "data" <=> n = 7
BY SectionNames, TheSections

\* What no step takes back.
Kept == /\ cmd' = cmd
        /\ errorCode' = 0 => errorCode = 0
        /\ errorCode = 2 => errorCode' = 2
        /\ ~wasTerminated' => ~wasTerminated
        /\ done \subseteq done' /\ failed \subseteq failed'

\* Errors, signals and results stay.
LEMMA KeptStep ==
  ASSUME Types, [Next]_vars
  PROVE  Kept
<1>1. CASE Outside
  BY <1>1 DEF Outside, Kept, Types, EndTypes
<1>2. CASE Passed
  BY <1>2 DEF Passed, Kept, Types, EndTypes
<1>3. CASE RestoreSchemas
  BY <1>3 DEF RestoreSchemas, Fatal, LogsError, NextSection, Enters, Section,
     Kept, Types, EndTypes, At, Alive, poolVars, loadVars, dbVars, errVars,
     outVars, endVars
<1>4. CASE StartSection
  BY <1>4 DEF StartSection, Enters, Section, StartPool, NextSection, Kept,
     Types, EndTypes, At, Alive, poolVars, loadVars, dbVars, errVars, outVars,
     endVars
<1>5. CASE StartQDData
  BY <1>5 DEF StartQDData, Fatal, LogsError, Enters, Section, StartPool,
     NextSection, Kept, Types, EndTypes, At, Alive, poolVars, loadVars, dbVars,
     errVars, outVars, endVars
<1>6. CASE FinishStatements
  BY <1>6 DEF FinishStatements, Fatal, ReportErrors, LogsError, AllDone,
     NextSection, Kept, Types, EndTypes, At, Alive, poolVars, loadVars, dbVars,
     errVars, outVars, endVars
<1>7. CASE StartData
  BY <1>7 DEF StartData, Enters, Section, Kept, Types, EndTypes, At, Alive,
     poolVars, loadVars, dbVars, errVars, outVars, endVars
<1>8. ASSUME NEW b \in ToSet(Backups), StartBackup(b)
      PROVE  Kept
  BY <1>8 DEF StartBackup, Fatal, Kept, Types, EndTypes, At, Alive, poolVars,
     loadVars, dbVars, errVars, outVars, endVars
<1>9. CASE DataDone
  BY <1>9 DEF DataDone, NextSection, Kept, Types, EndTypes, At, Alive,
     poolVars, loadVars, dbVars, errVars, outVars, endVars
<1>10. CASE FinishBackup
  BY <1>10 DEF FinishBackup, Fatal, AllDone, Kept, Types, EndTypes, At, Alive,
     poolVars, loadVars, dbVars, errVars, outVars, endVars
<1>11. ASSUME NEW c \in Conns, TakeStatement(c)
      PROVE  Kept
  BY <1>11 DEF TakeStatement, Kept, Types, EndTypes, At, Alive, poolVars,
     loadVars, dbVars, errVars, outVars, endVars
<1>12. ASSUME NEW c \in Conns, WorkerEnds(c)
      PROVE  Kept
  BY <1>12 DEF WorkerEnds, Kept, Types, EndTypes, At, Alive, poolVars,
     loadVars, dbVars, errVars, outVars, endVars
<1>13. ASSUME NEW c \in Conns, StatementSucceeds(c)
      PROVE  Kept
  BY <1>13 DEF StatementSucceeds, PoolOpen, Kept, Types, EndTypes, At, Alive,
     poolVars, loadVars, dbVars, errVars, outVars, endVars
<1>14. ASSUME NEW c \in Conns, StatementFails(c)
      PROVE  Kept
  BY <1>14 DEF StatementFails, PoolOpen, WithErrorTable, Kept, Types, EndTypes,
     At, Alive, poolVars, loadVars, dbVars, errVars, outVars, endVars
<1>15. ASSUME NEW c \in Conns, ConnectionGone(c)
      PROVE  Kept
  BY <1>15 DEF ConnectionGone, PoolOpen, Kept, Types, EndTypes, At, Alive,
     poolVars, loadVars, dbVars, errVars, outVars, endVars
<1>16. ASSUME NEW c \in Conns, SetGUCs(c)
      PROVE  Kept
  BY <1>16 DEF SetGUCs, LogsError, PoolOpen, Kept, Types, EndTypes, At, Alive,
     poolVars, loadVars, dbVars, errVars, outVars, endVars
<1>17. ASSUME NEW c \in Conns, LoaderEnds(c)
      PROVE  Kept
  BY <1>17 DEF LoaderEnds, Kept, Types, EndTypes, At, Alive, poolVars,
     loadVars, dbVars, errVars, outVars, endVars
<1>18. ASSUME NEW c \in Conns, TakeTable(c)
      PROVE  Kept
  BY <1>18 DEF TakeTable, LogsError, PoolOpen, Kept, Types, EndTypes, At,
     Alive, poolVars, loadVars, dbVars, errVars, outVars, endVars
<1>19. ASSUME NEW c \in Conns, TableLoaded(c)
      PROVE  Kept
  BY <1>19 DEF TableLoaded, PoolOpen, Kept, Types, EndTypes, At, Alive,
     poolVars, loadVars, dbVars, errVars, outVars, endVars
<1>20. ASSUME NEW c \in Conns, NEW agent \in BOOLEAN, TableFails(c, agent)
      PROVE  Kept
  BY <1>20 DEF TableFails, LogsError, Kept, Types, EndTypes, At, Alive,
     poolVars, loadVars, dbVars, errVars, outVars, endVars
<1>21. ASSUME NEW c \in Conns, LoaderPanics(c)
      PROVE  Kept
  BY <1>21 DEF LoaderPanics, PoolOpen, Kept, Types, EndTypes, At, Alive,
     poolVars, loadVars, dbVars, errVars, outVars, endVars
<1> QED
  BY StepKinds, <1>1, <1>2, <1>3, <1>4, <1>5, <1>6, <1>7, <1>8, <1>9, <1>10,
     <1>11, <1>12, <1>13, <1>14, <1>15, <1>16, <1>17, <1>18, <1>19, <1>20,
     <1>21

LEMMA PlanKept ==
  ASSUME Types, [Next]_vars
  PROVE  DueBackups' = DueBackups /\ UsesHelpers' = UsesHelpers /\ Asked' = Asked
         /\ OnErrorContinue' = OnErrorContinue /\ Truncates' = Truncates
         /\ \A b : EntriesOf(b)' = EntriesOf(b)
<1>1. cmd' = cmd
  BY KeptStep DEF Kept
<1>2. \A b : EntriesOf(b)' = EntriesOf(b)
  BY <1>1 DEF EntriesOf, Selected
<1> QED
  BY <1>1, <1>2, WorksFixed

-----------------------------------------------------------------------------
(* Data, set-up, sections and helpers                                      *)

\* The data of tables and backups.
LEMMA DataTypesStep ==
  ASSUME Types, [Next]_vars
  PROVE  DataTypes'
<1>1. CASE Outside
  BY PlanOfRestore, StatementsAssumption, FailuresBounded, <1>1 DEF Outside,
     DataTypes, Types
<1>2. CASE Passed
  BY PlanOfRestore, StatementsAssumption, FailuresBounded, <1>2 DEF Passed,
     DataTypes, Types
<1>3. CASE RestoreSchemas
  BY PlanOfRestore, StatementsAssumption, FailuresBounded, <1>3 DEF
     RestoreSchemas, Fatal, LogsError, NextSection, Enters, Section, DataTypes,
     Types, At, Alive, poolVars, loadVars, dbVars, errVars, outVars, endVars
<1>4. CASE StartSection
  BY PlanOfRestore, StatementsAssumption, FailuresBounded, <1>4 DEF
     StartSection, Enters, Section, StartPool, NextSection, DataTypes, Types,
     At, Alive, poolVars, loadVars, dbVars, errVars, outVars, endVars
<1>5. CASE StartQDData
  BY PlanOfRestore, StatementsAssumption, FailuresBounded, <1>5 DEF
     StartQDData, Fatal, LogsError, Enters, Section, StartPool, NextSection,
     DataTypes, Types, At, Alive, poolVars, loadVars, dbVars, errVars, outVars,
     endVars
<1>6. CASE FinishStatements
  BY PlanOfRestore, StatementsAssumption, FailuresBounded, <1>6 DEF
     FinishStatements, Fatal, ReportErrors, LogsError, AllDone, NextSection,
     DataTypes, Types, At, Alive, poolVars, loadVars, dbVars, errVars, outVars,
     endVars
<1>7. CASE StartData
  BY PlanOfRestore, StatementsAssumption, FailuresBounded, <1>7 DEF StartData,
     Enters, Section, DataTypes, Types, At, Alive, poolVars, loadVars, dbVars,
     errVars, outVars, endVars
<1>8. ASSUME NEW b \in ToSet(Backups), StartBackup(b)
      PROVE  DataTypes'
  <2>1. backupsLeft' \subseteq ToSet(Backups) /\ helpers' \subseteq ToSet(Backups)
    BY PlanOfRestore, TheConns, StatementsAssumption, <1>8 DEF StartBackup, Fatal,
       DataTypes, Types, At, Alive, poolVars, loadVars, dbVars, errVars,
       outVars, endVars
  <2>2. entry' \in [Conns -> Nat]
    BY PlanOfRestore, TheConns, StatementsAssumption, <1>8 DEF StartBackup, Fatal,
       DataTypes, Types, At, Alive, poolVars, loadVars, dbVars, errVars,
       outVars, endVars
  <2>3. cancelled' \in BOOLEAN /\ panicked' \in BOOLEAN
    BY PlanOfRestore, TheConns, StatementsAssumption, <1>8 DEF StartBackup, Fatal,
       DataTypes, Types, At, Alive, poolVars, loadVars, dbVars, errVars,
       outVars, endVars
  <2>4. rows' \in [Tables -> {"old", "empty", "backup", "added"}]
    BY PlanOfRestore, TheConns, StatementsAssumption, <1>8 DEF StartBackup, Fatal,
       DataTypes, Types, At, Alive, poolVars, loadVars, dbVars, errVars,
       outVars, endVars
  <2>5. failures' \in 0..MaxFailures
    BY FailuresBounded
  <2> QED
    BY <2>1, <2>2, <2>3, <2>4, <2>5 DEF DataTypes
<1>9. CASE DataDone
  BY PlanOfRestore, StatementsAssumption, FailuresBounded, <1>9 DEF DataDone,
     NextSection, DataTypes, Types, At, Alive, poolVars, loadVars, dbVars,
     errVars, outVars, endVars
<1>10. CASE FinishBackup
  BY PlanOfRestore, StatementsAssumption, FailuresBounded, <1>10 DEF
     FinishBackup, Fatal, AllDone, DataTypes, Types, At, Alive, poolVars,
     loadVars, dbVars, errVars, outVars, endVars
<1>11. ASSUME NEW c \in Conns, TakeStatement(c)
      PROVE  DataTypes'
  BY PlanOfRestore, StatementsAssumption, FailuresBounded, <1>11 DEF
     TakeStatement, DataTypes, Types, At, Alive, poolVars, loadVars, dbVars,
     errVars, outVars, endVars
<1>12. ASSUME NEW c \in Conns, WorkerEnds(c)
      PROVE  DataTypes'
  BY PlanOfRestore, StatementsAssumption, FailuresBounded, <1>12 DEF
     WorkerEnds, DataTypes, Types, At, Alive, poolVars, loadVars, dbVars,
     errVars, outVars, endVars
<1>13. ASSUME NEW c \in Conns, StatementSucceeds(c)
      PROVE  DataTypes'
  BY PlanOfRestore, StatementsAssumption, FailuresBounded, <1>13 DEF
     StatementSucceeds, PoolOpen, DataTypes, Types, At, Alive, poolVars,
     loadVars, dbVars, errVars, outVars, endVars
<1>14. ASSUME NEW c \in Conns, StatementFails(c)
      PROVE  DataTypes'
  BY PlanOfRestore, StatementsAssumption, FailuresBounded, <1>14 DEF
     StatementFails, PoolOpen, WithErrorTable, DataTypes, Types, At, Alive,
     poolVars, loadVars, dbVars, errVars, outVars, endVars
<1>15. ASSUME NEW c \in Conns, ConnectionGone(c)
      PROVE  DataTypes'
  BY PlanOfRestore, StatementsAssumption, FailuresBounded, <1>15 DEF
     ConnectionGone, PoolOpen, DataTypes, Types, At, Alive, poolVars, loadVars,
     dbVars, errVars, outVars, endVars
<1>16. ASSUME NEW c \in Conns, SetGUCs(c)
      PROVE  DataTypes'
  BY PlanOfRestore, StatementsAssumption, FailuresBounded, <1>16 DEF SetGUCs,
     LogsError, PoolOpen, DataTypes, Types, At, Alive, poolVars, loadVars,
     dbVars, errVars, outVars, endVars
<1>17. ASSUME NEW c \in Conns, LoaderEnds(c)
      PROVE  DataTypes'
  BY PlanOfRestore, StatementsAssumption, FailuresBounded, <1>17 DEF
     LoaderEnds, DataTypes, Types, At, Alive, poolVars, loadVars, dbVars,
     errVars, outVars, endVars
<1>18. ASSUME NEW c \in Conns, TakeTable(c)
      PROVE  DataTypes'
  BY PlanOfRestore, StatementsAssumption, FailuresBounded, <1>18 DEF TakeTable,
     LogsError, PoolOpen, DataTypes, Types, At, Alive, poolVars, loadVars,
     dbVars, errVars, outVars, endVars
<1>19. ASSUME NEW c \in Conns, TableLoaded(c)
      PROVE  DataTypes'
  <2>1. backupsLeft' \subseteq ToSet(Backups) /\ helpers' \subseteq ToSet(Backups)
    BY PlanOfRestore, TheConns, StatementsAssumption, <1>19 DEF TableLoaded,
       PoolOpen, DataTypes, Types, At, Alive, poolVars, loadVars, dbVars,
       errVars, outVars, endVars
  <2>2. entry' \in [Conns -> Nat]
    BY PlanOfRestore, TheConns, StatementsAssumption, <1>19 DEF TableLoaded,
       PoolOpen, DataTypes, Types, At, Alive, poolVars, loadVars, dbVars,
       errVars, outVars, endVars
  <2>3. cancelled' \in BOOLEAN /\ panicked' \in BOOLEAN
    BY PlanOfRestore, TheConns, StatementsAssumption, <1>19 DEF TableLoaded,
       PoolOpen, DataTypes, Types, At, Alive, poolVars, loadVars, dbVars,
       errVars, outVars, endVars
  <2>4. rows' \in [Tables -> {"old", "empty", "backup", "added"}]
    BY PlanOfRestore, TheConns, StatementsAssumption, <1>19 DEF TableLoaded,
       PoolOpen, DataTypes, Types, At, Alive, poolVars, loadVars, dbVars,
       errVars, outVars, endVars
  <2>5. failures' \in 0..MaxFailures
    BY FailuresBounded
  <2> QED
    BY <2>1, <2>2, <2>3, <2>4, <2>5 DEF DataTypes
<1>20. ASSUME NEW c \in Conns, NEW agent \in BOOLEAN, TableFails(c, agent)
      PROVE  DataTypes'
  <2>1. backupsLeft' \subseteq ToSet(Backups) /\ helpers' \subseteq ToSet(Backups)
    BY PlanOfRestore, TheConns, StatementsAssumption, <1>20 DEF TableFails,
       LogsError, DataTypes, Types, At, Alive, poolVars, loadVars, dbVars,
       errVars, outVars, endVars
  <2>2. entry' \in [Conns -> Nat]
    BY PlanOfRestore, TheConns, StatementsAssumption, <1>20 DEF TableFails,
       LogsError, DataTypes, Types, At, Alive, poolVars, loadVars, dbVars,
       errVars, outVars, endVars
  <2>3. cancelled' \in BOOLEAN /\ panicked' \in BOOLEAN
    BY PlanOfRestore, TheConns, StatementsAssumption, <1>20 DEF TableFails,
       LogsError, DataTypes, Types, At, Alive, poolVars, loadVars, dbVars,
       errVars, outVars, endVars
  <2>4. rows' \in [Tables -> {"old", "empty", "backup", "added"}]
    BY PlanOfRestore, TheConns, StatementsAssumption, <1>20 DEF TableFails,
       LogsError, DataTypes, Types, At, Alive, poolVars, loadVars, dbVars,
       errVars, outVars, endVars
  <2>5. failures' \in 0..MaxFailures
    BY FailuresBounded
  <2> QED
    BY <2>1, <2>2, <2>3, <2>4, <2>5 DEF DataTypes
<1>21. ASSUME NEW c \in Conns, LoaderPanics(c)
      PROVE  DataTypes'
  BY PlanOfRestore, StatementsAssumption, FailuresBounded, <1>21 DEF
     LoaderPanics, PoolOpen, DataTypes, Types, At, Alive, poolVars, loadVars,
     dbVars, errVars, outVars, endVars
<1> QED
  BY StepKinds, <1>1, <1>2, <1>3, <1>4, <1>5, <1>6, <1>7, <1>8, <1>9, <1>10,
     <1>11, <1>12, <1>13, <1>14, <1>15, <1>16, <1>17, <1>18, <1>19, <1>20,
     <1>21

\* What is set up where the main goroutine stands, and what ended it.
LEMMA ReadyStep ==
  ASSUME Types, Ready, [Next]_vars
  PROVE  Ready'
<1>1. CASE DoValidation
  BY <1>1 DEF DoValidation, Fatal, Ready, Leaving, At, Alive, poolVars,
     loadVars, dbVars, errVars, outVars, endVars
<1>2. CASE Connect
  BY <1>2 DEF Connect, Fatal, Ready, Leaving, At, Alive, poolVars, loadVars,
     dbVars, errVars, outVars, endVars
<1>3. CASE SetUpPlugin
  BY <1>3 DEF SetUpPlugin, Fatal, Ready, Leaving, At, Alive, poolVars,
     loadVars, dbVars, errVars, outVars, endVars
<1>4. CASE ReadConfig
  BY <1>4 DEF ReadConfig, Fatal, Ready, Leaving, At, Alive, poolVars, loadVars,
     dbVars, errVars, outVars, endVars
<1>5. CASE CheckBackup
  BY <1>5 DEF CheckBackup, Fatal, Ready, Leaving, At, Alive, poolVars,
     loadVars, dbVars, errVars, outVars, endVars
<1>6. CASE RestoreGlobals
  BY <1>6 DEF RestoreGlobals, Fatal, LogsError, Ready, Leaving, At, Alive,
     poolVars, loadVars, dbVars, errVars, outVars, endVars
<1>7. CASE CheckRelations
  BY <1>7 DEF CheckRelations, Fatal, Ready, Leaving, At, Alive, poolVars,
     loadVars, dbVars, errVars, outVars, endVars
<1>8. CASE SkipSection
  BY <1>8 DEF SkipSection, NextSection, Ready, Leaving, At, Alive, poolVars,
     loadVars, dbVars, errVars, outVars, endVars
<1>9. CASE VerifyIncrementalState
  BY <1>9 DEF VerifyIncrementalState, Fatal, NextSection, Section, Ready,
     Leaving, At, Alive, poolVars, loadVars, dbVars, errVars, outVars, endVars
<1>10. CASE VerifyFileCount
  BY <1>10 DEF VerifyFileCount, Fatal, NextSection, Section, Ready, Leaving,
     At, Alive, poolVars, loadVars, dbVars, errVars, outVars, endVars
<1>11. CASE RestoreSchemas
  BY <1>11 DEF RestoreSchemas, Fatal, LogsError, NextSection, Enters, Section,
     Ready, Leaving, At, Alive, poolVars, loadVars, dbVars, errVars, outVars,
     endVars
<1>12. CASE StartSection
  BY <1>12 DEF StartSection, Enters, Section, StartPool, NextSection, Ready,
     Leaving, At, Alive, poolVars, loadVars, dbVars, errVars, outVars, endVars
<1>13. CASE StartQDData
  BY <1>13 DEF StartQDData, Fatal, LogsError, Enters, Section, StartPool,
     NextSection, Ready, Leaving, At, Alive, poolVars, loadVars, dbVars,
     errVars, outVars, endVars
<1>14. CASE FinishStatements
  BY <1>14 DEF FinishStatements, Fatal, ReportErrors, LogsError, AllDone,
     NextSection, Ready, Leaving, At, Alive, poolVars, loadVars, dbVars,
     errVars, outVars, endVars
<1>15. CASE StartData
  BY <1>15 DEF StartData, Enters, Section, Ready, Leaving, At, Alive, poolVars,
     loadVars, dbVars, errVars, outVars, endVars
<1>16. ASSUME NEW b \in ToSet(Backups), StartBackup(b)
      PROVE  Ready'
  BY <1>16 DEF StartBackup, Fatal, Ready, Leaving, At, Alive, poolVars,
     loadVars, dbVars, errVars, outVars, endVars
<1>17. CASE DataDone
  BY <1>17 DEF DataDone, NextSection, Ready, Leaving, At, Alive, poolVars,
     loadVars, dbVars, errVars, outVars, endVars
<1>18. CASE FinishBackup
  BY <1>18 DEF FinishBackup, Fatal, AllDone, Ready, Leaving, At, Alive,
     poolVars, loadVars, dbVars, errVars, outVars, endVars
<1>19. CASE ReturnFromRestore
  BY <1>19 DEF ReturnFromRestore, Ready, Leaving, At, Alive, poolVars,
     loadVars, dbVars, errVars, outVars, endVars
<1>20. CASE Recover
  BY <1>20 DEF Recover, Ready, Leaving, At, Alive, poolVars, loadVars, dbVars,
     errVars, outVars, endVars
<1>21. CASE LookForSignal
  BY <1>21 DEF LookForSignal, Ready, Leaving, At, Alive, poolVars, loadVars,
     dbVars, errVars, outVars, endVars
<1>22. CASE WriteReport
  BY <1>22 DEF WriteReport, Ready, Leaving, At, Alive, poolVars, loadVars,
     dbVars, errVars, outVars, endVars
<1>23. CASE CleanUpPlugin
  BY <1>23 DEF CleanUpPlugin, Ready, Leaving, At, Alive, poolVars, loadVars,
     dbVars, errVars, outVars, endVars
<1>24. CASE WriteErrorTables
  BY <1>24 DEF WriteErrorTables, Ready, Leaving, At, Alive, poolVars, loadVars,
     dbVars, errVars, outVars, endVars
<1>25. CASE EndTeardown
  BY <1>25 DEF EndTeardown, Ready, Leaving, At, Alive, poolVars, loadVars,
     dbVars, errVars, outVars, endVars
<1>26. CASE MainCleansUp
  BY <1>26 DEF MainCleansUp, CleanUp, HelpersToStop, Done, LogsError,
     PlannedBackups, Ready, Leaving, At, Alive, poolVars, loadVars, dbVars,
     errVars, outVars, endVars
<1>27. CASE Exit
  BY <1>27 DEF Exit, Ready, Leaving, At, Alive, poolVars, loadVars, dbVars,
     errVars, outVars, endVars
<1>28. CASE Signal
  BY <1>28 DEF Signal, Ready, Leaving, At, Alive, poolVars, loadVars, dbVars,
     errVars, outVars, endVars
<1>29. CASE HandlerCleansUp
  BY <1>29 DEF HandlerCleansUp, CleanUp, HelpersToStop, Done, LogsError,
     PlannedBackups, Ready, Leaving, At, Alive, poolVars, loadVars, dbVars,
     errVars, outVars, endVars
<1>30. CASE HandlerExits
  BY <1>30 DEF HandlerExits, Ready, Leaving, At, Alive, poolVars, loadVars,
     dbVars, errVars, outVars, endVars
<1>31. CASE Stopped
  BY <1>31 DEF Stopped, Ready, Leaving, vars, At, Alive, poolVars, loadVars,
     dbVars, errVars, outVars, endVars
<1>32. ASSUME NEW c \in Conns, TakeStatement(c)
      PROVE  Ready'
  BY <1>32 DEF TakeStatement, Ready, Leaving, At, Alive, poolVars, loadVars,
     dbVars, errVars, outVars, endVars
<1>33. ASSUME NEW c \in Conns, WorkerEnds(c)
      PROVE  Ready'
  BY <1>33 DEF WorkerEnds, Ready, Leaving, At, Alive, poolVars, loadVars,
     dbVars, errVars, outVars, endVars
<1>34. ASSUME NEW c \in Conns, StatementSucceeds(c)
      PROVE  Ready'
  BY <1>34 DEF StatementSucceeds, PoolOpen, Ready, Leaving, At, Alive,
     poolVars, loadVars, dbVars, errVars, outVars, endVars
<1>35. ASSUME NEW c \in Conns, StatementFails(c)
      PROVE  Ready'
  BY <1>35 DEF StatementFails, PoolOpen, WithErrorTable, Ready, Leaving, At,
     Alive, poolVars, loadVars, dbVars, errVars, outVars, endVars
<1>36. ASSUME NEW c \in Conns, ConnectionGone(c)
      PROVE  Ready'
  BY <1>36 DEF ConnectionGone, PoolOpen, Ready, Leaving, At, Alive, poolVars,
     loadVars, dbVars, errVars, outVars, endVars
<1>37. ASSUME NEW c \in Conns, SetGUCs(c)
      PROVE  Ready'
  BY <1>37 DEF SetGUCs, LogsError, PoolOpen, Ready, Leaving, At, Alive,
     poolVars, loadVars, dbVars, errVars, outVars, endVars
<1>38. ASSUME NEW c \in Conns, LoaderEnds(c)
      PROVE  Ready'
  BY <1>38 DEF LoaderEnds, Ready, Leaving, At, Alive, poolVars, loadVars,
     dbVars, errVars, outVars, endVars
<1>39. ASSUME NEW c \in Conns, TakeTable(c)
      PROVE  Ready'
  BY <1>39 DEF TakeTable, LogsError, PoolOpen, Ready, Leaving, At, Alive,
     poolVars, loadVars, dbVars, errVars, outVars, endVars
<1>40. ASSUME NEW c \in Conns, TableLoaded(c)
      PROVE  Ready'
  BY <1>40 DEF TableLoaded, PoolOpen, Ready, Leaving, At, Alive, poolVars,
     loadVars, dbVars, errVars, outVars, endVars
<1>41. ASSUME NEW c \in Conns, NEW agent \in BOOLEAN, TableFails(c, agent)
      PROVE  Ready'
  BY <1>41 DEF TableFails, LogsError, Ready, Leaving, At, Alive, poolVars,
     loadVars, dbVars, errVars, outVars, endVars
<1>42. ASSUME NEW c \in Conns, LoaderPanics(c)
      PROVE  Ready'
  BY <1>42 DEF LoaderPanics, PoolOpen, Ready, Leaving, At, Alive, poolVars,
     loadVars, dbVars, errVars, outVars, endVars
<1>43. CASE UNCHANGED vars
  BY <1>43 DEF Ready, Leaving, vars, At, Alive, poolVars, loadVars, dbVars,
     errVars, outVars, endVars
<1> QED
  BY <1>1, <1>2, <1>3, <1>4, <1>5, <1>6, <1>7, <1>8, <1>9, <1>10, <1>11, <1>12,
     <1>13, <1>14, <1>15, <1>16, <1>17, <1>18, <1>19, <1>20, <1>21, <1>22,
     <1>23, <1>24, <1>25, <1>26, <1>27, <1>28, <1>29, <1>30, <1>31, <1>32,
     <1>33, <1>34, <1>35, <1>36, <1>37, <1>38, <1>39, <1>40, <1>41, <1>42,
     <1>43 DEF Next, Main, Worker, Handler

\* The section the main goroutine has come to.
LEMMA PlacesStep ==
  ASSUME Types, Ready, Places, [Next]_vars
  PROVE  Places'
<1>0. DueBackups' = DueBackups /\ Asked' = Asked /\ Asked \subseteq 1..12
  BY PlanKept, SectionNumbers DEF Asked
<1>1. CASE Outside
  BY <1>0, SectionNumbers, <1>1 DEF Outside, Early, Leaving, Places, Types,
     MainTypes
<1>2. CASE Passed
  BY <1>0, SectionNumbers, <1>2 DEF Passed, Early, Leaving, Places, Types,
     MainTypes
<1>3. CASE RestoreSchemas
  BY <1>0, SectionNumbers, <1>3 DEF RestoreSchemas, Fatal, LogsError,
     NextSection, Enters, Section, Early, Leaving, Places, Types, MainTypes,
     At, Alive, poolVars, loadVars, dbVars, errVars, outVars, endVars
<1>4. CASE StartSection
  BY <1>0, SectionNumbers, <1>4 DEF StartSection, Enters, Section, StartPool,
     NextSection, Pooled, Early, Leaving, Asked, Places, Types, MainTypes, At,
     Alive, poolVars, loadVars, dbVars, errVars, outVars, endVars
<1>5. CASE StartQDData
  BY <1>0, SectionNumbers, <1>5 DEF StartQDData, Fatal, LogsError, Enters,
     Section, StartPool, NextSection, Pooled, Early, Leaving, Asked, Places,
     Types, MainTypes, At, Alive, poolVars, loadVars, dbVars, errVars, outVars,
     endVars
<1>6. CASE FinishStatements
  BY <1>0, SectionNumbers, <1>6 DEF FinishStatements, Fatal, ReportErrors,
     LogsError, AllDone, NextSection, Early, Leaving, Places, Types, MainTypes,
     At, Alive, poolVars, loadVars, dbVars, errVars, outVars, endVars
<1>7. CASE StartData
  BY <1>0, SectionNumbers, <1>7 DEF StartData, Enters, Section, Early, Leaving,
     Places, Types, MainTypes, At, Alive, poolVars, loadVars, dbVars, errVars,
     outVars, endVars
<1>8. ASSUME NEW b \in ToSet(Backups), StartBackup(b)
      PROVE  Places'
  BY <1>0, SectionNumbers, <1>8 DEF StartBackup, Fatal, Early, Leaving, Places,
     Types, MainTypes, At, Alive, poolVars, loadVars, dbVars, errVars, outVars,
     endVars
<1>9. CASE DataDone
  BY <1>0, SectionNumbers, <1>9 DEF DataDone, NextSection, Early, Leaving,
     Places, Types, MainTypes, At, Alive, poolVars, loadVars, dbVars, errVars,
     outVars, endVars
<1>10. CASE FinishBackup
  BY <1>0, SectionNumbers, <1>10 DEF FinishBackup, Fatal, AllDone, Early,
     Leaving, Places, Types, MainTypes, At, Alive, poolVars, loadVars, dbVars,
     errVars, outVars, endVars
<1>11. ASSUME NEW c \in Conns, TakeStatement(c)
      PROVE  Places'
  BY <1>0, SectionNumbers, <1>11 DEF TakeStatement, Places, Types, MainTypes,
     At, Alive, poolVars, loadVars, dbVars, errVars, outVars, endVars
<1>12. ASSUME NEW c \in Conns, WorkerEnds(c)
      PROVE  Places'
  BY <1>0, SectionNumbers, <1>12 DEF WorkerEnds, Places, Types, MainTypes, At,
     Alive, poolVars, loadVars, dbVars, errVars, outVars, endVars
<1>13. ASSUME NEW c \in Conns, StatementSucceeds(c)
      PROVE  Places'
  BY <1>0, SectionNumbers, <1>13 DEF StatementSucceeds, PoolOpen, Places,
     Types, MainTypes, At, Alive, poolVars, loadVars, dbVars, errVars, outVars,
     endVars
<1>14. ASSUME NEW c \in Conns, StatementFails(c)
      PROVE  Places'
  BY <1>0, SectionNumbers, <1>14 DEF StatementFails, PoolOpen, WithErrorTable,
     Places, Types, MainTypes, At, Alive, poolVars, loadVars, dbVars, errVars,
     outVars, endVars
<1>15. ASSUME NEW c \in Conns, ConnectionGone(c)
      PROVE  Places'
  BY <1>0, SectionNumbers, <1>15 DEF ConnectionGone, PoolOpen, Early, Leaving,
     Places, Types, MainTypes, At, Alive, poolVars, loadVars, dbVars, errVars,
     outVars, endVars
<1>16. ASSUME NEW c \in Conns, SetGUCs(c)
      PROVE  Places'
  BY <1>0, SectionNumbers, <1>16 DEF SetGUCs, LogsError, PoolOpen, Places,
     Types, MainTypes, At, Alive, poolVars, loadVars, dbVars, errVars, outVars,
     endVars
<1>17. ASSUME NEW c \in Conns, LoaderEnds(c)
      PROVE  Places'
  BY <1>0, SectionNumbers, <1>17 DEF LoaderEnds, Places, Types, MainTypes, At,
     Alive, poolVars, loadVars, dbVars, errVars, outVars, endVars
<1>18. ASSUME NEW c \in Conns, TakeTable(c)
      PROVE  Places'
  BY <1>0, SectionNumbers, <1>18 DEF TakeTable, LogsError, PoolOpen, Places,
     Types, MainTypes, At, Alive, poolVars, loadVars, dbVars, errVars, outVars,
     endVars
<1>19. ASSUME NEW c \in Conns, TableLoaded(c)
      PROVE  Places'
  BY <1>0, SectionNumbers, <1>19 DEF TableLoaded, PoolOpen, Places, Types,
     MainTypes, At, Alive, poolVars, loadVars, dbVars, errVars, outVars,
     endVars
<1>20. ASSUME NEW c \in Conns, NEW agent \in BOOLEAN, TableFails(c, agent)
      PROVE  Places'
  BY <1>0, SectionNumbers, <1>20 DEF TableFails, LogsError, Places, Types,
     MainTypes, At, Alive, poolVars, loadVars, dbVars, errVars, outVars,
     endVars
<1>21. ASSUME NEW c \in Conns, LoaderPanics(c)
      PROVE  Places'
  BY <1>0, SectionNumbers, <1>21 DEF LoaderPanics, PoolOpen, Places, Types,
     MainTypes, At, Alive, poolVars, loadVars, dbVars, errVars, outVars,
     endVars
<1> QED
  BY StepKinds, <1>1, <1>2, <1>3, <1>4, <1>5, <1>6, <1>7, <1>8, <1>9, <1>10,
     <1>11, <1>12, <1>13, <1>14, <1>15, <1>16, <1>17, <1>18, <1>19, <1>20,
     <1>21

\* Helpers that are started, and helpers that are stopped.
LEMMA HelpersStep ==
  ASSUME Types, Ready, Helpers, [Next]_vars
  PROVE  Helpers'
<1>0. UsesHelpers' = UsesHelpers
  BY PlanKept
<1>1. CASE DoValidation
  BY <1>0, <1>1 DEF DoValidation, Fatal, Helpers, Ready, Types, DataTypes, At,
     Alive, poolVars, loadVars, dbVars, errVars, outVars, endVars
<1>2. CASE Connect
  BY <1>0, <1>2 DEF Connect, Fatal, Helpers, Ready, Types, DataTypes, At,
     Alive, poolVars, loadVars, dbVars, errVars, outVars, endVars
<1>3. CASE SetUpPlugin
  BY <1>0, <1>3 DEF SetUpPlugin, Fatal, Helpers, Ready, Types, DataTypes, At,
     Alive, poolVars, loadVars, dbVars, errVars, outVars, endVars
<1>4. CASE ReadConfig
  BY <1>0, <1>4 DEF ReadConfig, Fatal, Helpers, Ready, Types, DataTypes, At,
     Alive, poolVars, loadVars, dbVars, errVars, outVars, endVars
<1>5. CASE CheckBackup
  BY <1>0, <1>5 DEF CheckBackup, Fatal, Helpers, Ready, Types, DataTypes, At,
     Alive, poolVars, loadVars, dbVars, errVars, outVars, endVars
<1>6. CASE RestoreGlobals
  BY <1>0, <1>6 DEF RestoreGlobals, Fatal, LogsError, Helpers, Ready, Types,
     DataTypes, At, Alive, poolVars, loadVars, dbVars, errVars, outVars,
     endVars
<1>7. CASE CheckRelations
  BY <1>0, <1>7 DEF CheckRelations, Fatal, Helpers, Ready, Types, DataTypes,
     At, Alive, poolVars, loadVars, dbVars, errVars, outVars, endVars
<1>8. CASE SkipSection
  BY <1>0, <1>8 DEF SkipSection, NextSection, Helpers, Ready, Types, DataTypes,
     At, Alive, poolVars, loadVars, dbVars, errVars, outVars, endVars
<1>9. CASE VerifyIncrementalState
  BY <1>0, <1>9 DEF VerifyIncrementalState, Fatal, NextSection, Section,
     Helpers, Ready, Types, DataTypes, At, Alive, poolVars, loadVars, dbVars,
     errVars, outVars, endVars
<1>10. CASE VerifyFileCount
  BY <1>0, <1>10 DEF VerifyFileCount, Fatal, NextSection, Section, Helpers,
     Ready, Types, DataTypes, At, Alive, poolVars, loadVars, dbVars, errVars,
     outVars, endVars
<1>11. CASE RestoreSchemas
  BY <1>0, <1>11 DEF RestoreSchemas, Fatal, LogsError, NextSection, Enters,
     Section, Helpers, Ready, Types, DataTypes, At, Alive, poolVars, loadVars,
     dbVars, errVars, outVars, endVars
<1>12. CASE StartSection
  BY <1>0, <1>12 DEF StartSection, Enters, Section, StartPool, NextSection,
     Helpers, Ready, Types, DataTypes, At, Alive, poolVars, loadVars, dbVars,
     errVars, outVars, endVars
<1>13. CASE StartQDData
  BY <1>0, <1>13 DEF StartQDData, Fatal, LogsError, Enters, Section, StartPool,
     NextSection, Helpers, Ready, Types, DataTypes, At, Alive, poolVars,
     loadVars, dbVars, errVars, outVars, endVars
<1>14. CASE FinishStatements
  BY <1>0, <1>14 DEF FinishStatements, Fatal, ReportErrors, LogsError, AllDone,
     NextSection, Helpers, Ready, Types, DataTypes, At, Alive, poolVars,
     loadVars, dbVars, errVars, outVars, endVars
<1>15. CASE StartData
  BY <1>0, <1>15 DEF StartData, Enters, Section, Helpers, Ready, Types,
     DataTypes, At, Alive, poolVars, loadVars, dbVars, errVars, outVars,
     endVars
<1>16. ASSUME NEW b \in ToSet(Backups), StartBackup(b)
      PROVE  Helpers'
  BY <1>0, <1>16 DEF StartBackup, Fatal, Helpers, Ready, Types, DataTypes, At,
     Alive, poolVars, loadVars, dbVars, errVars, outVars, endVars
<1>17. CASE DataDone
  BY <1>0, <1>17 DEF DataDone, NextSection, Helpers, Ready, Types, DataTypes,
     At, Alive, poolVars, loadVars, dbVars, errVars, outVars, endVars
<1>18. CASE FinishBackup
  BY <1>0, <1>18 DEF FinishBackup, Fatal, AllDone, Helpers, Ready, Types,
     DataTypes, At, Alive, poolVars, loadVars, dbVars, errVars, outVars,
     endVars
<1>19. CASE ReturnFromRestore
  BY <1>0, <1>19 DEF ReturnFromRestore, Helpers, Ready, Types, DataTypes, At,
     Alive, poolVars, loadVars, dbVars, errVars, outVars, endVars
<1>20. CASE Recover
  BY <1>0, <1>20 DEF Recover, Helpers, Ready, Types, DataTypes, At, Alive,
     poolVars, loadVars, dbVars, errVars, outVars, endVars
<1>21. CASE LookForSignal
  BY <1>0, <1>21 DEF LookForSignal, Helpers, Ready, Types, DataTypes, At,
     Alive, poolVars, loadVars, dbVars, errVars, outVars, endVars
<1>22. CASE WriteReport
  BY <1>0, <1>22 DEF WriteReport, Helpers, Ready, Types, DataTypes, At, Alive,
     poolVars, loadVars, dbVars, errVars, outVars, endVars
<1>23. CASE CleanUpPlugin
  BY <1>0, <1>23 DEF CleanUpPlugin, Helpers, Ready, Types, DataTypes, At,
     Alive, poolVars, loadVars, dbVars, errVars, outVars, endVars
<1>24. CASE WriteErrorTables
  BY <1>0, <1>24 DEF WriteErrorTables, Helpers, Ready, Types, DataTypes, At,
     Alive, poolVars, loadVars, dbVars, errVars, outVars, endVars
<1>25. CASE EndTeardown
  BY <1>0, <1>25 DEF EndTeardown, Helpers, Ready, Types, DataTypes, At, Alive,
     poolVars, loadVars, dbVars, errVars, outVars, endVars
<1>26. CASE MainCleansUp
  BY <1>0, <1>26 DEF MainCleansUp, CleanUp, HelpersToStop, Done, LogsError,
     PlannedBackups, Helpers, Ready, Types, DataTypes, At, Alive, poolVars,
     loadVars, dbVars, errVars, outVars, endVars
<1>27. CASE Exit
  BY <1>0, <1>27 DEF Exit, Helpers, Ready, Types, DataTypes, At, Alive,
     poolVars, loadVars, dbVars, errVars, outVars, endVars
<1>28. CASE Signal
  BY <1>0, <1>28 DEF Signal, Helpers, Ready, Types, DataTypes, At, Alive,
     poolVars, loadVars, dbVars, errVars, outVars, endVars
<1>29. CASE HandlerCleansUp
  BY <1>0, <1>29 DEF HandlerCleansUp, CleanUp, HelpersToStop, Done, LogsError,
     PlannedBackups, Helpers, Ready, Types, DataTypes, At, Alive, poolVars,
     loadVars, dbVars, errVars, outVars, endVars
<1>30. CASE HandlerExits
  BY <1>0, <1>30 DEF HandlerExits, Helpers, Ready, Types, DataTypes, At, Alive,
     poolVars, loadVars, dbVars, errVars, outVars, endVars
<1>31. CASE Stopped
  BY <1>0, <1>31 DEF Stopped, Helpers, Ready, Types, DataTypes, vars, At,
     Alive, poolVars, loadVars, dbVars, errVars, outVars, endVars
<1>32. ASSUME NEW c \in Conns, TakeStatement(c)
      PROVE  Helpers'
  BY <1>0, <1>32 DEF TakeStatement, Helpers, Ready, Types, DataTypes, At,
     Alive, poolVars, loadVars, dbVars, errVars, outVars, endVars
<1>33. ASSUME NEW c \in Conns, WorkerEnds(c)
      PROVE  Helpers'
  BY <1>0, <1>33 DEF WorkerEnds, Helpers, Ready, Types, DataTypes, At, Alive,
     poolVars, loadVars, dbVars, errVars, outVars, endVars
<1>34. ASSUME NEW c \in Conns, StatementSucceeds(c)
      PROVE  Helpers'
  BY <1>0, <1>34 DEF StatementSucceeds, PoolOpen, Helpers, Ready, Types,
     DataTypes, At, Alive, poolVars, loadVars, dbVars, errVars, outVars,
     endVars
<1>35. ASSUME NEW c \in Conns, StatementFails(c)
      PROVE  Helpers'
  BY <1>0, <1>35 DEF StatementFails, PoolOpen, WithErrorTable, Helpers, Ready,
     Types, DataTypes, At, Alive, poolVars, loadVars, dbVars, errVars, outVars,
     endVars
<1>36. ASSUME NEW c \in Conns, ConnectionGone(c)
      PROVE  Helpers'
  BY <1>0, <1>36 DEF ConnectionGone, PoolOpen, Helpers, Ready, Types,
     DataTypes, At, Alive, poolVars, loadVars, dbVars, errVars, outVars,
     endVars
<1>37. ASSUME NEW c \in Conns, SetGUCs(c)
      PROVE  Helpers'
  BY <1>0, <1>37 DEF SetGUCs, LogsError, PoolOpen, Helpers, Ready, Types,
     DataTypes, At, Alive, poolVars, loadVars, dbVars, errVars, outVars,
     endVars
<1>38. ASSUME NEW c \in Conns, LoaderEnds(c)
      PROVE  Helpers'
  BY <1>0, <1>38 DEF LoaderEnds, Helpers, Ready, Types, DataTypes, At, Alive,
     poolVars, loadVars, dbVars, errVars, outVars, endVars
<1>39. ASSUME NEW c \in Conns, TakeTable(c)
      PROVE  Helpers'
  BY <1>0, <1>39 DEF TakeTable, LogsError, PoolOpen, Helpers, Ready, Types,
     DataTypes, At, Alive, poolVars, loadVars, dbVars, errVars, outVars,
     endVars
<1>40. ASSUME NEW c \in Conns, TableLoaded(c)
      PROVE  Helpers'
  BY <1>0, <1>40 DEF TableLoaded, PoolOpen, Helpers, Ready, Types, DataTypes,
     At, Alive, poolVars, loadVars, dbVars, errVars, outVars, endVars
<1>41. ASSUME NEW c \in Conns, NEW agent \in BOOLEAN, TableFails(c, agent)
      PROVE  Helpers'
  BY <1>0, <1>41 DEF TableFails, LogsError, Helpers, Ready, Types, DataTypes,
     At, Alive, poolVars, loadVars, dbVars, errVars, outVars, endVars
<1>42. ASSUME NEW c \in Conns, LoaderPanics(c)
      PROVE  Helpers'
  BY <1>0, <1>42 DEF LoaderPanics, PoolOpen, Helpers, Ready, Types, DataTypes,
     At, Alive, poolVars, loadVars, dbVars, errVars, outVars, endVars
<1>43. CASE UNCHANGED vars
  BY <1>0, <1>43 DEF Helpers, Ready, Types, DataTypes, vars, At, Alive,
     poolVars, loadVars, dbVars, errVars, outVars, endVars
<1> QED
  BY <1>1, <1>2, <1>3, <1>4, <1>5, <1>6, <1>7, <1>8, <1>9, <1>10, <1>11, <1>12,
     <1>13, <1>14, <1>15, <1>16, <1>17, <1>18, <1>19, <1>20, <1>21, <1>22,
     <1>23, <1>24, <1>25, <1>26, <1>27, <1>28, <1>29, <1>30, <1>31, <1>32,
     <1>33, <1>34, <1>35, <1>36, <1>37, <1>38, <1>39, <1>40, <1>41, <1>42,
     <1>43 DEF Next, Main, Worker, Handler

\* A failure is on its way to the error code.
LEMMA FailuresNoticedStep ==
  ASSUME Types, FailuresNoticed, [Next]_vars
  PROVE  FailuresNoticed'
<1>1. CASE Outside
  BY TheConns, <1>1 DEF Outside, FailuresNoticed, Types, PoolTypes, EndTypes
<1>2. CASE Passed
  BY TheConns, <1>2 DEF Passed, FailuresNoticed, Types, PoolTypes, EndTypes
<1>3. CASE RestoreSchemas
  BY TheConns, <1>3 DEF RestoreSchemas, Fatal, LogsError, NextSection, Enters,
     Section, FailuresNoticed, Types, PoolTypes, EndTypes, At, Alive, poolVars,
     loadVars, dbVars, errVars, outVars, endVars
<1>4. CASE StartSection
  BY TheConns, <1>4 DEF StartSection, Enters, Section, StartPool, NextSection,
     FailuresNoticed, Types, PoolTypes, EndTypes, At, Alive, poolVars,
     loadVars, dbVars, errVars, outVars, endVars
<1>5. CASE StartQDData
  BY TheConns, <1>5 DEF StartQDData, Fatal, LogsError, Enters, Section,
     StartPool, NextSection, FailuresNoticed, Types, PoolTypes, EndTypes, At,
     Alive, poolVars, loadVars, dbVars, errVars, outVars, endVars
<1>6. CASE FinishStatements
  BY TheConns, <1>6 DEF FinishStatements, Fatal, ReportErrors, LogsError,
     AllDone, NextSection, FailuresNoticed, Types, PoolTypes, EndTypes, At,
     Alive, poolVars, loadVars, dbVars, errVars, outVars, endVars
<1>7. CASE StartData
  BY TheConns, <1>7 DEF StartData, Enters, Section, FailuresNoticed, Types,
     PoolTypes, EndTypes, At, Alive, poolVars, loadVars, dbVars, errVars,
     outVars, endVars
<1>8. ASSUME NEW b \in ToSet(Backups), StartBackup(b)
      PROVE  FailuresNoticed'
  BY TheConns, <1>8 DEF StartBackup, Fatal, FailuresNoticed, Types, PoolTypes,
     EndTypes, At, Alive, poolVars, loadVars, dbVars, errVars, outVars, endVars
<1>9. CASE DataDone
  BY TheConns, <1>9 DEF DataDone, NextSection, FailuresNoticed, Types,
     PoolTypes, EndTypes, At, Alive, poolVars, loadVars, dbVars, errVars,
     outVars, endVars
<1>10. CASE FinishBackup
  BY TheConns, <1>10 DEF FinishBackup, Fatal, AllDone, FailuresNoticed, Types,
     PoolTypes, EndTypes, At, Alive, poolVars, loadVars, dbVars, errVars,
     outVars, endVars
<1>11. ASSUME NEW c \in Conns, TakeStatement(c)
      PROVE  FailuresNoticed'
  BY TheConns, <1>11 DEF TakeStatement, FailuresNoticed, Types, PoolTypes,
     EndTypes, At, Alive, poolVars, loadVars, dbVars, errVars, outVars, endVars
<1>12. ASSUME NEW c \in Conns, WorkerEnds(c)
      PROVE  FailuresNoticed'
  BY TheConns, <1>12 DEF WorkerEnds, FailuresNoticed, Types, PoolTypes,
     EndTypes, At, Alive, poolVars, loadVars, dbVars, errVars, outVars, endVars
<1>13. ASSUME NEW c \in Conns, StatementSucceeds(c)
      PROVE  FailuresNoticed'
  BY TheConns, <1>13 DEF StatementSucceeds, PoolOpen, FailuresNoticed, Types,
     PoolTypes, EndTypes, At, Alive, poolVars, loadVars, dbVars, errVars,
     outVars, endVars
<1>14. ASSUME NEW c \in Conns, StatementFails(c)
      PROVE  FailuresNoticed'
  BY TheConns, <1>14 DEF StatementFails, PoolOpen, WithErrorTable,
     FailuresNoticed, Types, PoolTypes, EndTypes, At, Alive, poolVars,
     loadVars, dbVars, errVars, outVars, endVars
<1>15. ASSUME NEW c \in Conns, ConnectionGone(c)
      PROVE  FailuresNoticed'
  BY TheConns, <1>15 DEF ConnectionGone, PoolOpen, FailuresNoticed, Types,
     PoolTypes, EndTypes, At, Alive, poolVars, loadVars, dbVars, errVars,
     outVars, endVars
<1>16. ASSUME NEW c \in Conns, SetGUCs(c)
      PROVE  FailuresNoticed'
  BY TheConns, <1>16 DEF SetGUCs, LogsError, PoolOpen, FailuresNoticed, Types,
     PoolTypes, EndTypes, At, Alive, poolVars, loadVars, dbVars, errVars,
     outVars, endVars
<1>17. ASSUME NEW c \in Conns, LoaderEnds(c)
      PROVE  FailuresNoticed'
  BY TheConns, <1>17 DEF LoaderEnds, FailuresNoticed, Types, PoolTypes,
     EndTypes, At, Alive, poolVars, loadVars, dbVars, errVars, outVars, endVars
<1>18. ASSUME NEW c \in Conns, TakeTable(c)
      PROVE  FailuresNoticed'
  BY TheConns, <1>18 DEF TakeTable, LogsError, PoolOpen, FailuresNoticed,
     Types, PoolTypes, EndTypes, At, Alive, poolVars, loadVars, dbVars,
     errVars, outVars, endVars
<1>19. ASSUME NEW c \in Conns, TableLoaded(c)
      PROVE  FailuresNoticed'
  BY TheConns, <1>19 DEF TableLoaded, PoolOpen, FailuresNoticed, Types,
     PoolTypes, EndTypes, At, Alive, poolVars, loadVars, dbVars, errVars,
     outVars, endVars
<1>20. ASSUME NEW c \in Conns, NEW agent \in BOOLEAN, TableFails(c, agent)
      PROVE  FailuresNoticed'
  BY TheConns, <1>20 DEF TableFails, LogsError, FailuresNoticed, Types,
     PoolTypes, EndTypes, At, Alive, poolVars, loadVars, dbVars, errVars,
     outVars, endVars
<1>21. ASSUME NEW c \in Conns, LoaderPanics(c)
      PROVE  FailuresNoticed'
  BY TheConns, <1>21 DEF LoaderPanics, PoolOpen, FailuresNoticed, Types,
     PoolTypes, EndTypes, At, Alive, poolVars, loadVars, dbVars, errVars,
     outVars, endVars
<1> QED
  BY StepKinds, <1>1, <1>2, <1>3, <1>4, <1>5, <1>6, <1>7, <1>8, <1>9, <1>10,
     <1>11, <1>12, <1>13, <1>14, <1>15, <1>16, <1>17, <1>18, <1>19, <1>20,
     <1>21

\* The files of failed tables hold what was noted.
LEMMA FilesStep ==
  ASSUME Files, [Next]_vars
  PROVE  Files'
<1>1. CASE DoValidation
  BY <1>1 DEF DoValidation, Fatal, Files, At, Alive, poolVars, loadVars,
     dbVars, errVars, outVars, endVars
<1>2. CASE Connect
  BY <1>2 DEF Connect, Fatal, Files, At, Alive, poolVars, loadVars, dbVars,
     errVars, outVars, endVars
<1>3. CASE SetUpPlugin
  BY <1>3 DEF SetUpPlugin, Fatal, Files, At, Alive, poolVars, loadVars, dbVars,
     errVars, outVars, endVars
<1>4. CASE ReadConfig
  BY <1>4 DEF ReadConfig, Fatal, Files, At, Alive, poolVars, loadVars, dbVars,
     errVars, outVars, endVars
<1>5. CASE CheckBackup
  BY <1>5 DEF CheckBackup, Fatal, Files, At, Alive, poolVars, loadVars, dbVars,
     errVars, outVars, endVars
<1>6. CASE RestoreGlobals
  BY <1>6 DEF RestoreGlobals, Fatal, LogsError, Files, At, Alive, poolVars,
     loadVars, dbVars, errVars, outVars, endVars
<1>7. CASE CheckRelations
  BY <1>7 DEF CheckRelations, Fatal, Files, At, Alive, poolVars, loadVars,
     dbVars, errVars, outVars, endVars
<1>8. CASE SkipSection
  BY <1>8 DEF SkipSection, NextSection, Files, At, Alive, poolVars, loadVars,
     dbVars, errVars, outVars, endVars
<1>9. CASE VerifyIncrementalState
  BY <1>9 DEF VerifyIncrementalState, Fatal, NextSection, Section, Files, At,
     Alive, poolVars, loadVars, dbVars, errVars, outVars, endVars
<1>10. CASE VerifyFileCount
  BY <1>10 DEF VerifyFileCount, Fatal, NextSection, Section, Files, At, Alive,
     poolVars, loadVars, dbVars, errVars, outVars, endVars
<1>11. CASE RestoreSchemas
  BY <1>11 DEF RestoreSchemas, Fatal, LogsError, NextSection, Enters, Section,
     Files, At, Alive, poolVars, loadVars, dbVars, errVars, outVars, endVars
<1>12. CASE StartSection
  BY <1>12 DEF StartSection, Enters, Section, StartPool, NextSection, Files,
     At, Alive, poolVars, loadVars, dbVars, errVars, outVars, endVars
<1>13. CASE StartQDData
  BY <1>13 DEF StartQDData, Fatal, LogsError, Enters, Section, StartPool,
     NextSection, Files, At, Alive, poolVars, loadVars, dbVars, errVars,
     outVars, endVars
<1>14. CASE FinishStatements
  BY <1>14 DEF FinishStatements, Fatal, ReportErrors, LogsError, AllDone,
     NextSection, Files, At, Alive, poolVars, loadVars, dbVars, errVars,
     outVars, endVars
<1>15. CASE StartData
  BY <1>15 DEF StartData, Enters, Section, Files, At, Alive, poolVars,
     loadVars, dbVars, errVars, outVars, endVars
<1>16. ASSUME NEW b \in ToSet(Backups), StartBackup(b)
      PROVE  Files'
  BY <1>16 DEF StartBackup, Fatal, Files, At, Alive, poolVars, loadVars,
     dbVars, errVars, outVars, endVars
<1>17. CASE DataDone
  BY <1>17 DEF DataDone, NextSection, Files, At, Alive, poolVars, loadVars,
     dbVars, errVars, outVars, endVars
<1>18. CASE FinishBackup
  BY <1>18 DEF FinishBackup, Fatal, AllDone, Files, At, Alive, poolVars,
     loadVars, dbVars, errVars, outVars, endVars
<1>19. CASE ReturnFromRestore
  BY <1>19 DEF ReturnFromRestore, Files, At, Alive, poolVars, loadVars, dbVars,
     errVars, outVars, endVars
<1>20. CASE Recover
  BY <1>20 DEF Recover, Files, At, Alive, poolVars, loadVars, dbVars, errVars,
     outVars, endVars
<1>21. CASE LookForSignal
  BY <1>21 DEF LookForSignal, Files, At, Alive, poolVars, loadVars, dbVars,
     errVars, outVars, endVars
<1>22. CASE WriteReport
  BY <1>22 DEF WriteReport, Files, At, Alive, poolVars, loadVars, dbVars,
     errVars, outVars, endVars
<1>23. CASE CleanUpPlugin
  BY <1>23 DEF CleanUpPlugin, Files, At, Alive, poolVars, loadVars, dbVars,
     errVars, outVars, endVars
<1>24. CASE WriteErrorTables
  BY <1>24 DEF WriteErrorTables, Files, At, Alive, poolVars, loadVars, dbVars,
     errVars, outVars, endVars
<1>25. CASE EndTeardown
  BY <1>25 DEF EndTeardown, Files, At, Alive, poolVars, loadVars, dbVars,
     errVars, outVars, endVars
<1>26. CASE MainCleansUp
  BY <1>26 DEF MainCleansUp, CleanUp, HelpersToStop, Done, LogsError,
     PlannedBackups, Files, At, Alive, poolVars, loadVars, dbVars, errVars,
     outVars, endVars
<1>27. CASE Exit
  BY <1>27 DEF Exit, Files, At, Alive, poolVars, loadVars, dbVars, errVars,
     outVars, endVars
<1>28. CASE Signal
  BY <1>28 DEF Signal, Files, At, Alive, poolVars, loadVars, dbVars, errVars,
     outVars, endVars
<1>29. CASE HandlerCleansUp
  BY <1>29 DEF HandlerCleansUp, CleanUp, HelpersToStop, Done, LogsError,
     PlannedBackups, Files, At, Alive, poolVars, loadVars, dbVars, errVars,
     outVars, endVars
<1>30. CASE HandlerExits
  BY <1>30 DEF HandlerExits, Files, At, Alive, poolVars, loadVars, dbVars,
     errVars, outVars, endVars
<1>31. CASE Stopped
  BY <1>31 DEF Stopped, Files, vars, At, Alive, poolVars, loadVars, dbVars,
     errVars, outVars, endVars
<1>32. ASSUME NEW c \in Conns, TakeStatement(c)
      PROVE  Files'
  BY <1>32 DEF TakeStatement, Files, At, Alive, poolVars, loadVars, dbVars,
     errVars, outVars, endVars
<1>33. ASSUME NEW c \in Conns, WorkerEnds(c)
      PROVE  Files'
  BY <1>33 DEF WorkerEnds, Files, At, Alive, poolVars, loadVars, dbVars,
     errVars, outVars, endVars
<1>34. ASSUME NEW c \in Conns, StatementSucceeds(c)
      PROVE  Files'
  BY <1>34 DEF StatementSucceeds, PoolOpen, Files, At, Alive, poolVars,
     loadVars, dbVars, errVars, outVars, endVars
<1>35. ASSUME NEW c \in Conns, StatementFails(c)
      PROVE  Files'
  BY <1>35 DEF StatementFails, PoolOpen, WithErrorTable, Files, At, Alive,
     poolVars, loadVars, dbVars, errVars, outVars, endVars
<1>36. ASSUME NEW c \in Conns, ConnectionGone(c)
      PROVE  Files'
  BY <1>36 DEF ConnectionGone, PoolOpen, Files, At, Alive, poolVars, loadVars,
     dbVars, errVars, outVars, endVars
<1>37. ASSUME NEW c \in Conns, SetGUCs(c)
      PROVE  Files'
  BY <1>37 DEF SetGUCs, LogsError, PoolOpen, Files, At, Alive, poolVars,
     loadVars, dbVars, errVars, outVars, endVars
<1>38. ASSUME NEW c \in Conns, LoaderEnds(c)
      PROVE  Files'
  BY <1>38 DEF LoaderEnds, Files, At, Alive, poolVars, loadVars, dbVars,
     errVars, outVars, endVars
<1>39. ASSUME NEW c \in Conns, TakeTable(c)
      PROVE  Files'
  BY <1>39 DEF TakeTable, LogsError, PoolOpen, Files, At, Alive, poolVars,
     loadVars, dbVars, errVars, outVars, endVars
<1>40. ASSUME NEW c \in Conns, TableLoaded(c)
      PROVE  Files'
  BY <1>40 DEF TableLoaded, PoolOpen, Files, At, Alive, poolVars, loadVars,
     dbVars, errVars, outVars, endVars
<1>41. ASSUME NEW c \in Conns, NEW agent \in BOOLEAN, TableFails(c, agent)
      PROVE  Files'
  BY <1>41 DEF TableFails, LogsError, Files, At, Alive, poolVars, loadVars,
     dbVars, errVars, outVars, endVars
<1>42. ASSUME NEW c \in Conns, LoaderPanics(c)
      PROVE  Files'
  BY <1>42 DEF LoaderPanics, PoolOpen, Files, At, Alive, poolVars, loadVars,
     dbVars, errVars, outVars, endVars
<1>43. CASE UNCHANGED vars
  BY <1>43 DEF Files, vars, At, Alive, poolVars, loadVars, dbVars, errVars,
     outVars, endVars
<1> QED
  BY <1>1, <1>2, <1>3, <1>4, <1>5, <1>6, <1>7, <1>8, <1>9, <1>10, <1>11, <1>12,
     <1>13, <1>14, <1>15, <1>16, <1>17, <1>18, <1>19, <1>20, <1>21, <1>22,
     <1>23, <1>24, <1>25, <1>26, <1>27, <1>28, <1>29, <1>30, <1>31, <1>32,
     <1>33, <1>34, <1>35, <1>36, <1>37, <1>38, <1>39, <1>40, <1>41, <1>42,
     <1>43 DEF Next, Main, Worker, Handler

-----------------------------------------------------------------------------
(* Stops, failed tables, and what is executed                              *)

\* The sections are entered and left by steps of their own.
LEMMA OutsideSections ==
  ASSUME Outside, NEW p \in {"run", "data", "load"}
  PROVE  pc' = p <=> pc = p
BY DEF Outside, Early, Leaving

\* A worker stops early only with an error or a signal.
LEMMA StopsNoticedStep ==
  ASSUME Types, Ready, StopsNoticed, [Next]_vars
  PROVE  StopsNoticed'
<1>1. CASE Outside
  BY <1>1 DEF Outside, StopsNoticed, Ready, Types, EndTypes
<1>2. CASE Passed
  BY <1>2 DEF Passed, StopsNoticed, Ready, Types, EndTypes
<1>3. CASE RestoreSchemas
  BY <1>3 DEF RestoreSchemas, Fatal, LogsError, NextSection, Enters, Section,
     StopsNoticed, Ready, Types, EndTypes, At, Alive, poolVars, loadVars,
     dbVars, errVars, outVars, endVars
<1>4. CASE StartSection
  BY <1>4 DEF StartSection, Enters, Section, StartPool, NextSection,
     StopsNoticed, Ready, Types, EndTypes, At, Alive, poolVars, loadVars,
     dbVars, errVars, outVars, endVars
<1>5. CASE StartQDData
  BY <1>5 DEF StartQDData, Fatal, LogsError, Enters, Section, StartPool,
     NextSection, StopsNoticed, Ready, Types, EndTypes, At, Alive, poolVars,
     loadVars, dbVars, errVars, outVars, endVars
<1>6. CASE FinishStatements
  BY <1>6 DEF FinishStatements, Fatal, ReportErrors, LogsError, AllDone,
     NextSection, StopsNoticed, Ready, Types, EndTypes, At, Alive, poolVars,
     loadVars, dbVars, errVars, outVars, endVars
<1>7. CASE StartData
  BY <1>7 DEF StartData, Enters, Section, StopsNoticed, Ready, Types, EndTypes,
     At, Alive, poolVars, loadVars, dbVars, errVars, outVars, endVars
<1>8. ASSUME NEW b \in ToSet(Backups), StartBackup(b)
      PROVE  StopsNoticed'
  BY <1>8 DEF StartBackup, Fatal, StopsNoticed, Ready, Types, EndTypes, At,
     Alive, poolVars, loadVars, dbVars, errVars, outVars, endVars
<1>9. CASE DataDone
  BY <1>9 DEF DataDone, NextSection, StopsNoticed, Ready, Types, EndTypes, At,
     Alive, poolVars, loadVars, dbVars, errVars, outVars, endVars
<1>10. CASE FinishBackup
  BY <1>10 DEF FinishBackup, Fatal, AllDone, StopsNoticed, Ready, Types,
     EndTypes, At, Alive, poolVars, loadVars, dbVars, errVars, outVars, endVars
<1>11. ASSUME NEW c \in Conns, TakeStatement(c)
      PROVE  StopsNoticed'
  BY <1>11 DEF TakeStatement, StopsNoticed, Ready, Types, EndTypes, At, Alive,
     poolVars, loadVars, dbVars, errVars, outVars, endVars
<1>12. ASSUME NEW c \in Conns, WorkerEnds(c)
      PROVE  StopsNoticed'
  BY <1>12 DEF WorkerEnds, StopsNoticed, Ready, Types, EndTypes, At, Alive,
     poolVars, loadVars, dbVars, errVars, outVars, endVars
<1>13. ASSUME NEW c \in Conns, StatementSucceeds(c)
      PROVE  StopsNoticed'
  BY <1>13 DEF StatementSucceeds, PoolOpen, StopsNoticed, Ready, Types,
     EndTypes, At, Alive, poolVars, loadVars, dbVars, errVars, outVars, endVars
<1>14. ASSUME NEW c \in Conns, StatementFails(c)
      PROVE  StopsNoticed'
  BY <1>14 DEF StatementFails, PoolOpen, WithErrorTable, StopsNoticed, Ready,
     Types, EndTypes, At, Alive, poolVars, loadVars, dbVars, errVars, outVars,
     endVars
<1>15. ASSUME NEW c \in Conns, ConnectionGone(c)
      PROVE  StopsNoticed'
  BY <1>15 DEF ConnectionGone, PoolOpen, StopsNoticed, Ready, Types, EndTypes,
     At, Alive, poolVars, loadVars, dbVars, errVars, outVars, endVars
<1>16. ASSUME NEW c \in Conns, SetGUCs(c)
      PROVE  StopsNoticed'
  BY <1>16 DEF SetGUCs, LogsError, PoolOpen, StopsNoticed, Ready, Types,
     EndTypes, At, Alive, poolVars, loadVars, dbVars, errVars, outVars, endVars
<1>17. ASSUME NEW c \in Conns, LoaderEnds(c)
      PROVE  StopsNoticed'
  BY <1>17 DEF LoaderEnds, StopsNoticed, Ready, Types, EndTypes, At, Alive,
     poolVars, loadVars, dbVars, errVars, outVars, endVars
<1>18. ASSUME NEW c \in Conns, TakeTable(c)
      PROVE  StopsNoticed'
  BY <1>18 DEF TakeTable, LogsError, PoolOpen, StopsNoticed, Ready, Types,
     EndTypes, At, Alive, poolVars, loadVars, dbVars, errVars, outVars, endVars
<1>19. ASSUME NEW c \in Conns, TableLoaded(c)
      PROVE  StopsNoticed'
  BY <1>19 DEF TableLoaded, PoolOpen, StopsNoticed, Ready, Types, EndTypes, At,
     Alive, poolVars, loadVars, dbVars, errVars, outVars, endVars
<1>20. ASSUME NEW c \in Conns, NEW agent \in BOOLEAN, TableFails(c, agent)
      PROVE  StopsNoticed'
  BY <1>20 DEF TableFails, LogsError, StopsNoticed, Ready, Types, EndTypes, At,
     Alive, poolVars, loadVars, dbVars, errVars, outVars, endVars
<1>21. ASSUME NEW c \in Conns, LoaderPanics(c)
      PROVE  StopsNoticed'
  BY <1>21 DEF LoaderPanics, PoolOpen, StopsNoticed, Ready, Types, EndTypes,
     At, Alive, poolVars, loadVars, dbVars, errVars, outVars, endVars
<1> QED
  BY StepKinds, <1>1, <1>2, <1>3, <1>4, <1>5, <1>6, <1>7, <1>8, <1>9, <1>10,
     <1>11, <1>12, <1>13, <1>14, <1>15, <1>16, <1>17, <1>18, <1>19, <1>20,
     <1>21

\* A statement that is executed is one of the section.
LEMMA ExecutedTypes ==
  ASSUME Places, Pool, pc = "run", NEW c \in Conns, worker[c] = "busy"
  PROVE  /\ section \in {3, 4, 5, 8, 9, 10, 11, 12}
         /\ running[c] \in Works[section]
         /\ running[c].type \in StatementTypes
         /\ running[c].type = "QD-DATA" <=> section = 5
         /\ running[c].type = "QD-DATA" => running[c] \in ToSet(Predata)
<1>1. section \in {3, 4, 5, 8, 9, 10, 11, 12}
  BY SectionNumbers, PooledSections DEF Places
<1>2. running[c] \in Works[section]
  BY DEF Pool, Executing
<1> QED
  BY <1>1, <1>2, PooledTypes

\* QD-only tables are loaded in their section.
LEMMA QDTablesStep ==
  ASSUME Types, Places, Pool, QDTables, [Next]_vars
  PROVE  QDTables'
<1>1. CASE Outside
  BY SectionNumbers, <1>1 DEF Outside, QDTables, Types, MainTypes
<1>2. CASE Passed
  BY SectionNumbers, <1>2 DEF Passed, QDTables, Types, MainTypes
<1>3. CASE RestoreSchemas
  <2>1. \A s \in done' : s \in done \/ s.type = "SCHEMA"
    <3>1. \A s \in ToSet(StatementsOf(Predata, {"SCHEMA"})) : s.type = "SCHEMA"
      BY Selections
    <3> QED
      BY <3>1, <1>3 DEF RestoreSchemas
  <2>2. section' \in {section, section + 1}
    BY <1>3 DEF RestoreSchemas, Fatal, NextSection
  <2> QED
    BY <2>1, <2>2 DEF QDTables, Types, MainTypes
<1>4. CASE StartSection
  BY SectionNumbers, <1>4 DEF StartSection, Enters, Section, StartPool,
     NextSection, QDTables, Types, MainTypes, At, Alive, poolVars, loadVars,
     dbVars, errVars, outVars, endVars
<1>5. CASE StartQDData
  BY SectionNumbers, <1>5 DEF StartQDData, Fatal, LogsError, Enters, Section,
     StartPool, NextSection, QDTables, Types, MainTypes, At, Alive, poolVars,
     loadVars, dbVars, errVars, outVars, endVars
<1>6. CASE FinishStatements
  BY SectionNumbers, <1>6 DEF FinishStatements, Fatal, ReportErrors, LogsError,
     AllDone, NextSection, QDTables, Types, MainTypes, At, Alive, poolVars,
     loadVars, dbVars, errVars, outVars, endVars
<1>7. CASE StartData
  BY SectionNumbers, <1>7 DEF StartData, Enters, Section, QDTables, Types,
     MainTypes, At, Alive, poolVars, loadVars, dbVars, errVars, outVars,
     endVars
<1>8. ASSUME NEW b \in ToSet(Backups), StartBackup(b)
      PROVE  QDTables'
  BY SectionNumbers, <1>8 DEF StartBackup, Fatal, QDTables, Types, MainTypes,
     At, Alive, poolVars, loadVars, dbVars, errVars, outVars, endVars
<1>9. CASE DataDone
  BY SectionNumbers, <1>9 DEF DataDone, NextSection, QDTables, Types,
     MainTypes, At, Alive, poolVars, loadVars, dbVars, errVars, outVars,
     endVars
<1>10. CASE FinishBackup
  BY SectionNumbers, <1>10 DEF FinishBackup, Fatal, AllDone, QDTables, Types,
     MainTypes, At, Alive, poolVars, loadVars, dbVars, errVars, outVars,
     endVars
<1>11. ASSUME NEW c \in Conns, TakeStatement(c)
      PROVE  QDTables'
  BY SectionNumbers, <1>11 DEF TakeStatement, QDTables, Types, MainTypes, At,
     Alive, poolVars, loadVars, dbVars, errVars, outVars, endVars
<1>12. ASSUME NEW c \in Conns, WorkerEnds(c)
      PROVE  QDTables'
  BY SectionNumbers, <1>12 DEF WorkerEnds, QDTables, Types, MainTypes, At,
     Alive, poolVars, loadVars, dbVars, errVars, outVars, endVars
<1>13. ASSUME NEW c \in Conns, StatementSucceeds(c)
      PROVE  QDTables'
  BY SectionNumbers, ExecutedTypes, <1>13 DEF StatementSucceeds, PoolOpen,
     QDTables, Types, MainTypes, At, Alive, poolVars, loadVars, dbVars,
     errVars, outVars, endVars
<1>14. ASSUME NEW c \in Conns, StatementFails(c)
      PROVE  QDTables'
  BY SectionNumbers, <1>14 DEF StatementFails, PoolOpen, WithErrorTable,
     QDTables, Types, MainTypes, At, Alive, poolVars, loadVars, dbVars,
     errVars, outVars, endVars
<1>15. ASSUME NEW c \in Conns, ConnectionGone(c)
      PROVE  QDTables'
  BY SectionNumbers, <1>15 DEF ConnectionGone, PoolOpen, QDTables, Types,
     MainTypes, At, Alive, poolVars, loadVars, dbVars, errVars, outVars,
     endVars
<1>16. ASSUME NEW c \in Conns, SetGUCs(c)
      PROVE  QDTables'
  BY SectionNumbers, <1>16 DEF SetGUCs, LogsError, PoolOpen, QDTables, Types,
     MainTypes, At, Alive, poolVars, loadVars, dbVars, errVars, outVars,
     endVars
<1>17. ASSUME NEW c \in Conns, LoaderEnds(c)
      PROVE  QDTables'
  BY SectionNumbers, <1>17 DEF LoaderEnds, QDTables, Types, MainTypes, At,
     Alive, poolVars, loadVars, dbVars, errVars, outVars, endVars
<1>18. ASSUME NEW c \in Conns, TakeTable(c)
      PROVE  QDTables'
  BY SectionNumbers, <1>18 DEF TakeTable, LogsError, PoolOpen, QDTables, Types,
     MainTypes, At, Alive, poolVars, loadVars, dbVars, errVars, outVars,
     endVars
<1>19. ASSUME NEW c \in Conns, TableLoaded(c)
      PROVE  QDTables'
  BY SectionNumbers, <1>19 DEF TableLoaded, PoolOpen, Copy, QDTables, Types,
     MainTypes, At, Alive, poolVars, loadVars, dbVars, errVars, outVars,
     endVars
<1>20. ASSUME NEW c \in Conns, NEW agent \in BOOLEAN, TableFails(c, agent)
      PROVE  QDTables'
  BY SectionNumbers, <1>20 DEF TableFails, LogsError, QDTables, Types,
     MainTypes, At, Alive, poolVars, loadVars, dbVars, errVars, outVars,
     endVars
<1>21. ASSUME NEW c \in Conns, LoaderPanics(c)
      PROVE  QDTables'
  BY SectionNumbers, <1>21 DEF LoaderPanics, PoolOpen, QDTables, Types,
     MainTypes, At, Alive, poolVars, loadVars, dbVars, errVars, outVars,
     endVars
<1> QED
  BY StepKinds, <1>1, <1>2, <1>3, <1>4, <1>5, <1>6, <1>7, <1>8, <1>9, <1>10,
     <1>11, <1>12, <1>13, <1>14, <1>15, <1>16, <1>17, <1>18, <1>19, <1>20,
     <1>21

\* A connection begins with the entry of its number.
LEMMA OwnPlaces ==
  \A c \in Conns : /\ Owner(c) = c
                   /\ \A i \in Nat : Owner(i) \in Conns /\ ~(i < Owner(i))
                   /\ \A i \in Nat : Owner(i) = c => Owner(i + NumConns) = c
<1> USE StatementsAssumption
<1>1. \A c \in Conns : c % NumConns = c
  <2> SUFFICES ASSUME NEW c \in Conns PROVE c % NumConns = c
    OBVIOUS
  <2> DEFINE q == c \div NumConns
             r == c % NumConns
  <2>1. c \in Nat /\ c < NumConns
    BY DEF Conns
  <2>2. c = NumConns * q + r /\ r \in 0..(NumConns - 1) /\ q \in Nat
    BY <2>1, DivMod
  <2> HIDE DEF q, r
  <2>3. q >= 1 => NumConns * q >= NumConns
    BY <2>2, Multiples
  <2> DEFINE m == NumConns * q
  <2>4. m \in Int /\ c = m + r /\ (q >= 1 => m >= NumConns) /\ (q = 0 => m = 0)
    BY <2>2, <2>3
  <2> HIDE DEF m
  <2>5. c = r
    BY <2>1, <2>2, <2>4
  <2> QED
    BY <2>5 DEF r
<1>2. \A i \in Nat : i % NumConns \in Conns /\ ~(i < i % NumConns)
  <2> SUFFICES ASSUME NEW i \in Nat PROVE i % NumConns \in Conns /\ ~(i < i % NumConns)
    OBVIOUS
  <2> DEFINE q == i \div NumConns
             r == i % NumConns
  <2>1. i = NumConns * q + r /\ r \in 0..(NumConns - 1) /\ q \in Nat
    BY DivMod
  <2> HIDE DEF q, r
  <2>2. q >= 1 => NumConns * q >= NumConns
    BY <2>1, Multiples
  <2>3. q = 0 => NumConns * q = 0
    BY <2>1
  <2>4. NumConns * q >= 0
    BY <2>1, <2>2, <2>3
  <2>5. NumConns * q \in Int /\ NumConns * q + r >= r
    BY <2>1, <2>4
  <2>6. r \in Conns /\ ~(i < r)
    BY <2>1, <2>5 DEF Conns
  <2> QED
    BY <2>6 DEF r
<1>3. \A i \in Nat : (i + NumConns) % NumConns = i % NumConns
  BY OwnerKept
<1> QED
  BY <1>1, <1>2, <1>3 DEF Owner

\* A connection has entries of its own.
LEMMA LoadingStep ==
  ASSUME Types, Loading, [Next]_vars
  PROVE  Loading'
<1>1. CASE Outside
  BY OutsideSections, <1>1 DEF Outside, Loading
<1>2. CASE Passed
  BY <1>2 DEF Passed, Loading
<1>3. CASE RestoreSchemas
  BY <1>3 DEF RestoreSchemas, Fatal, LogsError, NextSection, Enters, Section,
     Loading, At, Alive, poolVars, loadVars, dbVars, errVars, outVars, endVars
<1>4. CASE StartSection
  BY <1>4 DEF StartSection, Enters, Section, StartPool, NextSection, Loading,
     At, Alive, poolVars, loadVars, dbVars, errVars, outVars, endVars
<1>5. CASE StartQDData
  BY <1>5 DEF StartQDData, Fatal, LogsError, Enters, Section, StartPool,
     NextSection, Loading, At, Alive, poolVars, loadVars, dbVars, errVars,
     outVars, endVars
<1>6. CASE FinishStatements
  BY <1>6 DEF FinishStatements, Fatal, ReportErrors, LogsError, AllDone,
     NextSection, Loading, At, Alive, poolVars, loadVars, dbVars, errVars,
     outVars, endVars
<1>7. CASE StartData
  BY <1>7 DEF StartData, Enters, Section, Loading, At, Alive, poolVars,
     loadVars, dbVars, errVars, outVars, endVars
<1>8. ASSUME NEW b \in ToSet(Backups), StartBackup(b)
      PROVE  Loading'
  <2>1. pc' = "load" => \A c \in Conns : entry'[c] = c
    BY <1>8 DEF StartBackup, Fatal, At
  <2> QED
    BY <2>1, OwnPlaces DEF Loading
<1>9. CASE DataDone
  BY <1>9 DEF DataDone, NextSection, Loading, At, Alive, poolVars, loadVars,
     dbVars, errVars, outVars, endVars
<1>10. CASE FinishBackup
  BY <1>10 DEF FinishBackup, Fatal, AllDone, Loading, At, Alive, poolVars,
     loadVars, dbVars, errVars, outVars, endVars
<1>11. ASSUME NEW c \in Conns, TakeStatement(c)
      PROVE  Loading'
  BY <1>11 DEF TakeStatement, Loading, At, Alive, poolVars, loadVars, dbVars,
     errVars, outVars, endVars
<1>12. ASSUME NEW c \in Conns, WorkerEnds(c)
      PROVE  Loading'
  BY <1>12 DEF WorkerEnds, Loading, At, Alive, poolVars, loadVars, dbVars,
     errVars, outVars, endVars
<1>13. ASSUME NEW c \in Conns, StatementSucceeds(c)
      PROVE  Loading'
  BY <1>13 DEF StatementSucceeds, PoolOpen, Loading, At, Alive, poolVars,
     loadVars, dbVars, errVars, outVars, endVars
<1>14. ASSUME NEW c \in Conns, StatementFails(c)
      PROVE  Loading'
  BY <1>14 DEF StatementFails, PoolOpen, WithErrorTable, Loading, At, Alive,
     poolVars, loadVars, dbVars, errVars, outVars, endVars
<1>15. ASSUME NEW c \in Conns, ConnectionGone(c)
      PROVE  Loading'
  BY <1>15 DEF ConnectionGone, PoolOpen, Loading, At, Alive, poolVars,
     loadVars, dbVars, errVars, outVars, endVars
<1>16. ASSUME NEW c \in Conns, SetGUCs(c)
      PROVE  Loading'
  BY <1>16 DEF SetGUCs, LogsError, PoolOpen, Loading, At, Alive, poolVars,
     loadVars, dbVars, errVars, outVars, endVars
<1>17. ASSUME NEW c \in Conns, LoaderEnds(c)
      PROVE  Loading'
  BY <1>17 DEF LoaderEnds, Loading, At, Alive, poolVars, loadVars, dbVars,
     errVars, outVars, endVars
<1>18. ASSUME NEW c \in Conns, TakeTable(c)
      PROVE  Loading'
  BY <1>18 DEF TakeTable, LogsError, PoolOpen, Loading, At, Alive, poolVars,
     loadVars, dbVars, errVars, outVars, endVars
<1>19. ASSUME NEW c \in Conns, TableLoaded(c)
      PROVE  Loading'
  <2>1. /\ pc' = pc /\ entry' \in {entry, [entry EXCEPT ![c] = @ + NumConns]}
        /\ pc = "load" /\ loading' = loading
    BY <1>19 DEF TableLoaded, PoolOpen, At, Alive, poolVars, loadVars, dbVars,
       errVars, outVars, endVars
  <2>2. entry \in [Conns -> Nat]
    BY DEF Types, DataTypes
  <2> QED
    BY <2>1, <2>2, OwnPlaces DEF Loading
<1>20. ASSUME NEW c \in Conns, NEW agent \in BOOLEAN, TableFails(c, agent)
      PROVE  Loading'
  <2>1. /\ pc' = pc /\ entry' \in {entry, [entry EXCEPT ![c] = @ + NumConns]}
        /\ pc = "load" /\ loading' = loading
    BY <1>20 DEF TableFails, LogsError, At, Alive, poolVars, loadVars, dbVars,
       errVars, outVars, endVars
  <2>2. entry \in [Conns -> Nat]
    BY DEF Types, DataTypes
  <2> QED
    BY <2>1, <2>2, OwnPlaces DEF Loading
<1>21. ASSUME NEW c \in Conns, LoaderPanics(c)
      PROVE  Loading'
  BY <1>21 DEF LoaderPanics, PoolOpen, Loading, At, Alive, poolVars, loadVars,
     dbVars, errVars, outVars, endVars
<1> QED
  BY StepKinds, <1>1, <1>2, <1>3, <1>4, <1>5, <1>6, <1>7, <1>8, <1>9, <1>10,
     <1>11, <1>12, <1>13, <1>14, <1>15, <1>16, <1>17, <1>18, <1>19, <1>20,
     <1>21

\* A busy loader has a table.
LEMMA BusyLoadersStep ==
  ASSUME Types, BusyLoaders, [Next]_vars
  PROVE  BusyLoaders'
<1>0. \A b : EntriesOf(b)' = EntriesOf(b)
  BY PlanKept
<1>1. CASE Outside
  BY <1>0, OutsideSections, <1>1 DEF Outside, BusyLoaders, HasTable, Types,
     DataTypes, PoolTypes
<1>2. CASE Passed
  BY <1>0, <1>2 DEF Passed, BusyLoaders, HasTable, Types, DataTypes, PoolTypes
<1>3. CASE RestoreSchemas
  BY <1>0, <1>3 DEF RestoreSchemas, Fatal, LogsError, NextSection, Enters,
     Section, BusyLoaders, HasTable, Types, DataTypes, PoolTypes, At, Alive,
     poolVars, loadVars, dbVars, errVars, outVars, endVars
<1>4. CASE StartSection
  BY <1>0, <1>4 DEF StartSection, Enters, Section, StartPool, NextSection,
     BusyLoaders, HasTable, Types, DataTypes, PoolTypes, At, Alive, poolVars,
     loadVars, dbVars, errVars, outVars, endVars
<1>5. CASE StartQDData
  BY <1>0, <1>5 DEF StartQDData, Fatal, LogsError, Enters, Section, StartPool,
     NextSection, BusyLoaders, HasTable, Types, DataTypes, PoolTypes, At,
     Alive, poolVars, loadVars, dbVars, errVars, outVars, endVars
<1>6. CASE FinishStatements
  BY <1>0, <1>6 DEF FinishStatements, Fatal, ReportErrors, LogsError, AllDone,
     NextSection, BusyLoaders, HasTable, Types, DataTypes, PoolTypes, At,
     Alive, poolVars, loadVars, dbVars, errVars, outVars, endVars
<1>7. CASE StartData
  BY <1>0, <1>7 DEF StartData, Enters, Section, BusyLoaders, HasTable, Types,
     DataTypes, PoolTypes, At, Alive, poolVars, loadVars, dbVars, errVars,
     outVars, endVars
<1>8. ASSUME NEW b \in ToSet(Backups), StartBackup(b)
      PROVE  BusyLoaders'
  BY <1>0, <1>8 DEF StartBackup, Fatal, BusyLoaders, HasTable, Types,
     DataTypes, PoolTypes, At, Alive, poolVars, loadVars, dbVars, errVars,
     outVars, endVars
<1>9. CASE DataDone
  BY <1>0, <1>9 DEF DataDone, NextSection, BusyLoaders, HasTable, Types,
     DataTypes, PoolTypes, At, Alive, poolVars, loadVars, dbVars, errVars,
     outVars, endVars
<1>10. CASE FinishBackup
  BY <1>0, <1>10 DEF FinishBackup, Fatal, AllDone, BusyLoaders, HasTable,
     Types, DataTypes, PoolTypes, At, Alive, poolVars, loadVars, dbVars,
     errVars, outVars, endVars
<1>11. ASSUME NEW c \in Conns, TakeStatement(c)
      PROVE  BusyLoaders'
  BY <1>0, <1>11 DEF TakeStatement, BusyLoaders, HasTable, Types, DataTypes,
     PoolTypes, At, Alive, poolVars, loadVars, dbVars, errVars, outVars,
     endVars
<1>12. ASSUME NEW c \in Conns, WorkerEnds(c)
      PROVE  BusyLoaders'
  BY <1>0, <1>12 DEF WorkerEnds, BusyLoaders, HasTable, Types, DataTypes,
     PoolTypes, At, Alive, poolVars, loadVars, dbVars, errVars, outVars,
     endVars
<1>13. ASSUME NEW c \in Conns, StatementSucceeds(c)
      PROVE  BusyLoaders'
  BY <1>0, <1>13 DEF StatementSucceeds, PoolOpen, BusyLoaders, HasTable, Types,
     DataTypes, PoolTypes, At, Alive, poolVars, loadVars, dbVars, errVars,
     outVars, endVars
<1>14. ASSUME NEW c \in Conns, StatementFails(c)
      PROVE  BusyLoaders'
  BY <1>0, <1>14 DEF StatementFails, PoolOpen, WithErrorTable, BusyLoaders,
     HasTable, Types, DataTypes, PoolTypes, At, Alive, poolVars, loadVars,
     dbVars, errVars, outVars, endVars
<1>15. ASSUME NEW c \in Conns, ConnectionGone(c)
      PROVE  BusyLoaders'
  BY <1>0, <1>15 DEF ConnectionGone, PoolOpen, BusyLoaders, HasTable, Types,
     DataTypes, PoolTypes, At, Alive, poolVars, loadVars, dbVars, errVars,
     outVars, endVars
<1>16. ASSUME NEW c \in Conns, SetGUCs(c)
      PROVE  BusyLoaders'
  BY <1>0, <1>16 DEF SetGUCs, LogsError, PoolOpen, BusyLoaders, HasTable,
     Types, DataTypes, PoolTypes, At, Alive, poolVars, loadVars, dbVars,
     errVars, outVars, endVars
<1>17. ASSUME NEW c \in Conns, LoaderEnds(c)
      PROVE  BusyLoaders'
  BY <1>0, <1>17 DEF LoaderEnds, BusyLoaders, HasTable, Types, DataTypes,
     PoolTypes, At, Alive, poolVars, loadVars, dbVars, errVars, outVars,
     endVars
<1>18. ASSUME NEW c \in Conns, TakeTable(c)
      PROVE  BusyLoaders'
  BY <1>0, <1>18 DEF TakeTable, LogsError, PoolOpen, BusyLoaders, HasTable,
     Types, DataTypes, PoolTypes, At, Alive, poolVars, loadVars, dbVars,
     errVars, outVars, endVars
<1>19. ASSUME NEW c \in Conns, TableLoaded(c)
      PROVE  BusyLoaders'
  BY <1>0, <1>19 DEF TableLoaded, PoolOpen, BusyLoaders, HasTable, Types,
     DataTypes, PoolTypes, At, Alive, poolVars, loadVars, dbVars, errVars,
     outVars, endVars
<1>20. ASSUME NEW c \in Conns, NEW agent \in BOOLEAN, TableFails(c, agent)
      PROVE  BusyLoaders'
  BY <1>0, <1>20 DEF TableFails, LogsError, BusyLoaders, HasTable, Types,
     DataTypes, PoolTypes, At, Alive, poolVars, loadVars, dbVars, errVars,
     outVars, endVars
<1>21. ASSUME NEW c \in Conns, LoaderPanics(c)
      PROVE  BusyLoaders'
  BY <1>0, <1>21 DEF LoaderPanics, PoolOpen, BusyLoaders, HasTable, Types,
     DataTypes, PoolTypes, At, Alive, poolVars, loadVars, dbVars, errVars,
     outVars, endVars
<1> QED
  BY StepKinds, <1>1, <1>2, <1>3, <1>4, <1>5, <1>6, <1>7, <1>8, <1>9, <1>10,
     <1>11, <1>12, <1>13, <1>14, <1>15, <1>16, <1>17, <1>18, <1>19, <1>20,
     <1>21

-----------------------------------------------------------------------------
(* The tables that failed                                                  *)

LEMMA MoreFailed ==
  ASSUME NEW X, failed' = failed \cup X, NEW types
  PROVE  TablesOf(types)' = TablesOf(types) \cup {s.object :
         s \in {x \in X : x.type \in types}}
BY DEF TablesOf

\* Tables that failed are noted when they fail.
LEMMA ErrorTablesStep ==
  ASSUME Types, Ready, Places, Pool, ErrorTables, [Next]_vars
  PROVE  ErrorTables'
<1>0. /\ UsesHelpers' = UsesHelpers /\ OnErrorContinue' = OnErrorContinue
      /\ errorCode' < 2 => errorCode < 2
      /\ ~wasTerminated' => ~wasTerminated
  BY PlanKept, KeptStep DEF Kept, Types, EndTypes
<1>a. UNCHANGED <<errorTables, failed>> => ErrorTables'
  BY <1>0 DEF ErrorTables, TablesOf
<1>1. CASE Outside
  BY <1>a, <1>1 DEF Outside
<1>2. CASE Passed
  BY <1>a, <1>2 DEF Passed
<1>3. CASE RestoreSchemas
  <2>1. PICK X : failed' = failed \cup X /\ \A s \in X : s.type = "SCHEMA"
    <3>1. \A s \in ToSet(StatementsOf(Predata, {"SCHEMA"})) : s.type = "SCHEMA"
      BY Selections
    <3> QED
      BY <3>1, <1>3 DEF RestoreSchemas
  <2>2. TablesOf({"TABLE"})' = TablesOf({"TABLE"})
        /\ TablesOf({"COPY", "QD-DATA"})' = TablesOf({"COPY", "QD-DATA"})
    <3>1. {s.object : s \in {x \in X : x.type \in {"TABLE"}}} = {}
      BY <2>1
    <3>2. {s.object : s \in {x \in X : x.type \in {"COPY", "QD-DATA"}}} = {}
      BY <2>1
    <3>3. TablesOf({"TABLE"})' = TablesOf({"TABLE"}) \cup {s.object :
            s \in {x \in X : x.type \in {"TABLE"}}}
      BY <2>1, MoreFailed
    <3>4. TablesOf({"COPY", "QD-DATA"})' =
            TablesOf({"COPY", "QD-DATA"}) \cup {s.object :
              s \in {x \in X : x.type \in {"COPY", "QD-DATA"}}}
      BY <2>1, MoreFailed
    <3> QED
      BY <3>1, <3>2, <3>3, <3>4
  <2>3. errorTables' = errorTables
    BY <1>3 DEF RestoreSchemas, errVars
  <2> QED
    BY <1>0, <2>2, <2>3 DEF ErrorTables
<1>4. CASE StartSection
  BY <1>a, <1>4 DEF StartSection, Enters, Section, StartPool, NextSection, At,
     Alive, poolVars, loadVars, dbVars, errVars, outVars, endVars
<1>5. CASE StartQDData
  <2>1. PICK X : /\ failed' = failed \cup X /\ \A s \in X : s.type = "QD-DATA"
                 /\ \/ errorCode' = 2
                    \/ errorTables' = [errorTables EXCEPT !.data = @ \cup {s.object :
                         s \in X}]
    <3>1. \A s \in ToSet(Batch("qd-data")) : s.type = "QD-DATA"
      BY Selections DEF Batch
    <3> QED
      BY <3>1, <1>5 DEF StartQDData, Fatal
  <2>2. TablesOf({"TABLE"})' = TablesOf({"TABLE"})
    <3>1. {s.object : s \in {x \in X : x.type \in {"TABLE"}}} = {}
      BY <2>1
    <3>2. TablesOf({"TABLE"})' = TablesOf({"TABLE"}) \cup {s.object :
            s \in {x \in X : x.type \in {"TABLE"}}}
      BY <2>1, MoreFailed
    <3> QED
      BY <3>1, <3>2
  <2>3. TablesOf({"COPY", "QD-DATA"})' = TablesOf({"COPY",
          "QD-DATA"}) \cup {s.object : s \in X}
    <3>1. {s.object : s \in {x \in X : x.type \in {"COPY", "QD-DATA"}}} = {s.object :
            s \in X}
      BY <2>1
    <3>2. TablesOf({"COPY", "QD-DATA"})' =
            TablesOf({"COPY", "QD-DATA"}) \cup {s.object :
              s \in {x \in X : x.type \in {"COPY", "QD-DATA"}}}
      BY <2>1, MoreFailed
    <3> QED
      BY <3>1, <3>2
  <2>4. errorCode' < 2 => /\ errorTables'.metadata = errorTables.metadata
                          /\ errorTables'.data = errorTables.data \cup {s.object :
                               s \in X}
    BY <2>1 DEF Types, PoolTypes
  <2> QED
    BY <1>0, <2>2, <2>3, <2>4 DEF ErrorTables
<1>6. CASE FinishStatements
  BY <1>a, <1>6 DEF FinishStatements, Fatal, ReportErrors, LogsError, AllDone,
     NextSection, At, Alive, poolVars, loadVars, dbVars, errVars, outVars,
     endVars
<1>7. CASE StartData
  BY <1>a, <1>7 DEF StartData, Enters, Section, At, Alive, poolVars, loadVars,
     dbVars, errVars, outVars, endVars
<1>8. ASSUME NEW b \in ToSet(Backups), StartBackup(b)
      PROVE  ErrorTables'
  BY <1>a, <1>8 DEF StartBackup, Fatal, At, Alive, poolVars, loadVars, dbVars,
     errVars, outVars, endVars
<1>9. CASE DataDone
  BY <1>a, <1>9 DEF DataDone, NextSection, At, Alive, poolVars, loadVars,
     dbVars, errVars, outVars, endVars
<1>10. CASE FinishBackup
  BY <1>a, <1>10 DEF FinishBackup, Fatal, AllDone, At, Alive, poolVars,
     loadVars, dbVars, errVars, outVars, endVars
<1>11. ASSUME NEW c \in Conns, TakeStatement(c)
      PROVE  ErrorTables'
  BY <1>a, <1>11 DEF TakeStatement, At, Alive, poolVars, loadVars, dbVars,
     errVars, outVars, endVars
<1>12. ASSUME NEW c \in Conns, WorkerEnds(c)
      PROVE  ErrorTables'
  BY <1>a, <1>12 DEF WorkerEnds, At, Alive, poolVars, loadVars, dbVars,
     errVars, outVars, endVars
<1>13. ASSUME NEW c \in Conns, StatementSucceeds(c)
      PROVE  ErrorTables'
  BY <1>a, <1>13 DEF StatementSucceeds, PoolOpen, At, Alive, poolVars,
     loadVars, dbVars, errVars, outVars, endVars
<1>14. ASSUME NEW c \in Conns, StatementFails(c)
      PROVE  ErrorTables'
  <2> DEFINE s == running[c]
  <2>1. /\ pc = "run" /\ worker[c] = "busy" /\ failed' = failed \cup {s}
        /\ IF OnErrorContinue THEN errorTables' = WithErrorTable(s)
           ELSE errorTables' = errorTables
    BY <1>14 DEF StatementFails, At
  <2>2. s.type \in StatementTypes
    BY <2>1, ExecutedTypes
  <2> HIDE DEF s
  <2>3. /\ TablesOf({"TABLE"})' =
             IF s.type = "TABLE" THEN TablesOf({"TABLE"}) \cup {s.object}
                                  ELSE TablesOf({"TABLE"})
        /\ TablesOf({"COPY", "QD-DATA"})' =
             IF s.type = "QD-DATA" THEN TablesOf({"COPY", "QD-DATA"}) \cup {s.object}
             ELSE TablesOf({"COPY", "QD-DATA"})
    <3>1. s.type # "COPY"
      BY <2>2 DEF StatementTypes
    <3>2. TablesOf({"TABLE"})' = TablesOf({"TABLE"}) \cup {r.object :
            r \in {x \in {s} : x.type \in {"TABLE"}}}
          /\ TablesOf({"COPY", "QD-DATA"})' = TablesOf({"COPY",
               "QD-DATA"}) \cup {r.object :
                 r \in {x \in {s} : x.type \in {"COPY", "QD-DATA"}}}
      BY <2>1, MoreFailed
    <3>3. {r.object : r \in {x \in {s} : x.type \in {"TABLE"}}} =
            IF s.type = "TABLE" THEN {s.object} ELSE {}
      OBVIOUS
    <3>4. {r.object : r \in {x \in {s} : x.type \in {"COPY", "QD-DATA"}}} =
            IF s.type = "QD-DATA" THEN {s.object} ELSE {}
      BY <3>1
    <3> QED
      BY <3>2, <3>3, <3>4
  <2>4. OnErrorContinue =>
          /\ errorTables'.metadata =
               IF s.type = "TABLE" THEN errorTables.metadata \cup {s.object}
                                     ELSE errorTables.metadata
          /\ errorTables'.data =
               IF s.type = "QD-DATA" THEN errorTables.data \cup {s.object}
                                 ELSE errorTables.data
    BY <2>1 DEF WithErrorTable, Types, PoolTypes
  <2> QED
    BY <1>0, <2>3, <2>4 DEF ErrorTables
<1>15. ASSUME NEW c \in Conns, ConnectionGone(c)
      PROVE  ErrorTables'
  BY <1>a, <1>15 DEF ConnectionGone, PoolOpen, At, Alive, poolVars, loadVars,
     dbVars, errVars, outVars, endVars
<1>16. ASSUME NEW c \in Conns, SetGUCs(c)
      PROVE  ErrorTables'
  BY <1>a, <1>16 DEF SetGUCs, LogsError, PoolOpen, At, Alive, poolVars,
     loadVars, dbVars, errVars, outVars, endVars
<1>17. ASSUME NEW c \in Conns, LoaderEnds(c)
      PROVE  ErrorTables'
  BY <1>a, <1>17 DEF LoaderEnds, At, Alive, poolVars, loadVars, dbVars,
     errVars, outVars, endVars
<1>18. ASSUME NEW c \in Conns, TakeTable(c)
      PROVE  ErrorTables'
  BY <1>a, <1>18 DEF TakeTable, LogsError, PoolOpen, At, Alive, poolVars,
     loadVars, dbVars, errVars, outVars, endVars
<1>19. ASSUME NEW c \in Conns, TableLoaded(c)
      PROVE  ErrorTables'
  BY <1>a, <1>19 DEF TableLoaded, PoolOpen, At, Alive, poolVars, loadVars,
     dbVars, errVars, outVars, endVars
<1>20. ASSUME NEW c \in Conns, NEW agent \in BOOLEAN, TableFails(c, agent)
      PROVE  ErrorTables'
  <2> DEFINE t == NextTable(c)
  <2>1. failed' = failed \cup {Copy(t)}
    BY <1>20 DEF TableFails
  <2>2. OnErrorContinue => \/ errorTables' = errorTables /\ UsesHelpers
                           \/ errorTables' = [errorTables EXCEPT !.data = @ \cup {t}]
    BY <1>20 DEF TableFails
  <2> HIDE DEF t
  <2>3. /\ TablesOf({"TABLE"})' = TablesOf({"TABLE"})
        /\ TablesOf({"COPY", "QD-DATA"})' = TablesOf({"COPY", "QD-DATA"}) \cup {t}
    <3>1. Copy(t).type = "COPY" /\ Copy(t).object = t
      BY DEF Copy
    <3> DEFINE X == {Copy(t)}
    <3>2. {s.object : s \in {x \in X : x.type \in {"TABLE"}}} = {}
      BY <3>1
    <3>3. {s.object : s \in {x \in X : x.type \in {"COPY", "QD-DATA"}}} = {t}
      BY <3>1
    <3> HIDE DEF X
    <3>4. failed' = failed \cup X
      BY <2>1 DEF X
    <3>5. TablesOf({"TABLE"})' = TablesOf({"TABLE"}) \cup {s.object :
            s \in {x \in X : x.type \in {"TABLE"}}}
      BY <3>4, MoreFailed
    <3>6. TablesOf({"COPY", "QD-DATA"})' =
            TablesOf({"COPY", "QD-DATA"}) \cup {s.object :
              s \in {x \in X : x.type \in {"COPY", "QD-DATA"}}}
      BY <3>4, MoreFailed
    <3> QED
      BY <3>2, <3>3, <3>5, <3>6
  <2>4. OnErrorContinue =>
          /\ errorTables'.metadata = errorTables.metadata
          /\ \/ errorTables'.data = errorTables.data /\ UsesHelpers
             \/ errorTables'.data = errorTables.data \cup {t}
    BY <2>2 DEF Types, PoolTypes
  <2> QED
    BY <1>0, <2>3, <2>4 DEF ErrorTables
<1>21. ASSUME NEW c \in Conns, LoaderPanics(c)
      PROVE  ErrorTables'
  BY <1>a, <1>21 DEF LoaderPanics, PoolOpen, At, Alive, poolVars, loadVars,
     dbVars, errVars, outVars, endVars
<1> QED
  BY StepKinds, <1>1, <1>2, <1>3, <1>4, <1>5, <1>6, <1>7, <1>8, <1>9, <1>10,
     <1>11, <1>12, <1>13, <1>14, <1>15, <1>16, <1>17, <1>18, <1>19, <1>20,
     <1>21

-----------------------------------------------------------------------------
(* The worker pool                                                         *)

LEMMA HeadAndTail ==
  ASSUME NEW S, NEW ss \in Seq(S), ss # <<>>
  PROVE  /\ Head(ss) \in S /\ Tail(ss) \in Seq(S)
         /\ ToSet(ss) = {Head(ss)} \cup ToSet(Tail(ss))
         /\ 1 \in DOMAIN ss /\ Head(ss) = ss[1]
         /\ \A i \in DOMAIN Tail(ss) : i + 1 \in DOMAIN ss /\ Tail(ss)[i] = ss[i + 1]
<1>1. /\ Len(ss) \in Nat \ {0} /\ Head(ss) \in S /\ Tail(ss) \in Seq(S)
      /\ DOMAIN ss = 1..Len(ss) /\ DOMAIN Tail(ss) = 1..(Len(ss) - 1)
      /\ Head(ss) = ss[1]
  OBVIOUS
<1>2. \A i \in 1..(Len(ss) - 1) : Tail(ss)[i] = ss[i + 1]
  OBVIOUS
<1>3. \A i \in 1..Len(ss) : i = 1
        \/ (i - 1 \in 1..(Len(ss) - 1) /\ ss[i] = Tail(ss)[i - 1])
  BY <1>1, <1>2
<1>4. ToSet(ss) = {Head(ss)} \cup ToSet(Tail(ss))
  <2>1. ASSUME NEW x \in ToSet(ss) PROVE x = Head(ss) \/ x \in ToSet(Tail(ss))
    <3>1. PICK i \in 1..Len(ss) : x = ss[i]
      BY <1>1 DEF ToSet
    <3> QED
      BY <1>1, <1>3, <3>1 DEF ToSet
  <2>2. ASSUME NEW x \in ToSet(Tail(ss)) PROVE x \in ToSet(ss)
    <3>1. PICK i \in 1..(Len(ss) - 1) : x = Tail(ss)[i]
      BY <1>1 DEF ToSet
    <3>2. i + 1 \in DOMAIN ss /\ x = ss[i + 1]
      BY <1>1, <1>2, <3>1
    <3> QED
      BY <3>2 DEF ToSet
  <2>3. Head(ss) \in ToSet(ss)
    BY <1>1 DEF ToSet
  <2> QED
    BY <2>1, <2>2, <2>3
<1> QED
  BY <1>1, <1>2, <1>4

\* What a section has to do stays the same while it is done.
LEMMA WorkKept ==
  ASSUME Types, [Next]_vars
  PROVE  /\ Asked' = Asked /\ \A n \in 1..11 : Works'[n] = Works[n]
         /\ done' = done => Works' = Works
         /\ \A s : s.type # "QD-DATA" /\ done' = done \cup {s} => Works' = Works
<1>1. cmd' = cmd
  BY KeptStep DEF Kept
<1>2. done' = done => QDDone' = QDDone
  BY DEF QDDone
<1>3. \A s : s.type # "QD-DATA" /\ done' = done \cup {s} => QDDone' = QDDone
  BY DEF QDDone
<1> QED
  BY <1>1, <1>2, <1>3, WorksFixed

\* The section whose statements are given to the pool.
LEMMA PoolStarts ==
  ASSUME QDTables, StartSection
  PROVE  \E n \in {3, 4, 8, 9, 10, 11, 12} :
           LET ss == Batch(Sections[n]) IN
           /\ section = n /\ ss \in Seq(Works[n]) /\ ToSet(ss) = Works[n]
           /\ \/ ss = <<>> /\ pc' = "restore" /\ section' = n + 1
              \/ /\ ss # <<>> /\ pc' = "run" /\ section' = n /\ tasks' = ss
                 /\ worker'[0] = "idle"
                 /\ \A c \in Conns : worker'[c] \in {"idle", "done"}
<1>1. PICK p \in {"predata", "sequences", "batch-1", "batch-2", "batch-3",
                  "statistics", "analyze"} :
        Enters(p) /\ StartPool(Batch(p), NumConns > 1 /\ p \notin Serial)
  BY DEF StartSection
<1>2. section \in 1..12 /\ Sections[section] = p /\ pc = "restore"
  BY <1>1, SectionNumbers DEF Enters, Section, At
<1>3. section \in {3, 4, 8, 9, 10, 11, 12}
  <2>1. Sections[section] \in Pooled /\ Sections[section] # "qd-data"
    BY <1>1, <1>2 DEF Pooled
  <2> QED
    BY <1>2, <2>1, PooledSections, SectionNumbers
<1>4. Batch(p) \in Seq(Works[section]) /\ ToSet(Batch(p)) = Works[section]
  BY <1>2, <1>3, BatchIsWork
<1>5. \/ Batch(p) = <<>> /\ pc' = "restore" /\ section' = section + 1
      \/ /\ Batch(p) # <<>> /\ pc' = "run" /\ section' = section /\ tasks' = Batch(p)
         /\ worker'[0] = "idle" /\ \A c \in Conns : worker'[c] \in {"idle", "done"}
  BY <1>1, <1>2, TheConns DEF StartPool, NextSection
<1> QED
  BY <1>2, <1>3, <1>4, <1>5

LEMMA QDPoolStarts ==
  ASSUME QDTables, StartQDData
  PROVE  \E bad \in SUBSET Works[5] :
           LET ss == Keep(Batch("qd-data"), ToSet(Batch("qd-data")) \ bad) IN
           /\ section = 5 /\ failed' = failed \cup bad
           /\ ss \in Seq(Works[5]) /\ ToSet(ss) = Works[5] \ bad
           /\ \/ pc' = "recover" /\ section' = 5 /\ errorCode' = 2
              \/ ss = <<>> /\ pc' = "restore" /\ section' = 6
              \/ /\ ss # <<>> /\ pc' = "run" /\ section' = 5 /\ tasks' = ss
                 /\ worker'[0] = "idle"
                 /\ \A c \in Conns : worker'[c] \in {"idle", "done"}
<1> DEFINE B == Batch("qd-data")
<1>1. section = 5 /\ pc = "restore"
  BY SectionNumbers DEF StartQDData, Enters, Section, At
<1>2. B \in Seq(Works[5]) /\ ToSet(B) = Works[5]
  BY SectionNames, BatchIsWork
<1> HIDE DEF B
<1>3. PICK bad \in SUBSET ToSet(B) :
        /\ failed' = failed \cup bad
        /\ \/ Fatal /\ UNCHANGED section
           \/ StartPool(Keep(B, ToSet(B) \ bad), NumConns > 1)
  BY DEF StartQDData, B
<1> DEFINE ss == Keep(B, ToSet(B) \ bad)
<1>4. ss \in Seq(Works[5]) /\ ToSet(ss) = Works[5] \ bad
  <2>1. B \in Seq(ToSet(B)) /\ ToSet(B) \cap (ToSet(B) \ bad) = Works[5] \ bad
    BY <1>2
  <2>2. ss \in Seq(Works[5] \ bad) /\ ToSet(ss) = Works[5] \ bad
    BY <2>1, KeepIsSelection
  <2> HIDE DEF ss
  <2> QED
    BY <2>2
<1>5. \/ pc' = "recover" /\ section' = 5 /\ errorCode' = 2
      \/ ss = <<>> /\ pc' = "restore" /\ section' = 6
      \/ /\ ss # <<>> /\ pc' = "run" /\ section' = 5 /\ tasks' = ss
         /\ worker'[0] = "idle" /\ \A c \in Conns : worker'[c] \in {"idle", "done"}
  BY <1>1, <1>3, TheConns DEF StartPool, NextSection, Fatal
<1> QED
  BY <1>1, <1>2, <1>3, <1>4, <1>5 DEF B

\* No statement of a section is lost.
LEMMA PoolStep ==
  ASSUME Types, Ready, Places, QDTables, Pool, [Next]_vars
  PROVE  Pool'
<1>a. pc' # "run" => Pool'
  BY DEF Pool
<1>b. pc = "run" => section \in 1..12 /\ tasks \in Seq(Works[section])
  BY SectionNumbers DEF Places, Pool
<1>c. done' = done => Works' = Works
  BY WorkKept
<1>1. CASE Outside
  <2> SUFFICES ASSUME pc' = "run" PROVE Pool'
    BY <1>a
  <2>1. pc = "run" /\ Works' = Works
    BY <1>1, OutsideSections, WorkKept DEF Outside
  <2>2. ~wasTerminated' => ~wasTerminated
    BY <1>1 DEF Outside
  <2> QED
    BY <1>1, <2>1, <2>2 DEF Outside, Pool, Executing
<1>2. CASE Passed
  BY <1>a, <1>2 DEF Passed
<1>3. CASE RestoreSchemas
  BY <1>a, <1>3 DEF RestoreSchemas, Fatal, LogsError, NextSection, Enters,
     Section, At, Alive, poolVars, loadVars, dbVars, errVars, outVars, endVars
<1>4. CASE StartSection
  <2>1. PICK n \in {3, 4, 8, 9, 10, 11, 12} :
          LET ss == Batch(Sections[n]) IN
          /\ section = n /\ ss \in Seq(Works[n]) /\ ToSet(ss) = Works[n]
          /\ \/ ss = <<>> /\ pc' = "restore" /\ section' = n + 1
             \/ /\ ss # <<>> /\ pc' = "run" /\ section' = n /\ tasks' = ss
                /\ worker'[0] = "idle"
                /\ \A c \in Conns : worker'[c] \in {"idle", "done"}
    BY <1>4, PoolStarts
  <2>2. Works' = Works
    BY <1>4, WorkKept DEF StartSection, dbVars
  <2> QED
    BY <2>1, <2>2, TheConns DEF Pool, Executing
<1>5. CASE StartQDData
  <2>1. PICK bad \in SUBSET Works[5] :
          LET ss == Keep(Batch("qd-data"), ToSet(Batch("qd-data")) \ bad) IN
          /\ section = 5 /\ failed' = failed \cup bad
          /\ ss \in Seq(Works[5]) /\ ToSet(ss) = Works[5] \ bad
          /\ \/ pc' = "recover" /\ section' = 5 /\ errorCode' = 2
             \/ ss = <<>> /\ pc' = "restore" /\ section' = 6
             \/ /\ ss # <<>> /\ pc' = "run" /\ section' = 5 /\ tasks' = ss
                /\ worker'[0] = "idle"
                /\ \A c \in Conns : worker'[c] \in {"idle", "done"}
    BY <1>5, QDPoolStarts
  <2>2. Works' = Works
    BY <1>5, WorkKept DEF StartQDData
  <2> QED
    BY <2>1, <2>2, TheConns DEF Pool, Executing
<1>6. CASE FinishStatements
  BY <1>a, <1>6 DEF FinishStatements, Fatal, ReportErrors, LogsError, AllDone,
     NextSection, At, Alive, poolVars, loadVars, dbVars, errVars, outVars,
     endVars
<1>7. CASE StartData
  BY <1>a, <1>7 DEF StartData, Enters, Section, At, Alive, poolVars, loadVars,
     dbVars, errVars, outVars, endVars
<1>8. ASSUME NEW b \in ToSet(Backups), StartBackup(b)
      PROVE  Pool'
  BY <1>a, <1>8 DEF StartBackup, Fatal, At, Alive, poolVars, loadVars, dbVars,
     errVars, outVars, endVars
<1>9. CASE DataDone
  BY <1>a, <1>9 DEF DataDone, NextSection, At, Alive, poolVars, loadVars,
     dbVars, errVars, outVars, endVars
<1>10. CASE FinishBackup
  BY <1>a, <1>10 DEF FinishBackup, Fatal, AllDone, At, Alive, poolVars,
     loadVars, dbVars, errVars, outVars, endVars
<1>11. ASSUME NEW c \in Conns, TakeStatement(c)
      PROVE  Pool'
  <2>1. /\ pc = "run" /\ pc' = "run" /\ section' = section /\ tasks # <<>>
        /\ tasks' = Tail(tasks) /\ worker[c] = "idle" /\ done' = done
             /\ failed' = failed
        /\ fatalBy' = fatalBy /\ wasTerminated' = wasTerminated
    BY <1>11 DEF TakeStatement, At, dbVars, endVars
  <2>2. Works' = Works /\ tasks \in Seq(Works[section])
    BY <2>1, <1>b, <1>c
  <2>3. /\ Head(tasks) \in Works[section] /\ Tail(tasks) \in Seq(Works[section])
        /\ ToSet(tasks) = {Head(tasks)} \cup ToSet(Tail(tasks))
    BY <2>1, <2>2, HeadAndTail
  <2>4. worker \in [Conns -> {"idle", "busy", "done", "gucs"}]
        /\ running = [d \in Conns |-> running[d]]
    BY DEF Types, PoolTypes
  <2>5. CASE (wasTerminated \/ fatalBy # -1) /\ worker' = [worker EXCEPT ![c] = "done"]
             /\ running' = running
    BY <2>1, <2>2, <2>3, <2>4, <2>5 DEF Pool, Executing
  <2>6. CASE worker' = [worker EXCEPT ![c] = "busy"]
             /\ running' = [running EXCEPT ![c] = Head(tasks)]
    BY <2>1, <2>2, <2>3, <2>4, <2>6 DEF Pool, Executing
  <2> QED
    BY <1>11, <2>5, <2>6 DEF TakeStatement
<1>12. ASSUME NEW c \in Conns, WorkerEnds(c)
      PROVE  Pool'
  <2>1. /\ pc = "run" /\ pc' = "run" /\ section' = section /\ tasks = <<>>
        /\ tasks' = tasks /\ worker[c] = "idle" /\ done' = done /\ failed' = failed
        /\ fatalBy' = fatalBy /\ wasTerminated' = wasTerminated /\ running' = running
        /\ worker' = [worker EXCEPT ![c] = "done"]
    BY <1>12 DEF WorkerEnds, At, dbVars, endVars
  <2>2. Works' = Works
    BY <2>1, <1>c
  <2>3. worker \in [Conns -> {"idle", "busy", "done", "gucs"}]
    BY DEF Types, PoolTypes
  <2> QED
    BY <2>1, <2>2, <2>3 DEF Pool, Executing
<1>13. ASSUME NEW c \in Conns, StatementSucceeds(c)
      PROVE  Pool'
  <2>1. /\ pc = "run" /\ pc' = "run" /\ section' = section /\ worker[c] = "busy"
        /\ tasks' = tasks /\ done' = done \cup {running[c]} /\ failed' = failed
        /\ fatalBy' = fatalBy /\ wasTerminated' = wasTerminated
        /\ running' = [running EXCEPT ![c] = NoStatement]
        /\ worker' = [worker EXCEPT ![c] = "idle"]
    BY <1>13 DEF StatementSucceeds, At, endVars
  <2>2. Works'[section] = Works[section]
    <3>1. /\ section \in {3, 4, 5, 8, 9, 10, 11, 12}
          /\ running[c].type = "QD-DATA" <=> section = 5
      BY <2>1, ExecutedTypes
    <3>2. section \in 1..11 => Works'[section] = Works[section]
      BY WorkKept
    <3>3. running[c].type # "QD-DATA" => Works' = Works
      BY <2>1, WorkKept
    <3> QED
      BY <3>1, <3>2, <3>3
  <2>3. worker \in [Conns -> {"idle", "busy", "done", "gucs"}]
        /\ running = [d \in Conns |-> running[d]]
    BY DEF Types, PoolTypes
  <2> QED
    BY <2>1, <2>2, <2>3 DEF Pool, Executing
<1>14. ASSUME NEW c \in Conns, StatementFails(c)
      PROVE  Pool'
  <2>1. /\ pc = "run" /\ pc' = "run" /\ section' = section /\ worker[c] = "busy"
        /\ tasks' = tasks /\ done' = done /\ failed' = failed \cup {running[c]}
        /\ fatalBy' \in {fatalBy, c} /\ wasTerminated' = wasTerminated
        /\ running' = [running EXCEPT ![c] = NoStatement]
        /\ worker' = [worker EXCEPT ![c] = "idle"]
    BY <1>14 DEF StatementFails, At, endVars
  <2>2. Works' = Works
    BY <2>1, WorkKept
  <2>3. worker \in [Conns -> {"idle", "busy", "done", "gucs"}] /\ c # -1
        /\ running = [d \in Conns |-> running[d]]
    BY TheConns DEF Types, PoolTypes
  <2> QED
    BY <2>1, <2>2, <2>3 DEF Pool, Executing
<1>15. ASSUME NEW c \in Conns, ConnectionGone(c)
      PROVE  Pool'
  <2>1. /\ pc = "run" /\ section' = section /\ worker[c] = "busy"
        /\ tasks' = tasks /\ done' = done /\ wasTerminated' = wasTerminated
        /\ running' = [running EXCEPT ![c] = NoStatement] /\ "pool" \notin setUp
        /\ worker' = [worker EXCEPT ![c] = "done"]
    BY <1>15 DEF ConnectionGone, PoolOpen, At, dbVars, endVars
  <2>2. Works' = Works /\ wasTerminated
    BY <2>1, WorkKept DEF Ready
  <2>3. worker \in [Conns -> {"idle", "busy", "done", "gucs"}]
        /\ running = [d \in Conns |-> running[d]]
    BY DEF Types, PoolTypes
  <2> QED
    BY <2>1, <2>2, <2>3 DEF Pool, Executing
<1>16. ASSUME NEW c \in Conns, SetGUCs(c)
      PROVE  Pool'
  BY <1>a, <1>16 DEF SetGUCs, LogsError, PoolOpen, At, Alive, poolVars,
     loadVars, dbVars, errVars, outVars, endVars
<1>17. ASSUME NEW c \in Conns, LoaderEnds(c)
      PROVE  Pool'
  BY <1>a, <1>17 DEF LoaderEnds, At, Alive, poolVars, loadVars, dbVars,
     errVars, outVars, endVars
<1>18. ASSUME NEW c \in Conns, TakeTable(c)
      PROVE  Pool'
  BY <1>a, <1>18 DEF TakeTable, LogsError, PoolOpen, At, Alive, poolVars,
     loadVars, dbVars, errVars, outVars, endVars
<1>19. ASSUME NEW c \in Conns, TableLoaded(c)
      PROVE  Pool'
  BY <1>a, <1>19 DEF TableLoaded, PoolOpen, At, Alive, poolVars, loadVars,
     dbVars, errVars, outVars, endVars
<1>20. ASSUME NEW c \in Conns, NEW agent \in BOOLEAN, TableFails(c, agent)
      PROVE  Pool'
  BY <1>a, <1>20 DEF TableFails, LogsError, At, Alive, poolVars, loadVars,
     dbVars, errVars, outVars, endVars
<1>21. ASSUME NEW c \in Conns, LoaderPanics(c)
      PROVE  Pool'
  BY <1>a, <1>21 DEF LoaderPanics, PoolOpen, At, Alive, poolVars, loadVars,
     dbVars, errVars, outVars, endVars
<1> QED
  BY StepKinds, <1>1, <1>2, <1>3, <1>4, <1>5, <1>6, <1>7, <1>8, <1>9, <1>10,
     <1>11, <1>12, <1>13, <1>14, <1>15, <1>16, <1>17, <1>18, <1>19, <1>20,
     <1>21

\* An index is in one place of the pool.
LEMMA EachIndexOnceStep ==
  ASSUME Types, Places, QDTables, Pool, EachIndexOnce, [Next]_vars
  PROVE  EachIndexOnce'
<1>a. pc' # "run" => EachIndexOnce'
  BY DEF EachIndexOnce
<1>b. ASSUME pc = "run", tasks' = tasks,
             \A d \in Conns : Executing(d)' => Executing(d) /\ running'[d] = running[d]
      PROVE  EachIndexOnce'
  BY <1>b DEF EachIndexOnce
<1>1. CASE Outside
  <2> SUFFICES ASSUME pc' = "run" PROVE EachIndexOnce'
    BY <1>a
  <2>1. pc = "run"
    BY <1>1, OutsideSections
  <2> QED
    BY <1>1, <2>1, <1>b DEF Outside, Executing
<1>2. CASE Passed
  BY <1>a, <1>2 DEF Passed
<1>3. CASE RestoreSchemas
  BY <1>a, <1>3 DEF RestoreSchemas, Fatal, LogsError, NextSection, Enters,
     Section, At, Alive, poolVars, loadVars, dbVars, errVars, outVars, endVars
<1>4. CASE StartSection
  <2>1. PICK n \in {3, 4, 8, 9, 10, 11, 12} :
          LET ss == Batch(Sections[n]) IN
          /\ section = n /\ ss \in Seq(Works[n]) /\ ToSet(ss) = Works[n]
          /\ \/ ss = <<>> /\ pc' = "restore" /\ section' = n + 1
             \/ /\ ss # <<>> /\ pc' = "run" /\ section' = n /\ tasks' = ss
                /\ worker'[0] = "idle"
                /\ \A c \in Conns : worker'[c] \in {"idle", "done"}
    BY <1>4, PoolStarts
  <2> SUFFICES ASSUME pc' = "run" PROVE EachIndexOnce'
    BY <1>a
  <2>2. tasks' = Batch(Sections[n]) /\ \A c \in Conns : worker'[c] # "busy"
    BY <2>1
  <2>3. \A i, j \in DOMAIN Batch(Sections[n]) :
          /\ Batch(Sections[n])[i].type = "INDEX"
          /\ Batch(Sections[n])[i] = Batch(Sections[n])[j]
          => i = j
    BY BatchHasIndexOnce
  <2> QED
    BY <2>2, <2>3 DEF EachIndexOnce, Executing
<1>5. CASE StartQDData
  <2>1. PICK bad \in SUBSET Works[5] :
          LET ss == Keep(Batch("qd-data"), ToSet(Batch("qd-data")) \ bad) IN
          /\ section = 5 /\ failed' = failed \cup bad
          /\ ss \in Seq(Works[5]) /\ ToSet(ss) = Works[5] \ bad
          /\ \/ pc' = "recover" /\ section' = 5 /\ errorCode' = 2
             \/ ss = <<>> /\ pc' = "restore" /\ section' = 6
             \/ /\ ss # <<>> /\ pc' = "run" /\ section' = 5 /\ tasks' = ss
                /\ worker'[0] = "idle"
                /\ \A c \in Conns : worker'[c] \in {"idle", "done"}
    BY <1>5, QDPoolStarts
  <2> SUFFICES ASSUME pc' = "run" PROVE EachIndexOnce'
    BY <1>a
  <2>2. tasks' \in Seq(Works[5]) /\ \A c \in Conns : worker'[c] # "busy"
    BY <2>1
  <2>3. \A i \in DOMAIN tasks' : tasks'[i] \in Works[5]
    BY <2>2
  <2>4. \A s \in Works[5] : s.type # "INDEX"
    BY WorkTypes
  <2> QED
    BY <2>2, <2>3, <2>4 DEF EachIndexOnce, Executing
<1>6. CASE FinishStatements
  BY <1>a, <1>6 DEF FinishStatements, Fatal, ReportErrors, LogsError, AllDone,
     NextSection, At, Alive, poolVars, loadVars, dbVars, errVars, outVars,
     endVars
<1>7. CASE StartData
  BY <1>a, <1>7 DEF StartData, Enters, Section, At, Alive, poolVars, loadVars,
     dbVars, errVars, outVars, endVars
<1>8. ASSUME NEW b \in ToSet(Backups), StartBackup(b)
      PROVE  EachIndexOnce'
  BY <1>a, <1>8 DEF StartBackup, Fatal, At, Alive, poolVars, loadVars, dbVars,
     errVars, outVars, endVars
<1>9. CASE DataDone
  BY <1>a, <1>9 DEF DataDone, NextSection, At, Alive, poolVars, loadVars,
     dbVars, errVars, outVars, endVars
<1>10. CASE FinishBackup
  BY <1>a, <1>10 DEF FinishBackup, Fatal, AllDone, At, Alive, poolVars,
     loadVars, dbVars, errVars, outVars, endVars
<1>11. ASSUME NEW c \in Conns, TakeStatement(c)
      PROVE  EachIndexOnce'
  <2>1. /\ pc = "run" /\ tasks # <<>> /\ tasks' = Tail(tasks)
    BY <1>11 DEF TakeStatement, At
  <2>2. /\ ToSet(tasks) = {Head(tasks)} \cup ToSet(Tail(tasks))
        /\ 1 \in DOMAIN tasks /\ Head(tasks) = tasks[1]
        /\ \A i \in DOMAIN Tail(tasks) : i + 1 \in DOMAIN tasks
             /\ Tail(tasks)[i] = tasks[i + 1]
        /\ \A i \in DOMAIN Tail(tasks) : i \in Nat \ {0}
    <3>1. tasks \in Seq(Works[section])
      BY <2>1 DEF Pool
    <3>2. \A i \in DOMAIN Tail(tasks) : i \in Nat \ {0}
      BY <3>1, <2>1
    <3> QED
      BY <2>1, <3>1, <3>2, HeadAndTail
  <2>3. \A i, j \in DOMAIN tasks' : tasks'[i].type = "INDEX"
          /\ tasks'[i] = tasks'[j] => i = j
    BY <2>1, <2>2 DEF EachIndexOnce
  <2>4. Head(tasks).type = "INDEX" => Head(tasks) \notin ToSet(Tail(tasks))
    <3> SUFFICES ASSUME Head(tasks).type = "INDEX", NEW i \in DOMAIN Tail(tasks),
                        Tail(tasks)[i] = Head(tasks)
                 PROVE  FALSE
      BY DEF ToSet
    <3>1. 1 = i + 1
      BY <2>1, <2>2 DEF EachIndexOnce
    <3> QED
      BY <2>2, <3>1
  <2>5. \/ worker' = [worker EXCEPT ![c] = "done"] /\ running' = running
        \/ worker' = [worker EXCEPT ![c] = "busy"]
           /\ running' = [running EXCEPT ![c] = Head(tasks)]
    BY <1>11 DEF TakeStatement
  <2>6. worker \in [Conns -> {"idle", "busy", "done", "gucs"}]
        /\ running = [d \in Conns |-> running[d]]
    BY DEF Types, PoolTypes
  <2>7. \A d \in Conns : Executing(d)' =>
          \/ Executing(d) /\ running'[d] = running[d]
          \/ d = c /\ running'[d] = Head(tasks)
    BY <2>1, <2>5, <2>6 DEF Executing
  <2>8. \A d \in Conns : Executing(d) /\ running[d].type = "INDEX" =>
          /\ running[d] # Head(tasks) /\ running[d] \notin ToSet(Tail(tasks))
          /\ \A e \in Conns : Executing(e) /\ running[d] = running[e] => d = e
    BY <2>1, <2>2 DEF EachIndexOnce
  <2> QED
    BY <2>1, <2>3, <2>4, <2>7, <2>8 DEF EachIndexOnce
<1>12. ASSUME NEW c \in Conns, WorkerEnds(c)
      PROVE  EachIndexOnce'
  <2>1. /\ pc = "run" /\ tasks' = tasks
        /\ \A d \in Conns : worker'[d] = "busy" =>
             worker[d] = "busy" /\ running'[d] = running[d]
    BY <1>12 DEF WorkerEnds, At, Alive, poolVars, loadVars, dbVars, errVars, outVars,
       endVars, Types, PoolTypes
  <2> QED
    BY <2>1, <1>b DEF Executing
<1>13. ASSUME NEW c \in Conns, StatementSucceeds(c)
      PROVE  EachIndexOnce'
  <2>1. /\ pc = "run" /\ tasks' = tasks
        /\ \A d \in Conns : worker'[d] = "busy" =>
             worker[d] = "busy" /\ running'[d] = running[d]
    BY <1>13 DEF StatementSucceeds, PoolOpen, At, Alive, poolVars, loadVars, dbVars,
       errVars, outVars, endVars, Types, PoolTypes
  <2> QED
    BY <2>1, <1>b DEF Executing
<1>14. ASSUME NEW c \in Conns, StatementFails(c)
      PROVE  EachIndexOnce'
  <2>1. /\ pc = "run" /\ tasks' = tasks
        /\ \A d \in Conns : worker'[d] = "busy" =>
             worker[d] = "busy" /\ running'[d] = running[d]
    BY <1>14 DEF StatementFails, PoolOpen, WithErrorTable, At, Alive, poolVars,
       loadVars, dbVars, errVars, outVars, endVars, Types, PoolTypes
  <2> QED
    BY <2>1, <1>b DEF Executing
<1>15. ASSUME NEW c \in Conns, ConnectionGone(c)
      PROVE  EachIndexOnce'
  <2>1. /\ pc = "run" /\ tasks' = tasks
        /\ \A d \in Conns : worker'[d] = "busy" =>
             worker[d] = "busy" /\ running'[d] = running[d]
    BY <1>15 DEF ConnectionGone, PoolOpen, At, Alive, poolVars, loadVars, dbVars,
       errVars, outVars, endVars, Types, PoolTypes
  <2> QED
    BY <2>1, <1>b DEF Executing
<1>16. ASSUME NEW c \in Conns, SetGUCs(c)
      PROVE  EachIndexOnce'
  BY <1>a, <1>16 DEF SetGUCs, LogsError, PoolOpen, At, Alive, poolVars,
     loadVars, dbVars, errVars, outVars, endVars
<1>17. ASSUME NEW c \in Conns, LoaderEnds(c)
      PROVE  EachIndexOnce'
  BY <1>a, <1>17 DEF LoaderEnds, At, Alive, poolVars, loadVars, dbVars,
     errVars, outVars, endVars
<1>18. ASSUME NEW c \in Conns, TakeTable(c)
      PROVE  EachIndexOnce'
  BY <1>a, <1>18 DEF TakeTable, LogsError, PoolOpen, At, Alive, poolVars,
     loadVars, dbVars, errVars, outVars, endVars
<1>19. ASSUME NEW c \in Conns, TableLoaded(c)
      PROVE  EachIndexOnce'
  BY <1>a, <1>19 DEF TableLoaded, PoolOpen, At, Alive, poolVars, loadVars,
     dbVars, errVars, outVars, endVars
<1>20. ASSUME NEW c \in Conns, NEW agent \in BOOLEAN, TableFails(c, agent)
      PROVE  EachIndexOnce'
  BY <1>a, <1>20 DEF TableFails, LogsError, At, Alive, poolVars, loadVars,
     dbVars, errVars, outVars, endVars
<1>21. ASSUME NEW c \in Conns, LoaderPanics(c)
      PROVE  EachIndexOnce'
  BY <1>a, <1>21 DEF LoaderPanics, PoolOpen, At, Alive, poolVars, loadVars,
     dbVars, errVars, outVars, endVars
<1> QED
  BY StepKinds, <1>1, <1>2, <1>3, <1>4, <1>5, <1>6, <1>7, <1>8, <1>9, <1>10,
     <1>11, <1>12, <1>13, <1>14, <1>15, <1>16, <1>17, <1>18, <1>19, <1>20,
     <1>21

\* Sections that are over have done their work.
LEMMA PastStep ==
  ASSUME Types, Places, QDTables, Pool, Loaded, Past, [Next]_vars
  PROVE  Past'
<1>a. /\ Asked' = Asked /\ Asked \subseteq 1..12
      /\ \A n \in 1..11 : Works'[n] = Works[n]
      /\ done' = done => Works' = Works
  BY WorkKept, SectionNumbers DEF Asked
<1>b. /\ done \subseteq done' /\ failed \subseteq failed'
      /\ errorCode' = 0 => errorCode = 0
      /\ ~wasTerminated' => ~wasTerminated
  BY KeptStep DEF Kept
<1>c. section \in 1..13
  BY DEF Types, MainTypes
<1>d. (\A d \in Conns : Executing(d)' => Executing(d)) => (Going' => Going)
  BY <1>b DEF Going
<1>e. ASSUME Going' => Going, section' = section, done' = done \/ section \in 1..12
      PROVE  Past'
  <2>1. \A n \in Asked : n < section => Works'[n] = Works[n]
    BY <1>a, <1>c, <1>e
  <2> QED
    BY <1>a, <1>b, <1>e, <2>1 DEF Past
<1>f. ASSUME Going' => Going, section' = section + 1, done' = done \/ section \in 1..11,
             Going' /\ section \in Asked /\ (section = 7 => errorCode' = 0) =>
               Works[section] \subseteq done' \cup failed'
      PROVE  Past'
  <2>1. \A n \in Asked : n < section' => n < section \/ n = section
    BY <1>a, <1>c, <1>f
  <2>2. \A n \in Asked : n < section' => Works'[n] = Works[n]
    BY <1>a, <1>c, <1>f
  <2> QED
    BY <1>a, <1>b, <1>f, <2>1, <2>2 DEF Past
<1>1. CASE Outside
  <2>1. \A d \in Conns : Executing(d)' => Executing(d)
    BY <1>1, OutsideSections DEF Outside, Executing
  <2>2. section' = section /\ done' = done
    BY <1>1 DEF Outside
  <2> QED
    BY <2>1, <2>2, <1>d, <1>e
<1>2. CASE Passed
  <2>1. /\ \A d \in Conns : ~Executing(d)'
        /\ wasTerminated' = wasTerminated /\ done' = done
        /\ \/ /\ section' = section + 1
              /\ section \notin Asked \/ wasTerminated \/ section \in {1, 6}
           \/ section' = section
    BY <1>2 DEF Passed, Executing
  <2>2. (Going' => Going) /\ (wasTerminated => ~Going')
    BY <2>1, <1>d DEF Going
  <2>3. Works[1] = {} /\ Works[6] = {}
    BY WorksList DEF WorksListed
  <2> QED
    BY <2>1, <2>2, <2>3, <1>e, <1>f
<1>3. CASE RestoreSchemas
  <2>1. /\ section = 2 /\ section' \in {2, 3} /\ pc' # "run"
        /\ section' = 3 => ToSet(StatementsOf(Predata,
             {"SCHEMA"})) \subseteq done' \cup failed'
    BY <1>3, SectionNumbers DEF RestoreSchemas, Enters, Section, NextSection, Fatal, At
  <2>2. Works[2] = ToSet(StatementsOf(Predata, {"SCHEMA"}))
    BY WorksList, Selections DEF WorksListed
  <2>3. Going' => Going
    BY <2>1, <1>d DEF Executing
  <2> QED
    BY <2>1, <2>2, <2>3, <1>e, <1>f
<1>4. CASE StartSection
  <2>1. PICK n \in {3, 4, 8, 9, 10, 11, 12} :
          LET ss == Batch(Sections[n]) IN
          /\ section = n /\ ss \in Seq(Works[n]) /\ ToSet(ss) = Works[n]
          /\ \/ ss = <<>> /\ pc' = "restore" /\ section' = n + 1
             \/ /\ ss # <<>> /\ pc' = "run" /\ section' = n /\ tasks' = ss
                /\ worker'[0] = "idle"
                /\ \A c \in Conns : worker'[c] \in {"idle", "done"}
    BY <1>4, PoolStarts
  <2>2. (\A d \in Conns : Executing(d)' => Executing(d)) /\ done' = done
    BY <2>1, <1>4 DEF Executing, StartSection, dbVars
  <2>3. Going' => Going
    BY <2>2, <1>d
  <2>4. Batch(Sections[n]) = <<>> => Works[n] = {}
    BY <2>1 DEF ToSet
  <2> QED
    BY <2>1, <2>2, <2>3, <2>4, <1>e, <1>f
<1>5. CASE StartQDData
  <2>1. PICK bad \in SUBSET Works[5] :
          LET ss == Keep(Batch("qd-data"), ToSet(Batch("qd-data")) \ bad) IN
          /\ section = 5 /\ failed' = failed \cup bad
          /\ ss \in Seq(Works[5]) /\ ToSet(ss) = Works[5] \ bad
          /\ \/ pc' = "recover" /\ section' = 5 /\ errorCode' = 2
             \/ ss = <<>> /\ pc' = "restore" /\ section' = 6
             \/ /\ ss # <<>> /\ pc' = "run" /\ section' = 5 /\ tasks' = ss
                /\ worker'[0] = "idle"
                /\ \A c \in Conns : worker'[c] \in {"idle", "done"}
    BY <1>5, QDPoolStarts
  <2>2. (\A d \in Conns : Executing(d)' => Executing(d)) /\ done' = done
    BY <2>1, <1>5 DEF Executing, StartQDData
  <2>3. Going' => Going
    BY <2>2, <1>d
  <2> DEFINE ss == Keep(Batch("qd-data"), ToSet(Batch("qd-data")) \ bad)
  <2>4. ss = <<>> => Works[5] \subseteq failed'
    <3>1. ss = <<>> => ToSet(ss) = {}
      BY DEF ToSet
    <3> HIDE DEF ss
    <3> QED
      BY <2>1, <3>1 DEF ss
  <2>5. section = 5 /\ (section' = 5 \/ (section' = 6 /\ ss = <<>>))
    BY <2>1
  <2> HIDE DEF ss
  <2> QED
    BY <2>2, <2>3, <2>4, <2>5, <1>e, <1>f
<1>6. CASE FinishStatements
  <2>1. /\ pc = "run" /\ pc' # "run" /\ done' = done /\ failed' = failed
        /\ wasTerminated' = wasTerminated /\ \A d \in Conns : worker[d] = "done"
        /\ \/ section' = section
           \/ section' = section + 1 /\ fatalBy = -1
    BY <1>6 DEF FinishStatements, AllDone, Fatal, NextSection, At, dbVars, endVars
  <2>2. (Going' => Going) /\ (Going' => ~wasTerminated)
    BY <2>1, <1>d DEF Executing, Going
  <2>3. ~wasTerminated /\ fatalBy = -1 => Works[section] \subseteq done \cup failed
    <3> SUFFICES ASSUME ~wasTerminated, fatalBy = -1, NEW s \in Works[section]
                 PROVE  s \in done \cup failed
      OBVIOUS
    <3>1. tasks = <<>>
      BY <2>1 DEF Pool
    <3>2. ToSet(tasks) = {}
      BY <3>1 DEF ToSet
    <3> QED
      BY <2>1, <3>2 DEF Pool, Executing
  <2> QED
    BY <2>1, <2>2, <2>3, <1>e, <1>f
<1>7. CASE StartData
  <2>1. section' = section /\ done' = done /\ pc' = "data"
    BY <1>7 DEF StartData, dbVars
  <2> QED
    BY <2>1, <1>d, <1>e DEF Executing
<1>8. ASSUME NEW b \in ToSet(Backups), StartBackup(b)
      PROVE  Past'
  <2>1. section' = section /\ done' = done /\ (pc' = pc \/ pc' # "run") /\ pc = "data"
    BY <1>8 DEF StartBackup, Fatal, At, dbVars
  <2> QED
    BY <2>1, <1>d, <1>e DEF Executing
<1>9. CASE DataDone
  <2>1. /\ section' = section + 1 /\ done' = done /\ pc' = "restore" /\ pc = "data"
        /\ backupsLeft = {} /\ wasTerminated' = wasTerminated /\ errorCode' = errorCode
        /\ failed' = failed
    BY <1>9 DEF DataDone, NextSection, At, dbVars, endVars
  <2>2. section = 7
    BY <2>1 DEF Places
  <2>3. (Going' => Going) /\ (Going' => ~wasTerminated)
    BY <2>1, <1>d DEF Executing, Going
  <2>4. errorCode = 0 /\ ~wasTerminated =>
          \A b \in DueBackups : Copies(b) \subseteq done
    BY <2>1 DEF Loaded, Undisturbed
  <2>5. Works[7] = UNION {Copies(b) : b \in DueBackups}
    BY WorksList DEF WorksListed
  <2>6. errorCode = 0 /\ ~wasTerminated => Works[7] \subseteq done
    BY <2>4, <2>5
  <2> QED
    BY <2>1, <2>2, <2>3, <2>6, <1>f
<1>10. CASE FinishBackup
  <2>1. section' = section /\ done' = done /\ pc' # "run"
    BY <1>10 DEF FinishBackup, Fatal, dbVars
  <2> QED
    BY <2>1, <1>d, <1>e DEF Executing
<1>11. ASSUME NEW c \in Conns, TakeStatement(c)
      PROVE  Past'
  <2>1. /\ section' = section /\ done' = done
        /\ \/ ~wasTerminated
           \/ worker' = [worker EXCEPT ![c] = "done"] /\ pc' = pc
    BY <1>11 DEF TakeStatement, dbVars, At
  <2>2. Going' => Going
    <3>1. CASE ~wasTerminated
      BY <3>1 DEF Going
    <3>2. CASE worker' = [worker EXCEPT ![c] = "done"] /\ pc' = pc
      BY <3>2, <1>d DEF Executing, Types, PoolTypes
    <3> QED
      BY <2>1, <3>1, <3>2
  <2> QED
    BY <2>1, <2>2, <1>e
<1>12. ASSUME NEW c \in Conns, WorkerEnds(c)
      PROVE  Past'
  <2>1. /\ section' = section /\ section \in 1..12
        /\ \A d \in Conns : Executing(d)' => Executing(d)
    BY <1>12, SectionNumbers DEF WorkerEnds, At, Alive, poolVars, loadVars, dbVars,
       errVars, outVars, endVars, Executing, Places, Types, MainTypes, PoolTypes
  <2> QED
    BY <2>1, <1>d, <1>e
<1>13. ASSUME NEW c \in Conns, StatementSucceeds(c)
      PROVE  Past'
  <2>1. /\ section' = section /\ section \in 1..12
        /\ \A d \in Conns : Executing(d)' => Executing(d)
    BY <1>13, SectionNumbers DEF StatementSucceeds, PoolOpen, At, Alive, poolVars,
       loadVars, dbVars, errVars, outVars, endVars, Executing, Places, Types,
         MainTypes, PoolTypes
  <2> QED
    BY <2>1, <1>d, <1>e
<1>14. ASSUME NEW c \in Conns, StatementFails(c)
      PROVE  Past'
  <2>1. /\ section' = section /\ section \in 1..12
        /\ \A d \in Conns : Executing(d)' => Executing(d)
    BY <1>14, SectionNumbers DEF StatementFails, PoolOpen, WithErrorTable, At, Alive,
       poolVars, loadVars, dbVars, errVars, outVars, endVars, Executing, Places,
         Types, MainTypes, PoolTypes
  <2> QED
    BY <2>1, <1>d, <1>e
<1>15. ASSUME NEW c \in Conns, ConnectionGone(c)
      PROVE  Past'
  <2>1. /\ section' = section /\ section \in 1..12
        /\ \A d \in Conns : Executing(d)' => Executing(d)
    BY <1>15, SectionNumbers DEF ConnectionGone, PoolOpen, At, Alive, poolVars,
       loadVars, dbVars, errVars, outVars, endVars, Executing, Places, Types,
         MainTypes, PoolTypes
  <2> QED
    BY <2>1, <1>d, <1>e
<1>16. ASSUME NEW c \in Conns, SetGUCs(c)
      PROVE  Past'
  <2>1. /\ section' = section /\ section \in 1..12
        /\ \A d \in Conns : Executing(d)' => Executing(d)
    BY <1>16, SectionNumbers DEF SetGUCs, LogsError, PoolOpen, At, Alive, poolVars,
       loadVars, dbVars, errVars, outVars, endVars, Executing, Places, Types,
         MainTypes, PoolTypes
  <2> QED
    BY <2>1, <1>d, <1>e
<1>17. ASSUME NEW c \in Conns, LoaderEnds(c)
      PROVE  Past'
  <2>1. /\ section' = section /\ section \in 1..12
        /\ \A d \in Conns : Executing(d)' => Executing(d)
    BY <1>17, SectionNumbers DEF LoaderEnds, At, Alive, poolVars, loadVars, dbVars,
       errVars, outVars, endVars, Executing, Places, Types, MainTypes, PoolTypes
  <2> QED
    BY <2>1, <1>d, <1>e
<1>18. ASSUME NEW c \in Conns, TakeTable(c)
      PROVE  Past'
  <2>1. /\ section' = section /\ section \in 1..12
        /\ \A d \in Conns : Executing(d)' => Executing(d)
    BY <1>18, SectionNumbers DEF TakeTable, LogsError, PoolOpen, At, Alive, poolVars,
       loadVars, dbVars, errVars, outVars, endVars, Executing, Places, Types,
         MainTypes, PoolTypes
  <2> QED
    BY <2>1, <1>d, <1>e
<1>19. ASSUME NEW c \in Conns, TableLoaded(c)
      PROVE  Past'
  <2>1. /\ section' = section /\ section \in 1..12
        /\ \A d \in Conns : Executing(d)' => Executing(d)
    BY <1>19, SectionNumbers DEF TableLoaded, PoolOpen, At, Alive, poolVars, loadVars,
       dbVars, errVars, outVars, endVars, Executing, Places, Types, MainTypes, PoolTypes
  <2> QED
    BY <2>1, <1>d, <1>e
<1>20. ASSUME NEW c \in Conns, NEW agent \in BOOLEAN, TableFails(c, agent)
      PROVE  Past'
  <2>1. /\ section' = section /\ section \in 1..12
        /\ \A d \in Conns : Executing(d)' => Executing(d)
    BY <1>20, SectionNumbers DEF TableFails, LogsError, At, Alive, poolVars, loadVars,
       dbVars, errVars, outVars, endVars, Executing, Places, Types, MainTypes, PoolTypes
  <2> QED
    BY <2>1, <1>d, <1>e
<1>21. ASSUME NEW c \in Conns, LoaderPanics(c)
      PROVE  Past'
  <2>1. /\ section' = section /\ section \in 1..12
        /\ \A d \in Conns : Executing(d)' => Executing(d)
    BY <1>21, SectionNumbers DEF LoaderPanics, PoolOpen, At, Alive, poolVars,
       loadVars, dbVars, errVars, outVars, endVars, Executing, Places, Types,
         MainTypes, PoolTypes
  <2> QED
    BY <2>1, <1>d, <1>e
<1> QED
  BY StepKinds, <1>1, <1>2, <1>3, <1>4, <1>5, <1>6, <1>7, <1>8, <1>9, <1>10,
     <1>11, <1>12, <1>13, <1>14, <1>15, <1>16, <1>17, <1>18, <1>19, <1>20,
     <1>21

-----------------------------------------------------------------------------
(* The tables that are loaded                                              *)

\* The entries of a backup that is loaded: one of its tables is not loaded
\* before its connection comes to it.
LEMMA NextNotCopied ==
  ASSUME Types, Places, Loading, CopiesKnown, pc = "load",
         NEW c \in Conns, HasTable(c)
  PROVE  /\ loading \in ToSet(Backups)
         /\ entry[c] \in 0..(Len(Entries) - 1) /\ NextTable(c) = Entries[entry[c] + 1]
         /\ NextTable(c) \in ToSet(Entries) /\ NextTable(c) \in Tables
         /\ Owner(entry[c]) = c /\ ~Behind(entry[c])
         /\ ~Copied(NextTable(c))
<1>1. loading \in ToSet(Backups)
  BY PlanOfRestore DEF Places
<1>2. Entries \in Seq(Tables) /\ \A i,
        j \in 1..Len(Entries) : Entries[i] = Entries[j] => i = j
  BY <1>1, TheEntries DEF Entries
<1>3. entry[c] \in Nat
  BY DEF Types, DataTypes
<1>4. entry[c] \in 0..(Len(Entries) - 1) /\ NextTable(c) = Entries[entry[c] + 1]
  BY <1>2, <1>3 DEF HasTable, NextTable, Entries
<1>5. entry[c] + 1 \in 1..Len(Entries) /\ DOMAIN Entries = 1..Len(Entries)
  BY <1>2, <1>4
<1>6. NextTable(c) \in ToSet(Entries) /\ NextTable(c) \in Tables
  BY <1>2, <1>4, <1>5 DEF ToSet
<1>7. Owner(entry[c]) = c /\ ~Behind(entry[c])
  BY <1>3 DEF Loading, Behind
<1>8. ASSUME Copied(NextTable(c)) PROVE FALSE
  <2>1. PICK s \in done : s.type = "COPY" /\ s.object = NextTable(c)
    BY <1>8 DEF Copied
  <2>2. s.of \in ToSet(Backups) /\ s.object \in ToSet(EntriesOf(s.of))
    BY <2>1 DEF CopiesKnown
  <2>3. s.of = loading
    BY <1>1, <1>6, <2>1, <2>2, EntriesDisjoint DEF Entries
  <2>4. PICK i \in 0..(Len(Entries) - 1) : s.object = Entries[i + 1] /\ Behind(i)
    BY <2>1, <2>3 DEF CopiesKnown
  <2>5. i + 1 \in 1..Len(Entries)
    BY <1>2
  <2>6. i + 1 = entry[c] + 1
    BY <1>2, <1>4, <1>5, <2>1, <2>4, <2>5
  <2>7. i = entry[c]
    BY <1>4, <2>6
  <2> QED
    BY <1>7, <2>4, <2>7
<1> QED
  BY <1>1, <1>4, <1>6, <1>7, <1>8

\* A connection passes one entry, its own.
LEMMA EntryPassed ==
  ASSUME Types, Loading, pc = "load", NEW c \in Conns,
         entry' = [entry EXCEPT ![c] = @ + NumConns], NEW i \in Nat
  PROVE  /\ i < entry'[Owner(i)] <=> Behind(i) \/ i = entry[c]
         /\ Owner(i) \in Conns
<1>1. /\ entry \in [Conns -> Nat] /\ Owner(i) \in Conns /\ Owner(entry[c]) = c
      /\ NumConns \in Nat \ {0}
  BY OwnPlaces, StatementsAssumption DEF Types, DataTypes, Loading
<1>2. entry[c] \in Nat /\ entry[Owner(i)] \in Nat
  BY <1>1
<1>3. CASE Owner(i) # c
  <2>1. entry'[Owner(i)] = entry[Owner(i)] /\ i # entry[c]
    BY <1>1, <1>3
  <2> QED
    BY <1>1, <2>1 DEF Behind
<1>4. CASE Owner(i) = c
  <2>1. entry'[Owner(i)] = entry[c] + NumConns
    BY <1>1, <1>4
  <2>2. i < entry[c] + NumConns /\ ~(i < entry[c]) => i = entry[c]
    <3> SUFFICES ASSUME i < entry[c] + NumConns, ~(i < entry[c]) PROVE i = entry[c]
      OBVIOUS
    <3>1. i % NumConns = entry[c] % NumConns
      BY <1>1, <1>4 DEF Owner
    <3>2. entry[c] <= i
      BY <1>2
    <3> QED
      BY <1>1, <1>2, <3>1, <3>2, OwnersApart
  <2>3. Behind(i) <=> i < entry[c]
    BY <1>4 DEF Behind
  <2>4. i < entry[c] => i < entry[c] + NumConns
    BY <1>1, <1>2
  <2>5. i = entry[c] => i < entry[c] + NumConns
    BY <1>1, <1>2
  <2> QED
    BY <1>1, <2>1, <2>2, <2>3, <2>4, <2>5
<1> QED
  BY <1>1, <1>3, <1>4

\* A table that is loaded is behind its connection.
LEMMA CopiesKnownStep ==
  ASSUME Types, Places, Pool, Loading, BusyLoaders, CopiesKnown, [Next]_vars
  PROVE  CopiesKnown'
<1>a. \A b : EntriesOf(b)' = EntriesOf(b)
  BY PlanKept
<1>b. section \in 1..13
  BY DEF Types, MainTypes
<1>c. ASSUME \A s \in done' : s.type = "COPY" =>
             s \in done, pc' \notin {"data", "load"},
             \A s \in done : s.type = "COPY" =>
               section' > 7 \/ (section' = 7 /\ pc' # "restore")
      PROVE  CopiesKnown'
  BY <1>a, <1>c DEF CopiesKnown
<1>d. ASSUME \A s \in done' : s.type = "COPY" => s \in done, pc = "load", pc' = "load",
             section' = section, backupsLeft' = backupsLeft, loading' = loading,
             \A i \in Nat : Behind(i) => Behind(i)'
      PROVE  CopiesKnown'
  <2>1. Entries' = Entries
    BY <1>a, <1>d DEF Entries
  <2>2. \A i \in 0..(Len(Entries) - 1) : Behind(i) => Behind(i)'
    BY <1>d
  <2> QED
    BY <1>a, <1>d, <2>1, <2>2 DEF CopiesKnown
<1>1. CASE Outside
  <2>1. /\ UNCHANGED <<section, done, backupsLeft, loading, entry>>
        /\ pc' = "data" <=> pc = "data"
        /\ pc' = "load" <=> pc = "load"
        /\ pc' = "restore" => pc = "restore" \/ section = 1
    BY <1>1, OutsideSections DEF Outside, Places
  <2> QED
    BY <1>a, <1>b, <2>1 DEF CopiesKnown, Entries, Behind
<1>2. CASE Passed
  BY <1>b, <1>c, <1>2 DEF Passed, CopiesKnown
<1>3. CASE RestoreSchemas
  <2>1. /\ pc = "restore" /\ section = 2 /\ pc' \in {"restore", "recover"}
        /\ done' \subseteq done \cup ToSet(StatementsOf(Predata, {"SCHEMA"}))
    BY <1>3, SectionNumbers DEF RestoreSchemas, Enters, Section, Fatal, At
  <2>2. \A s \in ToSet(StatementsOf(Predata, {"SCHEMA"})) : s.type = "SCHEMA"
    BY Selections
  <2> QED
    BY <2>1, <2>2, <1>c DEF CopiesKnown
<1>4. CASE StartSection
  <2>1. pc = "restore" /\ pc' \in {"restore", "run"}
          /\ section' \in {section, section + 1}
        /\ done' = done
    BY <1>4 DEF StartSection, Enters, Section, StartPool, NextSection, At, dbVars
  <2> QED
    BY <2>1, <1>b, <1>c DEF CopiesKnown
<1>5. CASE StartQDData
  <2>1. /\ pc = "restore" /\ pc' \in {"restore", "run", "recover"} /\ done' = done
        /\ section' \in {section, section + 1}
    BY <1>5 DEF StartQDData, Enters, Section, StartPool, NextSection, Fatal, At
  <2> QED
    BY <2>1, <1>b, <1>c DEF CopiesKnown
<1>6. CASE FinishStatements
  <2>1. /\ pc = "run" /\ pc' \in {"restore", "recover"} /\ done' = done
        /\ section' \in {section, section + 1}
    BY <1>6 DEF FinishStatements, NextSection, Fatal, At, dbVars
  <2>2. section # 7
    BY <2>1, SectionNumbers, PooledSections DEF Places
  <2> QED
    BY <2>1, <2>2, <1>b, <1>c DEF CopiesKnown
<1>7. CASE StartData
  <2>1. section = 7 /\ pc = "restore" /\ done' = done
    BY <1>7, SectionNumbers DEF StartData, Enters, Section, At, dbVars
  <2> QED
    BY <2>1 DEF CopiesKnown
<1>8. ASSUME NEW b \in ToSet(Backups), StartBackup(b)
      PROVE  CopiesKnown'
  <2>1. /\ section' = section /\ pc = "data" /\ done' = done /\ b \in backupsLeft
        /\ backupsLeft' \subseteq backupsLeft /\ pc' \in {"data", "load", "recover"}
        /\ pc' = "load" => loading' = b
    BY <1>8 DEF StartBackup, Fatal, At, dbVars
  <2> QED
    BY <2>1, <1>a DEF CopiesKnown
<1>9. CASE DataDone
  BY <1>b, <1>c, <1>9 DEF DataDone, NextSection, CopiesKnown, At, Alive,
     poolVars, loadVars, dbVars, errVars, outVars, endVars
<1>10. CASE FinishBackup
  <2>1. /\ section' = section /\ pc = "load" /\ done' = done
        /\ backupsLeft' = backupsLeft /\ pc' \in {"data", "recover"}
    BY <1>10 DEF FinishBackup, Fatal, At, dbVars
  <2> QED
    BY <2>1, <1>a DEF CopiesKnown
<1>11. ASSUME NEW c \in Conns, TakeStatement(c)
      PROVE  CopiesKnown'
  <2>1. /\ pc = "run" /\ pc' \in {"run", "recover"} /\ section' = section
        /\ \A s \in done' : s \in done \/ (worker[c] = "busy" /\ s = running[c])
    BY <1>11 DEF TakeStatement, At, Alive, poolVars, loadVars, dbVars, errVars,
       outVars, endVars
  <2>2. worker[c] = "busy" => running[c].type # "COPY"
    BY <2>1, ExecutedTypes DEF StatementTypes
  <2> QED
    BY <2>1, <2>2, <1>c DEF CopiesKnown
<1>12. ASSUME NEW c \in Conns, WorkerEnds(c)
      PROVE  CopiesKnown'
  <2>1. /\ pc = "run" /\ pc' \in {"run", "recover"} /\ section' = section
        /\ \A s \in done' : s \in done \/ (worker[c] = "busy" /\ s = running[c])
    BY <1>12 DEF WorkerEnds, At, Alive, poolVars, loadVars, dbVars, errVars, outVars,
       endVars
  <2>2. worker[c] = "busy" => running[c].type # "COPY"
    BY <2>1, ExecutedTypes DEF StatementTypes
  <2> QED
    BY <2>1, <2>2, <1>c DEF CopiesKnown
<1>13. ASSUME NEW c \in Conns, StatementSucceeds(c)
      PROVE  CopiesKnown'
  <2>1. /\ pc = "run" /\ pc' \in {"run", "recover"} /\ section' = section
        /\ \A s \in done' : s \in done \/ (worker[c] = "busy" /\ s = running[c])
    BY <1>13 DEF StatementSucceeds, PoolOpen, At, Alive, poolVars, loadVars, dbVars,
       errVars, outVars, endVars
  <2>2. worker[c] = "busy" => running[c].type # "COPY"
    BY <2>1, ExecutedTypes DEF StatementTypes
  <2> QED
    BY <2>1, <2>2, <1>c DEF CopiesKnown
<1>14. ASSUME NEW c \in Conns, StatementFails(c)
      PROVE  CopiesKnown'
  <2>1. /\ pc = "run" /\ pc' \in {"run", "recover"} /\ section' = section
        /\ \A s \in done' : s \in done \/ (worker[c] = "busy" /\ s = running[c])
    BY <1>14 DEF StatementFails, PoolOpen, WithErrorTable, At, Alive, poolVars,
       loadVars, dbVars, errVars, outVars, endVars
  <2>2. worker[c] = "busy" => running[c].type # "COPY"
    BY <2>1, ExecutedTypes DEF StatementTypes
  <2> QED
    BY <2>1, <2>2, <1>c DEF CopiesKnown
<1>15. ASSUME NEW c \in Conns, ConnectionGone(c)
      PROVE  CopiesKnown'
  <2>1. /\ pc = "run" /\ pc' \in {"run", "recover"} /\ section' = section
        /\ \A s \in done' : s \in done \/ (worker[c] = "busy" /\ s = running[c])
    BY <1>15 DEF ConnectionGone, PoolOpen, At, Alive, poolVars, loadVars, dbVars,
       errVars, outVars, endVars
  <2>2. worker[c] = "busy" => running[c].type # "COPY"
    BY <2>1, ExecutedTypes DEF StatementTypes
  <2> QED
    BY <2>1, <2>2, <1>c DEF CopiesKnown
<1>16. ASSUME NEW c \in Conns, SetGUCs(c)
      PROVE  CopiesKnown'
  <2>1. /\ pc = "load" /\ pc' = "load" /\ section' = section /\ done' = done
        /\ backupsLeft' = backupsLeft /\ loading' = loading /\ entry' = entry
    BY <1>16 DEF SetGUCs, LogsError, PoolOpen, At, Alive, poolVars, loadVars, dbVars,
       errVars, outVars, endVars
  <2> QED
    BY <2>1, <1>d DEF Behind
<1>17. ASSUME NEW c \in Conns, LoaderEnds(c)
      PROVE  CopiesKnown'
  <2>1. /\ pc = "load" /\ pc' = "load" /\ section' = section /\ done' = done
        /\ backupsLeft' = backupsLeft /\ loading' = loading /\ entry' = entry
    BY <1>17 DEF LoaderEnds, At, Alive, poolVars, loadVars, dbVars, errVars, outVars,
       endVars
  <2> QED
    BY <2>1, <1>d DEF Behind
<1>18. ASSUME NEW c \in Conns, TakeTable(c)
      PROVE  CopiesKnown'
  <2>1. /\ pc = "load" /\ pc' = "load" /\ section' = section /\ done' = done
        /\ backupsLeft' = backupsLeft /\ loading' = loading /\ entry' = entry
    BY <1>18 DEF TakeTable, LogsError, PoolOpen, At, Alive, poolVars, loadVars,
       dbVars, errVars, outVars, endVars
  <2> QED
    BY <2>1, <1>d DEF Behind
<1>19. ASSUME NEW c \in Conns, TableLoaded(c)
      PROVE  CopiesKnown'
  <2> DEFINE t == NextTable(c)
  <2>1. /\ pc = "load" /\ pc' = "load" /\ section' = section
             /\ done' = done \cup {Copy(t)}
        /\ backupsLeft' = backupsLeft /\ loading' = loading /\ worker[c] = "busy"
        /\ entry' = [entry EXCEPT ![c] = @ + NumConns]
    BY <1>19 DEF TableLoaded, At
  <2>2. /\ loading \in ToSet(Backups) /\ t \in ToSet(Entries)
        /\ entry[c] \in 0..(Len(Entries) - 1) /\ t = Entries[entry[c] + 1]
    BY <2>1, NextNotCopied DEF BusyLoaders
  <2>3. \A i \in 0..(Len(Entries) - 1) : Behind(i)' <=> Behind(i) \/ i = entry[c]
    <3>1. \A i \in Nat : Behind(i)' <=> Behind(i) \/ i = entry[c]
      BY <2>1, EntryPassed DEF Behind
    <3> QED
      BY <3>1
  <2>4. Entries' = Entries /\ \A b : EntriesOf(b)' = EntriesOf(b)
    BY <1>a, <2>1 DEF Entries
  <2>5. Copy(t).type = "COPY" /\ Copy(t).object = t /\ Copy(t).of = loading
    BY DEF Copy
  <2> HIDE DEF t
  <2>6. ASSUME NEW s \in done', s.type = "COPY"
        PROVE  /\ section > 7 \/ (section = 7 /\ pc # "restore")
               /\ s.of \in ToSet(Backups) /\ s.object \in ToSet(EntriesOf(s.of))
               /\ s.of \notin backupsLeft
               /\ s.of = loading =>
                    \E i \in 0..(Len(Entries) - 1) : s.object = Entries[i + 1]
                      /\ Behind(i)'
    <3>1. CASE s \in done
      BY <2>1, <2>3, <2>6, <3>1 DEF CopiesKnown
    <3>2. CASE s = Copy(t)
      BY <2>1, <2>2, <2>3, <2>5, <3>2 DEF Places, Entries
    <3> QED
      BY <2>1, <2>6, <3>1, <3>2
  <2> QED
    BY <2>1, <2>4, <2>6 DEF CopiesKnown
<1>20. ASSUME NEW c \in Conns, NEW agent \in BOOLEAN, TableFails(c, agent)
      PROVE  CopiesKnown'
  <2>1. /\ pc = "load" /\ pc' = "load" /\ section' = section /\ done' = done
        /\ backupsLeft' = backupsLeft /\ loading' = loading
        /\ entry' \in {entry, [entry EXCEPT ![c] = @ + NumConns]}
    BY <1>20 DEF TableFails, At
  <2>2. \A i \in Nat : Behind(i) => Behind(i)'
    BY <2>1, EntryPassed DEF Behind
  <2> QED
    BY <2>1, <2>2, <1>d
<1>21. ASSUME NEW c \in Conns, LoaderPanics(c)
      PROVE  CopiesKnown'
  <2>1. /\ pc = "load" /\ pc' = "load" /\ section' = section /\ done' = done
        /\ backupsLeft' = backupsLeft /\ loading' = loading /\ entry' = entry
    BY <1>21 DEF LoaderPanics, PoolOpen, At, Alive, poolVars, loadVars, dbVars,
       errVars, outVars, endVars
  <2> QED
    BY <2>1, <1>d DEF Behind
<1> QED
  BY StepKinds, <1>1, <1>2, <1>3, <1>4, <1>5, <1>6, <1>7, <1>8, <1>9, <1>10,
     <1>11, <1>12, <1>13, <1>14, <1>15, <1>16, <1>17, <1>18, <1>19, <1>20,
     <1>21

\* The tables of a backup are loaded before the next is.
LEMMA LoadedStep ==
  ASSUME Types, Ready, Places, StopsNoticed, Loading, BusyLoaders, CopiesKnown,
         Loaded, [Next]_vars
  PROVE  Loaded'
<1>0. Undisturbed' => Undisturbed
  BY KeptStep DEF Kept, Undisturbed
<1>a. /\ DueBackups' = DueBackups /\ \A b : EntriesOf(b)' = EntriesOf(b)
      /\ \A b : Copies(b)' = Copies(b) /\ done \subseteq done'
  BY PlanKept, KeptStep DEF Copies, Kept
<1>b. pc' \notin {"data", "load"} => Loaded'
  BY DEF Loaded
<1>c. ASSUME pc = "data", pc' = "data",
             \A b \in DueBackups \ backupsLeft' : b \in backupsLeft => Copies(b) = {}
      PROVE  Loaded'
  BY <1>0, <1>a, <1>c DEF Loaded
<1>d. ASSUME pc = "load", pc' = "load", backupsLeft' = backupsLeft, loading' = loading,
             NEW c \in Conns, entry' = entry,
             Undisturbed' => \A d \in Conns : worker'[d] = "done" =>
                               worker[d] = "done" \/ (d = c /\ ~HasTable(d))
      PROVE  Loaded'
  <2>1. Entries' = Entries /\ (\A d \in Conns : HasTable(d)' <=> HasTable(d))
        /\ (\A i : Behind(i)' <=> Behind(i))
        /\ (\A t : Copy(t)' = Copy(t))
    BY <1>a, <1>d DEF Entries, HasTable, Behind, Copy
  <2> QED
    BY <1>0, <1>a, <1>d, <2>1 DEF Loaded
<1>1. CASE Outside
  <2>1. /\ UNCHANGED <<done, backupsLeft, loading, entry, worker>>
        /\ pc' = "data" <=> pc = "data"
        /\ pc' = "load" <=> pc = "load"
    BY <1>1, OutsideSections DEF Outside
  <2>2. Entries' = Entries /\ (\A d \in Conns : HasTable(d)' <=> HasTable(d))
        /\ (\A i : Behind(i)' <=> Behind(i))
        /\ (\A t : Copy(t)' = Copy(t))
    BY <1>a, <2>1 DEF Entries, HasTable, Behind, Copy
  <2> QED
    BY <1>0, <1>a, <2>1, <2>2 DEF Loaded
<1>2. CASE Passed
  BY <1>b, <1>2 DEF Passed
<1>3. CASE RestoreSchemas
  BY <1>b, <1>3 DEF RestoreSchemas, Fatal, LogsError, NextSection, Enters,
     Section, At, Alive, poolVars, loadVars, dbVars, errVars, outVars, endVars
<1>4. CASE StartSection
  BY <1>b, <1>4 DEF StartSection, Enters, Section, StartPool, NextSection, At,
     Alive, poolVars, loadVars, dbVars, errVars, outVars, endVars
<1>5. CASE StartQDData
  BY <1>b, <1>5 DEF StartQDData, Fatal, LogsError, Enters, Section, StartPool,
     NextSection, At, Alive, poolVars, loadVars, dbVars, errVars, outVars,
     endVars
<1>6. CASE FinishStatements
  BY <1>b, <1>6 DEF FinishStatements, Fatal, ReportErrors, LogsError, AllDone,
     NextSection, At, Alive, poolVars, loadVars, dbVars, errVars, outVars,
     endVars
<1>7. CASE StartData
  <2>1. pc' = "data" /\ backupsLeft' = DueBackups
    BY <1>7 DEF StartData
  <2> QED
    BY <2>1, <1>a DEF Loaded
<1>8. ASSUME NEW b \in ToSet(Backups), StartBackup(b)
      PROVE  Loaded'
  <2>1. CASE pc' = "data" /\ (EntriesOf(b) = <<>> \/ wasTerminated)
    <3>1. /\ pc = "data" /\ backupsLeft' = backupsLeft \ {b}
          /\ wasTerminated' = wasTerminated
      BY <1>8 DEF StartBackup, At, endVars
    <3>2. EntriesOf(b) = <<>> => Copies(b) = {}
      BY DEF Copies, ToSet
    <3>3. wasTerminated => Loaded'
      BY <3>1 DEF Loaded, Undisturbed
    <3> QED
      BY <3>1, <3>2, <3>3, <1>c, <2>1
  <2>2. CASE /\ pc' = "load" /\ loading' = b /\ entry' = [c \in Conns |-> c]
             /\ worker' = [c \in Conns |-> "gucs"]
    <3>1. pc = "data" /\ backupsLeft' = backupsLeft \ {b}
      BY <1>8 DEF StartBackup, At
    <3>2. \A i \in 0..(Len(Entries') - 1) : ~Behind(i)'
      <4>1. \A i \in Nat : Owner(i) \in Conns /\ ~(i < Owner(i))
        BY OwnPlaces, TheConns
      <4>2. \A i \in Nat : ~Behind(i)'
        BY <2>2, <4>1 DEF Behind
      <4> QED
        BY <4>2
    <3> QED
      BY <1>0, <1>a, <2>2, <3>1, <3>2 DEF Loaded
  <2>3. CASE pc' = "recover"
    BY <2>3, <1>b
  <2> QED
    BY <1>8, <2>1, <2>2, <2>3 DEF StartBackup, Fatal, At
<1>9. CASE DataDone
  BY <1>b, <1>9 DEF DataDone, NextSection, At, Alive, poolVars, loadVars,
     dbVars, errVars, outVars, endVars
<1>10. CASE FinishBackup
  <2>1. /\ pc = "load" /\ \A c \in Conns : worker[c] = "done"
        /\ pc' = "data" \/ pc' = "recover"
        /\ done' = done /\ backupsLeft' = backupsLeft
    BY <1>10 DEF FinishBackup, AllDone, Fatal, At, dbVars
  <2>2. loading \in ToSet(Backups)
    BY <2>1, PlanOfRestore DEF Places
  <2>3. Entries \in Seq(Tables) /\ entry \in [Conns -> Nat]
    BY <2>2, TheEntries DEF Entries, Types, DataTypes
  <2>4. Undisturbed => \A i \in 0..(Len(Entries) - 1) : Copy(Entries[i + 1]) \in done
    <3> SUFFICES ASSUME Undisturbed, NEW i \in 0..(Len(Entries) - 1)
                 PROVE  Copy(Entries[i + 1]) \in done
      OBVIOUS
    <3>1. i \in Nat /\ Owner(i) \in Conns
      BY <2>3, OwnPlaces, TheConns
    <3>2. ~HasTable(Owner(i))
      BY <2>1, <3>1 DEF Loaded
    <3>3. Behind(i)
      BY <2>3, <3>1, <3>2 DEF HasTable, Behind, Entries
    <3> QED
      BY <2>1, <3>3 DEF Loaded
  <2>5. Undisturbed => Copies(loading) \subseteq done
    <3> SUFFICES ASSUME Undisturbed, NEW t \in ToSet(Entries) PROVE Copy(t) \in done
      BY DEF Copies, Copy, Entries
    <3>1. PICK k \in 1..Len(Entries) : t = Entries[k]
      BY <2>3 DEF ToSet
    <3>2. k - 1 \in 0..(Len(Entries) - 1) /\ k - 1 + 1 = k
      BY <2>3
    <3> QED
      BY <2>4, <3>1, <3>2
  <2> QED
    BY <1>0, <1>a, <2>1, <2>5 DEF Loaded
<1>11. ASSUME NEW c \in Conns, TakeStatement(c)
      PROVE  Loaded'
  <2>1. pc = "run" /\ pc' \in {"run", "recover"}
    BY <1>11 DEF TakeStatement, At, Alive, poolVars, loadVars, dbVars, errVars,
       outVars, endVars
  <2> QED
    BY <2>1, <1>b
<1>12. ASSUME NEW c \in Conns, WorkerEnds(c)
      PROVE  Loaded'
  <2>1. pc = "run" /\ pc' \in {"run", "recover"}
    BY <1>12 DEF WorkerEnds, At, Alive, poolVars, loadVars, dbVars, errVars, outVars,
       endVars
  <2> QED
    BY <2>1, <1>b
<1>13. ASSUME NEW c \in Conns, StatementSucceeds(c)
      PROVE  Loaded'
  <2>1. pc = "run" /\ pc' \in {"run", "recover"}
    BY <1>13 DEF StatementSucceeds, PoolOpen, At, Alive, poolVars, loadVars, dbVars,
       errVars, outVars, endVars
  <2> QED
    BY <2>1, <1>b
<1>14. ASSUME NEW c \in Conns, StatementFails(c)
      PROVE  Loaded'
  <2>1. pc = "run" /\ pc' \in {"run", "recover"}
    BY <1>14 DEF StatementFails, PoolOpen, WithErrorTable, At, Alive, poolVars,
       loadVars, dbVars, errVars, outVars, endVars
  <2> QED
    BY <2>1, <1>b
<1>15. ASSUME NEW c \in Conns, ConnectionGone(c)
      PROVE  Loaded'
  <2>1. pc = "run" /\ pc' \in {"run", "recover"}
    BY <1>15 DEF ConnectionGone, PoolOpen, At, Alive, poolVars, loadVars, dbVars,
       errVars, outVars, endVars
  <2> QED
    BY <2>1, <1>b
<1>16. ASSUME NEW c \in Conns, SetGUCs(c)
      PROVE  Loaded'
  <2>1. /\ pc = "load" /\ pc' = "load" /\ done' = done
        /\ backupsLeft' = backupsLeft /\ loading' = loading /\ entry' = entry
        /\ Undisturbed' => \A d \in Conns : worker'[d] = "done" =>
             worker[d] = "done" \/ (d = c /\ ~HasTable(d))
    BY <1>16, <1>0 DEF SetGUCs, LogsError, PoolOpen, At, Alive, poolVars, loadVars,
       dbVars, errVars, outVars, endVars, Undisturbed, HasTable, Ready, StopsNoticed,
         Types, PoolTypes
  <2> QED
    BY <2>1, <1>d
<1>17. ASSUME NEW c \in Conns, LoaderEnds(c)
      PROVE  Loaded'
  <2>1. /\ pc = "load" /\ pc' = "load" /\ done' = done
        /\ backupsLeft' = backupsLeft /\ loading' = loading /\ entry' = entry
        /\ Undisturbed' => \A d \in Conns : worker'[d] = "done" =>
             worker[d] = "done" \/ (d = c /\ ~HasTable(d))
    BY <1>17, <1>0 DEF LoaderEnds, At, Alive, poolVars, loadVars, dbVars, errVars,
       outVars, endVars, Undisturbed, HasTable, Ready, StopsNoticed, Types, PoolTypes
  <2> QED
    BY <2>1, <1>d
<1>18. ASSUME NEW c \in Conns, TakeTable(c)
      PROVE  Loaded'
  <2>1. /\ pc = "load" /\ pc' = "load" /\ done' = done
        /\ backupsLeft' = backupsLeft /\ loading' = loading /\ entry' = entry
        /\ Undisturbed' => \A d \in Conns : worker'[d] = "done" =>
             worker[d] = "done" \/ (d = c /\ ~HasTable(d))
    BY <1>18, <1>0 DEF TakeTable, LogsError, PoolOpen, At, Alive, poolVars, loadVars,
       dbVars, errVars, outVars, endVars, Undisturbed, HasTable, Ready, StopsNoticed,
         Types, PoolTypes
  <2> QED
    BY <2>1, <1>d
<1>19. ASSUME NEW c \in Conns, TableLoaded(c)
      PROVE  Loaded'
  <2> DEFINE t == NextTable(c)
  <2>1. /\ pc = "load" /\ pc' = "load" /\ done' = done \cup {Copy(t)}
        /\ backupsLeft' = backupsLeft /\ loading' = loading /\ worker[c] = "busy"
        /\ entry' = [entry EXCEPT ![c] = @ + NumConns]
        /\ worker' = [worker EXCEPT ![c] = "idle"]
    BY <1>19 DEF TableLoaded, At
  <2>2. entry[c] \in 0..(Len(Entries) - 1) /\ t = Entries[entry[c] + 1]
    BY <2>1, NextNotCopied DEF BusyLoaders
  <2>3. \A i \in 0..(Len(Entries) - 1) : Behind(i)' => Behind(i) \/ i = entry[c]
    <3>1. \A i \in Nat : Behind(i)' => Behind(i) \/ i = entry[c]
      BY <2>1, EntryPassed DEF Behind
    <3> QED
      BY <3>1
  <2>4. Entries' = Entries /\ \A x : Copy(x)' = Copy(x)
    BY <1>a, <2>1 DEF Entries, Copy
  <2>5. \A d \in Conns : worker'[d] = "done" =>
          worker[d] = "done" /\ (HasTable(d)' <=> HasTable(d))
    BY <1>a, <2>1 DEF Types, PoolTypes, DataTypes, HasTable
  <2> HIDE DEF t
  <2>6. Undisturbed => \A i \in 0..(Len(Entries) - 1) : Behind(i)' =>
          Copy(Entries[i + 1]) \in done'
    BY <2>1, <2>2, <2>3 DEF Loaded
  <2> QED
    BY <1>0, <1>a, <2>1, <2>4, <2>5, <2>6 DEF Loaded
<1>20. ASSUME NEW c \in Conns, NEW agent \in BOOLEAN, TableFails(c, agent)
      PROVE  Loaded'
  <2>1. errorCode' # 0
    BY <1>20 DEF TableFails, LogsError, Types, EndTypes
  <2> QED
    BY <2>1 DEF Loaded, Undisturbed
<1>21. ASSUME NEW c \in Conns, LoaderPanics(c)
      PROVE  Loaded'
  <2>1. /\ pc = "load" /\ pc' = "load" /\ done' = done
        /\ backupsLeft' = backupsLeft /\ loading' = loading /\ entry' = entry
        /\ Undisturbed' => \A d \in Conns : worker'[d] = "done" =>
             worker[d] = "done" \/ (d = c /\ ~HasTable(d))
    BY <1>21, <1>0 DEF LoaderPanics, PoolOpen, At, Alive, poolVars, loadVars, dbVars,
       errVars, outVars, endVars, Undisturbed, HasTable, Ready, StopsNoticed, Types,
         PoolTypes
  <2> QED
    BY <2>1, <1>d
<1> QED
  BY StepKinds, <1>1, <1>2, <1>3, <1>4, <1>5, <1>6, <1>7, <1>8, <1>9, <1>10,
     <1>11, <1>12, <1>13, <1>14, <1>15, <1>16, <1>17, <1>18, <1>19, <1>20,
     <1>21

\* A table is loaded once, over the rows it had.
LEMMA RowsKnownStep ==
  ASSUME Types, Ready, Places, Pool, Loading, BusyLoaders, CopiesKnown,
         RowsKnown, [Next]_vars
  PROVE  RowsKnown'
<1>0. Undisturbed' => Undisturbed
  BY KeptStep DEF Kept, Undisturbed
<1>a. cmd' = cmd /\ Truncates' = Truncates /\ \A b : EntriesOf(b)' = EntriesOf(b)
  BY PlanKept, KeptStep DEF Kept
<1>b. ASSUME rows' = rows, \A t : Copied(t)' <=> Copied(t),
             \A t : BusyWith(t)' <=> BusyWith(t)
      PROVE  RowsKnown'
  BY <1>0, <1>a, <1>b DEF RowsKnown
<1>c. ASSUME pc # "load", pc' # "load"
      PROVE  \A t : BusyWith(t)' <=> BusyWith(t)
  BY <1>c DEF BusyWith
<1>1. CASE Outside
  <2>1. /\ UNCHANGED <<rows, done, worker, loading, entry>>
        /\ pc' = "load" <=> pc = "load"
    BY <1>1, OutsideSections DEF Outside
  <2>2. \A d \in Conns : NextTable(d)' = NextTable(d)
    BY <1>a, <2>1 DEF NextTable
  <2> QED
    BY <2>1, <2>2, <1>b DEF Copied, BusyWith
<1>2. CASE Passed
  <2>1. /\ pc # "load" /\ pc' # "load" /\ rows' = rows /\ done' = done
    BY <1>2 DEF Passed
  <2> QED
    BY <2>1, <1>b, <1>c DEF Copied
<1>3. CASE RestoreSchemas
  <2>1. /\ pc # "load" /\ pc' # "load" /\ rows' = rows
        /\ done \subseteq done'
             /\ done' \subseteq done \cup ToSet(StatementsOf(Predata, {"SCHEMA"}))
    BY <1>3 DEF RestoreSchemas, Enters, Section, Fatal, At
  <2>2. \A s \in ToSet(StatementsOf(Predata, {"SCHEMA"})) : s.type = "SCHEMA"
    BY Selections
  <2>3. \A t : Copied(t)' <=> Copied(t)
    BY <2>1, <2>2 DEF Copied
  <2> QED
    BY <2>1, <2>3, <1>b, <1>c
<1>4. CASE StartSection
  <2>1. /\ pc # "load" /\ pc' # "load" /\ rows' = rows /\ done' = done
    BY <1>4 DEF StartSection, Enters, Section, StartPool, NextSection, At, Alive,
       poolVars, loadVars, dbVars, errVars, outVars, endVars
  <2> QED
    BY <2>1, <1>b, <1>c DEF Copied
<1>5. CASE StartQDData
  <2>1. /\ pc # "load" /\ pc' # "load" /\ rows' = rows /\ done' = done
    BY <1>5 DEF StartQDData, Fatal, LogsError, Enters, Section, StartPool,
       NextSection, At, Alive, poolVars, loadVars, dbVars, errVars, outVars, endVars
  <2> QED
    BY <2>1, <1>b, <1>c DEF Copied
<1>6. CASE FinishStatements
  <2>1. /\ pc # "load" /\ pc' # "load" /\ rows' = rows /\ done' = done
    BY <1>6 DEF FinishStatements, Fatal, ReportErrors, LogsError, AllDone,
       NextSection, At, Alive, poolVars, loadVars, dbVars, errVars, outVars, endVars
  <2> QED
    BY <2>1, <1>b, <1>c DEF Copied
<1>7. CASE StartData
  <2>1. /\ pc # "load" /\ pc' # "load" /\ rows' = rows /\ done' = done
    BY <1>7 DEF StartData, Enters, Section, At, Alive, poolVars, loadVars, dbVars,
       errVars, outVars, endVars
  <2> QED
    BY <2>1, <1>b, <1>c DEF Copied
<1>8. ASSUME NEW b \in ToSet(Backups), StartBackup(b)
      PROVE  RowsKnown'
  <2>1. /\ pc = "data" /\ rows' = rows /\ done' = done
        /\ pc' = "load" => \A d \in Conns : worker'[d] = "gucs"
    BY <1>8 DEF StartBackup, Fatal, At, dbVars
  <2> QED
    BY <2>1, <1>b DEF Copied, BusyWith
<1>9. CASE DataDone
  <2>1. /\ pc # "load" /\ pc' # "load" /\ rows' = rows /\ done' = done
    BY <1>9 DEF DataDone, NextSection, At, Alive, poolVars, loadVars, dbVars, errVars,
       outVars, endVars
  <2> QED
    BY <2>1, <1>b, <1>c DEF Copied
<1>10. CASE FinishBackup
  <2>1. /\ pc' # "load" /\ rows' = rows /\ done' = done
        /\ \A d \in Conns : worker[d] = "done"
    BY <1>10 DEF FinishBackup, AllDone, Fatal, dbVars
  <2> QED
    BY <2>1, <1>b DEF Copied, BusyWith
<1>11. ASSUME NEW c \in Conns, TakeStatement(c)
      PROVE  RowsKnown'
  <2>1. /\ pc = "run" /\ pc' \in {"run", "recover"} /\ rows' = rows
        /\ \/ done' = done
           \/ (worker[c] = "busy" /\ done' = done \cup {running[c]})
    BY <1>11 DEF TakeStatement, At, Alive, poolVars, loadVars, dbVars, errVars,
       outVars, endVars
  <2>2. worker[c] = "busy" => running[c].type # "COPY"
    BY <2>1, ExecutedTypes DEF StatementTypes
  <2> QED
    BY <2>1, <2>2, <1>b, <1>c DEF Copied
<1>12. ASSUME NEW c \in Conns, WorkerEnds(c)
      PROVE  RowsKnown'
  <2>1. /\ pc = "run" /\ pc' \in {"run", "recover"} /\ rows' = rows
        /\ \/ done' = done
           \/ (worker[c] = "busy" /\ done' = done \cup {running[c]})
    BY <1>12 DEF WorkerEnds, At, Alive, poolVars, loadVars, dbVars, errVars, outVars,
       endVars
  <2>2. worker[c] = "busy" => running[c].type # "COPY"
    BY <2>1, ExecutedTypes DEF StatementTypes
  <2> QED
    BY <2>1, <2>2, <1>b, <1>c DEF Copied
<1>13. ASSUME NEW c \in Conns, StatementSucceeds(c)
      PROVE  RowsKnown'
  <2>1. /\ pc = "run" /\ pc' \in {"run", "recover"} /\ rows' = rows
        /\ \/ done' = done
           \/ (worker[c] = "busy" /\ done' = done \cup {running[c]})
    BY <1>13 DEF StatementSucceeds, PoolOpen, At, Alive, poolVars, loadVars, dbVars,
       errVars, outVars, endVars
  <2>2. worker[c] = "busy" => running[c].type # "COPY"
    BY <2>1, ExecutedTypes DEF StatementTypes
  <2> QED
    BY <2>1, <2>2, <1>b, <1>c DEF Copied
<1>14. ASSUME NEW c \in Conns, StatementFails(c)
      PROVE  RowsKnown'
  <2>1. /\ pc = "run" /\ pc' \in {"run", "recover"} /\ rows' = rows
        /\ \/ done' = done
           \/ (worker[c] = "busy" /\ done' = done \cup {running[c]})
    BY <1>14 DEF StatementFails, PoolOpen, WithErrorTable, At, Alive, poolVars,
       loadVars, dbVars, errVars, outVars, endVars
  <2>2. worker[c] = "busy" => running[c].type # "COPY"
    BY <2>1, ExecutedTypes DEF StatementTypes
  <2> QED
    BY <2>1, <2>2, <1>b, <1>c DEF Copied
<1>15. ASSUME NEW c \in Conns, ConnectionGone(c)
      PROVE  RowsKnown'
  <2>1. /\ pc = "run" /\ pc' \in {"run", "recover"} /\ rows' = rows
        /\ \/ done' = done
           \/ (worker[c] = "busy" /\ done' = done \cup {running[c]})
    BY <1>15 DEF ConnectionGone, PoolOpen, At, Alive, poolVars, loadVars, dbVars,
       errVars, outVars, endVars
  <2>2. worker[c] = "busy" => running[c].type # "COPY"
    BY <2>1, ExecutedTypes DEF StatementTypes
  <2> QED
    BY <2>1, <2>2, <1>b, <1>c DEF Copied
<1>16. ASSUME NEW c \in Conns, SetGUCs(c)
      PROVE  RowsKnown'
  <2>1. /\ pc = "load" /\ pc' = "load" /\ rows' = rows /\ done' = done
        /\ loading' = loading /\ entry' = entry
        /\ \A d \in Conns : worker'[d] = "busy" <=> worker[d] = "busy"
    BY <1>16 DEF SetGUCs, LogsError, PoolOpen, At, Alive, poolVars, loadVars, dbVars,
       errVars, outVars, endVars, Types, PoolTypes
  <2>2. \A d \in Conns : NextTable(d)' = NextTable(d)
    BY <1>a, <2>1 DEF NextTable
  <2> QED
    BY <2>1, <2>2, <1>b DEF Copied, BusyWith
<1>17. ASSUME NEW c \in Conns, LoaderEnds(c)
      PROVE  RowsKnown'
  <2>1. /\ pc = "load" /\ pc' = "load" /\ rows' = rows /\ done' = done
        /\ loading' = loading /\ entry' = entry
        /\ \A d \in Conns : worker'[d] = "busy" <=> worker[d] = "busy"
    BY <1>17 DEF LoaderEnds, At, Alive, poolVars, loadVars, dbVars, errVars, outVars,
       endVars, Types, PoolTypes
  <2>2. \A d \in Conns : NextTable(d)' = NextTable(d)
    BY <1>a, <2>1 DEF NextTable
  <2> QED
    BY <2>1, <2>2, <1>b DEF Copied, BusyWith
<1>18. ASSUME NEW c \in Conns, TakeTable(c)
      PROVE  RowsKnown'
  <2> DEFINE t == NextTable(c)
  <2>1. /\ pc = "load" /\ pc' = "load" /\ done' = done /\ HasTable(c)
        /\ loading' = loading /\ entry' = entry /\ worker[c] = "idle"
        /\ worker' = [worker EXCEPT ![c] = "busy"]
        /\ \/ errorCode' # 0
           \/ rows' = IF Truncates THEN [rows EXCEPT ![t] = "empty"] ELSE rows
    BY <1>18 DEF TakeTable, LogsError, At, loadVars, Types, EndTypes
  <2>2. \A d \in Conns : NextTable(d)' = NextTable(d)
    BY <1>a, <2>1 DEF NextTable
  <2>3. t \in Tables /\ ~Copied(t)
    BY <2>1, NextNotCopied
  <2>4. \A x : (BusyWith(x)' <=> BusyWith(x) \/ x = t) /\ (Copied(x)' <=> Copied(x))
    BY <2>1, <2>2 DEF BusyWith, Copied, Types, PoolTypes
  <2>5. rows \in [Tables -> {"old", "empty", "backup", "added"}]
    BY DEF Types, DataTypes
  <2> HIDE DEF t
  <2> QED
    BY <1>0, <1>a, <2>1, <2>3, <2>4, <2>5 DEF RowsKnown, Undisturbed
<1>19. ASSUME NEW c \in Conns, TableLoaded(c)
      PROVE  RowsKnown'
  <2> DEFINE t == NextTable(c)
  <2>1. /\ pc = "load" /\ pc' = "load" /\ done' = done \cup {Copy(t)}
        /\ loading' = loading /\ worker[c] = "busy"
        /\ entry' = [entry EXCEPT ![c] = @ + NumConns]
        /\ worker' = [worker EXCEPT ![c] = "idle"]
        /\ rows' = [rows EXCEPT ![t] = IF @ = "empty" THEN "backup" ELSE "added"]
    BY <1>19 DEF TableLoaded, At
  <2>2. \A d \in Conns \ {c} : NextTable(d)' = NextTable(d)
    BY <1>a, <2>1 DEF NextTable, Types, DataTypes
  <2>3. t \in Tables /\ ~Copied(t) /\ BusyWith(t)
    BY <2>1, NextNotCopied DEF BusyLoaders, BusyWith
  <2>4. \A x : Copied(x)' <=> Copied(x) \/ x = t
    <3> DEFINE s == Copy(t)
    <3>1. done' = done \cup {s} /\ s.type = "COPY" /\ s.object = t
      BY <2>1 DEF Copy
    <3> HIDE DEF s, t
    <3> QED
      BY <3>1 DEF Copied
  <2>5. \A x : x # t => (BusyWith(x)' <=> BusyWith(x))
    BY <2>1, <2>2 DEF BusyWith, Types, PoolTypes
  <2>6. rows \in [Tables -> {"old", "empty", "backup", "added"}]
    BY DEF Types, DataTypes
  <2> HIDE DEF t
  <2> QED
    BY <1>0, <1>a, <2>1, <2>3, <2>4, <2>5, <2>6 DEF RowsKnown
<1>20. ASSUME NEW c \in Conns, NEW agent \in BOOLEAN, TableFails(c, agent)
      PROVE  RowsKnown'
  <2>1. errorCode' # 0
    BY <1>20 DEF TableFails, LogsError, Types, EndTypes
  <2> QED
    BY <2>1 DEF RowsKnown, Undisturbed
<1>21. ASSUME NEW c \in Conns, LoaderPanics(c)
      PROVE  RowsKnown'
  <2>1. wasTerminated'
    BY <1>21 DEF LoaderPanics, PoolOpen, Ready, At, endVars
  <2> QED
    BY <2>1 DEF RowsKnown, Undisturbed
<1> QED
  BY StepKinds, <1>1, <1>2, <1>3, <1>4, <1>5, <1>6, <1>7, <1>8, <1>9, <1>10,
     <1>11, <1>12, <1>13, <1>14, <1>15, <1>16, <1>17, <1>18, <1>19, <1>20,
     <1>21

-----------------------------------------------------------------------------
(* The theorems                                                            *)

LEMMA IInvInit == Init => IInv
<1> SUFFICES ASSUME Init PROVE IInv
  OBVIOUS
<1>1. MainTypes
  BY DEF Init, MainTypes, PCs, Early
<1>2. PoolTypes
  <2>1. worker \in [Conns -> {"idle", "busy", "done", "gucs"}] /\ parallel \in BOOLEAN
    BY DEF Init
  <2>2. running = [c \in Conns |-> running[c]]
    BY DEF Init
  <2>3. fatalBy \in Conns \cup {-1} /\ numErrors \in Nat
    BY DEF Init
  <2>4. errorTables = [metadata |-> errorTables.metadata, data |-> errorTables.data]
    BY DEF Init
  <2> QED
    BY <2>1, <2>2, <2>3, <2>4 DEF PoolTypes
<1>3. DataTypes
  <2>1. entry \in [Conns -> Nat] /\ cancelled \in BOOLEAN /\ panicked \in BOOLEAN
    BY DEF Init
  <2>2. rows \in [Tables -> {"old", "empty", "backup", "added"}]
    BY DEF Init
  <2>3. failures \in 0..MaxFailures
    BY StatementsAssumption DEF Init
  <2>4. backupsLeft = {} /\ helpers = {}
    BY DEF Init
  <2> QED
    BY <2>1, <2>2, <2>3, <2>4 DEF DataTypes
<1>4. EndTypes
  <2>1. setUp = {} /\ errorCode \in 0..2 /\ exitCode \in -1..2 /\ group \in {0, 1}
    BY DEF Init
  <2>2. wasTerminated \in BOOLEAN /\ cleanupFailed \in BOOLEAN
        /\ handler \in {"waiting", "cleanup", "exit"}
    BY DEF Init
  <2>3. files.written \in BOOLEAN /\ overlooked = {}
    BY DEF Init
  <2> QED
    BY <2>1, <2>2, <2>3 DEF EndTypes
<1>5. Ready /\ Places /\ Helpers /\ FailuresNoticed /\ StopsNoticed /\ Files
  BY DEF Init, Ready, Places, Helpers, FailuresNoticed, StopsNoticed, Files, Leaving
<1>6. ErrorTables
  BY DEF Init, ErrorTables, TablesOf
<1>7. Pool /\ EachIndexOnce /\ Loading /\ Loaded /\ BusyLoaders
  BY DEF Init, Pool, EachIndexOnce, Loading, Loaded, BusyLoaders
<1>8. Past /\ QDTables /\ CopiesKnown
  <2>1. \A n \in Asked : ~(n < section)
    BY SectionNumbers DEF Init, Asked
  <2> QED
    BY <2>1 DEF Init, Past, QDTables, CopiesKnown
<1>9. RowsKnown
  BY DEF Init, RowsKnown, Copied, BusyWith
<1> QED
  BY <1>1, <1>2, <1>3, <1>4, <1>5, <1>6, <1>7, <1>8, <1>9 DEF IInv, Types

LEMMA IInvStep == IInv /\ [Next]_vars => IInv'
<1> SUFFICES ASSUME IInv, [Next]_vars PROVE IInv'
  OBVIOUS
<1> USE DEF IInv
<1>1. Types'
  BY MainTypesStep, PoolTypesStep, DataTypesStep, EndTypesStep DEF Types
<1>2. Ready' /\ Places' /\ Helpers' /\ FailuresNoticed' /\ StopsNoticed' /\ Files'
  BY ReadyStep, PlacesStep, HelpersStep, FailuresNoticedStep, StopsNoticedStep,
     FilesStep
<1>3. ErrorTables' /\ Pool' /\ EachIndexOnce' /\ Past' /\ QDTables'
  BY ErrorTablesStep, PoolStep, EachIndexOnceStep, PastStep, QDTablesStep
<1>4. CopiesKnown' /\ Loading' /\ Loaded' /\ BusyLoaders' /\ RowsKnown'
  BY CopiesKnownStep, LoadingStep, LoadedStep, BusyLoadersStep, RowsKnownStep
<1> QED
  BY <1>1, <1>2, <1>3, <1>4

\* The inductive invariant: where main, the workers and the handler stand and
\* what is done, failed, noted and loaded there, in every state of a restore.
THEOREM Inductive == Spec => []IInv
BY IInvInit, IInvStep, PTL DEF Spec

\* The values of the variables, for any plan and any statements.
THEOREM TypeCorrect == Spec => []TypeOK
<1>1. IInv => TypeOK
  <2> SUFFICES ASSUME IInv PROVE TypeOK
    OBVIOUS
  <2>1. \A c \in Conns : worker[c] = "busy" /\ pc = "run" =>
          running[c].type \in StatementTypes
    BY ExecutedTypes DEF IInv
  <2> QED
    BY <2>1 DEF IInv, Types, MainTypes, PoolTypes, DataTypes, EndTypes, TypeOK
<1> QED
  BY <1>1, Inductive, PTL

\* No helper of any timestamp stays behind a restore that ends, signal or not,
\* unless its clean-up broke off or took that helper for gone when ssh or ps
\* failed (restore.go:892-904, agent_remote.go:275).
THEOREM HelpersStopped == Spec => []NoHelperLeft
<1>1. IInv => NoHelperLeft
  BY DEF IInv, Helpers, NoHelperLeft
<1> QED
  BY <1>1, Inductive, PTL

\* The files of failed tables list what failed, no more and no less
\* (restore.go:836), for any order of the workers.
THEOREM ErrorTablesRight == Spec => []ErrorTablesListed
<1>1. IInv => ErrorTablesListed
  BY DEF IInv, Files, ErrorTables, TablesOf, ErrorTablesListed
<1> QED
  BY <1>1, Inductive, PTL

\* The first index of a table: one, and there is one if there is any.
LEMMA FirstIndexOnly ==
  ASSUME NEW r \in FirstIndexes(Postdatas), NEW s \in FirstIndexes(Postdatas),
         r.of = s.of
  PROVE  r = s
<1>1. PICK i \in DOMAIN Postdatas :
        /\ r = Postdatas[i] /\ Postdatas[i].type = "INDEX"
        /\ \A j \in 1..(i - 1) : Postdatas[j].type = "INDEX" =>
             Postdatas[j].of # Postdatas[i].of
  BY DEF FirstIndexes
<1>2. PICK k \in DOMAIN Postdatas :
        /\ s = Postdatas[k] /\ Postdatas[k].type = "INDEX"
        /\ \A j \in 1..(k - 1) : Postdatas[j].type = "INDEX" =>
             Postdatas[j].of # Postdatas[k].of
  BY DEF FirstIndexes
<1>3. i \in Nat \ {0} /\ k \in Nat \ {0}
  BY ThePostdatas
<1>4. i = k \/ i \in 1..(k - 1) \/ k \in 1..(i - 1)
  BY <1>3
<1> QED
  BY <1>1, <1>2, <1>4

LEMMA FirstIndexThere ==
  ASSUME NEW s \in ToSet(Postdatas), s.type = "INDEX"
  PROVE  \E f \in FirstIndexes(Postdatas) : f.type = "INDEX" /\ f.of = s.of
<1> DEFINE N == {i \in DOMAIN Postdatas : Postdatas[i].type = "INDEX"
      /\ Postdatas[i].of = s.of}
<1>1. DOMAIN Postdatas = 1..Len(Postdatas) /\ Len(Postdatas) \in Nat
  BY ThePostdatas
<1>2. N \subseteq Nat /\ N # {}
  BY <1>1 DEF ToSet
<1>3. PICK i \in N : \A j \in N : i <= j
  <2> HIDE DEF N
  <2> QED
    BY <1>2, LeastNumber
<1>4. i \in DOMAIN Postdatas /\ \A j \in 1..(i - 1) : j \in DOMAIN Postdatas
        /\ j \notin N
  BY <1>1, <1>3
<1>5. \A j \in 1..(i - 1) : Postdatas[j].type = "INDEX" =>
        Postdatas[j].of # Postdatas[i].of
  BY <1>3, <1>4
<1>6. Postdatas[i] \in FirstIndexes(Postdatas)
  BY <1>3, <1>4, <1>5 DEF FirstIndexes
<1> QED
  BY <1>3, <1>6

\* The sections a command line asks for, but for the two that only look.
LEMMA AskedSections ==
  /\ 2 \in Asked <=> Metadata
  /\ 3 \in Asked <=> Metadata
  /\ 4 \in Asked <=> DataOnly
  /\ 5 \in Asked <=> (DataOnly \/ (Metadata /\ ~MetadataOnly))
  /\ 7 \in Asked <=> ~MetadataOnly
  /\ 8 \in Asked <=> Metadata
  /\ 9 \in Asked <=> Metadata
  /\ 10 \in Asked <=> Metadata
  /\ 11 \in Asked <=> WithStats
  /\ 12 \in Asked <=> (~WithStats /\ Flag("run-analyze"))
<1>1. \A n \in 1..12 : n \in Asked <=> Asks(Sections[n])
  BY SectionNames DEF Asked
<1>2. \A n \in {2, 3, 8, 9, 10} : Asks(Sections[n]) <=> Metadata
  <2>1. \A p \in {"schemas", "predata", "batch-1", "batch-2", "batch-3"} :
          Asks(p) <=> Metadata
    BY DEF Asks
  <2> QED
    BY <2>1, SectionNames
<1>3. Asks(Sections[4]) <=> DataOnly
  <2>1. Asks("sequences") <=> DataOnly
    BY DEF Asks
  <2> QED
    BY <2>1, SectionNames
<1>4. Asks(Sections[5]) <=> (DataOnly \/ (Metadata /\ ~MetadataOnly))
  <2>1. Asks("qd-data") <=> (DataOnly \/ (Metadata /\ ~MetadataOnly))
    BY DEF Asks
  <2> QED
    BY <2>1, SectionNames
<1>5. Asks(Sections[7]) <=> ~MetadataOnly
  <2>1. Asks("data") <=> ~MetadataOnly
    BY DEF Asks
  <2> QED
    BY <2>1, SectionNames
<1>6. Asks(Sections[11]) <=> WithStats
  <2>1. Asks("statistics") <=> WithStats
    BY DEF Asks
  <2> QED
    BY <2>1, SectionNames
<1>7. Asks(Sections[12]) <=> (~WithStats /\ Flag("run-analyze"))
  <2>1. Asks("analyze") <=> (~WithStats /\ Flag("run-analyze"))
    BY DEF Asks
  <2> QED
    BY <2>1, SectionNames
<1> QED
  BY <1>1, <1>2, <1>3, <1>4, <1>5, <1>6, <1>7, TheSections

\* Indexes of one table are not built side by side before the table has one,
\* and metadata of post-data objects waits for the objects, for any number of
\* connections (parallel.go:238, parallel.go:249).
THEOREM PostdataOrdered == Spec => []PostdataInOrder
<1>1. IInv => IndexesOneAtATime
  <2> SUFFICES ASSUME IInv, NEW c \in Conns, NEW d \in Conns, c # d,
                      Indexing(c), Indexing(d), running[c].of = running[d].of
               PROVE  HasIndex(running[c].of)
                      \/ \E s \in ToSet(FirstBatch(Postdatas)) \cap failed :
                           s.of = running[c].of
    BY DEF IndexesOneAtATime
  <2> DEFINE r == running[c]
             s == running[d]
  <2>1. /\ pc = "run" /\ worker[c] = "busy" /\ worker[d] = "busy"
        /\ r.type = "INDEX" /\ s.type = "INDEX"
    BY DEF Indexing
  <2>2. /\ section \in {3, 4, 5, 8, 9, 10, 11, 12}
        /\ r \in Works[section] /\ s \in Works[section]
    BY <2>1, ExecutedTypes DEF IInv
  <2>3. r # s
    BY <2>1 DEF IInv, EachIndexOnce, Executing
  <2>4. r.of = s.of
    OBVIOUS
  <2> HIDE DEF r, s
  <2>5. section \in {8, 9}
    BY <2>1, <2>2, PooledTypes
  <2>6. section # 8
    BY <2>2, <2>3, <2>4, FirstIndexOnly, WorksList DEF WorksListed
  <2>7. Works[8] \subseteq done \cup failed
    <3>1. 9 \in Asked /\ Going
      BY <2>1, <2>5, <2>6 DEF IInv, Places, Going, Executing
    <3>2. 8 \in Asked
      BY <3>1, AskedSections
    <3> QED
      BY <2>5, <2>6, <3>1, <3>2 DEF IInv, Past
  <2>8. r \in ToSet(Postdatas)
    BY <2>2, <2>5, <2>6, WorksList, ThePostdatas DEF WorksListed
  <2>9. PICK f \in FirstIndexes(Postdatas) : f.type = "INDEX" /\ f.of = r.of
    BY <2>1, <2>8, FirstIndexThere
  <2>10. f \in done \cup failed
    BY <2>7, <2>9, WorksList DEF WorksListed
  <2>11. f \in ToSet(FirstBatch(Postdatas))
    <3>1. FirstIndexes(Postdatas) \subseteq ToSet(Postdatas)
      BY FirstsAreIndexes
    <3> QED
      BY <3>1, <2>9, PostdataKept DEF FirstBatch
  <2> QED
    BY <2>9, <2>10, <2>11 DEF HasIndex, r
<1>2. IInv => DependentsLast
  <2> SUFFICES ASSUME IInv, NEW c \in Conns, worker[c] = "busy", pc = "run",
                      running[c].type \in MetadataTypes,
                      NEW s \in ToSet(Postdatas), s.type \notin MetadataTypes
               PROVE  s \in done \cup failed
    BY DEF DependentsLast
  <2>1. section \in {3, 4, 5, 8, 9, 10, 11, 12} /\ running[c] \in Works[section]
    BY ExecutedTypes DEF IInv
  <2>2. section = 10
    BY <2>1, PooledTypes DEF MetadataTypes
  <2>3. 10 \in Asked /\ Going
    BY <2>2 DEF IInv, Places, Going, Executing
  <2>4. 8 \in Asked /\ 9 \in Asked
    BY <2>3, AskedSections
  <2>5. Works[8] \subseteq done \cup failed /\ Works[9] \subseteq done \cup failed
    BY <2>2, <2>3, <2>4 DEF IInv, Past
  <2>6. s \in Works[8] \/ s \in Works[9]
    BY WorksList, ThePostdatas DEF WorksListed, IsMetadata
  <2> QED
    BY <2>5, <2>6
<1> QED
  BY <1>1, <1>2, Inductive, PTL DEF PostdataInOrder

\* What the sections of a restore that succeeds have to do is what its command
\* line asks for.
LEMMA DueIsWork ==
  ASSUME IInv, ValidateFlagCombinations(cmd.flags),
         \A n \in Asked : Works[n] \subseteq done
  PROVE  Due \subseteq done
<1> DEFINE copies == IF MetadataOnly THEN {} ELSE
                       UNION {{[type |-> "COPY", object |-> t, of |-> b] :
                                 t \in ToSet(EntriesOf(b))} : b \in DueBackups}
           qd     == IF MetadataOnly THEN {}
                     ELSE ToSet(StatementsOf(Predata, {"QD-DATA"}))
           Made(ss, types) == ToSet(StatementsOf(ss, types))
<1>1. Metadata <=> ~DataOnly
  BY DEF ValidateFlagCombinations, Metadata, DataOnly, Flag
<1>2. \A types :
        /\ Made(Predata, types) = Chosen(Predata, types)
                 /\ Made(Postdata, types) = Chosen(Postdata, types)
                 /\ Made(Statistics, types) = Chosen(Statistics, types)
  BY Selections
<1>3. copies \subseteq done
  <2>1. ~MetadataOnly => 7 \in Asked
    BY AskedSections
  <2>2. ~MetadataOnly => Works[7] = copies
    BY WorksList DEF WorksListed, Copies
  <2> QED
    BY <2>1, <2>2
<1>4. qd \subseteq done
  <2>1. ~MetadataOnly => 5 \in Asked
    BY <1>1, AskedSections
  <2>2. ~MetadataOnly => Works[5] = qd
    BY <1>2, WorksList DEF WorksListed
  <2> QED
    BY <2>1, <2>2
<1>5. (IF DataOnly THEN {Setval(s) : s \in Made(Predata, {"SEQUENCE"})}
       ELSE Made(Predata, {"SCHEMA", "TABLE", "SEQUENCE"})
            \cup Made(Postdata, StatementTypes)) \subseteq done
  <2>1. CASE DataOnly
    <3>1. 4 \in Asked
      BY <2>1, AskedSections
    <3>2. Works[4] = {Setval(s) : s \in Made(Predata, {"SEQUENCE"})}
      BY <1>2, WorksList DEF WorksListed
    <3> QED
      BY <2>1, <3>1, <3>2
  <2>2. CASE ~DataOnly
    <3>1. \A n \in {2, 3, 8, 9, 10} : n \in Asked
      BY <1>1, <2>2, AskedSections
    <3>2. Chosen(Predata,
            {"SCHEMA", "TABLE", "SEQUENCE"}) \subseteq Works[2] \cup Works[3]
      BY WorksList DEF WorksListed, Chosen
    <3>3. Chosen(Postdata,
            StatementTypes) \subseteq Works[8] \cup Works[9] \cup Works[10]
      BY WorksList DEF WorksListed
    <3> HIDE DEF Made
    <3> QED
      BY <1>2, <2>2, <3>1, <3>2, <3>3
  <2> QED
    BY <2>1, <2>2
<1>6. WithStats => Made(Statistics, StatementTypes) \subseteq done
  <2>1. WithStats => 11 \in Asked
    BY AskedSections
  <2>2. Works[11] = Made(Statistics, StatementTypes)
    BY <1>2, WorksList DEF WorksListed
  <2> QED
    BY <2>1, <2>2
<1>7. ~WithStats /\ Flag("run-analyze") =>
        {Analyze(s.object) : s \in copies \cup qd} \subseteq done
  <2> SUFFICES ASSUME ~WithStats, Flag("run-analyze"), NEW s \in copies \cup qd
               PROVE  Analyze(s.object) \in done
    OBVIOUS
  <2>1. 12 \in Asked
    BY AskedSections
  <2>2. s.object \in LoadedTables \cup QDDone
    <3>1. CASE s \in copies
      <4>1. ~MetadataOnly
        BY <3>1
      <4>2. PICK b \in DueBackups : s \in Copies(b)
        BY <3>1, <4>1 DEF Copies
      <4>3. s.object \in ToSet(EntriesOf(b))
        BY <4>2 DEF Copies
      <4> QED
        BY <4>1, <4>3 DEF LoadedTables
    <3>2. CASE s \in qd
      <4>1. s \in Chosen(Predata, {"QD-DATA"})
        BY <1>2, <3>2
      <4>2. s.type = "QD-DATA" /\ s \in done
        BY <1>4, <3>2, <4>1 DEF Chosen
      <4> QED
        BY <4>2 DEF QDDone
    <3> HIDE DEF copies, qd
    <3> QED
      BY <3>1, <3>2
  <2>3. Analyze(s.object) \in Works[12]
    BY <2>2, WorksList DEF WorksListed
  <2> QED
    BY <2>1, <2>3
<1>8. Due = copies \cup qd
        \cup (IF DataOnly THEN {Setval(s) : s \in Made(Predata, {"SEQUENCE"})}
              ELSE Made(Predata, {"SCHEMA", "TABLE", "SEQUENCE"})
                   \cup Made(Postdata, StatementTypes))
        \cup (IF WithStats THEN Made(Statistics, StatementTypes)
              ELSE IF Flag("run-analyze")
                   THEN {Analyze(s.object) : s \in copies \cup qd} ELSE {})
  BY DEF Due
<1> HIDE DEF copies, qd, Made
<1> QED
  BY <1>3, <1>4, <1>5, <1>6, <1>7, <1>8

\* A restore that nobody interrupts and that ends with status 0 has done all
\* that was asked for, whatever failed on the way in any goroutine: nothing is
\* missing, and the tables have the backup's rows (restore.go, parallel.go,
\* data.go).
THEOREM SuccessComplete == Spec => []SuccessIsComplete
<1>1. IInv => SuccessIsComplete
  <2> SUFFICES ASSUME IInv, exitCode = 0, ~wasTerminated
               PROVE  /\ failed = {} /\ Due \subseteq done
                      /\ \A s \in done : s.type = "COPY" =>
                           rows[s.object] = IF Truncates \/ s.object \notin cmd.objects
                                            THEN "backup" ELSE "added"
    BY DEF SuccessIsComplete
  <2>1. errorCode = 0 /\ pc = "exit"
    BY DEF IInv, Ready
  <2>2. section = 13
    BY <2>1 DEF IInv, Places, Leaving
  <2>3. failed = {}
    BY <2>1 DEF IInv, FailuresNoticed
  <2>4. \A n \in Asked : Works[n] \subseteq done
    <3>1. \A n \in Asked : n < section
      BY <2>2, SectionNames DEF Asked
    <3> QED
      BY <2>1, <2>3, <3>1 DEF IInv, Past, Going
  <2>5. ValidateFlagCombinations(cmd.flags)
    BY <2>2 DEF IInv, Ready
  <2>6. Due \subseteq done
    BY <2>4, <2>5, DueIsWork
  <2>7. ASSUME NEW s \in done, s.type = "COPY"
        PROVE  rows[s.object] = IF Truncates \/ s.object \notin cmd.objects
                                THEN "backup" ELSE "added"
    <3>1. s.of \in ToSet(Backups) /\ s.object \in ToSet(EntriesOf(s.of))
      BY <2>7 DEF IInv, CopiesKnown
    <3>2. s.object \in Tables
      BY <3>1, TheEntries DEF ToSet
    <3>3. Copied(s.object)
      BY <2>7 DEF Copied
    <3> QED
      BY <2>1, <3>2, <3>3 DEF IInv, RowsKnown, Undisturbed
  <2> QED
    BY <2>3, <2>6, <2>7
<1> QED
  BY <1>1, Inductive, PTL

==============================================================================
