-------------------------- MODULE MCRestoreLifecycle --------------------------
EXTENDS RestoreLifecycle

Stmt(type, object, of) == [type |-> type, object |-> object, of |-> of]

MCBackups == <<"b1", "b2">>
MCDataEntries == [b \in {"b1", "b2"} |-> IF b = "b1" THEN <<"t1">> ELSE <<"t2">>]
MCPredata == <<Stmt("SCHEMA", "s", None), Stmt("TABLE", "t1", "s"),
               Stmt("TABLE", "t2", "s"), Stmt("QD-DATA", "q", None)>>
MCPostdata == <<Stmt("INDEX", "i1", "t1"), Stmt("INDEX", "i2", "t1"),
                Stmt("INDEX-METADATA", "i2", "t1"), Stmt("INDEX", "i3", "t1")>>
MCStatistics == <<Stmt("STATISTICS", None, "t1")>>

Full == [dataOnly |-> FALSE, metadataOnly |-> FALSE, withStatistics |-> TRUE,
         filtered |-> FALSE, singleDataFile |-> FALSE, plugin |-> FALSE]
Single  == [Full EXCEPT !.singleDataFile = TRUE]
Plugged == [Full EXCEPT !.plugin = TRUE]
Filtered == [Full EXCEPT !.filtered = TRUE]

Command(flags, backup, include, database, present) ==
  [flags |-> flags, backup |-> backup, include |-> include,
   database |-> database, objects |-> present]

All == {"s", "t1", "t2"}
MCCommands ==
  {Command({}, Full, {}, TRUE, {}),
   Command({"create-db", "run-analyze"}, Single, {}, FALSE, {}),
   Command({"create-db"}, Filtered, {}, FALSE, {}),
   Command({"on-error-continue", "with-stats"}, Full, {}, TRUE, {"s", "t2"}),
   Command({"on-error-continue", "metadata-only"}, Full, {}, TRUE, {}),
   Command({"data-only", "incremental"}, Full, {}, TRUE, All),
   Command({"data-only", "incremental"}, Full, {}, TRUE, {"s", "t1"}),
   Command({"incremental"}, Full, {}, TRUE, All),
   Command({"data-only", "truncate-table", "on-error-continue", "resize-cluster"},
           Full, {}, TRUE, All),
   Command({"data-only", "metadata-only"}, Full, {}, TRUE, All),
   Command({"plugin-config", "include-table", "run-analyze"}, Plugged, {"t1"}, TRUE, {"s"}),
   Command({"plugin-config", "with-globals"}, Plugged, {}, TRUE, {"t2"}),
   Command({"with-globals", "truncate-table", "include-table", "on-error-continue"},
           Full, {"t1"}, TRUE, {})}
=============================================================================
