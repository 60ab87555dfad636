--------------------------- MODULE TableSelection ---------------------------
(***************************************************************************)
(* Which tables gpbackup writes the definition of, and which it copies the *)
(* rows of: from the filter flags (backup/validate.go, options/options.go) *)
(* through their expansion along inheritance and partitions               *)
(* (recurseTableDepend) and the catalogue queries to the split into        *)
(* metadata and data tables (SplitTablesByPartitionType, data.go).         *)
(*                                                                         *)
(* A world is a version, a catalogue of tables by oid and a command line.  *)
(* A name on the command line is the oid it resolves to, 0 for none, and   *)
(* whether it is written just as quote_ident writes it.  A list of tables  *)
(* is how often it has each one, since the order of the COPYs is another's *)
(* business (BackupData).                                                  *)
(***************************************************************************)
EXTENDS Naturals, Sequences, FiniteSets

CONSTANTS Worlds

\* parent is the partition parent or 0; inherits the other parents of a table;
\* member: the table belongs to an extension; config: it is one of its
\* configuration tables; distributed: it has a distribution policy.
TableFacts == [parent : Nat, inherits : SUBSET Nat, parted : BOOLEAN, foreign : BOOLEAN,
               external : BOOLEAN, member : BOOLEAN, config : BOOLEAN, distributed : BOOLEAN,
               schema : STRING]

\* Flags with names of tables, and with names of schemas.
TableFlags  == {"include-table", "include-table-file", "exclude-table", "exclude-table-file"}
SchemaFlags == {"include-schema", "include-schema-file", "exclude-schema",
                "exclude-schema-file"}

\* What the server lets be: no table is below itself; partitions are tables of
\* their parent's schema that inherit from nothing else, and nothing inherits
\* from them.
Sound(w, i) ==
  LET t == w.tables[i]
  IN  /\ t.parent \in {0} \cup {j \in DOMAIN w.tables : w.tables[j].parted}
      /\ t.inherits \subseteq {j \in DOMAIN w.tables : w.tables[j].parent = 0}
      /\ t.parent # 0 => t.inherits = {} /\ t.schema = w.tables[t.parent].schema
      /\ t.parted => ~t.foreign /\ ~t.external
      /\ t.config => t.member
      /\ w.version = 6 => ~(t.external /\ t.foreign) /\ ((t.config \/ t.foreign) => t.parent = 0)
      /\ w.version = 7 => (t.external => t.foreign)

Acyclic(w) ==
  \A S \in SUBSET DOMAIN w.tables :
    S # {} => \E i \in S : (w.tables[i].inherits \cup {w.tables[i].parent}) \cap S = {}

ASSUME WorldsAssumption ==
  \A w \in Worlds :
    /\ w.version \in {6, 7}
    /\ w.leaf \in BOOLEAN /\ w.noInherits \in BOOLEAN /\ w.metadataOnly \in BOOLEAN
    /\ DOMAIN w.tables \subseteq Nat \ {0} /\ IsFiniteSet(DOMAIN w.tables)
    /\ \A i \in DOMAIN w.tables : w.tables[i] \in TableFacts /\ Sound(w, i)
    /\ Acyclic(w)
    /\ DOMAIN w.flags \subseteq TableFlags \cup SchemaFlags
    /\ \A f \in DOMAIN w.flags \cap TableFlags :
         \A name \in w.flags[f] : name.oid \in DOMAIN w.tables \cup {0}

VARIABLES
  world,
  pc,             \* where gpbackup stands; "fatal" when it has given up
  left,           \* names that are still to be validated
  IncludedRelationFqns, ExcludedRelationFqns,   \* oids of the filter lists
  passes,         \* directions that are still to be followed
  expandedIncludeOids,
  tables,         \* the retrieved relations: how often each is in the list
  metadataTables, dataTables, dataTablesQDOnly   \* lists like tables

lists == <<IncludedRelationFqns, ExcludedRelationFqns>>
results == <<tables, metadataTables, dataTables, dataTablesQDOnly>>
selectionVars == <<world, pc, left, lists, passes, expandedIncludeOids, results>>

T == world.tables
Oids == DOMAIN T
AtLeast7 == world.version = 7

(* ---------------------------- the catalogue ---------------------------- *)

Root(i) == LET up[j \in Oids] == IF T[j].parent = 0 THEN j ELSE up[T[j].parent] IN up[i]

\* PartitionLevelInfo.Level
Level(i) ==
  CASE T[i].parted /\ T[i].parent = 0 -> "p"
    [] T[i].parted /\ T[i].parent # 0 -> "i"
    [] ~T[i].parted /\ T[i].parent # 0 -> "l"
    [] OTHER -> ""

IsParentInExtension(i) == T[i].parent # 0 /\ T[T[i].parent].member

\* Whether a table has an AttachPartitionInfo.
Attached(i) == AtLeast7 /\ T[i].parent # 0

\* A partition of version 6 that is not an external table.
InnerPartition(i) == T[i].parent # 0 /\ ~T[i].external

\* What a table depends on in pg_depend.
DependsOn(i) == T[i].inherits \cup ({T[i].parent} \ {0})

(* ----------------------------- the flags ------------------------------- *)

\* Sets of flags of which only one may be given, as far as they filter.
ExclusiveFlags ==
  {{"include-schema", "include-schema-file", "include-table", "include-table-file"},
   {"exclude-schema", "exclude-schema-file", "include-schema", "include-schema-file"},
   {"exclude-schema", "exclude-schema-file", "exclude-table", "include-table",
    "exclude-table-file", "include-table-file"},
   {"metadata-only", "leaf-partition-data"}}

Changed(flag) ==
  CASE flag = "metadata-only" -> world.metadataOnly
    [] flag = "leaf-partition-data" -> world.leaf
    [] OTHER -> flag \in DOMAIN world.flags

FlagsConflict ==
  \/ \E group \in ExclusiveFlags : Cardinality({f \in group : Changed(f)}) > 1
  \/ world.noInherits /\ ~Changed("include-table") /\ ~Changed("include-table-file")

\* What a file lists counts as if it were given with the flag.
Filters(flag, fileFlag) ==
  UNION {world.flags[f] : f \in {flag, fileFlag} \cap DOMAIN world.flags}
IncludedTables  == Filters("include-table", "include-table-file")
ExcludedTables  == Filters("exclude-table", "exclude-table-file")
IncludedSchemas == Filters("include-schema", "include-schema-file")
ExcludedSchemas == Filters("exclude-schema", "exclude-schema-file")

SchemaFilterClause(i) ==
  /\ IncludedSchemas # {} => T[i].schema \in IncludedSchemas
  /\ T[i].schema \notin ExcludedSchemas

SelectionInit ==
  /\ world \in Worlds
  /\ pc = "flags" /\ left = {}
  /\ IncludedRelationFqns = {} /\ ExcludedRelationFqns = {}
  /\ passes = <<>> /\ expandedIncludeOids = {}
  /\ tables = << >> /\ metadataTables = << >> /\ dataTables = << >> /\ dataTablesQDOnly = << >>

validateFlagCombinations ==
  /\ pc = "flags"
  /\ IF FlagsConflict THEN pc' = "fatal" /\ UNCHANGED left
     ELSE pc' = "validate" /\ left' = IncludedTables \cup ExcludedTables
  /\ UNCHANGED <<world, lists, passes, expandedIncludeOids, results>>

(* ----------------------- validation of the filters --------------------- *)

\* A name cannot be a filter: a table to include that does not exist, an
\* intermediate partition, or a leaf without --leaf-partition-data.
Refused(name) ==
  IF name.oid = 0 THEN name \in IncludedTables
  ELSE Level(name.oid) = "i" \/ (Level(name.oid) = "l" /\ ~world.leaf)

\* An excluded root takes its partitions along when each has its own data.
ExcludedWith(i) ==
  {i} \cup IF world.leaf /\ Level(i) = "p"
           THEN {j \in Oids : Root(j) = i /\ Level(j) # "p"} ELSE {}

ValidateTablesExist ==
  /\ pc = "validate"
  /\ \E name \in left :
       /\ left' = left \ {name}
       /\ pc' = IF Refused(name) THEN "fatal" ELSE pc
       /\ IF Refused(name) \/ name.oid = 0 THEN UNCHANGED lists
          ELSE IF name \in ExcludedTables
          THEN /\ ExcludedRelationFqns' = ExcludedRelationFqns \cup ExcludedWith(name.oid)
               /\ UNCHANGED IncludedRelationFqns
          ELSE /\ IncludedRelationFqns' = IncludedRelationFqns \cup {name.oid}
               /\ UNCHANGED ExcludedRelationFqns
  /\ UNCHANGED <<world, passes, expandedIncludeOids, results>>

\* A bug: an included leaf is never followed to its root.
ChildrenOnly ==
  IF IncludedTables = {} \/ world.noInherits THEN <<>> ELSE <<"children">>

\* Children, then parents of all of these; before version 7 the parents'
\* children again, for roots whose other partitions are external.
Passes ==
  IF IncludedTables = {} \/ world.noInherits THEN <<>>
  ELSE IF AtLeast7 THEN <<"children", "parents">>
  ELSE <<"children", "parents", "children">>

ValidateSchemasExist ==
  /\ pc = "validate" /\ left = {}
  /\ IF IncludedSchemas \subseteq {T[i].schema : i \in Oids}
     THEN /\ pc' = "expand" /\ passes' = Passes
          /\ expandedIncludeOids' = IncludedRelationFqns
     ELSE pc' = "fatal" /\ UNCHANGED <<passes, expandedIncludeOids>>
  /\ UNCHANGED <<world, left, lists, results>>

(* ------------------------------ expansion ------------------------------ *)

\* childrenQuery: before version 7 partitions that are not external are left
\* to their root, or, with a data file per leaf, taken when they are listed or
\* when no partition of the root is.
Child(j, i, oids) ==
  \/ AtLeast7
  \/ ~InnerPartition(j)
  \/ world.leaf /\ (j \in oids \/ i \notin {Root(k) : k \in {k \in oids : T[k].parent # 0}})

Children(oids) == {j \in Oids : \E i \in DependsOn(j) \cap oids : Child(j, i, oids)}
Parents(oids)  == UNION {DependsOn(i) : i \in oids}

\* One query of recurseTableDepend's loop.
recurseTableDepend ==
  /\ pc = "expand" /\ passes # <<>>
  /\ LET depOids == IF Head(passes) = "children" THEN Children(expandedIncludeOids)
                    ELSE Parents(expandedIncludeOids)
     IN  /\ expandedIncludeOids' = expandedIncludeOids \cup depOids
         /\ passes' = IF depOids \subseteq expandedIncludeOids THEN Tail(passes) ELSE passes
  /\ UNCHANGED <<world, pc, left, lists, results>>

\* What is found joins the filter, except the members of extensions.
ExpandIncludesForPartitions ==
  /\ pc = "expand" /\ passes = <<>>
  /\ IncludedRelationFqns' = IncludedRelationFqns \cup
       {i \in expandedIncludeOids : SchemaFilterClause(i) /\ ~T[i].member}
  /\ pc' = "retrieve"
  /\ UNCHANGED <<world, left, ExcludedRelationFqns, passes, expandedIncludeOids, results>>

(* ------------------------------ retrieval ------------------------------ *)

relationAndSchemaFilterClause(i) ==
  /\ SchemaFilterClause(i)
  /\ i \notin ExcludedRelationFqns
  /\ IncludedTables # {} => i \in IncludedRelationFqns

getUserTableRelations ==
  {i \in Oids : /\ relationAndSchemaFilterClause(i)
                /\ world.leaf \/ AtLeast7 \/ ~InnerPartition(i)
                /\ ~T[i].foreign /\ ~T[i].member}
getUserTableRelationsWithIncludeFiltering ==
  {i \in IncludedRelationFqns : ~T[i].foreign}
GetIncludedUserTableRelations ==
  IF IncludedTables # {} THEN getUserTableRelationsWithIncludeFiltering
  ELSE getUserTableRelations
GetForeignTableRelations ==
  {i \in Oids : relationAndSchemaFilterClause(i) /\ T[i].foreign /\ ~T[i].member}
GetExtensionTableRelations ==
  {i \in Oids : relationAndSchemaFilterClause(i) /\ ~T[i].foreign /\ T[i].config}

\* The rows of one query's result that are a given table.
Count(found) == IF found THEN 1 ELSE 0

RetrieveTables ==
  /\ pc = "retrieve"
  /\ tables' = [i \in Oids |-> Count(i \in GetIncludedUserTableRelations)
                               + Count(i \in GetForeignTableRelations)
                               + Count(i \in GetExtensionTableRelations)]
  /\ pc' = "split"
  /\ UNCHANGED <<world, left, lists, passes, expandedIncludeOids,
                 metadataTables, dataTables, dataTablesQDOnly>>

(* ------------------------- metadata and data --------------------------- *)

Filtered == world.leaf \/ IncludedRelationFqns # {}

\* Without such filters a partition whose root is excluded is skipped; the
\* root's quoted name is looked up among the names as they were given.
Skipped(i) ==
  Attached(i) /\ \E name \in ExcludedTables : name.oid = Root(i) /\ name.exact

\* How often a table goes into metadataTables: an external leaf has a branch of
\* its own, which version 7 does not leave.
MetadataEntries(i) ==
  CASE T[i].config -> 0
    [] ~T[i].config /\ Filtered ->
         (IF T[i].external /\ Level(i) = "l" THEN 1 ELSE 0) +
         (IF AtLeast7 \/ Level(i) \notin {"l", "i"} THEN 1 ELSE 0)
    [] OTHER -> IF Skipped(i) THEN 0 ELSE 1

\* A bug: partitions have data of their own beside that of their root.
EveryIncluded(i) ==
  IF world.leaf THEN Level(i) \notin {"p", "i"}
  ELSE IF Filtered THEN i \in IncludedRelationFqns
  ELSE ~Skipped(i) /\ (~Attached(i) \/ IsParentInExtension(i))

\* Whether a table goes into dataTables: one COPY per leaf, or one per root; a
\* partition whose parent belongs to an extension counts as a root.
HasData(i) ==
  IF world.leaf THEN Level(i) \notin {"p", "i"}
  ELSE IF Filtered THEN ~Attached(i) /\ i \in IncludedRelationFqns
  ELSE ~Skipped(i) /\ (~Attached(i) \/ IsParentInExtension(i))

\* The part of a list that is in S.
Only(list, S) == [i \in Oids |-> IF i \in S THEN list[i] ELSE 0]

SplitTablesByPartitionType ==
  /\ pc = "split"
  /\ metadataTables' = [i \in Oids |-> tables[i] * MetadataEntries(i)]
  /\ dataTables' = Only(tables, {i \in Oids : HasData(i)})
  /\ pc' = "dataset"
  /\ UNCHANGED <<world, left, lists, passes, expandedIncludeOids, tables, dataTablesQDOnly>>

\* Configuration tables of the coordinator alone are written as INSERTs.
IsQDOnly(i) == T[i].config /\ ~T[i].distributed
SkipDataBackup(i) == T[i].external \/ T[i].foreign

GetBackupDataSet ==
  /\ pc = "dataset"
  /\ IF world.metadataOnly
     THEN dataTablesQDOnly' = Only(dataTables, {}) /\ dataTables' = Only(dataTables, {})
     ELSE /\ dataTablesQDOnly' = Only(dataTables, {i \in Oids : IsQDOnly(i)})
          /\ dataTables' =
               Only(dataTables, {i \in Oids : ~IsQDOnly(i) /\ ~SkipDataBackup(i)})
  /\ pc' = "done"
  /\ UNCHANGED <<world, left, lists, passes, expandedIncludeOids, tables, metadataTables>>

SelectionNext ==
  \/ validateFlagCombinations \/ ValidateTablesExist \/ ValidateSchemasExist
  \/ recurseTableDepend \/ ExpandIncludesForPartitions
  \/ RetrieveTables \/ SplitTablesByPartitionType \/ GetBackupDataSet

SelectionSpec == SelectionInit /\ [][SelectionNext]_selectionVars

(* ----------------------------- properties ------------------------------ *)

\* A table that has rows of its own on the segments.
HasRows(i) == ~T[i].parted /\ ~SkipDataBackup(i)

Named(i) == \E name \in IncludedTables : name.oid = i

Ancestors(i) ==
  LET up[j \in Oids] == {j} \cup UNION {up[k] : k \in T[j].inherits} IN up[i]

\* The rows --include-table asks for: of the named tables, of what inherits from
\* them, and of a named root's partitions.
Asked(i) ==
  \/ Named(i)
  \/ ~world.noInherits /\ \E j \in Ancestors(i) : Named(j)
  \/ /\ Named(Root(i))
     /\ world.leaf => /\ ~world.noInherits
                      /\ AtLeast7 \/ \A j \in Oids : Named(j) /\ Root(j) = Root(i) => j = Root(i)

Excluded(i) ==
  \/ \E name \in ExcludedTables : name.oid \in {i, Root(i)}
  \/ ~SchemaFilterClause(i)

\* Members of extensions come with them, except for the rows of configuration
\* tables when there is no list.  Version 6 takes a partition for a part of its root.
Wanted(i) ==
  LET t == T[IF AtLeast7 \/ world.leaf THEN i ELSE Root(i)]
  IN  IF IncludedTables # {} THEN Asked(i) /\ ~t.member
      ELSE ~Excluded(i) /\ (t.member => t.config)

\* COPY of a partitioned table writes the rows of all partitions below.
Covers(d, i) ==
  LET up[j \in Oids] == j = d \/ (T[j].parent # 0 /\ up[T[j].parent]) IN up[i]

\* The COPY statements that write the rows of i, numbered for each table.
CopyStatements(i) ==
  UNION {{d} \X (1..(dataTables[d] + dataTablesQDOnly[d])) : d \in {d \in Oids : Covers(d, i)}}
Copies(i) == Cardinality(CopyStatements(i))

\* An excluded root of version 7 whose name is not given as quote_ident writes it
\* is not recognized when partitions are skipped.
SpelledOtherwise(i) ==
  AtLeast7 /\ ~world.leaf /\ \E name \in ExcludedTables : name.oid = Root(i) /\ ~name.exact

\* A partition of version 7 whose parent belongs to an extension is copied as a
\* root of its own, also if one further up is copied too: the rows come twice.
NewRoot(d, e) ==
  /\ AtLeast7 /\ ~world.leaf
  /\ IsParentInExtension(d) /\ d # e /\ Covers(e, d) /\ (T[e].member => T[e].config)
RootsNested(i) == \E d, e \in Oids : Covers(d, i) /\ NewRoot(d, e)

\* Named members of extensions are retrieved twice when they are configuration
\* tables, and get a CREATE TABLE when they are not: such lists are set aside.
OrdinaryList == \A i \in Oids : Named(i) => ~T[i].member

\* Whatever the flags, the rows of a table that is asked for are copied once,
\* those of an excluded one never (but see SpelledOtherwise), and no rows twice
\* (but see RootsNested):
\* with a root and its partitions in the same list, partitions under members of extensions, external
\* partitions and configuration tables (predata_relations.go 33-126,
\* data.go 392-427, options.go 250-344).
RowsExactlyOnce ==
  pc = "done" /\ ~world.metadataOnly /\ OrdinaryList =>
    \A i \in {i \in Oids : HasRows(i)} :
      /\ ~RootsNested(i) => Copies(i) <= 1
      /\ Wanted(i) => Copies(i) >= 1
      /\ Excluded(i) /\ ~SpelledOtherwise(i) => Copies(i) = 0

\* Before version 7 the last pass takes along what else inherits from an ancestor
\* of a table that is asked for, and does not look for its other parents.
AskedOrAncestor(i) == \E j \in Oids : Asked(j) /\ i \in Ancestors(j)

\* What a statement of the metadata file refers to is in it, or in an extension:
\* the parent of an attached partition, the root of a partition with rows or that
\* is exchanged, and with a list what its tables inherit from
\* (options.go 344-424, predata_relations.go 50-111).  Set aside: --no-inherits,
\* which asks for less; SpelledOtherwise; before version 7 an external partition of
\* an excluded root, and tables nobody asked for.
MetadataClosed ==
  pc = "done" /\ ~world.noInherits /\ OrdinaryList =>
    LET there(i) == T[i].member \/ metadataTables[i] > 0
        lost(i)  == SpelledOtherwise(i) \/
                    (~AtLeast7 /\ ~world.leaf /\ T[i].external /\ Excluded(i))
    IN  /\ \A i \in Oids : dataTables[i] > 0 => there(IF AtLeast7 THEN i ELSE Root(i))
        /\ \A i \in Oids : metadataTables[i] > 0 =>
             /\ T[i].parent # 0 /\ ~lost(i) =>
                  there(IF AtLeast7 THEN T[i].parent ELSE Root(i))
             /\ IncludedTables # {} /\ (AtLeast7 \/ AskedOrAncestor(i)) =>
                  \A j \in T[i].inherits : there(j)
=============================================================================
