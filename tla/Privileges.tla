----------------------------- MODULE Privileges -----------------------------
(***************************************************************************)
(* Owners and privileges of a database's objects on their way through      *)
(* gpbackup and gprestore: the rows of the catalogue are collected into an *)
(* ObjectMetadata per object (backup/queries_acl.go, predata_acl.go), the  *)
(* statements are printed, and run one after the other on a new database.  *)
(*                                                                         *)
(* A privilege is the letter the server writes for it.  An identifier is a *)
(* name with a flag, since the server writes names in access items with    *)
(* other quotation rules than SQL reads them.  Of comments and security    *)
(* labels only the presence and the provider are kept.  What the server    *)
(* does with a statement is external.                                      *)
(***************************************************************************)
EXTENDS Naturals, Sequences

CONSTANTS Roles,      \* names of roles
          Restorer,   \* the role that gprestore connects as
          Folds,      \* the role each name stands for when it is not quoted
          Odd,        \* roles whose names have other characters than letters
          Catalogs    \* databases that are backed up

Public == "PUBLIC"
NoItem == [grantee |-> "none", plain |-> {}, starred |-> {}]

\* The server reserves the names "public" and "none", and no name is empty.
ASSUME RolesAssumption ==
  /\ Restorer \in Roles /\ Odd \subseteq Roles
  /\ {Public, "none", ""} \cap Roles = {}
  /\ Folds \in [Roles -> Roles]
VARIABLES
  catalog,        \* what is backed up
  pc,             \* where gpbackup, then gprestore, stands
  rows,           \* rows of the query that are still to come, as <<object, row>>
  currentUniqueID, metadata,   \* the accumulators of ConstructMetadataMap
  metadataMap,    \* ObjectMetadata of the objects that are complete
  next,           \* the object that is printed next
  statements,     \* what printExtensionFunctionACLs has collected
  script,         \* statements of the metadata file
  target,         \* the objects of the new database, by number
  targetDefaults, \* its default privileges
  refused         \* whether a statement failed

backupVars == <<rows, currentUniqueID, metadata, metadataMap>>
printVars == <<next, statements>>
privilegesVars ==
  <<catalog, pc, backupVars, printVars, script, target, targetDefaults, refused>>

(* ------------------------- the server's side --------------------------- *)

\* The privileges there are on what a statement calls by this keyword.
Rights ==
  [k \in {"TABLE", "COLUMN", "SEQUENCE", "DATABASE", "SCHEMA", "PROTOCOL", "TABLESPACE",
          "FUNCTION", "LANGUAGE", "TYPE", "FOREIGN SERVER", "FOREIGN DATA WRAPPER"} |->
     CASE k = "TABLE"      -> {"a", "r", "w", "d", "D", "x", "t"}
       [] k = "COLUMN"     -> {"a", "r", "w", "x"}
       [] k = "SEQUENCE"   -> {"r", "w", "U"}
       [] k = "DATABASE"   -> {"C", "T", "c"}
       [] k = "SCHEMA"     -> {"U", "C"}
       [] k = "PROTOCOL"   -> {"a", "r"}
       [] k = "TABLESPACE" -> {"C"}
       [] k = "FUNCTION"   -> {"X"}
       [] OTHER            -> {"U"}]

\* The keyword that stands for the objects of a type.
Keyword(type) ==
  IF type \in {"VIEW", "MATERIALIZED VIEW", "FOREIGN TABLE"} THEN "TABLE"
  ELSE IF type = "AGGREGATE" THEN "FUNCTION" ELSE type

Entry(to, letters, option) ==
  {[grantee |-> to, right |-> l, option |-> option] : l \in letters}

\* A grant with the option includes the one without.
Normal(acl) == {e \in acl : e.option \/ [e EXCEPT !.option = TRUE] \notin acl}

\* What an object has whose access list is null.
Default(keyword, owner) ==
  Entry(owner, Rights[keyword], FALSE) \cup
  Entry(Public, CASE keyword = "DATABASE" -> {"T", "c"}
                  [] keyword = "FUNCTION" -> {"X"}
                  [] keyword \in {"LANGUAGE", "TYPE"} -> {"U"}
                  [] OTHER -> {}, FALSE)

\* f with the value at k.
With(f, k, value) == [x \in DOMAIN f \cup {k} |-> IF x = k THEN value ELSE f[x]]

NullAcl == [null |-> TRUE, acl |-> {}]
Effective(list, type, owner) ==
  CASE ~list.null -> list.acl
    [] list.null /\ Keyword(type) \in DOMAIN Rights -> Default(Keyword(type), owner)
    [] OTHER -> {}

\* The kind of default privileges an object gets when it is created.
DefaultKind(type) ==
  CASE type = "SEQUENCE" -> "S" [] Keyword(type) = "TABLE" -> "r"
    [] Keyword(type) = "FUNCTION" -> "f" [] type = "TYPE" -> "T" [] OTHER -> "none"
DefaultKeyword == [r |-> "TABLE", S |-> "SEQUENCE", f |-> "FUNCTION", T |-> "TYPE"]

\* Default privileges of the whole database start from the built-in ones.
DefaultsOf(key) ==
  IF key \in DOMAIN targetDefaults THEN targetDefaults[key]
  ELSE IF key.inSchema THEN {} ELSE Default(DefaultKeyword[key.kind], key.role)

CreatedAcl(type) ==
  LET Key(inSchema) == [role |-> Restorer, inSchema |-> inSchema, kind |-> DefaultKind(type)]
  IN  IF {Key(TRUE), Key(FALSE)} \cap DOMAIN targetDefaults = {} THEN NullAcl
      ELSE [null |-> FALSE, acl |-> Normal(DefaultsOf(Key(TRUE)) \cup DefaultsOf(Key(FALSE)))]

(* --------------------- names and access items -------------------------- *)

Name(name, quoted) == [name |-> name, quoted |-> quoted]
NoName     == Name("", FALSE)
PublicName == Name(Public, FALSE)

\* An access item quotes a name that has other characters than letters,
\* quote_ident also one that would be folded.
ItemName(r)   == IF r = Public THEN NoName ELSE Name(r, r \in Odd)
QuoteIdent(r) == Name(r, r \in Odd \/ Folds[r] # r)

\* The role an identifier of a statement names; "none" when it cannot be read.
Named(id) ==
  CASE id.name = Public -> Public
    [] id.quoted /\ id.name \in Roles -> id.name
    [] ~id.quoted /\ id.name \in Roles \ Odd -> Folds[id.name]
    [] OTHER -> "none"

\* quotedRoleNames has the names as they are in the catalogue.
QuotedGrantee(id) == IF ~id.quoted /\ id.name \in Roles THEN QuoteIdent(id.name) ELSE id

\* A star takes the letter before it from the plain privileges to those with
\* the grant option.
ParseACL(item) ==
  [Grantee |-> QuotedGrantee(ItemName(item.grantee)),
   plain |-> item.plain \ item.starred, starred |-> item.starred]

\* What "GRANTEE=/GRANTOR" is read as: privileges, but none of them.
EmptyACL == [Grantee |-> Name("GRANTEE", FALSE), plain |-> {}, starred |-> {}]

(* -------------------- from the catalogue to metadata ------------------- *)

\* Types whose MetadataQueryParams have an ACLField, and those with an OwnerField.
AclTypes ==
  {"TABLE", "VIEW", "MATERIALIZED VIEW", "FOREIGN TABLE", "SEQUENCE", "DATABASE", "SCHEMA",
   "PROTOCOL", "TABLESPACE", "FUNCTION", "AGGREGATE", "LANGUAGE", "TYPE", "FOREIGN SERVER",
   "FOREIGN DATA WRAPPER"}
OwnerTypes ==
  AclTypes \cup {"COLLATION", "CONVERSION", "EVENT TRIGGER", "OPERATOR", "OPERATOR CLASS",
                 "OPERATOR FAMILY", "STATISTICS", "TEXT SEARCH CONFIGURATION",
                 "TEXT SEARCH DICTIONARY"}

\* Types of which only comments are asked for.
CommentTypes ==
  {"CAST", "CONSTRAINT", "EXTENSION", "INDEX", "RESOURCE GROUP", "RESOURCE QUEUE", "RULE",
   "TEXT SEARCH PARSER", "TEXT SEARCH TEMPLATE", "TRIGGER"}

\* Access items of some privileges; a star comes after the letter.
AccessItems(rights) ==
  [grantee : Roles \cup {Public}, plain : SUBSET rights, starred : SUBSET rights]

ASSUME CatalogsAssumption ==
  \A c \in Catalogs :
    /\ c.objects \in Seq([type : STRING, owner : Roles, null : BOOLEAN,
          items : SUBSET AccessItems(UNION {Rights[k] : k \in DOMAIN Rights}),
          columnItems : SUBSET AccessItems(Rights["COLUMN"]),
          labels : SUBSET STRING, comment : BOOLEAN, extension : BOOLEAN, dummy : BOOLEAN])
    /\ \A i \in DOMAIN c.objects :
         LET o == c.objects[i]
         IN  /\ o.type # "COLUMN" /\ "none" \notin o.labels
             /\ o.type \in CommentTypes => o.labels = {}
             /\ o.type \notin AclTypes => o.null
             /\ o.type \in AclTypes => o.items \subseteq AccessItems(Rights[Keyword(o.type)])
             /\ Keyword(o.type) # "TABLE" => o.columnItems = {}
             /\ o.extension => o.owner = Restorer
    /\ c.defaults \in Seq([key : [role : Roles, inSchema : BOOLEAN, kind : DOMAIN DefaultKeyword],
          items : SUBSET AccessItems(UNION {Rights[k] : k \in DOMAIN Rights})])
    /\ \A i, j \in DOMAIN c.defaults :
         /\ c.defaults[i].items \subseteq AccessItems(Rights[DefaultKeyword[c.defaults[i].key.kind]])
         /\ c.defaults[i].key = c.defaults[j].key => i = j
    /\ \A i \in DOMAIN c.objects : c.objects[i].dummy => c.objects[i].type = "VIEW"

OwnerName(o) == IF o.type \in OwnerTypes THEN QuoteIdent(o.owner) ELSE NoName

\* A row of GetCommentsForObjectType, for objects that have a comment.
CommentRow ==
  [owner |-> NoName, comment |-> TRUE, label |-> "none", kind |-> "", privileges |-> NoItem]
CommentRows(o) == {r \in {CommentRow} : o.comment}

\* A row of GetMetadataForObjectType per access item and security label, or one
\* without.
LabelsOf(o) == IF o.labels = {} THEN {"none"} ELSE o.labels
ItemsOf(o)  == IF o.type \notin AclTypes \/ o.null \/ o.items = {} THEN {NoItem} ELSE o.items
KindOf(o)   == IF o.type \in AclTypes /\ ~o.null /\ o.items = {} THEN "Empty" ELSE ""

MetadataRow(o, l, i) ==
  [owner |-> OwnerName(o), comment |-> o.comment, label |-> l, kind |-> KindOf(o), privileges |-> i]
MetadataRows(o) == UNION {{MetadataRow(o, l, i) : i \in ItemsOf(o)} : l \in LabelsOf(o)}

RowsOf(o) == IF o.type \in CommentTypes THEN CommentRows(o) ELSE MetadataRows(o)

\* The privileges a row adds; the set stands for the sorted list, since grants
\* to different roles and of different options commute.
RowPrivileges(row) ==
  IF row.kind = "Empty" THEN {EmptyACL}
  ELSE IF row.privileges = NoItem THEN {} ELSE {ParseACL(row.privileges)}

NoMetadata == [owner |-> NoName, comment |-> FALSE, label |-> "none", privileges |-> {}]

PrivilegesInit ==
  /\ catalog \in Catalogs
  /\ pc = "query"
  /\ rows = UNION {{<<i, r>> : r \in RowsOf(catalog.objects[i])} : i \in DOMAIN catalog.objects}
  /\ currentUniqueID = 0 /\ metadata = NoMetadata /\ metadataMap = << >>
  /\ next = 1 /\ statements = <<>> /\ script = <<>>
  /\ target = << >> /\ targetDefaults = << >> /\ refused = FALSE

\* What the map holds once the object before is put into it.
Collected ==
  IF currentUniqueID = 0 THEN metadataMap ELSE With(metadataMap, currentUniqueID, metadata)

StartOf(row) == [owner |-> row.owner, comment |-> row.comment, label |-> row.label,
                 privileges |-> RowPrivileges(row)]

\* One turn of ConstructMetadataMap's loop: rows come in the order of their
\* objects, those of one object in any order.
NextRow ==
  /\ pc = "query"
  /\ \E r \in rows :
       /\ \A s \in rows : r[1] <= s[1]
       /\ rows' = rows \ {r}
       /\ currentUniqueID' = r[1]
       /\ IF r[1] # currentUniqueID
          THEN metadataMap' = Collected /\ metadata' = StartOf(r[2])
          ELSE /\ metadata' = [metadata EXCEPT !.privileges = @ \cup RowPrivileges(r[2])]
               /\ UNCHANGED metadataMap
  /\ UNCHANGED <<catalog, pc, printVars, script, target, targetDefaults, refused>>

RowsEnd ==
  /\ pc = "query" /\ rows = {}
  /\ metadataMap' = Collected
  /\ pc' = "predata"
  /\ UNCHANGED <<catalog, rows, currentUniqueID, metadata, printVars, script, target,
                 targetDefaults, refused>>

(* -------------------- from metadata to statements ---------------------- *)

\* hasAllPrivileges of a type.
AllPrivileges(type) ==
  CASE type = "FOREIGN TABLE" -> {"r", "a", "w", "d", "x", "t"}
    [] type \in {"TABLE", "VIEW", "MATERIALIZED VIEW"} -> {"r", "a", "w", "d", "D", "x", "t"}
    [] type = "COLUMN" -> {"r", "a", "w", "x"}
    [] type = "SEQUENCE" -> {"r", "w", "U"}
    [] type = "DATABASE" -> {"C", "T", "c"}
    [] type = "SCHEMA" -> {"U", "C"}
    [] type = "PROTOCOL" -> {"r", "a"}
    [] type = "TABLESPACE" -> {"C"}
    [] type \in {"FUNCTION", "AGGREGATE"} -> {"X"}
    [] OTHER -> {"U"}

\* ALL, or the privileges one by one: "X" has no word of its own in the list.
PrivilegeString(letters, type) ==
  IF AllPrivileges(type) \subseteq letters THEN {"ALL"} ELSE letters \ {"X"}

GranteeName(id) == IF id.name = "" THEN PublicName ELSE id

\* The grants of one access list: with and without the option.
Grants(privileges, type) ==
  {g \in UNION {{[to |-> GranteeName(acl.Grantee), what |-> PrivilegeString(acl.plain, type),
                  option |-> FALSE],
                 [to |-> GranteeName(acl.Grantee), what |-> PrivilegeString(acl.starred, type),
                  option |-> TRUE]} : acl \in privileges} : g.what # {}}

Statement(object, kind) ==
  [object |-> object, kind |-> kind, keyword |-> "none", column |-> FALSE, to |-> NoName,
   revoke |-> {}, grants |-> {}]

\* REVOKE ALL from PUBLIC and from the owner, then the grants, in one entry.
PrivilegesStatement(object, type, m) ==
  [Statement(object, "GRANT") EXCEPT
     !.keyword = Keyword(IF type = "COLUMN" THEN "TABLE" ELSE type),
     !.column = (type = "COLUMN"),
     !.revoke = {PublicName} \cup ({m.owner} \ {NoName}),
     !.grants = Grants(m.privileges, type)]

GetPrivilegesStatements(object, type, m) ==
  IF m.privileges = {} THEN <<>> ELSE <<PrivilegesStatement(object, type, m)>>

GetOwnerStatement(object, m) ==
  IF m.owner.name = "" THEN <<>> ELSE <<[Statement(object, "OWNER") EXCEPT !.to = m.owner]>>
GetCommentStatement(object, m) == IF m.comment THEN <<Statement(object, "COMMENT")>> ELSE <<>>
GetSecurityLabelStatement(object, m) ==
  IF m.label = "none" THEN <<>>
  ELSE <<[Statement(object, "LABEL") EXCEPT !.to = Name(m.label, TRUE)]>>

PrintObjectMetadata(object, type, m) ==
  GetCommentStatement(object, m) \o GetOwnerStatement(object, m)
  \o GetPrivilegesStatements(object, type, m) \o GetSecurityLabelStatement(object, m)

\* A view that depends on a constraint (dummy, the code's NeedsDummy) is created
\* before it with columns of NULLs and its owner and privileges, and replaced
\* after it; neither statement comes with privileges of its columns.
PrintedColumns(o) == IF o.dummy THEN {} ELSE o.columnItems

\* The column's list: the owner is the table's.
ColumnStatements(object, o, m) ==
  GetPrivilegesStatements(object, "COLUMN",
    [m EXCEPT !.privileges = {ParseACL(i) : i \in PrintedColumns(o)}])

\* A bug: the columns' privileges come before the table's.
ColumnsFirst(object, o, m) ==
  GetOwnerStatement(object, m) \o
  (IF Keyword(o.type) = "TABLE" THEN ColumnStatements(object, o, m) ELSE <<>>)
  \o PrintObjectMetadata(object, o.type, m)

\* A statement per object and, for relations, their columns after the table:
\* revoking from the owner on the table would take the columns' privileges too.
PostCreate(object, o, m) ==
  PrintObjectMetadata(object, o.type, m)
  \o (IF Keyword(o.type) = "TABLE" THEN ColumnStatements(object, o, m) ELSE <<>>)

\* An object without an entry in the map has the empty metadata.
MetadataOf(i) == IF i \in DOMAIN metadataMap THEN metadataMap[i] ELSE NoMetadata

\* Members of extensions come with theirs, and are left over in the map.
PrintObject ==
  /\ pc = "predata" /\ next \in DOMAIN catalog.objects
  /\ LET o == catalog.objects[next]
     IN  /\ script' = script \o <<Statement(next, "CREATE")>>
                      \o (IF o.extension THEN <<>> ELSE PostCreate(next, o, MetadataOf(next)))
         /\ metadataMap' = IF o.extension THEN metadataMap
                           ELSE [j \in DOMAIN metadataMap \ {next} |-> metadataMap[j]]
  /\ next' = next + 1
  /\ UNCHANGED <<catalog, pc, rows, currentUniqueID, metadata, statements, target,
                 targetDefaults, refused>>

ObjectsEnd ==
  /\ pc = "predata" /\ next \notin DOMAIN catalog.objects
  /\ pc' = "functions" /\ next' = 1
  /\ UNCHANGED <<catalog, backupVars, statements, script, target, targetDefaults, refused>>

\* Of what is left over in the map the functions, in the order of their
\* signatures.  Each entry repeats the statements of those before.
printExtensionFunctionACLs ==
  /\ pc = "functions" /\ next \in DOMAIN catalog.objects
  /\ LET more == IF next \in DOMAIN metadataMap /\ catalog.objects[next].type = "FUNCTION"
                 THEN GetPrivilegesStatements(next, "FUNCTION", metadataMap[next])
                 ELSE <<>>
     IN  /\ statements' = statements \o more
         /\ script' = IF more = <<>> THEN script ELSE script \o statements \o more
  /\ next' = next + 1
  /\ UNCHANGED <<catalog, pc, backupVars, target, targetDefaults, refused>>

\* A row of pg_default_acl as ConstructDefaultPrivileges collects it.
DefaultPrivileges(d) ==
  [key |-> d.key, owner |-> QuoteIdent(d.key.role),
   privileges |-> UNION {RowPrivileges(r) :
     r \in RowsOf([type |-> DefaultKeyword[d.key.kind], owner |-> d.key.role, null |-> FALSE,
                   items |-> d.items, comment |-> FALSE, labels |-> {}])}]

\* A bug: what the built-in default gives to PUBLIC is not taken back.
DefaultKeepsPublic(p) ==
  [Statement(0, "DEFAULT") EXCEPT
     !.keyword = p.key, !.to = p.owner, !.revoke = {p.owner},
     !.grants = Grants(p.privileges, DefaultKeyword[p.key.kind])]

\* Always the revocations, then the grants.
DefaultStatement(p) ==
  [Statement(0, "DEFAULT") EXCEPT
     !.keyword = p.key, !.to = p.owner,
     !.revoke = {PublicName, p.owner},
     !.grants = Grants(p.privileges, DefaultKeyword[p.key.kind])]

PrintDefaultPrivilegesStatements ==
  /\ pc = "functions" /\ next \notin DOMAIN catalog.objects
  /\ script' = script \o [i \in DOMAIN catalog.defaults |->
                            DefaultStatement(DefaultPrivileges(catalog.defaults[i]))]
  /\ pc' = "restore"
  /\ UNCHANGED <<catalog, backupVars, printVars, target, targetDefaults, refused>>

(* ------------------------ the restored database ------------------------ *)

\* An access list after the statement; ALL is all there is for the keyword.
Changed(acl, s, keyword) ==
  Normal({e \in acl : e.grantee \notin {Named(id) : id \in s.revoke}} \cup
         UNION {Entry(Named(g.to), IF g.what = {"ALL"} THEN Rights[keyword] ELSE g.what, g.option) :
                  g \in s.grants})

\* A new owner takes the old one's place in the access list.
Renamed(acl, old, new) ==
  Normal({[e EXCEPT !.grantee = IF @ = old THEN new ELSE @] : e \in acl})

Readable(s) ==
  \A id \in s.revoke \cup {g.to : g \in s.grants} \cup (IF s.kind = "OWNER" THEN {s.to} ELSE {}) :
    Named(id) # "none"

AfterGrant(o, s) ==
  IF s.column THEN [o EXCEPT !.column = Changed(@, s, "COLUMN")]
  ELSE [o EXCEPT
         !.list = [null |-> FALSE,
                   acl |-> Changed(Effective(@, o.type, o.owner), s, s.keyword)],
         !.column = {e \in @ : e.grantee \notin {Named(id) : id \in s.revoke}}]

AfterOwner(o, s) ==
  [o EXCEPT !.owner = Named(s.to),
            !.list.acl = Renamed(@, o.owner, Named(s.to)),
            !.column = Renamed(@, o.owner, Named(s.to))]

Executed(o, s) ==
  CASE s.kind = "GRANT" -> AfterGrant(o, s)
    [] s.kind = "OWNER" -> AfterOwner(o, s)
    [] s.kind = "COMMENT" -> [o EXCEPT !.comment = TRUE]
    [] s.kind = "LABEL" -> [o EXCEPT !.labels = @ \cup {s.to.name}]

Created(type) == [type |-> type, owner |-> Restorer, list |-> CreatedAcl(type),
                  column |-> {}, comment |-> FALSE, labels |-> {}]

ExecuteStatement ==
  /\ pc = "restore" /\ script # <<>>
  /\ script' = Tail(script)
  /\ LET s == Head(script)
     IN  /\ refused' = (refused \/ ~Readable(s))
         /\ \/ /\ s.kind = "CREATE"
               /\ target' = With(target, s.object, Created(catalog.objects[s.object].type))
               /\ UNCHANGED targetDefaults
            \/ /\ s.kind = "DEFAULT" /\ Readable(s)
               /\ targetDefaults' = With(targetDefaults, s.keyword,
                    Changed(DefaultsOf(s.keyword), s, DefaultKeyword[s.keyword.kind]))
               /\ UNCHANGED target
            \/ /\ s.kind \notin {"CREATE", "DEFAULT"} /\ Readable(s)
               /\ target' = [target EXCEPT ![s.object] = Executed(@, s)]
               /\ UNCHANGED targetDefaults
            \/ /\ s.kind # "CREATE" /\ ~Readable(s)
               /\ UNCHANGED <<target, targetDefaults>>
  /\ UNCHANGED <<catalog, pc, backupVars, printVars>>

RestoreEnds ==
  /\ pc = "restore" /\ script = <<>>
  /\ pc' = "done"
  /\ UNCHANGED <<catalog, backupVars, printVars, script, target, targetDefaults, refused>>

PrivilegesNext ==
  \/ NextRow \/ RowsEnd
  \/ PrintObject \/ ObjectsEnd \/ printExtensionFunctionACLs
  \/ PrintDefaultPrivilegesStatements
  \/ ExecuteStatement \/ RestoreEnds

PrivilegesSpec == PrivilegesInit /\ [][PrivilegesNext]_privilegesVars

(* ----------------------------- properties ------------------------------ *)

\* The privileges an access list of the source stands for.
Held(items) ==
  Normal(UNION {Entry(i.grantee, i.plain \ i.starred, FALSE) \cup
                Entry(i.grantee, i.starred, TRUE) : i \in items})

\* TRUNCATE on a foreign table comes with the other privileges: the code counts
\* them as all, the server adds it.  The comparison leaves it out.
Kept(acl, type) == IF type = "FOREIGN TABLE" THEN {e \in acl : e.right # "D"} ELSE acl

\* Of an extension's members only functions get their grants.
Saved(o) == ~o.extension \/ o.type = "FUNCTION"

\* When all statements are run every role, PUBLIC included, has on every object
\* and column just what it had, with and without the grant option, whatever the
\* object's type, owner and access list (null and empty ones too), and the
\* object has its owner, its comment and one of its labels (predata_acl.go
\* 82-146, 287-326; predata_relations.go 275-305).  Columns of views that depend
\* on a constraint are set aside: the code loses their privileges.
PrivilegesRestored ==
  pc = "done" =>
    /\ ~refused
    /\ \A i \in DOMAIN catalog.objects :
         LET o == catalog.objects[i]
             t == target[i]
             source == [null |-> o.null, acl |-> Held(o.items)]
         IN  Saved(o) =>
               /\ Kept(Effective(t.list, t.type, t.owner), o.type)
                    = Kept(Effective(source, o.type, o.owner), o.type)
               /\ ~o.dummy => t.column = Held(o.columnItems)
               /\ ~o.extension =>
                    /\ o.type \in OwnerTypes => t.owner = o.owner
                    /\ t.comment = o.comment
                    /\ t.labels \subseteq o.labels /\ (t.labels = {} <=> o.labels = {})

\* The restored database gives new objects the privileges the source would, for
\* each role, with and without a schema (predata_acl.go 508-594), and none of
\* them has reached an object of the restore itself, which is created before.
DefaultsRestored ==
  pc = "done" =>
    /\ \A i \in DOMAIN catalog.defaults :
         LET d == catalog.defaults[i]
         IN  d.key \in DOMAIN targetDefaults /\ targetDefaults[d.key] = Held(d.items)
    /\ \A i \in DOMAIN catalog.objects :
         catalog.objects[i].null /\ ~catalog.objects[i].extension => target[i].list.null
=============================================================================
