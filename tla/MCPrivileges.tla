---------------------------- MODULE MCPrivileges ----------------------------
(* Every access item of one role on every type of object, the owner's and    *)
(* PUBLIC's items, lists that are null or empty, columns, several objects    *)
(* with labels, members of extensions and default privileges.                *)
EXTENDS Privileges

MCRoles == {"gpadmin", "bob", "Bob", "b-b"}
MCFolds == [r \in MCRoles |-> IF r = "Bob" THEN "bob" ELSE r]

MCTypes == AclTypes

MCItem(r, plain, starred) == [grantee |-> r, plain |-> plain \cup starred, starred |-> starred]
MCObject(type, owner, items) ==
  [type |-> type, owner |-> owner, null |-> FALSE, items |-> items, columnItems |-> {},
   labels |-> {}, comment |-> FALSE, extension |-> FALSE, dummy |-> FALSE]
MCCatalog(objects) == [objects |-> objects, defaults |-> <<>>]

\* Every way one role can hold the privileges of a type.
MCItems(r, all) ==
  {MCItem(r, l \ s, s) : l \in (SUBSET all) \ {{}}, s \in SUBSET all}

MCOwners(type) == MCItem("Bob", Rights[Keyword(type)], {})

MCOne ==
  UNION {{MCCatalog(<<MCObject(t, "Bob", {MCOwners(t), MCItem("b-b", {}, {l}), MCItem(Public, {l}, {})})>>) :
            l \in Rights[Keyword(t)]} : t \in MCTypes} \cup
  UNION {{MCCatalog(<<MCObject(t, "Bob", {i})>>) : i \in MCItems("bob", Rights[Keyword(t)])} :
           t \in MCTypes \ {"VIEW", "MATERIALIZED VIEW"}}

MCLists ==
  UNION {{MCCatalog(<<[MCObject(t, o, {}) EXCEPT !.null = TRUE]>>), MCCatalog(<<MCObject(t, o, {})>>),
          MCCatalog(<<MCObject(t, o, {MCItem(Public, Rights[Keyword(t)], {})})>>),
          MCCatalog(<<MCObject(t, o, {MCOwners(t), MCItem("gpadmin", {}, Rights[Keyword(t)])})>>)} :
           t \in MCTypes, o \in {"Bob", "b-b", "gpadmin"}}

\* A view that depends on a constraint, next to a table.
MCDummies ==
  {MCCatalog(<<[MCObject("VIEW", o, {MCItem("bob", {}, {"r"})})
                  EXCEPT !.dummy = TRUE, !.comment = TRUE, !.columnItems = {i}],
               [MCObject("TABLE", o, {}) EXCEPT !.null = TRUE, !.columnItems = {i}]>>) :
     o \in {"Bob", "gpadmin"}, i \in MCItems("b-b", {"a", "r"})}

\* Columns, on relations with and without an access list of their own.
MCColumns ==
  {MCCatalog(<<[MCObject(t, "Bob", items) EXCEPT !.null = (items = {}), !.columnItems = c]>>) :
     t \in {"TABLE", "FOREIGN TABLE", "VIEW"}, items \in {{}, {MCItem("Bob", {"r"}, {})}},
     c \in {{i, MCItem("Bob", {"w"}, {})} : i \in MCItems("bob", {"a", "r", "w", "x"})}}

MCFunction(items) == [MCObject("FUNCTION", "gpadmin", items) EXCEPT !.extension = TRUE]
MCDefault(role, inSchema, kind, items) ==
  [key |-> [role |-> role, inSchema |-> inSchema, kind |-> kind], items |-> items]

MCMany ==
  {[objects |->
      <<[MCObject("TABLE", "Bob", {MCItem("bob", {"r"}, {}), MCItem("b-b", {}, {"w"}),
                                   MCItem("bob", {"a"}, {"r"})})
           EXCEPT !.labels = {"one", "two"}, !.comment = TRUE],
        MCFunction({MCItem("bob", {"X"}, {})}), MCFunction({}),
        [MCObject("FUNCTION", "b-b", {}) EXCEPT !.null = TRUE, !.labels = {"one"}],
        [MCObject("COLLATION", "Bob", {}) EXCEPT !.null = TRUE, !.comment = TRUE],
        [MCObject("CAST", "Bob", {}) EXCEPT !.null = TRUE, !.comment = TRUE],
        [MCObject("INDEX", "Bob", {}) EXCEPT !.null = TRUE],
        [MCObject("ROLE", "Bob", {}) EXCEPT !.null = TRUE, !.labels = {"two"}],
        [MCObject("TABLE", "gpadmin", {}) EXCEPT !.null = TRUE]>>,
    defaults |-> d] :
     d \in {<<>>,
            <<MCDefault("gpadmin", FALSE, "f", {MCItem("gpadmin", {"X"}, {})}),
              MCDefault("gpadmin", TRUE, "r", {MCItem("Bob", {"r"}, {"w"})})>>,
            <<MCDefault("Bob", FALSE, "T", {}),
              MCDefault("b-b", FALSE, "S", {MCItem("b-b", {}, {"r", "w", "U"}), MCItem(Public, {"r"}, {})}),
              MCDefault("gpadmin", FALSE, "r", {MCItem("bob", Rights["TABLE"], {})})>>}}

MCCatalogs == MCOne \cup MCLists \cup MCColumns \cup MCDummies \cup MCMany
=============================================================================
