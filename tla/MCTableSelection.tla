------------------------- MODULE MCTableSelection ---------------------------
(* Small catalogues (partitions of one and two levels, inheritance, members  *)
(* of an extension) with every command line of up to two names.              *)
EXTENDS TableSelection, FiniteSetsExt

MCPlain == [parent |-> 0, inherits |-> {}, parted |-> FALSE, foreign |-> FALSE,
            external |-> FALSE, member |-> FALSE, config |-> FALSE, distributed |-> TRUE,
            schema |-> "s"]
MCRoot == [MCPlain EXCEPT !.parted = TRUE]
MCPart(p) == [MCPlain EXCEPT !.parent = p]
MCMiddle(p) == [MCPart(p) EXCEPT !.parted = TRUE]
MCExternal(v, p) == [MCPart(p) EXCEPT !.external = TRUE, !.foreign = (v = 7)]
MCMember(t) == [t EXCEPT !.member = TRUE]

MCOneLevel(v) == <<MCRoot, MCPart(1), MCPart(1), MCExternal(v, 1),
                   [MCPlain EXCEPT !.schema = "t"], MCExternal(v, 0)>>
MCTwoLevels(v) == <<MCRoot, MCMiddle(1), MCMiddle(1), MCPart(2), MCPart(2), MCPart(3),
                    MCExternal(v, IF v = 6 THEN 1 ELSE 3)>>
MCInherit == <<MCPlain, [MCPlain EXCEPT !.inherits = {1}],
               [MCPlain EXCEPT !.inherits = {2, 4}], MCPlain,
               [MCPlain EXCEPT !.inherits = {1}, !.schema = "t"],
               [MCPlain EXCEPT !.foreign = TRUE, !.inherits = {4}]>>

\* Version 6 creates partitions with the extension; later ones can be added in 7.
MCExtension(v) ==
  LET mine(t) == IF v = 6 THEN MCMember(t) ELSE t
  IN  <<MCMember(MCRoot), mine(MCPart(1)), mine(MCMiddle(1)), mine(MCPart(3)),
        [MCMember(MCPlain) EXCEPT !.config = TRUE],
        [MCMember(MCPlain) EXCEPT !.config = TRUE, !.distributed = FALSE],
        MCMember(MCPlain), [MCPlain EXCEPT !.inherits = {7}]>>

MCCatalogs(v) == {MCOneLevel(v), MCTwoLevels(v), MCInherit, MCExtension(v)}

MCNames(catalog, spellings) ==
  {{[oid |-> i, exact |-> e] : i \in s} :
     s \in UNION {kSubset(k, DOMAIN catalog \cup {0}) : k \in 1..2}, e \in spellings}

MCIncludes(catalog) ==
  {[f \in {g} |-> n] : g \in {"include-table", "include-table-file"},
                       n \in MCNames(catalog, {TRUE})} \cup
  {[f \in {"include-table", g} |-> {[oid |-> 1, exact |-> TRUE]}] :
     g \in {"exclude-table", "include-table-file"}}
MCFilters(catalog) ==
  {<< >>} \cup
  {[f \in {"exclude-table-file"} |-> n] : n \in MCNames(catalog, BOOLEAN)} \cup
  {[f \in {g} |-> s] : g \in {"include-schema", "exclude-schema-file"},
                       s \in SUBSET {"s", "t", "none"} \ {{}}} \cup
  {[f \in {"include-schema", "exclude-table"} |-> IF f = "exclude-table" THEN n ELSE {"s"}] :
     n \in MCNames(catalog, {TRUE})}

MCWorld(v, t, f, mode, n) ==
  [version |-> v, tables |-> t, flags |-> f, leaf |-> mode = "leaf", noInherits |-> n,
   metadataOnly |-> mode = "metadata"]
MCWorlds ==
  UNION {UNION {
    {MCWorld(v, t, f, m, n) : f \in MCIncludes(t), m \in {"leaf", "root"}, n \in BOOLEAN} \cup
    {MCWorld(v, t, f, m, FALSE) : f \in MCFilters(t), m \in {"leaf", "root"}} \cup
    {MCWorld(v, t, << >>, "metadata", n) : n \in BOOLEAN} :
      t \in MCCatalogs(v)} : v \in {6, 7}}
=============================================================================
