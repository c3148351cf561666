-------------------------------- MODULE Toml --------------------------------
(***************************************************************************)
(* What tomlc17 makes of a document, statement by statement: the tree of   *)
(* tables, arrays and values, and the flags by which it decides what may   *)
(* still be added to them.  The preset file may be edited by hand, so that *)
(* every statement may be in it.  Values are numbers, inline tables and    *)
(* arrays of those; their text, and that of keys, is left out.             *)
(*                                                                         *)
(* A node is known by its path; the elements of an array are its children  *)
(* "1", "2", ...                                                           *)
(***************************************************************************)
EXTENDS Naturals, SequencesExt

CONSTANTS
  Keys,          \* parts of keys, none of them the name of an element
  Elements,      \* <<"1", "2", ...>>: names of the elements of an array
  MaxParts,      \* bound: parts of a key; at least 2
  Inlines,       \* contents of inline tables: sequences of [path, value]
  MaxStatements  \* bound: statements of a document

ASSUME TomlAssumption ==
  /\ Elements \in Seq(STRING)
  /\ \A i, j \in DOMAIN Elements : i # j => Elements[i] # Elements[j]
  /\ \A i \in DOMAIN Elements : Elements[i] \notin Keys
  /\ MaxStatements \in 1..Len(Elements) /\ MaxParts \in Nat \ {0, 1}
  /\ Inlines \subseteq Seq([path : Seq(Keys) \ {<<>>}, value : {"1", "{}"}])

Paths(n) == UNION {[1..k -> Keys] : k \in 1..n}

VARIABLES
  tree,   \* the nodes, by path: [type, flags, by]; by: the statement that made it
  cur,    \* curtab: the table that statements add to
  ok,     \* no error so far
  doc     \* ghost: the statements: [kind, path, full], full the path from the top

toml == <<tree, cur, ok, doc>>

Node(type, flags, n) == [type |-> type, flags |-> flags, by |-> n]
Leaf(node) == [p \in {<<>>} |-> node]
Top == Leaf(Node("table", {}, 0))

\* The tree t with the tree v at p.
Graft(t, p, v) ==
  [q \in DOMAIN t \cup {p \o r : r \in DOMAIN v} |->
     IF q \in DOMAIN t THEN t[q] ELSE v[SubSeq(q, Len(p) + 1, Len(q))]]

Has(s, flag) == flag \in s.tree[s.at].flags
Put(t, p, node) == Graft(t, p, Leaf(node))
Mark(t, p, flag) == [t EXCEPT ![p].flags = @ \cup {flag}]
Count(t, p) == Cardinality({i \in DOMAIN Elements : Append(p, Elements[i]) \in DOMAIN t})

\* A place in a tree: [ok, tree, at].
Place(t, p) == [ok |-> TRUE, tree |-> t, at |-> p]
Fail(s) == [s EXCEPT !.ok = FALSE]
Enter(s, p) == [s EXCEPT !.at = p]
Make(s, p, node) == [s EXCEPT !.tree = Put(s.tree, p, node), !.at = p]

-----------------------------------------------------------------------------
\* descend_keypart: down from a table, into the last element of an array, and
\* making the tables that are missing.
DescendInto(s, k, flags, n) ==
  LET p == Append(s.at, k)
      type == IF p \in DOMAIN s.tree THEN s.tree[p].type ELSE "none"
      last == Append(p, Elements[Count(s.tree, p)])
  IN  IF ~s.ok THEN s
      ELSE IF type = "none" THEN Make(s, p, Node("table", flags, n))
      ELSE IF type = "table" THEN Enter(s, p)
      ELSE IF type = "array" /\ Count(s.tree, p) > 0 /\ s.tree[last].type = "table"
      THEN Enter(s, last) ELSE Fail(s)
Descend(s, path, flags, n) ==
  LET at[i \in 0..Len(path)] ==
        IF i = 0 THEN s ELSE DescendInto(at[i - 1], path[i], flags, n)
  IN  at[Len(path)]

\* Mutants, here and below: a plausible slip in the definition that follows.
DefineAgain(t, p) == "std" \in t[p].flags
\* parse_std_table_expr: [path].
Definable(t, p) == "std" \in t[p].flags /\ "explicit" \notin t[p].flags
StdTable(t, path, n) ==
  LET s == Descend(Place(t, <<>>), Front(path), {"std"}, n)
      p == Append(s.at, Last(path))
  IN  IF ~s.ok THEN s
      ELSE IF p \in DOMAIN s.tree
      THEN IF Definable(s.tree, p) THEN Place(Mark(s.tree, p, "explicit"), p) ELSE Fail(s)
      ELSE IF Has(s, "inlined") THEN Fail(s)
      ELSE Make(s, p, Node("table", {"std", "explicit"}, n))

\* parse_array_table_expr: [[path]], the first or one more.
ArrayTable(t, path, n) ==
  LET s == Descend(Place(t, <<>>), Front(path), {"std"}, n)
      p == Append(s.at, Last(path))
      more == Append(p, Elements[Count(s.tree, p) + 1])
  IN  IF ~s.ok THEN s
      ELSE IF p \in DOMAIN s.tree
      THEN IF s.tree[p].type = "array" /\ "inlined" \notin s.tree[p].flags
           THEN Make(s, more, Node("table", {}, n)) ELSE Fail(s)
      ELSE IF Has(s, "inlined") THEN Fail(s)
      ELSE Make(Make(s, p, Node("array", {}, n)), Append(p, Elements[1]), Node("table", {}, n))

-----------------------------------------------------------------------------
\* tab_add, of a value with all that is in it.
Add(s, k, value) ==
  LET p == Append(s.at, k)
  IN  IF p \in DOMAIN s.tree THEN Fail(s)
      ELSE [s EXCEPT !.tree = Graft(s.tree, p, value)]

\* parse_inline_table; with the brace that closes it, set_flag_recursive.
Inlined(t) == [p \in DOMAIN t |-> [t[p] EXCEPT !.flags = @ \cup {"inlined"}]]
Number(n) == Leaf(Node("number", {}, n))
Braces(n) == Leaf(Node("table", {}, n))
InlineEntry(t, e, n) ==
  LET s == Descend(t, Front(e.path), {}, n)
  IN  IF ~s.ok \/ Has(s, "inlined") THEN Fail(s)
      ELSE Enter(Add([s EXCEPT !.tree = Mark(s.tree, s.at, "explicit")], Last(e.path),
                     IF e.value = "{}" THEN Inlined(Braces(n)) ELSE Number(n)), <<>>)
InlineTable(entries, n) ==
  LET at[i \in 0..Len(entries)] ==
        IF i = 0 THEN Place(Braces(n), <<>>) ELSE InlineEntry(at[i - 1], entries[i], n)
      s == at[Len(entries)]
  IN  [s EXCEPT !.tree = Inlined(s.tree)]

\* parse_inline_array, of one inline table.
InlineArray(entries, n) ==
  LET s == InlineTable(entries, n)
      a == Add(Place(Leaf(Node("array", {}, n)), <<>>), Elements[1], s.tree)
  IN  [s EXCEPT !.tree = Inlined(a.tree)]

Values(n) == {Place(Number(n), <<>>)} \cup {InlineTable(e, n) : e \in Inlines}
               \cup {InlineArray(e, n) : e \in Inlines}

\* parse_keyvalue_expr: path = value.  A table that has been defined is not
\* extended with a dotted key; nor is an inline one.
DottedStep(s, path, i, n) ==
  LET p == Append(s.at, path[i])
      type == IF p \in DOMAIN s.tree THEN s.tree[p].type ELSE "none"
  IN  IF ~s.ok THEN s
      ELSE IF type = "none" /\ ~(i > 1 /\ Has(s, "explicit")) THEN Make(s, p, Node("table", {}, n))
      ELSE IF type = "table" THEN Enter(s, p)
      ELSE Fail(s)
Dotted(s, path, n) ==
  LET at[i \in 0..Len(path) - 1] ==
        IF i = 0 THEN s ELSE DottedStep(at[i - 1], path, i, n)
  IN  at[Len(path) - 1]

ExtensibleByPart(s, path) == ~Has(s, "inlined") /\ ~(Len(path) > 1 /\ Has(s, "std"))
Extensible(s, path) == ~Has(s, "inlined") /\ ~(Len(path) > 1 /\ Has(s, "explicit"))
FromTop(t) == Place(t, <<>>)
FromHere(t) == Place(t, cur)
KeyValue(t, path, value, n) ==
  LET s == Dotted(FromHere(t), path, n)
  IN  IF ~s.ok \/ ~Extensible(s, path) \/ ~value.ok THEN Fail(s)
      ELSE Add(s, Last(path), value.tree)

-----------------------------------------------------------------------------
TomlInit == tree = Top /\ cur = <<>> /\ ok = TRUE /\ doc = <<>>

\* toml_parse_named reads the next statement; an error is the end.
Becomes(s, there) ==
  ok' = s.ok /\ IF s.ok THEN tree' = s.tree /\ cur' = there ELSE UNCHANGED <<tree, cur>>
Line == Len(doc) + 1
More == ok /\ Len(doc) < MaxStatements
Says(kind, path, full) == doc' = Append(doc, [kind |-> kind, path |-> path, full |-> full])

ReadHeader ==
  \E path \in Paths(MaxParts) :
    LET s == StdTable(tree, path, Line) IN
    More /\ Becomes(s, s.at) /\ Says("header", path, path)
ReadArrayHeader ==
  \E path \in Paths(MaxParts - 1) :
    LET s == ArrayTable(tree, path, Line) IN
    More /\ Becomes(s, s.at) /\ Says("array", path, path)
ReadKeyValue ==
  \E path \in Paths(MaxParts), value \in Values(Line) :
    /\ More /\ Becomes(KeyValue(tree, path, value, Line), cur)
    /\ Says(IF value.ok /\ value.tree = Number(Line) THEN "number" ELSE "inline", path, cur \o path)

TomlNext == ReadHeader \/ ReadArrayHeader \/ ReadKeyValue

TomlSpec == TomlInit /\ [][TomlNext]_toml

-----------------------------------------------------------------------------
(* Properties. *)

Flags == {"std", "explicit", "inlined"}

\* Types; every node is in a table or an array, whose elements are numbered.
TomlTypeOK ==
  /\ ok \in BOOLEAN /\ cur \in DOMAIN tree /\ tree[cur].type = "table"
  /\ \A p \in DOMAIN tree :
       /\ tree[p] \in [type : {"table", "array", "number"}, flags : SUBSET Flags, by : Nat]
       /\ p # <<>> => Front(p) \in DOMAIN tree /\ tree[Front(p)].type # "number"
       /\ p # <<>> /\ tree[Front(p)].type = "array" => Last(p) \in ToSet(Elements)

\* toml_seek, which does not enter arrays.
Holders(path) == {SubSeq(path, 1, k) : k \in 0..Len(path) - 1}
Lookup(path) ==
  IF path \in DOMAIN tree /\ \A p \in Holders(path) : tree[p].type = "table"
  THEN tree[path] ELSE Node("none", {}, 0)

\* Whatever a document says, under a header or not, is found where it says.
SaidIsFound ==
  ok => \A i \in DOMAIN doc :
          /\ doc[i].kind = "number"
          /\ \A p \in Holders(doc[i].full) \cap DOMAIN tree : tree[p].type = "table"
          => Lookup(doc[i].full) = Node("number", {}, i)

\* What a valid document may say, in any order, where there are no arrays and
\* no inline tables.  Defines: the tables a dotted key defines.
Plain == \A i \in DOMAIN doc : doc[i].kind \in {"header", "number"}
Of(kind) == {i \in DOMAIN doc : doc[i].kind = kind}
Defines(i) == {SubSeq(doc[i].full, 1, k) :
               k \in Len(doc[i].full) - Len(doc[i].path) + 1 .. Len(doc[i].full) - 1}
Valid ==
  /\ \A i \in DOMAIN doc, j \in Of("number") :
       i # j => ~IsPrefix(doc[j].full, doc[i].full)
  /\ \A i, j \in Of("header") : i # j => doc[i].path # doc[j].path
  /\ \A i \in Of("header"), j \in Of("number") : doc[i].path \notin Defines(j)

\* No valid document is refused.
ValidAccepted == Plain /\ Valid => ok

\* A document whose keys have one part, as those of presets, is accepted if
\* and only if it is valid, in whichever order its tables come.
PlainKeysExact ==
  Plain /\ (\A i \in Of("number") : Len(doc[i].path) = 1) => ok = Valid

\* README.md:3 of tomlc17: "strictly compliant"; nothing is added to an inline
\* table from outside its braces.
InlineClosed ==
  [][\A p \in DOMAIN tree' \ DOMAIN tree :
       \A q \in Holders(p) \cap DOMAIN tree : "inlined" \notin tree[q].flags]_toml
=============================================================================
