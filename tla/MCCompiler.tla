----------------------------- MODULE MCCompiler -----------------------------
(***************************************************************************)
(* Compiler on every short program over a table and two variables, one     *)
(* after the other under a catalogue and a store that live on; and on each  *)
(* of a set of programs about types and columns by itself.                 *)
(***************************************************************************)
EXTENDS Compiler

St(op, name, arg, cols, n) ==
  [op |-> op, name |-> name, arg |-> arg, cols |-> cols, n |-> n]

Col(name, type, key, nullable) ==
  [name |-> name, type |-> type, key |-> key, nullable |-> nullable]

A == Col("a", "int", TRUE, FALSE)
B == Col("b", "int", FALSE, FALSE)

Define(t, cols) == St("define", t, "", cols, 0)
Insert(n) == St("insert", "t", "", << >>, n)
Scan(t, r) == St("scan", t, r, << >>, 0)
Let(v, arg, cols) == St("let", v, arg, cols, 2)
Emit(v) == St("emit", v, "", << >>, 0)
Member(c) == St("member", "r", c, << >>, 0)
For == St("for", "", "", << >>, 0)
Drop == St("drop", "r", "", << >>, 0)

\* The programs over S of at most n statements with an initialiser after
\* every for.
ProgramsOf(S, n) ==
  {p \in UNION {[1 .. m -> S] : m \in 1 .. n} :
     \A k \in DOMAIN p : p[k].op = "for" =>
       k < Len(p) /\ p[k + 1].op \in {"define", "insert", "let", "emit"}}

\* A table is defined first; what may follow declares and uses variables,
\* scans, inserts, and defines the table again: two statements of any kind,
\* or three that scan into a variable, declare and emit it.
UsePrograms ==
  LET any == {Define("t", <<A, B>>), Scan("u", "r"), For, Drop, Insert(1),
              Insert(2), Scan("t", "r"), Scan("t", "s"), Let("r", "row", << >>),
              Let("s", "array", << >>), Emit("r"), Emit("s"), Member("b")}
      few == {Define("t", <<A, B>>), Scan("t", "r"), Let("r", "row", << >>),
              Emit("r"), For}
  IN  {<<Define("t", cols)>> \o p : cols \in {<<A>>, <<A, B>>},
                                    p \in ProgramsOf(any, 2)}
        \cup {<<Define("t", <<A>>)>> \o p : p \in ProgramsOf(few, 3)}

\* A program defines a table and does no more, or defines none and uses one
\* that an earlier program may have defined.
CataloguePrograms ==
  {<<s>> : s \in {Define("t", <<A>>), Define("t", <<A, B>>), Insert(1),
                  Scan("t", "r")}}

\* The name of a table or of a built-in type is taken, or not, before the row
\* of a scan and a member of it are used; the columns are of types that are
\* stored, left out, unknown, or not to be scanned.
TypePrograms ==
  LET X == Col("x", "bool", FALSE, FALSE)
      before == {<< >>, <<Define("integer", <<X>>)>>, <<Scan("u", "s")>>}
      columns == {<<A, B>>, <<B, A>>, <<A, X, B, Col("c", "int", FALSE, FALSE)>>,
                  <<A, Col("b", "u", FALSE, FALSE)>>,
                  <<A, Col("b", "string", FALSE, FALSE)>>,
                  <<A, Col("b", "double", FALSE, FALSE)>>}
      after == {<< >>, <<Define("integer", <<A>>)>>,
                <<St("tuple", "t", "", <<B, A>>, 0)>>,
                <<Let("t", "row", <<B>>)>>, <<Let("t", "array", << >>)>>}
      use == {<<Scan("t", "r"), Member(c)>> : c \in {"a", "b", "x"}}
               \cup {<<Let("r", "row", <<B, A>>), Member("a")>>,
                     <<Let("r", "row", <<A, X, B>>), Member("b")>>,
                     <<Let("r", "int", << >>), Member("a")>>,
                     <<Let("r", "int", << >>), Let("t", "array", << >>), Emit("t")>>}
  IN  {p \o <<Define("t", cols)>> \o q \o u :
         p \in before, cols \in columns, q \in after, u \in use}

\* Rows are inserted under one order of key, value and nullable columns, and
\* scanned by the same program or a later one.
Columns == {Col("c", "int", key, nullable) : key, nullable \in BOOLEAN}
RowPrograms(cols) ==
  {<<Define("t", cols), Insert(n), Scan("t", "r")>> : n \in 2 .. 3}

MCPrograms ==
  [w \in {<<"use">>} \cup ({"type"} \X TypePrograms)
           \cup ({"row"} \X [1 .. 3 -> Columns]) |->
     CASE w[1] = "use" -> UsePrograms \cup CataloguePrograms
       [] w[1] = "type" -> {w[2]}
       [] w[1] = "row" -> RowPrograms(w[2])]
=============================================================================
