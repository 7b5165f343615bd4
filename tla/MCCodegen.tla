----------------------------- MODULE MCCodegen -----------------------------
(***************************************************************************)
(* An instance of CodegenRuns: conditions up to two && or || deep, and     *)
(* statements nested three deep in every combination of if, for, scan,     *)
(* break and continue; rows in rows; a for without its first or its second *)
(* clause; break and continue without a for around them.                   *)
(***************************************************************************)
EXTENDS CodegenRuns

MaxAnswers == 7
AnswerSeqs == [1 .. MaxAnswers -> BOOLEAN]

T == [k |-> "test"]
D == [k |-> "do"]
Binaries(L, R) ==
  {[k |-> op, l |-> l, r |-> r] : op \in {"and", "or"}, l \in L, r \in R}
Ifs(C, B, E) ==
  {[k |-> "if", cond |-> c, then |-> b, else |-> e] :
     c \in C, b \in B, e \in E}
Clauses(I, C, E, B) ==
  {[k |-> "for", init |-> i, cond |-> c, every |-> e, body |-> b] :
     i \in I, c \in C, e \in E, b \in B}
Fors(C, E, B) == Clauses({<<D>>}, {<<c>> : c \in C}, E, B)
Row(e) == [k |-> "row", elements |-> e]
Scans(B) == {[k |-> "scan", body |-> b] : b \in B}
Jumps == {[k |-> "jump", type |-> t] : t \in {"break", "continue"}}

Shallow == {T} \cup Binaries({T}, {T})
Deep == Shallow \cup Binaries(Shallow, Shallow)

\* Blocks outside and inside a for.
Flat == {<<>>, <<D>>}
Jumping == Flat \cup {<<j>> : j \in Jumps} \cup {<<j, D>> : j \in Jumps}

Loops == Fors({T}, {D}, Jumping)
Inner(B) == {D} \cup Ifs(Shallow, B, B) \cup Loops \cup Scans(B)
Bodies(B) ==
  {<<s>> : s \in Inner(B)} \cup {<<s, j>> : s \in Loops, j \in Jumps}

Shapes ==
  {<<s>> : s \in Ifs(Deep, {<<D>>}, Flat)
                   \cup Fors(Deep, Shallow, {<<D>>})
                   \cup Fors(Shallow, {D}, Bodies(Jumping))
                   \cup Ifs(Shallow, {<<s>> : s \in Inner(Flat)}, {<<>>})
                   \cup Scans({<<s>> : s \in Inner(Flat)})
                   \cup Clauses({<<D>>, <<>>}, {<<T>>, <<>>}, {D}, Bodies(Flat))}

\* A jump outside, after, before and between loops.
LooseShapes ==
  {<<s, j>> : s \in {D} \cup Loops, j \in Jumps}
    \cup {<<s>> : s \in Ifs({T}, Jumping, Jumping) \cup Scans(Bodies(Jumping))}

Pairs(S) == {<<a, b>> : a \in S, b \in S}
Rows == {Row(e) : e \in Pairs(Shallow \cup {D, Row(<<D, T>>), Row(<<Row(<<T>>)>>)})}
RowShapes ==
  {<<s>> : s \in Rows \cup Fors({T}, Rows, {<<D>>}) \cup Ifs({T}, {<<r>> : r \in Rows}, Flat)}

\* Every test and every piece of code gets a name of its own: its place.
RECURSIVE Named(_, _), NamedAll(_, _)
NamedAll(b, at) == [i \in DOMAIN b |-> Named(b[i], Append(at, i))]
Named(s, at) ==
  CASE s.k \in {"do", "test"} -> [k |-> s.k, id |-> at]
    [] s.k \in {"and", "or"} ->
         [s EXCEPT !.l = Named(@, Append(at, 1)), !.r = Named(@, Append(at, 2))]
    [] s.k = "if" ->
         [s EXCEPT !.cond = Named(@, Append(at, 0)),
                   !.then = NamedAll(@, Append(at, 1)),
                   !.else = NamedAll(@, Append(at, 2))]
    [] s.k = "for" ->
         [s EXCEPT !.init = NamedAll(@, Append(at, 1)),
                   !.cond = NamedAll(@, Append(at, 2)),
                   !.every = Named(@, Append(at, 3)),
                   !.body = NamedAll(@, Append(at, 4))]
    [] s.k = "scan" ->
         [k |-> "scan", id |-> at, body |-> NamedAll(s.body, Append(at, 1))]
    [] s.k = "row" ->
         [k |-> "row", id |-> at, elements |-> NamedAll(s.elements, Append(at, 1))]
    [] OTHER -> s

AllPrograms == {NamedAll(p, <<>>) : p \in Shapes \cup LooseShapes \cup RowShapes}

RECURSIVE NodesOf(_)
NodesOf(s) ==
  LET parts ==
        CASE s.k \in {"and", "or"} -> <<s.l, s.r>>
          [] s.k = "if" -> <<s.cond>> \o s.then \o s.else
          [] s.k = "for" -> s.init \o s.cond \o <<s.every>> \o s.body
          [] s.k = "scan" -> s.body
          [] s.k = "row" -> s.elements
          [] OTHER -> <<>>
  IN  {s} \cup UNION {NodesOf(parts[i]) : i \in DOMAIN parts}

AllNodes == UNION {UNION {NodesOf(p[i]) : i \in DOMAIN p} : p \in AllPrograms}
=============================================================================
