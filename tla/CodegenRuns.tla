---------------------------- MODULE CodegenRuns ----------------------------
(***************************************************************************)
(* What the emitted blocks do, against what the program says.  Both are    *)
(* run on the same answers of the tests, in the order they are asked for,  *)
(* up to the point where the answers run out.                              *)
(***************************************************************************)
EXTENDS Codegen, SequencesExt

CONSTANT Answers  \* sequences of Booleans

(* The program.  A state is what was done so far, the answers left, the    *)
(* value of the last condition, and how control leaves: run, break or      *)
(* continue, or "stop" when there are no answers left.                     *)
Start(answers) == [out |-> <<>>, left |-> answers, b |-> FALSE, mode |-> "run"]

Says(s, id) == [s EXCEPT !.out = Append(@, id)]

Asks(s, id) ==
  IF s.left = <<>> THEN [s EXCEPT !.mode = "stop"]
  ELSE [Says(s, id) EXCEPT !.left = Tail(@), !.b = Head(s.left)]

RECURSIVE Eval(_, _)
Eval(e, s) ==
  IF s.mode # "run" THEN s
  ELSE CASE e.k = "do" -> Says(s, e.id)
         [] e.k = "test" -> Asks(s, e.id)
         [] e.k = "row" ->
              LET again == FlattenSeq([i \in DOMAIN e.elements |->
                                         <<e.elements[i], e.elements[i]>>])
                  after == FoldLeft(LAMBDA t, x : Eval(x, t), s, again)
              IN  IF after.mode = "run" THEN Says(after, e.id) ELSE after
         [] OTHER -> LET l == Eval(e.l, s) IN
                     IF l.mode = "run" /\ l.b = (e.k = "and")
                     THEN Eval(e.r, l) ELSE l

RECURSIVE Run(_, _), Loop(_, _), ScanLoop(_, _)

\* The statements of a block, from the state s.
Run(stmts, s) ==
  IF stmts = <<>> \/ s.mode # "run" THEN s
  ELSE LET st == Head(stmts)
           after ==
             CASE st.k \in {"do", "row"} -> Eval(st, s)
               [] st.k = "jump" -> [s EXCEPT !.mode = st.type]
               [] st.k = "if" ->
                    LET c == Eval(st.cond, s) IN
                    Run(IF c.b THEN st.then ELSE st.else, c)
               [] st.k = "for" -> Loop(st, Run(st.init, s))
               [] st.k = "scan" ->
                    ScanLoop(st, Says(s, CursorCall(st.id, "get_cursor")))
       IN  Run(Tail(stmts), after)

Loop(st, s) ==
  LET c == Eval(st.cond[1], s)
      body == IF c.mode = "run" /\ c.b THEN Run(st.body, c) ELSE c
  IN  CASE c.mode # "run" -> c
        [] c.mode = "run" /\ ~c.b -> c
        [] body.mode = "break" -> [body EXCEPT !.mode = "run"]
        [] body.mode = "stop" -> body
        [] OTHER -> Loop(st, Eval(st.every, [body EXCEPT !.mode = "run"]))

ScanLoop(st, s) ==
  LET c == Asks(s, st.id)
      body == IF c.mode = "run" /\ c.b
              THEN Run(st.body, Says(c, CursorCall(st.id, "copy"))) ELSE c
  IN  CASE c.mode # "run" -> c
        [] c.mode = "run" /\ ~c.b -> Says(c, CursorCall(st.id, "destroy"))
        [] body.mode # "run" -> body
        [] OTHER -> ScanLoop(st, Says(body, CursorCall(st.id, "next")))

Meaning(answers) == LET s == Run(prog, Start(answers)) IN <<s.out, s.mode>>

(* The blocks.  env holds the values computed so far; a branch in the      *)
(* middle of a block leaves it; a phi takes the value for the block that   *)
(* control came from.                                                      *)
Set(env, v, b) == [w \in DOMAIN env \cup {v} |-> IF w = v THEN b ELSE env[w]]

RECURSIVE Walk(_, _, _, _, _, _)
Walk(b, i, from, env, left, out) ==
  LET in == blocks[b][i] IN
  CASE i \notin DOMAIN blocks[b] -> <<out, "undefined">>
    [] in.op = "do" -> Walk(b, i + 1, from, env, left, Append(out, in.id))
    [] in.op = "test" ->
         IF left = <<>> THEN <<out, "stop">>
         ELSE Walk(b, i + 1, from, Set(env, TestValue(in.id), Head(left)),
                   Tail(left), Append(out, in.id))
    [] in.op = "phi" ->
         LET chosen == {p \in in.in : p[1] = from /\ p[2] \in DOMAIN env} IN
         IF chosen = {} THEN <<out, "undefined">>
         ELSE Walk(b, i + 1, from,
                   Set(env, PhiValue(b), env[(CHOOSE p \in chosen : TRUE)[2]]),
                   left, out)
    [] in.op \in {"br", "jump"} -> Walk(in.to, 1, b, env, left, out)
    [] in.op = "cond" ->
         Walk(IF env[in.val] THEN in.t ELSE in.f, 1, b, env, left, out)
    [] in.op = "ret" -> <<out, "run">>

-----------------------------------------------------------------------------
(* What is wrong with a program, and what it holds. *)

\* The statements and expressions that a statement or an expression holds.
Parts(s) ==
  CASE s.k \in {"and", "or"} -> <<s.l, s.r>>
    [] s.k = "if" -> <<s.cond>> \o s.then \o s.else
    [] s.k = "for" -> s.init \o s.cond \o <<s.every>> \o s.body
    [] s.k = "scan" -> s.body
    [] s.k = "row" -> s.elements
    [] OTHER -> <<>>

RECURSIVE Loose(_), Lacks(_, _), Copies(_, _)

\* Somewhere in the statements is a jump without a for around it.
Loose(stmts) ==
  \E i \in DOMAIN stmts :
    \/ stmts[i].k = "jump"
    \/ stmts[i].k # "for" /\ Loose(Parts(stmts[i]))
    \/ stmts[i].k = "for" /\ Loose(stmts[i].init)

\* Somewhere is a for without the clause.
Lacks(stmts, clause) ==
  \E i \in DOMAIN stmts :
    \/ stmts[i].k = "for" /\ stmts[i][clause] = <<>>
    \/ Lacks(Parts(stmts[i]), clause)

\* Each test and each piece of code with the number of times it is emitted: a
\* row doubles what it is made of.
Copies(stmts, n) ==
  UNION {LET s == stmts[i] IN
         (IF s.k \in {"do", "test", "row"} THEN {<<s.id, n>>} ELSE {})
           \cup Copies(Parts(s), IF s.k = "row" THEN 2 * n ELSE n)
         : i \in DOMAIN stmts}

Emitted(id) ==
  {<<b, i>> \in UNION {{b} \X DOMAIN blocks[b] : b \in DOMAIN blocks} :
     blocks[b][i].op \in {"do", "test"} /\ blocks[b][i].id = id}

(* The compiler follows a bad pointer only for a break or a continue that  *)
(* no for is around (a scan is none, and neither is a for that has ended)  *)
(* or for a clause that was left out, and it never gets past the former.   *)
StopsOnlyAtFaults ==
  /\ fate = "undefined" =>
       Loose(prog) \/ Lacks(prog, "init") \/ Lacks(prog, "cond")
  /\ Compiled => ~Loose(prog)

(* Nothing a program says is left out of the emitted code, and nothing is  *)
(* there more often than the rows around it double it: what is d rows deep *)
(* is emitted, and so is run, 2^d times.                                   *)
EmittedForRows ==
  Compiled => \A c \in Copies(prog, 1) : Cardinality(Emitted(c[1])) = c[2]

TerminatorsOf(b) == {i \in DOMAIN blocks[b] : blocks[b][i].op \in Terminators}

(* Every block ends in a terminator, and has one only, unless a break or a *)
(* continue is the first: code that can never run was put behind it.  The  *)
(* one block left open is the empty begin of a for without a condition.    *)
BlocksEnd ==
  Compiled =>
    /\ \A b \in DOMAIN blocks :
         /\ \A i \in TerminatorsOf(b) :
              i < Len(blocks[b]) =>
                \E j \in TerminatorsOf(b) : j <= i /\ blocks[b][j].op = "jump"
         /\ \/ Len(blocks[b]) \in TerminatorsOf(b)
            \/ blocks[b] = <<>> /\ Lacks(prog, "cond")
    /\ Lacks(prog, "cond") <=> \E b \in DOMAIN blocks : blocks[b] = <<>>

(* The emitted code does what the program says: && and || evaluate their   *)
(* second operand exactly when the first does not decide, an if takes the  *)
(* branch of its condition, continue goes by way of the third clause,      *)
(* break goes past the innermost for, and a row evaluates each element     *)
(* twice before the next.                                                  *)
RunsAsWritten ==
  Compiled /\ ~Lacks(prog, "cond") => \A answers \in Answers :
    Walk(1, 1, 0, <<>>, answers, <<>>) = Meaning(answers)
=============================================================================
