------------------------------- MODULE Codegen -------------------------------
(***************************************************************************)
(* The basic blocks that codegen and get_value emit.  An IRBuilder has one *)
(* insertion point, and a statement leaves it wherever its last part left  *)
(* it: what a parent emits after a child goes into a block the child has   *)
(* chosen, and a phi must name the blocks that really branch to it.        *)
(*                                                                         *)
(* A program is a sequence of statements:                                  *)
(*   [k |-> "do", id]                   code without branches              *)
(*   [k |-> "if", cond, then, else]     else is <<>> when there is none    *)
(*   [k |-> "for", init, cond, every, body]  init and cond may be <<>>     *)
(*   [k |-> "scan", id, body]                                              *)
(*   [k |-> "jump", type]                                                  *)
(*   [k |-> "row", id, elements]        a row literal that is used         *)
(* and a condition is [k |-> "test", id], any value that is computed       *)
(* without branches, or [k |-> "and" or "or", l, r].  An element of a row  *)
(* is a condition, code without branches or a row.                         *)
(*                                                                         *)
(* The recursion over the program is kept as the stack "todo" of what is   *)
(* still to be emitted.                                                    *)
(***************************************************************************)
EXTENDS Naturals, Sequences

CONSTANTS
  Nodes,    \* the statements and expressions that programs are made of
  Programs  \* the programs compiled

NodeKinds == {"do", "test", "and", "or", "row", "if", "for", "scan", "jump"}
OfKind(k) == {s \in Nodes : s.k = k}

\* The parts of a node are nodes.
ASSUME NodesAssumption ==
  /\ Programs \subseteq Seq(Nodes)
  /\ \A s \in Nodes : s.k \in NodeKinds
  /\ \A k \in {"and", "or"} :
       {s.l : s \in OfKind(k)} \cup {s.r : s \in OfKind(k)} \subseteq Nodes
  /\ {s.elements : s \in OfKind("row")} \subseteq Seq(Nodes)
  /\ {s.cond : s \in OfKind("if")} \subseteq Nodes
  /\ {s.then : s \in OfKind("if")} \cup {s.else : s \in OfKind("if")}
       \subseteq Seq(Nodes)
  /\ {s.init : s \in OfKind("for")} \cup {s.cond : s \in OfKind("for")}
       \cup {s.body : s \in OfKind("for")} \subseteq Seq(Nodes)
  /\ {s.every : s \in OfKind("for")} \subseteq Nodes
  /\ {s.body : s \in OfKind("scan")} \subseteq Seq(Nodes)

VARIABLES
  prog,    \* the program
  todo,    \* what is still to be emitted
  blocks,  \* the basic blocks of func_, each the sequence of its instructions
  cur,     \* the block of the insertion point
  loop,    \* loop_ and the loops around it, innermost first
  val,     \* the value get_value has returned
  fate     \* "undefined" once the compiler has followed a bad pointer

vars == <<prog, todo, blocks, cur, loop, val, fate>>

(* Instructions and values. *)
Do(id) == [op |-> "do", id |-> id]
Test(id) == [op |-> "test", id |-> id]
Br(b) == [op |-> "br", to |-> b]
JumpBr(b) == [op |-> "jump", to |-> b]
CondBr(v, t, f) == [op |-> "cond", val |-> v, t |-> t, f |-> f]
Phi(in) == [op |-> "phi", in |-> in]
Ret == [op |-> "ret"]

TestValue(id) == [of |-> "test", id |-> id]
PhiValue(b) == [of |-> "phi", id |-> <<b>>]

\* The names of the calls a scan makes.  Names are sequences of numbers.
Calls == [get_cursor |-> 10, copy |-> 11, next |-> 12, destroy |-> 13]
CursorCall(id, call) == Append(id, Calls[call])

Terminators == {"br", "jump", "cond", "ret"}

Init ==
  /\ prog \in Programs /\ todo = prog
  /\ blocks = <<<<>>>> /\ cur = 1  \* entry_jit
  /\ loop = <<>>
  /\ val = TestValue(<<>>)
  /\ fate = "compiling"

At(k) == todo # <<>> /\ Head(todo).k = k

\* The task in hand gives way to these.
Becomes(tasks) == todo' = tasks \o Tail(todo) /\ fate' = fate

\* The compiler follows a pointer that points nowhere.
Undefined ==
  /\ todo' = <<>> /\ fate' = "undefined"
  /\ UNCHANGED <<prog, blocks, cur, loop, val>>

\* The instructions are appended to block b.
Emit(b, is) == [blocks EXCEPT ![b] = @ \o is]

\* The i-th of the blocks that BasicBlock::Create makes now.
New(i) == Len(blocks) + i
Created(n) == [i \in 1 .. n |-> <<>>]

-----------------------------------------------------------------------------
DoStatement ==
  /\ At("do")
  /\ blocks' = Emit(cur, <<Do(Head(todo).id)>>)
  /\ Becomes(<<>>)
  /\ UNCHANGED <<prog, cur, loop, val>>

\* get_value without branches.
TestExpression ==
  /\ At("test")
  /\ blocks' = Emit(cur, <<Test(Head(todo).id)>>)
  /\ val' = TestValue(Head(todo).id)
  /\ Becomes(<<>>)
  /\ UNCHANGED <<prog, cur, loop>>

\* Mutant: a pointer element is loaded from a third evaluation.
RowLiteralAgain ==
  /\ At("row")
  /\ LET e == Head(todo).elements IN
       Becomes([i \in 1 .. 3 * Len(e) |-> e[(i + 2) \div 3]]
                 \o <<[k |-> "do", id |-> Head(todo).id]>>)
  /\ UNCHANGED <<prog, blocks, cur, loop, val>>

\* RowLiteral::get_value: get_value of an element is called once for its type
\* and once for its value.
RowLiteral ==
  /\ At("row")
  /\ LET e == Head(todo).elements IN
       Becomes([i \in 1 .. 2 * Len(e) |-> e[(i + 1) \div 2]]
                 \o <<[k |-> "do", id |-> Head(todo).id]>>)
  /\ UNCHANGED <<prog, blocks, cur, loop, val>>

(* BinaryExpression::get_conditional_value. *)

Conditional ==
  \E k \in {"and", "or"} :
    /\ At(k)
    /\ blocks' = blocks \o Created(2)
    /\ Becomes(<<Head(todo).l,
                 [k |-> "lhs", forAND |-> k = "and", next |-> New(1),
                  fin |-> New(2), r |-> Head(todo).r]>>)
    /\ UNCHANGED <<prog, cur, loop, val>>

\* Mutant: && and || skip their second operand for the same answer.
ConditionalLeftSame ==
  /\ At("lhs")
  /\ LET t == Head(todo) IN
       /\ blocks' = Emit(cur, <<CondBr(val, t.next, t.fin)>>)
       /\ cur' = t.next
       /\ Becomes(<<t.r, [k |-> "rhs", lh |-> val, current |-> cur,
                          next |-> t.next, fin |-> t.fin]>>)
  /\ UNCHANGED <<prog, loop, val>>

\* lhs_ is computed: branch to fin if its value decides, to next if not.
ConditionalLeft ==
  /\ At("lhs")
  /\ LET t == Head(todo)
         first == IF t.forAND THEN t.next ELSE t.fin
         second == IF t.forAND THEN t.fin ELSE t.next
     IN  /\ blocks' = Emit(cur, <<CondBr(val, first, second)>>)
         /\ cur' = t.next
         /\ Becomes(<<t.r, [k |-> "rhs", lh |-> val, current |-> cur,
                            next |-> t.next, fin |-> t.fin]>>)
  /\ UNCHANGED <<prog, loop, val>>

\* Mutant: the phi names the block rhs_ began in, not the one it ended in.
ConditionalRightStale ==
  /\ At("rhs")
  /\ LET t == Head(todo) IN
       /\ blocks' = [blocks EXCEPT
            ![cur] = @ \o <<Br(t.fin)>>,
            ![t.fin] = @ \o <<Phi({<<t.current, t.lh>>, <<t.next, val>>})>>]
       /\ cur' = t.fin /\ val' = PhiValue(t.fin)
  /\ Becomes(<<>>)
  /\ UNCHANGED <<prog, loop>>

\* rhs_ is computed, in whatever block it has ended.
ConditionalRight ==
  /\ At("rhs")
  /\ LET t == Head(todo) IN
       /\ blocks' = [blocks EXCEPT
            ![cur] = @ \o <<Br(t.fin)>>,
            ![t.fin] = @ \o <<Phi({<<t.current, t.lh>>, <<cur, val>>})>>]
       /\ cur' = t.fin /\ val' = PhiValue(t.fin)
  /\ Becomes(<<>>)
  /\ UNCHANGED <<prog, loop>>

(* If::codegen. *)

If ==
  /\ At("if")
  /\ blocks' = blocks \o Created(3)
  /\ LET s == Head(todo) IN
       Becomes(<<s.cond, [k |-> "if_cond", true |-> New(1), false |-> New(2),
                          fin |-> New(3), then |-> s.then, else |-> s.else]>>)
  /\ UNCHANGED <<prog, cur, loop, val>>

IfTrue ==
  /\ At("if_cond")
  /\ LET t == Head(todo) IN
       /\ blocks' = Emit(cur, <<CondBr(val, t.true, t.false)>>)
       /\ cur' = t.true
       /\ Becomes(t.then \o <<[k |-> "if_true", false |-> t.false,
                               fin |-> t.fin, else |-> t.else]>>)
  /\ UNCHANGED <<prog, loop, val>>

IfFalse ==
  /\ At("if_true")
  /\ LET t == Head(todo) IN
       /\ blocks' = Emit(cur, <<Br(t.fin)>>)
       /\ cur' = t.false
       /\ Becomes(t.else \o <<[k |-> "if_false", fin |-> t.fin]>>)
  /\ UNCHANGED <<prog, loop, val>>

\* Mutant: without an else, the false block is left open.
IfFinishOpen ==
  /\ At("if_false")
  /\ blocks' = IF blocks[cur] = <<>> THEN blocks
               ELSE Emit(cur, <<Br(Head(todo).fin)>>)
  /\ cur' = Head(todo).fin
  /\ Becomes(<<>>)
  /\ UNCHANGED <<prog, loop, val>>

IfFinish ==
  /\ At("if_false")
  /\ blocks' = Emit(cur, <<Br(Head(todo).fin)>>)
  /\ cur' = Head(todo).fin
  /\ Becomes(<<>>)
  /\ UNCHANGED <<prog, loop, val>>

(* For::codegen. *)

\* For's constructor sets init_ and cond_ only when their clauses are there;
\* otherwise they are what the memory held, and analyze follows them.
ForUnset ==
  /\ At("for")
  /\ Head(todo).init = <<>> \/ Head(todo).cond = <<>>
  /\ Undefined

\* A clause that is not there happens to be nullptr.
For ==
  /\ At("for")
  /\ LET s == Head(todo) IN
       Becomes(s.init \o <<[k |-> "for_init", cond |-> s.cond,
                            every |-> s.every, body |-> s.body]>>)
  /\ UNCHANGED <<prog, blocks, cur, loop, val>>

\* enter_loop.
ForBegin ==
  /\ At("for_init")
  /\ LET t == Head(todo)
         new == [begin |-> New(1), body |-> New(2), every |-> New(3),
                 finish |-> New(4)]
     IN  /\ blocks' = Emit(cur, <<Br(new.begin)>>) \o Created(4)
         /\ cur' = new.begin
         /\ loop' = <<new>> \o loop
         /\ Becomes(t.cond \o <<[k |-> "for_cond", loop |-> new,
                                 cond |-> t.cond, every |-> t.every,
                                 body |-> t.body]>>)
  /\ UNCHANGED <<prog, val>>

\* Without a condition nothing leaves the block begin.
ForBody ==
  /\ At("for_cond")
  /\ LET t == Head(todo) IN
       /\ blocks' = IF t.cond = <<>> THEN blocks
                    ELSE Emit(cur, <<CondBr(val, t.loop.body, t.loop.finish)>>)
       /\ cur' = t.loop.body
       /\ Becomes(t.body \o <<[k |-> "for_body", loop |-> t.loop,
                               every |-> t.every]>>)
  /\ UNCHANGED <<prog, loop, val>>

ForEvery ==
  /\ At("for_body")
  /\ LET t == Head(todo) IN
       /\ blocks' = Emit(cur, <<Br(t.loop.every)>>)
       /\ cur' = t.loop.every
       /\ Becomes(<<t.every, [k |-> "for_every", loop |-> t.loop]>>)
  /\ UNCHANGED <<prog, loop, val>>

\* Mutant: exit_loop_ctx is forgotten.
ForFinishInside ==
  /\ At("for_every")
  /\ LET t == Head(todo) IN
       /\ blocks' = Emit(cur, <<Br(t.loop.begin)>>)
       /\ cur' = t.loop.finish
  /\ Becomes(<<>>)
  /\ UNCHANGED <<prog, loop, val>>

\* exit_loop_ctx.
ForFinish ==
  /\ At("for_every")
  /\ LET t == Head(todo) IN
       /\ blocks' = Emit(cur, <<Br(t.loop.begin)>>)
       /\ cur' = t.loop.finish
  /\ loop' = Tail(loop)
  /\ Becomes(<<>>)
  /\ UNCHANGED <<prog, val>>

\* Jump::codegen.  What follows goes into the same block, behind the branch.
Jump ==
  /\ At("jump") /\ loop # <<>>
  /\ blocks' = Emit(cur, <<JumpBr(IF Head(todo).type = "continue"
                                  THEN loop[1].every ELSE loop[1].finish)>>)
  /\ Becomes(<<>>)
  /\ UNCHANGED <<prog, cur, loop, val>>

\* loop_ is nullptr.
JumpOutside == At("jump") /\ loop = <<>> /\ Undefined

(* Scan::codegen, which is no loop to Jump. *)

Scan ==
  /\ At("scan")
  /\ LET s == Head(todo)  check == New(1)  begin == New(2)  fin == New(3) IN
       /\ blocks' = Emit(cur, <<Do(CursorCall(s.id, "get_cursor")), Br(check)>>)
            \o << <<Test(s.id), CondBr(TestValue(s.id), begin, fin)>>,
                  <<Do(CursorCall(s.id, "copy"))>>, <<>> >>
       /\ cur' = begin
       /\ Becomes(s.body \o <<[k |-> "scan_body", id |-> s.id,
                               check |-> check, fin |-> fin]>>)
  /\ UNCHANGED <<prog, loop, val>>

ScanFinish ==
  /\ At("scan_body")
  /\ LET t == Head(todo) IN
       /\ blocks' = [blocks EXCEPT
            ![cur] = @ \o <<Do(CursorCall(t.id, "next")), Br(t.check)>>,
            ![t.fin] = @ \o <<Do(CursorCall(t.id, "destroy"))>>]
       /\ cur' = t.fin
  /\ Becomes(<<>>)
  /\ UNCHANGED <<prog, loop, val>>

Returned == \E i \in DOMAIN blocks[cur] : blocks[cur][i].op = "ret"

\* The end of Compiler::compile.
Return ==
  /\ todo = <<>> /\ ~Returned /\ fate = "compiling"
  /\ blocks' = Emit(cur, <<Ret>>)
  /\ UNCHANGED <<prog, todo, cur, loop, val, fate>>

Next ==
  \/ DoStatement \/ TestExpression \/ RowLiteral
  \/ Conditional \/ ConditionalLeft \/ ConditionalRight
  \/ If \/ IfTrue \/ IfFalse \/ IfFinish
  \/ For \/ ForUnset \/ ForBegin \/ ForBody \/ ForEvery \/ ForFinish
  \/ Jump \/ JumpOutside
  \/ Scan \/ ScanFinish
  \/ Return

Spec == Init /\ [][Next]_vars

Compiled == todo = <<>> /\ Returned

-----------------------------------------------------------------------------
Targets(i) ==
  CASE i.op \in {"br", "jump"} -> {i.to}
    [] i.op = "cond" -> {i.t, i.f}
    [] OTHER -> {}

Predecessors(b) ==
  {a \in DOMAIN blocks :
     \E i \in DOMAIN blocks[a] : b \in Targets(blocks[a][i])}

(* A phi stands first in its block and has one incoming value for each     *)
(* block that branches to it, and no other.                                *)
PhisMatch ==
  Compiled => \A b \in DOMAIN blocks : \A i \in DOMAIN blocks[b] :
    LET p == blocks[b][i] IN
    p.op = "phi" =>
      /\ i = 1
      /\ {in[1] : in \in p.in} = Predecessors(b)
      /\ \A in1, in2 \in p.in : in1[1] = in2[1] => in1 = in2

=============================================================================
