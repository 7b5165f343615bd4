--------------------------- MODULE CodegenProofs ---------------------------
(***************************************************************************)
(* The phis of Codegen, for programs of any size and depth.                *)
(*                                                                         *)
(* The pending tasks own blocks: a block is created empty, owned by one    *)
(* task, and entered once.  Until then nothing but its owner branches to   *)
(* it, unless it is the target of a loop, and no phi stands in such a      *)
(* target.                                                                 *)
(***************************************************************************)
EXTENDS Codegen, Integers, TLAPS

\* The blocks that the task will enter.
Claims(t) ==
  IF t.k = "lhs" THEN {t.next, t.fin}
  ELSE IF t.k = "if_cond" THEN {t.true, t.false, t.fin}
  ELSE IF t.k = "if_true" THEN {t.false, t.fin}
  ELSE IF t.k \in {"rhs", "if_false", "scan_body"} THEN {t.fin}
  ELSE IF t.k = "for_cond" THEN {t.loop.body, t.loop.every, t.loop.finish}
  ELSE IF t.k = "for_body" THEN {t.loop.every, t.loop.finish}
  ELSE IF t.k = "for_every" THEN {t.loop.finish}
  ELSE {}

\* The block that will have the task's phi.
PhiPlace(t) == IF t.k \in {"lhs", "rhs"} THEN {t.fin} ELSE {}

ForTask(t) == t.k \in {"for_cond", "for_body", "for_every"}

\* The blocks that code not yet emitted may branch back or out to.
Returns(t) ==
  IF ForTask(t) THEN {t.loop.begin, t.loop.every, t.loop.finish}
  ELSE IF t.k = "scan_body" THEN {t.check}
  ELSE {}

Live == UNION {Returns(todo[p]) : p \in DOMAIN todo}

\* What the blocks of a task's kind are, and that its parts are nodes.
Formed(t) ==
  \/ t \in Nodes \/ t.k = "do"
  \/ t.k = "lhs" /\ t.r \in Nodes /\ t.next # t.fin
  \/ t.k \in {"rhs", "if_false", "for_every", "scan_body"}
  \/ /\ t.k = "if_cond" /\ t.then \in Seq(Nodes) /\ t.else \in Seq(Nodes)
     /\ t.true # t.false /\ t.true # t.fin /\ t.false # t.fin
  \/ t.k = "if_true" /\ t.else \in Seq(Nodes) /\ t.false # t.fin
  \/ /\ t.k = "for_init" /\ t.cond \in Seq(Nodes) /\ t.every \in Nodes
     /\ t.body \in Seq(Nodes)
  \/ /\ t.k = "for_cond" /\ t.every \in Nodes /\ t.body \in Seq(Nodes)
     /\ t.loop.body # t.loop.every /\ t.loop.body # t.loop.finish
     /\ t.loop.every # t.loop.finish
  \/ t.k = "for_body" /\ t.every \in Nodes /\ t.loop.every # t.loop.finish

\* What holds of the blocks a task claims.
Sound(t) ==
  /\ Claims(t) \subseteq DOMAIN blocks
  /\ \A a \in Claims(t) : a # cur /\ blocks[a] = <<>>
  /\ Returns(t) \subseteq DOMAIN blocks
  /\ t.k = "lhs" => Predecessors(t.fin) = {}
  /\ t.k = "rhs" => /\ Predecessors(t.fin) = {t.current}
                    /\ t.current \in DOMAIN blocks /\ t.current # cur

\* The blocks that code branches to.
Out(is) == UNION {Targets(is[i]) : i \in DOMAIN is}
Closed == \A b \in DOMAIN blocks : Out(blocks[b]) \subseteq DOMAIN blocks

HasPhi(b) == \E i \in DOMAIN blocks[b] : blocks[b][i].op = "phi"

PhiGood(b) ==
  \A i \in DOMAIN blocks[b] :
    blocks[b][i].op = "phi" =>
      /\ i = 1
      /\ {in[1] : in \in blocks[b][i].in} = Predecessors(b)
      /\ \A in1, in2 \in blocks[b][i].in : in1[1] = in2[1] => in1 = in2

\* The loops are those of the pending tasks, in the same order.
LoopAt(f) ==
  /\ f \in [DOMAIN loop -> DOMAIN todo]
  /\ \A i, j \in DOMAIN loop : i < j => f[i] < f[j]
  /\ \A i \in DOMAIN loop : ForTask(todo[f[i]]) /\ todo[f[i]].loop = loop[i]
  /\ \A p \in DOMAIN todo : ForTask(todo[p]) => \E i \in DOMAIN loop : f[i] = p
LoopInv == \E f \in [DOMAIN loop -> DOMAIN todo] : LoopAt(f)

StackInv ==
  /\ \A p \in DOMAIN todo : Formed(todo[p]) /\ Sound(todo[p])
  /\ \A p, q \in DOMAIN todo :
       p # q => Claims(todo[p]) \cap Claims(todo[q]) = {}
  /\ \A p, q \in DOMAIN todo :
       todo[p].k = "rhs" => todo[p].current \notin Claims(todo[q])
  /\ \A p \in DOMAIN todo : PhiPlace(todo[p]) \cap Live = {}
  /\ \A b \in DOMAIN blocks : HasPhi(b) =>
       b \notin Live /\ \A p \in DOMAIN todo : b \notin Claims(todo[p])

PhiInv ==
  /\ cur \in DOMAIN blocks
  /\ \A b \in DOMAIN blocks : PhiGood(b)
  /\ Closed /\ StackInv
  /\ fate = "compiling" => LoopInv
  /\ fate # "compiling" => todo = <<>>

\* The inductive invariant; the variables hold sequences.
Typed ==
  /\ \E S : blocks \in Seq(Seq(S))
  /\ \E S : todo \in Seq(S)
  /\ \E S : loop \in Seq(S)
CodegenInv == Typed /\ PhiInv

-----------------------------------------------------------------------------
(* Code, and what it branches to. *)

Plain(is) == \A i \in DOMAIN is : is[i].op # "phi"

LEMMA TargetsOf ==
  ASSUME NEW v, NEW x, NEW y
  PROVE  /\ Targets(Do(x)) = {} /\ Targets(Test(x)) = {}
         /\ Targets(Phi(x)) = {} /\ Targets(Ret) = {}
         /\ Targets(Br(x)) = {x} /\ Targets(JumpBr(x)) = {x}
         /\ Targets(CondBr(v, x, y)) = {x, y}
<1>1. Targets(Do(x)) = {} /\ Targets(Test(x)) = {}
  BY Zenon DEF Targets, Do, Test
<1>2. Targets(Phi(x)) = {} /\ Targets(Ret) = {}
  BY Zenon DEF Targets, Phi, Ret
<1>3. Targets(Br(x)) = {x}
  BY Zenon DEF Targets, Br
<1>4. Targets(JumpBr(x)) = {x}
  BY Zenon DEF Targets, JumpBr
<1>5. Targets(CondBr(v, x, y)) = {x, y}
  BY Zenon DEF Targets, CondBr
<1> QED BY <1>1, <1>2, <1>3, <1>4, <1>5

LEMMA OutConcat ==
  ASSUME NEW S, NEW s \in Seq(S), NEW t \in Seq(S)
  PROVE  /\ s \o t \in Seq(S)
         /\ Out(s \o t) = Out(s) \cup Out(t)
         /\ \A i \in DOMAIN s : i \in DOMAIN (s \o t) /\ (s \o t)[i] = s[i]
         /\ Plain(t) => \A i \in DOMAIN (s \o t) :
              (s \o t)[i].op = "phi" => i \in DOMAIN s
<1>1. /\ s \o t \in Seq(S)
      /\ \A i \in DOMAIN s : i \in DOMAIN (s \o t) /\ (s \o t)[i] = s[i]
  OBVIOUS
<1>2. /\ \A i \in DOMAIN t : Len(s) + i \in DOMAIN (s \o t)
                             /\ (s \o t)[Len(s) + i] = t[i]
      /\ \A i \in DOMAIN (s \o t) : i \in DOMAIN s \/ \E j \in DOMAIN t : i = Len(s) + j
  <2>1. ASSUME NEW i \in DOMAIN (s \o t), i \notin DOMAIN s
        PROVE  i - Len(s) \in DOMAIN t /\ i = Len(s) + (i - Len(s))
    BY <2>1
  <2> QED BY <2>1
<1>3. Out(s \o t) \subseteq Out(s) \cup Out(t)
  <2>1. SUFFICES ASSUME NEW i \in DOMAIN (s \o t)
                 PROVE  \/ \E j \in DOMAIN s : (s \o t)[i] = s[j]
                        \/ \E j \in DOMAIN t : (s \o t)[i] = t[j]
    BY DEF Out
  <2> QED BY <1>1, <1>2
<1>4. Out(s) \cup Out(t) \subseteq Out(s \o t)
  BY <1>1, <1>2, Zenon DEF Out
<1>5. Plain(t) => \A i \in DOMAIN (s \o t) :
        (s \o t)[i].op = "phi" => i \in DOMAIN s
  BY <1>2, Zenon DEF Plain
<1> QED BY <1>1, <1>3, <1>4, <1>5

LEMMA PlainConcat ==
  ASSUME NEW S, NEW s \in Seq(S), NEW t \in Seq(S), Plain(t)
  PROVE  /\ \A i \in DOMAIN s : i \in DOMAIN (s \o t) /\ (s \o t)[i] = s[i]
         /\ \A i \in DOMAIN (s \o t) :
              (s \o t)[i].op = "phi" => i \in DOMAIN s
BY OutConcat

LEMMA ShortSeqs ==
  ASSUME NEW x, NEW y, NEW S, x \in S, y \in S
  PROVE  <<>> \in Seq(S) /\ <<x>> \in Seq(S) /\ <<x, y>> \in Seq(S)
OBVIOUS

LEMMA PredecessorsOut ==
  ASSUME NEW b
  PROVE  Predecessors(b) = {a \in DOMAIN blocks : b \in Out(blocks[a])}
BY Zenon DEF Predecessors, Out

LEMMA ShortCode ==
  ASSUME NEW x, NEW y
  PROVE  /\ Out(<<>>) = {} /\ Out(<<x>>) = Targets(x)
         /\ Out(<<x, y>>) = Targets(x) \cup Targets(y)
         /\ Plain(<<>>) /\ (Plain(<<x>>) <=> x.op # "phi")
         /\ (Plain(<<x, y>>) <=> x.op # "phi" /\ y.op # "phi")
<1>1. Out(<<>>) = {} /\ Plain(<<>>)
  BY DEF Out, Plain
<1>2. Out(<<x>>) = Targets(x) /\ (Plain(<<x>>) <=> x.op # "phi")
  <2>1. DOMAIN <<x>> = {1} /\ <<x>>[1] = x
    OBVIOUS
  <2> QED BY <2>1, Zenon DEF Out, Plain
<1>3. /\ Out(<<x, y>>) = Targets(x) \cup Targets(y)
      /\ Plain(<<x, y>>) <=> x.op # "phi" /\ y.op # "phi"
  <2>1. DOMAIN <<x, y>> = {1, 2} /\ <<x, y>>[1] = x /\ <<x, y>>[2] = y
    OBVIOUS
  <2> QED BY <2>1, Zenon DEF Out, Plain
<1> QED BY <1>1, <1>2, <1>3

LEMMA BrCode ==
  ASSUME NEW x, NEW i, i = Br(x)
  PROVE  Plain(<<i>>) /\ Out(<<i>>) = {x} /\ <<i>> \in Seq({i})
<1>1. i.op # "phi" /\ Targets(i) = {x}
  BY TargetsOf DEF Br
<1> QED BY <1>1, ShortCode, ShortSeqs, Zenon

LEMMA CondBrCode ==
  ASSUME NEW v, NEW x, NEW y, NEW i, i = CondBr(v, x, y)
  PROVE  Plain(<<i>>) /\ Out(<<i>>) = {x, y} /\ <<i>> \in Seq({i})
<1>1. i.op # "phi"
  BY DEF CondBr
<1>2. Targets(i) = {x, y}
  BY TargetsOf
<1>3. Plain(<<i>>) /\ Out(<<i>>) = Targets(i)
  BY <1>1, ShortCode, Zenon
<1> QED BY <1>2, <1>3, ShortSeqs

-----------------------------------------------------------------------------
(* How a step changes the blocks. *)

Fresh == DOMAIN blocks' \ DOMAIN blocks

\* Only the current block gets branches, to T; only it and the next one get
\* code; the code of new blocks branches to new blocks.
Grow(T) ==
  /\ \E S : blocks' \in Seq(Seq(S))
  /\ DOMAIN blocks \subseteq DOMAIN blocks'
  /\ \A a \in DOMAIN blocks :
       /\ Out(blocks'[a]) = IF a = cur THEN Out(blocks[a]) \cup T
                            ELSE Out(blocks[a])
       /\ a # cur /\ a # cur' => blocks'[a] = blocks[a]
  /\ \A a \in Fresh : Out(blocks'[a]) \subseteq Fresh /\ Plain(blocks'[a])

\* No phi is added.
QuietAt(a) ==
  \A i \in DOMAIN blocks'[a] : blocks'[a][i].op = "phi" =>
    i \in DOMAIN blocks[a] /\ blocks'[a][i] = blocks[a][i]
Quiet == \A a \in DOMAIN blocks : QuietAt(a)

LEMMA GrowPredecessors ==
  ASSUME NEW T, Grow(T), cur \in DOMAIN blocks, NEW b \in DOMAIN blocks
  PROVE  Predecessors(b)' = IF b \in T THEN Predecessors(b) \cup {cur}
                            ELSE Predecessors(b)
<1>1. Predecessors(b) = {a \in DOMAIN blocks : b \in Out(blocks[a])}
  BY PredecessorsOut
<1>2. Predecessors(b)' = {a \in DOMAIN blocks' : b \in Out(blocks'[a])}
  BY DEF Predecessors, Out
<1>3. \A a \in DOMAIN blocks' : b \in Out(blocks'[a]) =>
        a \in DOMAIN blocks /\ (b \in Out(blocks[a]) \/ (a = cur /\ b \in T))
  BY Zenon DEF Grow, Fresh
<1>4. \A a \in DOMAIN blocks : b \in Out(blocks[a]) =>
        a \in DOMAIN blocks' /\ b \in Out(blocks'[a])
  BY Zenon DEF Grow
<1>5. b \in T => cur \in DOMAIN blocks' /\ b \in Out(blocks'[cur])
  BY Zenon DEF Grow
<1> QED BY <1>1, <1>2, <1>3, <1>4, <1>5

LEMMA ClosedKept ==
  ASSUME NEW T, Grow(T), Closed, T \subseteq DOMAIN blocks'
  PROVE  Closed'
<1>1. ASSUME NEW a \in DOMAIN blocks' PROVE Out(blocks'[a]) \subseteq DOMAIN blocks'
  <2>1. CASE a \in DOMAIN blocks
    BY <2>1, Zenon DEF Grow, Closed
  <2>2. CASE a \in Fresh
    BY <2>2, Zenon DEF Grow, Fresh
  <2> QED BY <2>1, <2>2 DEF Fresh
<1> QED BY <1>1 DEF Closed, Out, Targets

LEMMA PhisKept ==
  ASSUME NEW T, Grow(T), cur \in DOMAIN blocks, NEW b \in DOMAIN blocks,
         QuietAt(b), PhiGood(b), HasPhi(b) => b \notin T
  PROVE  PhiGood(b)'
<1>1. SUFFICES ASSUME NEW i \in DOMAIN blocks'[b], blocks'[b][i].op = "phi"
               PROVE  /\ i = 1
                      /\ {in[1] : in \in blocks'[b][i].in} = Predecessors(b)'
                      /\ \A in1, in2 \in blocks'[b][i].in :
                           in1[1] = in2[1] => in1 = in2
  BY Zenon DEF PhiGood
<1>2. /\ i \in DOMAIN blocks[b] /\ blocks'[b][i] = blocks[b][i]
      /\ blocks[b][i].op = "phi"
  BY <1>1 DEF QuietAt
<1>3. b \notin T
  BY <1>2, Zenon DEF HasPhi
<1>4. Predecessors(b)' = Predecessors(b)
  BY <1>3, GrowPredecessors
<1> QED BY <1>2, <1>4, Zenon DEF PhiGood

LEMMA QuietPhis ==
  ASSUME NEW T, Grow(T), Quiet, cur \in DOMAIN blocks,
         \A b \in DOMAIN blocks : PhiGood(b) /\ (HasPhi(b) => b \notin T)
  PROVE  /\ \A b \in DOMAIN blocks' : PhiGood(b)'
         /\ \A b \in DOMAIN blocks' : HasPhi(b)' => b \in DOMAIN blocks /\ HasPhi(b)
<1>1. ASSUME NEW b \in DOMAIN blocks PROVE PhiGood(b)' /\ (HasPhi(b)' => HasPhi(b))
  <2>1. PhiGood(b)'
    BY PhisKept, Zenon DEF Quiet
  <2>2. HasPhi(b)' => HasPhi(b)
    BY Zenon DEF Quiet, QuietAt, HasPhi
  <2> QED BY <2>1, <2>2
<1>2. ASSUME NEW b \in DOMAIN blocks', b \notin DOMAIN blocks
      PROVE  PhiGood(b)' /\ ~HasPhi(b)'
  <2>1. Plain(blocks'[b])
    BY <1>2, Zenon DEF Grow, Fresh
  <2> QED BY <2>1, Zenon DEF PhiGood, HasPhi, Plain
<1> QED BY <1>1, <1>2, Zenon

LEMMA Widen ==
  ASSUME NEW S, NEW T, S \subseteq T, NEW s \in Seq(Seq(S))
  PROVE  s \in Seq(Seq(T))
<1>1. Seq(S) \subseteq Seq(T)
  OBVIOUS
<1> QED BY <1>1

LEMMA Added ==
  ASSUME NEW S, NEW s \in Seq(S), NEW t \in Seq(S)
  PROVE  /\ s \o t \in Seq(S) /\ DOMAIN s \subseteq DOMAIN (s \o t)
         /\ \A i \in DOMAIN s : (s \o t)[i] = s[i]
         /\ \A i \in DOMAIN t : (s \o t)[Len(s) + i] = t[i]
         /\ \A i \in DOMAIN t : Len(s) + i \in DOMAIN (s \o t) \ DOMAIN s
         /\ \A a \in DOMAIN (s \o t) \ DOMAIN s : \E i \in DOMAIN t : a = Len(s) + i
<1>1. /\ s \o t \in Seq(S) /\ DOMAIN s \subseteq DOMAIN (s \o t)
      /\ \A i \in DOMAIN s : (s \o t)[i] = s[i]
      /\ \A i \in DOMAIN t : (s \o t)[Len(s) + i] = t[i]
  OBVIOUS
<1>2. ASSUME NEW a \in DOMAIN (s \o t), a \notin DOMAIN s
      PROVE  a - Len(s) \in DOMAIN t /\ a = Len(s) + (a - Len(s))
  BY <1>2
<1>3. ASSUME NEW i \in DOMAIN t
      PROVE  Len(s) + i \in DOMAIN (s \o t) /\ Len(s) + i \notin DOMAIN s
  <2>1. i \in 1 .. Len(t) /\ DOMAIN s = 1 .. Len(s) /\ Len(s) \in Nat /\ Len(t) \in Nat
    OBVIOUS
  <2>2. DOMAIN (s \o t) = 1 .. Len(s) + Len(t)
    OBVIOUS
  <2> QED BY <2>1, <2>2
<1> QED BY <1>1, <1>2, <1>3

LEMMA EmitsAt ==
  ASSUME NEW S, blocks \in Seq(Seq(S)), NEW b \in DOMAIN blocks, NEW is \in Seq(S)
  PROVE  /\ Emit(b, is) \in Seq(Seq(S)) /\ Len(Emit(b, is)) = Len(blocks)
         /\ DOMAIN Emit(b, is) = DOMAIN blocks
         /\ Emit(b, is)[b] = blocks[b] \o is
         /\ \A a \in DOMAIN blocks : a # b => Emit(b, is)[a] = blocks[a]
<1>1. blocks[b] \in Seq(S) /\ blocks[b] \o is \in Seq(S)
  OBVIOUS
<1> QED BY <1>1 DEF Emit

LEMMA GrowEmitCreate ==
  ASSUME NEW S, blocks \in Seq(Seq(S)), cur \in DOMAIN blocks,
         NEW I, NEW is \in Seq(I), Plain(is), NEW new \in Seq(Seq(I)),
         \A i \in DOMAIN new : Plain(new[i]),
         \A i \in DOMAIN new : \A a \in Out(new[i]) :
           \E j \in DOMAIN new : a = Len(blocks) + j,
         blocks' = Emit(cur, is) \o new
  PROVE  /\ Grow(Out(is)) /\ Quiet
         /\ \A i \in DOMAIN new : Len(blocks) + i \in Fresh
         /\ \A a \in Fresh : \E i \in DOMAIN new : a = Len(blocks) + i
         /\ \A i \in DOMAIN new : blocks'[Len(blocks) + i] = new[i]
<1> DEFINE J == S \cup I
<1>0. PICK E : E = Emit(cur, is)
  OBVIOUS
<1>1. blocks \in Seq(Seq(J)) /\ new \in Seq(Seq(J)) /\ is \in Seq(J)
  <2>1. blocks \in Seq(Seq(J))
    BY Widen
  <2>2. new \in Seq(Seq(J))
    BY Widen
  <2> QED BY <2>1, <2>2
<1> HIDE DEF J
<1>2. /\ E \in Seq(Seq(J)) /\ Len(E) = Len(blocks) /\ DOMAIN E = DOMAIN blocks
      /\ E[cur] = blocks[cur] \o is
      /\ \A a \in DOMAIN blocks : a # cur => E[a] = blocks[a]
  <2>1. E \in Seq(Seq(J)) /\ Len(E) = Len(blocks) /\ DOMAIN E = DOMAIN blocks
    BY <1>0, <1>1, EmitsAt
  <2>2. E[cur] = blocks[cur] \o is
    BY <1>0, <1>1, EmitsAt, Zenon
  <2>3. \A a \in DOMAIN blocks : a # cur => E[a] = blocks[a]
    BY <1>0, <1>1, EmitsAt
  <2> QED BY <2>1, <2>2, <2>3
<1>3. /\ blocks' \in Seq(Seq(J)) /\ DOMAIN blocks \subseteq DOMAIN blocks'
      /\ \A a \in DOMAIN blocks : blocks'[a] = E[a]
      /\ \A i \in DOMAIN new : blocks'[Len(blocks) + i] = new[i]
      /\ \A i \in DOMAIN new : Len(blocks) + i \in Fresh
      /\ \A a \in Fresh : \E i \in DOMAIN new : a = Len(blocks) + i
  <2>1. blocks' = E \o new
    BY <1>0
  <2>2. /\ E \o new \in Seq(Seq(J)) /\ DOMAIN E \subseteq DOMAIN (E \o new)
        /\ \A i \in DOMAIN E : (E \o new)[i] = E[i]
        /\ \A i \in DOMAIN new : (E \o new)[Len(E) + i] = new[i]
        /\ \A i \in DOMAIN new : Len(E) + i \in DOMAIN (E \o new) \ DOMAIN E
        /\ \A a \in DOMAIN (E \o new) \ DOMAIN E :
             \E i \in DOMAIN new : a = Len(E) + i
    <3>1. E \in Seq(Seq(J)) /\ new \in Seq(Seq(J))
      BY <1>1, <1>2
    <3> QED BY ONLY <3>1, Added, Zenon
  <2>3. \A i \in DOMAIN new : blocks'[Len(blocks) + i] = new[i]
    BY <2>1, <2>2, <1>2, Zenon
  <2>4. /\ \A i \in DOMAIN new : Len(blocks) + i \in Fresh
        /\ \A a \in Fresh : \E i \in DOMAIN new : a = Len(blocks) + i
    BY <2>1, <2>2, <1>2 DEF Fresh
  <2> QED BY <2>1, <2>2, <2>3, <2>4, <1>2, Zenon
<1>4. blocks[cur] \in Seq(J) /\ blocks'[cur] = blocks[cur] \o is
  <2>1. blocks[cur] \in Seq(J)
    BY <1>1
  <2> QED BY <2>1, <1>2, <1>3, Zenon
<1>5. Out(blocks'[cur]) = Out(blocks[cur]) \cup Out(is)
  BY <1>1, <1>4, OutConcat
<1>6. \A i \in DOMAIN blocks'[cur] : blocks'[cur][i].op = "phi" =>
        i \in DOMAIN blocks[cur] /\ blocks'[cur][i] = blocks[cur][i]
  <2>1. PICK c : c = blocks[cur]
    OBVIOUS
  <2>2. c \in Seq(J) /\ is \in Seq(J) /\ Plain(is) /\ blocks'[cur] = c \o is
    BY <1>1, <1>4, <2>1
  <2>3. /\ \A i \in DOMAIN c : i \in DOMAIN (c \o is) /\ (c \o is)[i] = c[i]
        /\ \A i \in DOMAIN (c \o is) : (c \o is)[i].op = "phi" => i \in DOMAIN c
    BY ONLY <2>2, PlainConcat
  <2> QED BY <2>1, <2>2, <2>3, Zenon
<1>7. Quiet
  BY <1>2, <1>3, <1>6, Zenon DEF Quiet, QuietAt
<1>8. \A a \in Fresh : Out(blocks'[a]) \subseteq Fresh /\ Plain(blocks'[a])
  <2>1. ASSUME NEW i \in DOMAIN new
        PROVE  Out(new[i]) \subseteq Fresh /\ Plain(new[i])
    BY <1>3, Zenon
  <2>2. ASSUME NEW a \in Fresh PROVE \E i \in DOMAIN new : blocks'[a] = new[i]
    BY <1>3, Zenon
  <2> QED BY <2>1, <2>2, Zenon
<1>9. Grow(Out(is))
  BY <1>2, <1>3, <1>5, <1>8, Zenon DEF Grow
<1> QED BY <1>3, <1>7, <1>9, Zenon

LEMMA GrowEmit ==
  ASSUME NEW S, blocks \in Seq(Seq(S)), cur \in DOMAIN blocks,
         NEW I, NEW is \in Seq(I), Plain(is), blocks' = Emit(cur, is)
  PROVE  Grow(Out(is)) /\ Quiet /\ Fresh = {}
<1> DEFINE J == S \cup I
<1>1. blocks \in Seq(Seq(J)) /\ is \in Seq(J)
  BY Widen
<1> HIDE DEF J
<1>2. Emit(cur, is) \in Seq(Seq(J))
  BY <1>1, EmitsAt
<1>3. blocks' = Emit(cur, is) \o <<>> /\ <<>> \in Seq(Seq(J)) /\ DOMAIN <<>> = {}
  BY <1>2
<1>4. /\ Grow(Out(is)) /\ Quiet
      /\ \A a \in Fresh : \E i \in DOMAIN <<>> : a = Len(blocks) + i
  BY <1>1, <1>3, GrowEmitCreate, Zenon
<1> QED BY <1>3, <1>4

LEMMA GrowCreate ==
  ASSUME NEW S, blocks \in Seq(Seq(S)), cur \in DOMAIN blocks,
         NEW n \in Nat, blocks' = blocks \o Created(n)
  PROVE  /\ Grow({}) /\ Quiet
         /\ \A i \in 1 .. n : New(i) \in Fresh
         /\ \A a \in Fresh : \E i \in 1 .. n : a = New(i)
         /\ \A i \in 1 .. n : blocks'[New(i)] = <<>>
<1>1. /\ Created(n) \in Seq(Seq(S)) /\ DOMAIN Created(n) = 1 .. n
      /\ \A i \in 1 .. n : Created(n)[i] = <<>>
  BY DEF Created
<1>2. <<>> \in Seq(S) /\ Emit(cur, <<>>) = blocks
  <2>1. /\ Emit(cur, <<>>)[cur] = blocks[cur] \o <<>>
        /\ DOMAIN Emit(cur, <<>>) = DOMAIN blocks /\ Emit(cur, <<>>) \in Seq(Seq(S))
        /\ \A a \in DOMAIN blocks : a # cur => Emit(cur, <<>>)[a] = blocks[a]
    <3>1. <<>> \in Seq(S)
      OBVIOUS
    <3> QED BY <3>1, EmitsAt, Zenon
  <2>2. blocks[cur] \in Seq(S) /\ blocks[cur] \o <<>> = blocks[cur]
    OBVIOUS
  <2> QED BY <2>1, <2>2
<1>3. Plain(<<>>) /\ Out(<<>>) = {}
  BY ShortCode, Zenon
<1>4. \A i \in DOMAIN Created(n) : Plain(Created(n)[i]) /\ Out(Created(n)[i]) = {}
  BY <1>1, <1>3
<1>5. blocks' = Emit(cur, <<>>) \o Created(n)
  BY <1>2, Zenon
<1>6. /\ Grow(Out(<<>>)) /\ Quiet
      /\ \A i \in DOMAIN Created(n) : Len(blocks) + i \in Fresh
      /\ \A a \in Fresh : \E i \in DOMAIN Created(n) : a = Len(blocks) + i
      /\ \A i \in DOMAIN Created(n) : blocks'[Len(blocks) + i] = Created(n)[i]
  BY <1>1, <1>2, <1>3, <1>4, <1>5, GrowEmitCreate, Zenon
<1> QED BY <1>1, <1>3, <1>6, Zenon DEF New

LEMMA ConcatSeq ==
  ASSUME NEW S, NEW s \in Seq(S), NEW t \in Seq(S)
  PROVE  /\ s \o t \in Seq(S) /\ Len(s \o t) = Len(s) + Len(t)
         /\ \A i \in 1 .. Len(s) : (s \o t)[i] = s[i]
         /\ \A i \in 1 .. Len(t) : (s \o t)[Len(s) + i] = t[i]
OBVIOUS

LEMMA GrowTwo ==
  ASSUME NEW S, blocks \in Seq(Seq(S)), cur \in DOMAIN blocks,
         NEW d \in DOMAIN blocks, d # cur, cur' = d,
         NEW I, NEW is \in Seq(I), NEW js \in Seq(I), Plain(is), Out(js) = {},
         blocks' = [blocks EXCEPT ![cur] = @ \o is, ![d] = @ \o js]
  PROVE  /\ Grow(Out(is)) /\ Fresh = {} /\ blocks'[d] = blocks[d] \o js
         /\ \A a \in DOMAIN blocks : a # d \/ Plain(js) => QuietAt(a)
<1> DEFINE J == S \cup I
<1>1. blocks \in Seq(Seq(J)) /\ is \in Seq(J) /\ js \in Seq(J)
  <2>1. blocks \in Seq(Seq(J))
    BY Widen
  <2>2. is \in Seq(J)
    OBVIOUS
  <2>3. js \in Seq(J)
    OBVIOUS
  <2> QED BY <2>1, <2>2, <2>3
<1> HIDE DEF J
<1>2. PICK c, e : c = blocks[cur] /\ e = blocks[d]
  OBVIOUS
<1>3. c \in Seq(J) /\ e \in Seq(J) /\ c \o is \in Seq(J) /\ e \o js \in Seq(J)
  BY <1>1, <1>2
<1>4. /\ blocks' \in Seq(Seq(J)) /\ DOMAIN blocks' = DOMAIN blocks
      /\ blocks'[cur] = c \o is /\ blocks'[d] = e \o js
      /\ \A a \in DOMAIN blocks : a # cur /\ a # d => blocks'[a] = blocks[a]
  <2>1. blocks' = [blocks EXCEPT ![cur] = c \o is, ![d] = e \o js]
    BY <1>2
  <2>2. PICK x, y : x = c \o is /\ y = e \o js
    BY Zenon
  <2>3. x \in Seq(J) /\ y \in Seq(J)
    BY <2>2, <1>3
  <2>4. blocks' = [blocks EXCEPT ![cur] = x, ![d] = y]
    BY <2>1, <2>2, Zenon
  <2>5. /\ blocks' \in Seq(Seq(J)) /\ DOMAIN blocks' = DOMAIN blocks
        /\ blocks'[cur] = x /\ blocks'[d] = y
        /\ \A a \in DOMAIN blocks : a # cur /\ a # d => blocks'[a] = blocks[a]
    <3>1. /\ blocks \in Seq(Seq(J)) /\ cur \in DOMAIN blocks /\ d \in DOMAIN blocks
          /\ d # cur
      BY <1>1
    <3>2. blocks' \in Seq(Seq(J))
      BY ONLY <3>1, <2>3, <2>4
    <3>3. /\ DOMAIN blocks' = DOMAIN blocks /\ blocks'[cur] = x /\ blocks'[d] = y
          /\ \A a \in DOMAIN blocks : a # cur /\ a # d => blocks'[a] = blocks[a]
      BY ONLY <3>1, <2>4
    <3> QED BY <3>2, <3>3, Zenon
  <2> QED BY <2>2, <2>5, Zenon
<1>5. Out(c \o is) = Out(c) \cup Out(is) /\ Out(e \o js) = Out(e)
  <2>1. Out(c \o is) = Out(c) \cup Out(is)
    BY ONLY <1>1, <1>3, OutConcat
  <2>2. Out(e \o js) = Out(e) \cup Out(js)
    BY ONLY <1>1, <1>3, OutConcat
  <2> QED BY <2>1, <2>2
<1>6. \A a \in DOMAIN blocks :
        /\ Out(blocks'[a]) = IF a = cur THEN Out(blocks[a]) \cup Out(is)
                             ELSE Out(blocks[a])
        /\ a # cur /\ a # cur' => blocks'[a] = blocks[a]
  <2> TAKE a \in DOMAIN blocks
  <2>1. CASE a = cur
    BY <2>1, <1>2, <1>4, <1>5, Zenon
  <2>2. CASE a = d
    BY <2>2, <1>2, <1>4, <1>5
  <2>3. CASE a # cur /\ a # d
    BY <2>3, <1>4
  <2> QED BY <2>1, <2>2, <2>3
<1>7. Fresh = {}
  BY <1>4 DEF Fresh
<1>8. Grow(Out(is))
  BY <1>4, <1>6, <1>7, Zenon DEF Grow
<1>9. ASSUME NEW a \in DOMAIN blocks, a # d \/ Plain(js),
             NEW i \in DOMAIN blocks'[a], blocks'[a][i].op = "phi"
      PROVE  i \in DOMAIN blocks[a] /\ blocks'[a][i] = blocks[a][i]
  <2>1. CASE a = cur
    <3>1. /\ \A j \in DOMAIN c : j \in DOMAIN (c \o is) /\ (c \o is)[j] = c[j]
          /\ \A j \in DOMAIN (c \o is) : (c \o is)[j].op = "phi" => j \in DOMAIN c
      BY <1>1, <1>3, PlainConcat, Zenon
    <3> QED BY <3>1, <2>1, <1>2, <1>4, <1>9, Zenon
  <2>2. CASE a = d
    <3>1. /\ \A j \in DOMAIN e : j \in DOMAIN (e \o js) /\ (e \o js)[j] = e[j]
          /\ \A j \in DOMAIN (e \o js) : (e \o js)[j].op = "phi" => j \in DOMAIN e
      BY <1>1, <1>3, <1>9, <2>2, PlainConcat, Zenon
    <3> QED BY <3>1, <2>2, <1>2, <1>4, <1>9, Zenon
  <2>3. CASE a # cur /\ a # d
    BY <2>3, <1>4, <1>9
  <2> QED BY <2>1, <2>2, <2>3, Zenon
<1>10. \A a \in DOMAIN blocks : a # d \/ Plain(js) => QuietAt(a)
  BY <1>9, Zenon DEF QuietAt
<1> QED BY <1>2, <1>4, <1>7, <1>8, <1>10, Zenon

-----------------------------------------------------------------------------
(* How a step changes the stack of tasks. *)

\* The task in hand gives way to the nodes ns and to at most one task, t.
Replace(ns, ts) == todo' = (ns \o ts) \o Tail(todo)

\* The tasks that wait move by d.
Shifted(d, ns, t, ts) ==
  /\ \A p \in DOMAIN todo' :
       \/ p <= Len(ns) /\ todo'[p] \in Nodes
       \/ p = Len(ns) + 1 /\ ts = <<t>> /\ todo'[p] = t
       \/ \E q \in DOMAIN todo : q >= 2 /\ p = q + d /\ todo'[p] = todo[q]
  /\ \A q \in DOMAIN todo : q >= 2 =>
       q + d \in DOMAIN todo' /\ todo'[q + d] = todo[q]
  /\ ts = <<t>> => Len(ns) + 1 \in DOMAIN todo' /\ todo'[Len(ns) + 1] = t

LEMMA Replaced ==
  ASSUME NEW S, todo \in Seq(S), todo # <<>>, NEW ns \in Seq(Nodes),
         NEW t, NEW ts \in {<<>>, <<t>>}, Replace(ns, ts),
         NEW d, d = Len(ns) + Len(ts) - 1
  PROVE  (\E T : todo' \in Seq(T)) /\ Shifted(d, ns, t, ts)
<1> DEFINE T == S \cup Nodes \cup {t}
<1>1. PICK u : u = Tail(todo)
  BY Zenon
<1>2. /\ u \in Seq(S) /\ Len(u) = Len(todo) - 1 /\ Len(todo) \in Nat
      /\ \A i \in 1 .. Len(u) : u[i] = todo[i + 1]
  BY <1>1
<1>3. u \in Seq(T) /\ ns \in Seq(T) /\ ts \in Seq(T)
  <2>1. u \in Seq(T)
    BY <1>2
  <2>2. ns \in Seq(T)
    OBVIOUS
  <2>3. <<>> \in Seq(T) /\ <<t>> \in Seq(T)
    OBVIOUS
  <2> QED BY <2>1, <2>2, <2>3, Zenon
<1> HIDE DEF T
<1>4. /\ Len(ts) \in {0, 1} /\ Len(ns) \in Nat
      /\ ts = <<t>> => Len(ts) = 1 /\ ts[1] = t
      /\ Len(ts) = 1 => ts = <<t>>
  <2>1. Len(ns) \in Nat
    OBVIOUS
  <2>2. CASE ts = <<>>
    <3>1. Len(ts) = 0 /\ ts # <<t>>
      BY ONLY <2>2
    <3> QED BY <3>1, <2>1
  <2>3. CASE ts = <<t>>
    <3>1. Len(ts) = 1 /\ ts[1] = t
      BY ONLY <2>3
    <3> QED BY <3>1, <2>1, <2>3
  <2> QED BY <2>2, <2>3
<1>5. PICK v : v = ns \o ts
  BY Zenon
<1>6. /\ v \in Seq(T) /\ Len(v) = Len(ns) + Len(ts)
      /\ \A i \in 1 .. Len(ns) : v[i] = ns[i] /\ ns[i] \in Nodes
      /\ Len(ts) = 1 => v[Len(ns) + 1] = t
  BY <1>3, <1>4, <1>5
<1>7. /\ todo' = v \o u /\ todo' \in Seq(T) /\ Len(todo') = Len(v) + Len(u)
      /\ \A i \in 1 .. Len(v) : todo'[i] = v[i]
      /\ \A i \in 1 .. Len(u) : todo'[Len(v) + i] = u[i]
  <2>1. todo' = v \o u
    BY <1>1, <1>5 DEF Replace
  <2>2. v \in Seq(T) /\ u \in Seq(T)
    BY <1>3, <1>6
  <2>3. /\ v \o u \in Seq(T) /\ Len(v \o u) = Len(v) + Len(u)
        /\ \A i \in 1 .. Len(v) : (v \o u)[i] = v[i]
        /\ \A i \in 1 .. Len(u) : (v \o u)[Len(v) + i] = u[i]
    BY ONLY <2>2, ConcatSeq
  <2> QED BY ONLY <2>1, <2>3
<1>8. /\ DOMAIN todo = 1 .. Len(todo) /\ DOMAIN todo' = 1 .. Len(todo')
      /\ Len(u) \in Nat /\ Len(v) \in Nat /\ Len(todo') \in Nat
  BY <1>2, <1>6, <1>7
<1>9. ASSUME NEW p \in DOMAIN todo'
      PROVE  \/ p <= Len(ns) /\ todo'[p] \in Nodes
             \/ p = Len(ns) + 1 /\ ts = <<t>> /\ todo'[p] = t
             \/ \E q \in DOMAIN todo : q >= 2 /\ p = q + d /\ todo'[p] = todo[q]
  <2>0. p \in 1 .. Len(todo')
    BY <1>8
  <2>1. CASE p <= Len(ns)
    <3>1. p \in 1 .. Len(ns) /\ p \in 1 .. Len(v)
      BY ONLY <2>0, <2>1, <1>4, <1>6, <1>8
    <3>2. todo'[p] = v[p] /\ v[p] = ns[p] /\ ns[p] \in Nodes
      BY ONLY <3>1, <1>6, <1>7
    <3> QED BY <3>2, <2>1
  <2>2. CASE p > Len(ns) /\ p <= Len(v)
    <3>1. p = Len(ns) + 1 /\ Len(ts) = 1 /\ p \in 1 .. Len(v)
      <4>1. /\ p \in Nat /\ p > 0 /\ Len(ns) \in Nat /\ Len(ts) \in {0, 1}
            /\ Len(v) = Len(ns) + Len(ts)
        BY ONLY <2>0, <1>4, <1>6, <1>8
      <4>2. CASE Len(ts) = 0
        BY ONLY <4>1, <4>2, <2>2
      <4>3. CASE Len(ts) = 1
        <5>1. p > Len(ns) /\ p <= Len(ns) + 1
          BY <4>1, <4>3, <2>2
        <5>2. p = Len(ns) + 1
          BY ONLY <4>1, <5>1
        <5> QED BY <5>2, <4>1, <4>3, <2>2
      <4> QED BY ONLY <4>1, <4>2, <4>3
    <3>2. todo'[p] = v[p] /\ v[p] = t
      BY ONLY <3>1, <1>6, <1>7
    <3> QED BY <3>1, <3>2, <1>4
  <2>3. CASE p > Len(v)
    <3>1. p - Len(v) \in 1 .. Len(u) /\ p - Len(v) + 1 \in DOMAIN todo
      <4>1. /\ p \in Nat /\ p <= Len(v) + Len(u) /\ Len(u) = Len(todo) - 1
            /\ Len(v) \in Nat /\ Len(u) \in Nat /\ Len(todo) \in Nat
        BY ONLY <2>0, <1>2, <1>7, <1>8
      <4>2. p - Len(v) \in 1 .. Len(u) /\ p - Len(v) + 1 \in 1 .. Len(todo)
        BY ONLY <4>1, <2>3
      <4> QED BY ONLY <4>2, <1>8
    <3>2. todo'[Len(v) + (p - Len(v))] = u[p - Len(v)]
      BY <3>1, <1>7, Zenon
    <3>3. todo'[p] = todo[p - Len(v) + 1]
      <4>1. Len(v) + (p - Len(v)) = p
        BY ONLY <2>0, <1>8
      <4>2. u[p - Len(v)] = todo[p - Len(v) + 1]
        BY ONLY <3>1, <1>2
      <4> QED BY <4>1, <4>2, <3>2
    <3>4. PICK q : q = p - Len(v) + 1
      OBVIOUS
    <3>5. q \in DOMAIN todo /\ todo'[p] = todo[q]
      BY ONLY <3>1, <3>3, <3>4
    <3>6. q >= 2 /\ p = q + d
      <4>1. PICK m : m = Len(v)
        BY Zenon
      <4>2. d = m - 1
        BY <4>1, <1>4, <1>6
      <4>3. p - m >= 1 /\ p \in Nat /\ m \in Nat
        BY ONLY <4>1, <3>1, <2>0, <1>8
      <4>4. q = p - m + 1
        BY ONLY <4>1, <3>4
      <4> QED BY ONLY <4>2, <4>3, <4>4
    <3> QED BY ONLY <3>5, <3>6
  <2> QED BY <2>0, <2>1, <2>2, <2>3, <1>4, <1>6, <1>8
<1>10. ASSUME NEW q \in DOMAIN todo, q >= 2
       PROVE  q + d \in DOMAIN todo' /\ todo'[q + d] = todo[q]
  <2>1. q - 1 \in 1 .. Len(u) /\ u[q - 1] = todo[q]
    BY <1>10, <1>2, <1>8
  <2>2. todo'[Len(v) + (q - 1)] = todo[q]
    BY <2>1, <1>7, Zenon
  <2>3. Len(v) + (q - 1) = q + d
    BY <1>4, <1>6, <1>8, <1>10
  <2>4. Len(v) + (q - 1) \in 1 .. Len(todo')
    BY ONLY <2>1, <1>7, <1>8
  <2> QED BY <2>2, <2>3, <2>4, <1>8
<1>11. ts = <<t>> => Len(ns) + 1 \in DOMAIN todo' /\ todo'[Len(ns) + 1] = t
  BY <1>4, <1>6, <1>7, <1>8
<1>12. Shifted(d, ns, t, ts)
  BY <1>9, <1>10, <1>11 DEF Shifted
<1> QED BY <1>7, <1>12

\* Nodes own nothing.
LEMMA NodeOwns ==
  ASSUME NEW s, s \in Nodes \/ s.k \in NodeKinds
  PROVE  /\ Claims(s) = {} /\ Returns(s) = {} /\ PhiPlace(s) = {} /\ ~ForTask(s)
         /\ s.k # "lhs" /\ s.k # "rhs"
<1>1. s.k \in NodeKinds
  BY NodesAssumption
<1> QED BY <1>1 DEF NodeKinds, Claims, Returns, PhiPlace, ForTask

\* What the task in hand owns passes to t, or is done with.
Hands(T, t) ==
  /\ Grow(T)
  /\ T \subseteq Claims(Head(todo)) \cup Live \cup Fresh
  /\ cur' \in {cur} \cup Claims(Head(todo)) \cup Fresh
  /\ Formed(t)
  /\ Claims(t) \subseteq Claims(Head(todo)) \cup Fresh /\ cur' \notin Claims(t)
  /\ \A a \in Claims(t) \cap Fresh : blocks'[a] = <<>>
  /\ Returns(t) \subseteq Returns(Head(todo)) \cup Fresh
  /\ PhiPlace(t) \subseteq PhiPlace(Head(todo)) \cup Fresh
  /\ t.k = "lhs" => Predecessors(t.fin)' = {}
  /\ t.k = "rhs" => /\ Predecessors(t.fin)' = {t.current}
                    /\ t.current = cur /\ cur' # cur

LEMMA SoundRenamed ==
  ASSUME NEW p, NEW x, todo'[p] = x, Sound(x)'
  PROVE  Sound(todo[p])'
BY DEF Sound, Claims, Returns, Predecessors, ForTask

LEMMA PhiPlaces ==
  ASSUME NEW t
  PROVE  /\ PhiPlace(t) \subseteq Claims(t)
         /\ PhiPlace(t) # {} => Returns(t) = {}
         /\ t.k \in {"lhs", "rhs"} => PhiPlace(t) = {t.fin}
BY DEF PhiPlace, Claims, Returns, ForTask

\* The tasks that wait keep what they own.
LEMMA WaitingSound ==
  ASSUME StackInv, cur \in DOMAIN blocks, 1 \in DOMAIN todo, Head(todo) = todo[1],
         NEW T, NEW t, Hands(T, t), NEW q \in DOMAIN todo, q # 1,
         NEW x, x = todo[q]
  PROVE  /\ Sound(x)' /\ Claims(x) \cap Claims(t) = {}
         /\ x.k = "rhs" => x.current \notin Claims(t)
         /\ t.k = "rhs" => t.current \notin Claims(x)
<1>1. /\ Sound(x) /\ Claims(x) \cap Claims(Head(todo)) = {}
      /\ x.k = "rhs" => x.current \notin Claims(Head(todo))
      /\ PhiPlace(x) \cap Live = {}
  BY DEF StackInv
<1>2. Claims(x) \subseteq DOMAIN blocks /\ cur \notin Claims(x) /\ cur' \notin Claims(x)
  BY <1>1 DEF Sound, Hands, Fresh
<1>3. Claims(x) \subseteq DOMAIN blocks' /\ Returns(x) \subseteq DOMAIN blocks'
  BY <1>1, Zenon DEF Sound, Hands, Grow
<1>4. \A a \in Claims(x) : a # cur' /\ blocks'[a] = <<>>
  BY <1>1, <1>2, Zenon DEF Sound, Hands, Grow
<1>5. x.k \in {"lhs", "rhs"} => Predecessors(x.fin)' = Predecessors(x.fin)
  <2>1. SUFFICES ASSUME x.k \in {"lhs", "rhs"}
                 PROVE  Predecessors(x.fin)' = Predecessors(x.fin)
    OBVIOUS
  <2>2. x.fin \in PhiPlace(x) /\ x.fin \in Claims(x)
    BY <2>1, PhiPlaces
  <2>3. x.fin \notin T /\ x.fin \in DOMAIN blocks
    BY <2>2, <1>1, <1>2 DEF Hands, Fresh
  <2> QED BY <2>3, GrowPredecessors DEF Hands
<1>6. x.k = "rhs" => /\ x.current \in DOMAIN blocks' /\ x.current # cur'
                     /\ x.current \notin Claims(t)
  BY <1>1 DEF Sound, Hands, Fresh, Grow
<1>7. Sound(x)'
  BY <1>1, <1>3, <1>4, <1>5, <1>6 DEF Sound
<1>8. Claims(x) \cap Claims(t) = {}
  BY <1>1, <1>2 DEF Hands, Fresh
<1>9. t.k = "rhs" => t.current \notin Claims(x)
  BY <1>2 DEF Hands
<1> QED BY <1>6, <1>7, <1>8, <1>9

LEMMA HandedSound ==
  ASSUME StackInv, cur \in DOMAIN blocks, 1 \in DOMAIN todo, Head(todo) = todo[1],
         NEW T, NEW t, Hands(T, t)
  PROVE  Sound(t)'
<1>1. Sound(Head(todo))
  BY DEF StackInv
<1>2. Claims(t) \subseteq DOMAIN blocks' /\ Returns(t) \subseteq DOMAIN blocks'
  BY <1>1 DEF Sound, Hands, Grow, Fresh
<1>3. \A a \in Claims(t) : a # cur' /\ blocks'[a] = <<>>
  <2>1. SUFFICES ASSUME NEW a \in Claims(t), a \in Claims(Head(todo)), a # cur'
                 PROVE  blocks'[a] = <<>>
    BY DEF Hands
  <2>2. a \in DOMAIN blocks /\ a # cur /\ blocks[a] = <<>>
    BY <1>1, <2>1, Zenon DEF Sound
  <2> QED BY <2>1, <2>2, Zenon DEF Hands, Grow
<1>4. t.k = "rhs" => t.current \in DOMAIN blocks' /\ t.current # cur'
  BY DEF Hands, Grow
<1> QED BY <1>2, <1>3, <1>4 DEF Sound, Hands

LEMMA NodeSound ==
  ASSUME NEW s \in Nodes
  PROVE  Sound(s)' /\ Formed(s)
BY NodeOwns DEF Sound, Formed

LEMMA StackStep ==
  ASSUME StackInv, cur \in DOMAIN blocks, NEW S, todo \in Seq(S), todo # <<>>,
         NEW T, NEW t, Hands(T, t),
         NEW ns \in Seq(Nodes), NEW ts \in {<<>>, <<t>>}, Replace(ns, ts),
         \A b \in DOMAIN blocks' : HasPhi(b)' =>
           \/ b \in DOMAIN blocks /\ HasPhi(b)
           \/ b = cur' /\ b \in PhiPlace(Head(todo)) /\ ts = <<>>
  PROVE  /\ StackInv' /\ cur' \in DOMAIN blocks'
         /\ \E U : blocks' \in Seq(Seq(U))
         /\ \E U : todo' \in Seq(U)
<1>1. 1 \in DOMAIN todo /\ Head(todo) = todo[1]
  OBVIOUS
<1>2. PICK d : d = Len(ns) + Len(ts) - 1
  OBVIOUS
<1>3. /\ \E U : todo' \in Seq(U)
      /\ \A p \in DOMAIN todo' :
           \/ p <= Len(ns) /\ todo'[p] \in Nodes
           \/ p = Len(ns) + 1 /\ ts = <<t>> /\ todo'[p] = t
           \/ \E q \in DOMAIN todo : q >= 2 /\ p = q + d /\ todo'[p] = todo[q]
  <2>1. (\E U : todo' \in Seq(U)) /\ Shifted(d, ns, t, ts)
    BY <1>2, Replaced, Zenon
  <2> QED BY <2>1 DEF Shifted
<1>4. Sound(Head(todo)) /\ cur \notin Claims(Head(todo))
  BY <1>1, Zenon DEF StackInv, Sound
<1>5. cur' \in DOMAIN blocks' /\ \E U : blocks' \in Seq(Seq(U))
  BY <1>4 DEF Sound, Hands, Grow, Fresh
<1>6. /\ Live \subseteq DOMAIN blocks
      /\ \A q \in DOMAIN todo : Returns(todo[q]) \subseteq Live
  <2>1. \A q \in DOMAIN todo : Returns(todo[q]) \subseteq DOMAIN blocks
    BY Zenon DEF StackInv, Sound
  <2> QED BY <2>1 DEF Live
<1>7. ASSUME NEW p \in DOMAIN todo', NEW x, x = todo'[p]
      PROVE  \/ x \in Nodes
             \/ x = t /\ ts = <<t>> /\ p = Len(ns) + 1
             \/ \E q \in DOMAIN todo : q # 1 /\ p = q + d /\ x = todo[q]
  BY <1>3, <1>7
<1>8. Live' \subseteq Live \cup (IF ts = <<t>> THEN Returns(t) ELSE {})
  <2>1. SUFFICES ASSUME NEW p \in DOMAIN todo'
                 PROVE  Returns(todo'[p]) \subseteq
                          Live \cup (IF ts = <<t>> THEN Returns(t) ELSE {})
    <3>1. Live' = UNION {Returns(todo'[p]) : p \in DOMAIN todo'}
      BY DEF Live, Returns, ForTask
    <3> QED BY <3>1
  <2>2. PICK x : x = todo'[p]
    OBVIOUS
  <2>3. CASE x \in Nodes
    BY <2>2, <2>3, NodeOwns
  <2>4. CASE x = t /\ ts = <<t>>
    BY <2>2, <2>4
  <2>5. CASE \E q \in DOMAIN todo : x = todo[q]
    BY <2>2, <2>5, <1>6
  <2> QED BY <2>2, <2>3, <2>4, <2>5, <1>7
<1>9. Live' \subseteq Live \cup Fresh
  <2>1. Returns(Head(todo)) \subseteq Live
    BY <1>1, <1>6
  <2> QED BY <2>1, <1>8 DEF Hands
<1>10. ASSUME NEW p \in DOMAIN todo', NEW x, x = todo'[p]
       PROVE  Formed(x) /\ Sound(x)' /\ PhiPlace(x) \cap Live' = {}
  <2>1. CASE x \in Nodes
    BY <2>1, NodeOwns, NodeSound
  <2>2. CASE x = t /\ ts = <<t>>
    <3>1. Formed(t) /\ Sound(t)'
      BY <1>1, HandedSound DEF Hands
    <3>2. PhiPlace(Head(todo)) \cap Live = {}
      BY <1>1 DEF StackInv
    <3>3. PhiPlace(t) # {} => Live' \subseteq Live
      BY <1>8, PhiPlaces
    <3>4. PhiPlace(t) \cap Live = {}
      BY <3>2, <1>6 DEF Hands, Fresh
    <3> QED BY <2>2, <3>1, <3>3, <3>4
  <2>3. ASSUME NEW q \in DOMAIN todo, q # 1, x = todo[q]
        PROVE  Formed(x) /\ Sound(x)' /\ PhiPlace(x) \cap Live' = {}
    <3>1. Sound(x)'
      BY <2>3, <1>1, WaitingSound
    <3>2. Formed(x) /\ Sound(x) /\ PhiPlace(x) \cap Live = {}
      BY <2>3 DEF StackInv
    <3>3. PhiPlace(x) \subseteq DOMAIN blocks
      BY <3>2, PhiPlaces DEF Sound
    <3>4. PhiPlace(x) \cap Live' = {}
      BY <3>2, <3>3, <1>9 DEF Fresh
    <3> QED BY <3>1, <3>2, <3>4
  <2> QED BY <2>1, <2>2, <2>3, <1>7, <1>10
<1>11. ASSUME NEW p \in DOMAIN todo', NEW x, x = todo'[p],
              NEW q \in DOMAIN todo', NEW y, y = todo'[q]
       PROVE  /\ p # q => Claims(x) \cap Claims(y) = {}
              /\ x.k = "rhs" => x.current \notin Claims(y)
  <2>1. CASE x \in Nodes \/ y \in Nodes
    BY <2>1, NodeOwns
  <2>2. CASE x = t /\ p = Len(ns) + 1 /\ y = t /\ q = Len(ns) + 1
    BY <2>2, <1>4, Zenon DEF Hands, Fresh
  <2>3. ASSUME x = t, NEW j \in DOMAIN todo, j # 1, y = todo[j]
        PROVE  /\ Claims(x) \cap Claims(y) = {}
               /\ x.k = "rhs" => x.current \notin Claims(y)
    BY <2>3, <1>1, WaitingSound
  <2>4. ASSUME y = t, NEW i \in DOMAIN todo, i # 1, x = todo[i]
        PROVE  /\ Claims(x) \cap Claims(y) = {}
               /\ x.k = "rhs" => x.current \notin Claims(y)
    BY <2>4, <1>1, WaitingSound
  <2>5. ASSUME NEW i \in DOMAIN todo, x = todo[i], p = i + d,
               NEW j \in DOMAIN todo, y = todo[j], q = j + d
        PROVE  /\ p # q => Claims(x) \cap Claims(y) = {}
               /\ x.k = "rhs" => x.current \notin Claims(y)
    BY <2>5, Zenon DEF StackInv
  <2>6. \/ x \in Nodes
        \/ x = t /\ ts = <<t>> /\ p = Len(ns) + 1
        \/ \E i \in DOMAIN todo : i # 1 /\ p = i + d /\ x = todo[i]
    BY <1>7, <1>11
  <2>7. \/ y \in Nodes
        \/ y = t /\ ts = <<t>> /\ q = Len(ns) + 1
        \/ \E j \in DOMAIN todo : j # 1 /\ q = j + d /\ y = todo[j]
    BY <1>7, <1>11
  <2> QED BY <2>1, <2>2, <2>3, <2>4, <2>5, <2>6, <2>7, Zenon
<1>12. ASSUME NEW b \in DOMAIN blocks', HasPhi(b)'
       PROVE  b \notin Live' /\ \A p \in DOMAIN todo' : b \notin Claims(todo'[p])
  <2>1. CASE b \in DOMAIN blocks /\ HasPhi(b)
    <3>1. b \notin Live /\ b \notin Claims(t)
      BY <2>1, <1>1, Zenon DEF StackInv, Hands, Fresh
    <3>2. ASSUME NEW p \in DOMAIN todo', NEW x, x = todo'[p] PROVE b \notin Claims(x)
      BY <2>1, <3>1, <3>2, <1>7, NodeOwns DEF StackInv
    <3> QED BY <2>1, <3>1, <3>2, <1>9 DEF Fresh
  <2>2. CASE b = cur' /\ b \in PhiPlace(Head(todo)) /\ ts = <<>>
    <3>1. b \notin Live
      BY <2>2, <1>1 DEF StackInv
    <3>2. ts # <<t>>
      BY <2>2
    <3>3. ASSUME NEW p \in DOMAIN todo', NEW x, x = todo'[p] PROVE b \notin Claims(x)
      BY <2>2, <3>3, <1>10 DEF Sound
    <3> QED BY <3>1, <3>2, <3>3, <1>8
  <2> QED BY <2>1, <2>2, <1>12
<1>13. StackInv'
  <2>1. ASSUME NEW p \in DOMAIN todo' PROVE Formed(todo[p])' /\ Sound(todo[p])'
    <3>1. PICK x : x = todo'[p]
      OBVIOUS
    <3>2. Sound(todo[p])'
      BY <3>1, <1>10, SoundRenamed, Zenon
    <3>3. Formed(todo[p])'
      BY <3>1, <1>10 DEF Formed
    <3> QED BY <3>2, <3>3
  <2>2. ASSUME NEW p \in DOMAIN todo', NEW q \in DOMAIN todo'
        PROVE  /\ p # q => Claims(todo'[p]) \cap Claims(todo'[q]) = {}
               /\ todo'[p].k = "rhs" => todo'[p].current \notin Claims(todo'[q])
    BY <1>11, Zenon
  <2>3. ASSUME NEW p \in DOMAIN todo' PROVE PhiPlace(todo'[p]) \cap Live' = {}
    BY <1>10, Zenon
  <2> QED BY <2>1, <2>2, <2>3, <1>12 DEF StackInv
<1> QED BY <1>3, <1>5, <1>13

-----------------------------------------------------------------------------
(* The stack of loops follows the stack of tasks. *)

\* The task in hand gives way to a task of the same loop, or neither is of one.
LEMMA LoopsStay ==
  ASSUME NEW S, todo \in Seq(S), todo # <<>>, NEW R, loop \in Seq(R), LoopInv,
         NEW ns \in Seq(Nodes), NEW t, NEW ts \in {<<>>, <<t>>}, Replace(ns, ts),
         IF ForTask(Head(todo))
           THEN ts = <<t>> /\ ForTask(t) /\ t.loop = Head(todo).loop
           ELSE ts = <<>> \/ ~ForTask(t),
         loop' = loop
  PROVE  LoopInv'
<1>1. PICK f : LoopAt(f)
  BY DEF LoopInv
<1>2. PICK d : d = Len(ns) + Len(ts) - 1
  OBVIOUS
<1>3. Shifted(d, ns, t, ts)
  BY <1>2, Replaced, Zenon
<1>4. /\ DOMAIN todo = 1 .. Len(todo) /\ Len(todo) \in Nat /\ d \in Int
      /\ 1 \in DOMAIN todo /\ Head(todo) = todo[1]
      /\ Len(ns) \in Nat /\ (ts = <<t>> => d = Len(ns))
  <2>1. Len(ns) \in Nat /\ Len(ts) \in Nat
    OBVIOUS
  <2>2. ts = <<t>> => Len(ts) = 1
    OBVIOUS
  <2>3. d \in Int /\ (Len(ts) = 1 => d = Len(ns))
    <3>1. PICK m \in Nat, n \in Nat : m = Len(ns) /\ n = Len(ts)
      BY ONLY <2>1
    <3>2. d = m + n - 1
      BY ONLY <3>1, <1>2
    <3>3. d \in Int /\ (n = 1 => d = m)
      BY <3>2
    <3> QED BY <3>1, <3>3
  <2>4. DOMAIN todo = 1 .. Len(todo) /\ Len(todo) \in Nat
    OBVIOUS
  <2>5. 1 \in DOMAIN todo /\ Head(todo) = todo[1]
    OBVIOUS
  <2> QED BY <2>1, <2>2, <2>3, <2>4, <2>5
<1>5. /\ \A i \in DOMAIN loop : f[i] \in DOMAIN todo
      /\ \A i, j \in DOMAIN loop : i < j => f[i] < f[j]
      /\ \A i \in DOMAIN loop : ForTask(todo[f[i]]) /\ todo[f[i]].loop = loop[i]
      /\ \A p \in DOMAIN todo : ForTask(todo[p]) => \E i \in DOMAIN loop : f[i] = p
  BY <1>1 DEF LoopAt
<1>6. ASSUME NEW p \in DOMAIN todo, ForTask(todo[p])
      PROVE  /\ p + d \in DOMAIN todo' /\ ForTask(todo'[p + d])
             /\ todo'[p + d].loop = todo[p].loop
  <2>1. CASE p >= 2
    BY <2>1, <1>3, <1>6 DEF Shifted
  <2>2. CASE p = 1
    <3>1. ts = <<t>> /\ ForTask(t) /\ t.loop = todo[1].loop /\ p + d = Len(ns) + 1
      BY <2>2, <1>4, <1>6
    <3> QED BY <3>1, <2>2, <1>3, Zenon DEF Shifted
  <2> QED BY <2>1, <2>2, <1>4
<1>7. ASSUME NEW p \in DOMAIN todo', ForTask(todo'[p])
      PROVE  \E q \in DOMAIN todo : p = q + d /\ ForTask(todo[q])
  <2>1. CASE todo'[p] \in Nodes
    BY <2>1, <1>7, NodeOwns
  <2>2. CASE p = Len(ns) + 1 /\ ts = <<t>> /\ todo'[p] = t
    <3>1. ForTask(t)
      BY <2>2, <1>7
    <3>2. ForTask(todo[1]) /\ p = 1 + d
      <4>1. ts # <<>>
        BY <2>2
      <4> QED BY <4>1, <3>1, <2>2, <1>4
    <3> QED BY <3>2, <1>4
  <2>3. CASE \E q \in DOMAIN todo : q >= 2 /\ p = q + d /\ todo'[p] = todo[q]
    BY <2>3, <1>7, Zenon
  <2> QED BY <2>1, <2>2, <2>3, <1>3, Zenon DEF Shifted
<1>0. PICK g : g = [i \in DOMAIN loop |-> f[i] + d]
  BY Zenon
<1>8. g \in [DOMAIN loop -> DOMAIN todo']
  BY <1>0, <1>5, <1>6
<1>9. \A i \in DOMAIN loop : g[i] = f[i] + d
  BY <1>0
<1>10. \A i, j \in DOMAIN loop : i < j => g[i] < g[j]
  BY <1>4, <1>5, <1>9, SMTT(30)
<1>11. \A i \in DOMAIN loop : ForTask(todo'[g[i]]) /\ todo'[g[i]].loop = loop[i]
  BY <1>5, <1>6, <1>9, ZenonT(30)
<1>12. \A p \in DOMAIN todo' : ForTask(todo'[p]) => \E i \in DOMAIN loop : g[i] = p
  BY <1>5, <1>7, <1>9, SMTT(30)
<1>13. LoopAt(g)'
  BY <1>8, <1>10, <1>11, <1>12 DEF LoopAt, ForTask
<1> QED BY <1>8, <1>13 DEF LoopInv

\* enter_loop: the task in hand gives way to a task of a new loop.
LEMMA LoopEntered ==
  ASSUME NEW S, todo \in Seq(S), todo # <<>>, NEW R, loop \in Seq(R), LoopInv,
         NEW ns \in Seq(Nodes), NEW t, Replace(ns, <<t>>),
         ~ForTask(Head(todo)), ForTask(t), loop' = <<t.loop>> \o loop
  PROVE  LoopInv' /\ \E Q : loop' \in Seq(Q)
<1>1. PICK f : LoopAt(f)
  BY DEF LoopInv
<1>2. PICK d : d = Len(ns)
  BY Zenon
<1>3. Shifted(d, ns, t, <<t>>)
  <2>1. <<t>> \in {<<>>, <<t>>} /\ d = Len(ns) + Len(<<t>>) - 1
    <3>1. Len(ns) \in Nat /\ Len(<<t>>) = 1
      OBVIOUS
    <3> QED BY <3>1, <1>2
  <2> QED BY <2>1, Replaced, Zenon
<1>4. /\ DOMAIN todo = 1 .. Len(todo) /\ Len(todo) \in Nat /\ d \in Nat
      /\ 1 \in DOMAIN todo /\ Head(todo) = todo[1]
  BY <1>2
<1>5. /\ \A i \in DOMAIN loop : f[i] \in DOMAIN todo
      /\ \A i, j \in DOMAIN loop : i < j => f[i] < f[j]
      /\ \A i \in DOMAIN loop : ForTask(todo[f[i]]) /\ todo[f[i]].loop = loop[i]
      /\ \A p \in DOMAIN todo : ForTask(todo[p]) => \E i \in DOMAIN loop : f[i] = p
  BY <1>1 DEF LoopAt
<1>6. /\ \A p \in DOMAIN todo : p >= 2 =>
           p + d \in DOMAIN todo' /\ todo'[p + d] = todo[p]
      /\ d + 1 \in DOMAIN todo' /\ todo'[d + 1] = t
  BY <1>2, <1>3, Zenon DEF Shifted
<1>7. ASSUME NEW p \in DOMAIN todo', ForTask(todo'[p])
      PROVE  \/ p = d + 1
             \/ \E q \in DOMAIN todo : q >= 2 /\ p = q + d /\ ForTask(todo[q])
  <2>1. CASE todo'[p] \in Nodes
    BY <2>1, <1>7, NodeOwns
  <2>2. CASE p = Len(ns) + 1 /\ todo'[p] = t
    BY <2>2, <1>2
  <2>3. CASE \E q \in DOMAIN todo : q >= 2 /\ p = q + d /\ todo'[p] = todo[q]
    BY <2>3, <1>7, Zenon
  <2> QED BY <2>1, <2>2, <2>3, <1>3, Zenon DEF Shifted
<1>8. \A i \in DOMAIN loop : f[i] >= 2
  BY <1>4, <1>5, SMTT(30)
<1>9. /\ \E Q : loop' \in Seq(Q)
      /\ Len(loop) \in Nat /\ DOMAIN loop = 1 .. Len(loop)
      /\ DOMAIN loop' = 1 .. Len(loop) + 1 /\ loop'[1] = t.loop
      /\ \A i \in DOMAIN loop : loop'[i + 1] = loop[i]
  <2> DEFINE Q == R \cup {t.loop}
  <2>1. loop \in Seq(Q) /\ <<t.loop>> \in Seq(Q)
    OBVIOUS
  <2> HIDE DEF Q
  <2>2. loop' \in Seq(Q)
    BY <2>1
  <2> QED BY <2>1, <2>2
<1>10. PICK g : g = [i \in DOMAIN loop' |-> IF i = 1 THEN d + 1 ELSE f[i - 1] + d]
  BY Zenon
<1>11. g[1] = d + 1 /\ \A i \in DOMAIN loop : g[i + 1] = f[i] + d
  <2>1. 1 \in DOMAIN loop' /\ g[1] = d + 1
    BY <1>9, <1>10
  <2>2. ASSUME NEW i \in DOMAIN loop PROVE g[i + 1] = f[i] + d
    <3>1. i + 1 \in DOMAIN loop' /\ i + 1 # 1 /\ (i + 1) - 1 = i
      BY <1>9
    <3>2. g[i + 1] = IF i + 1 = 1 THEN d + 1 ELSE f[(i + 1) - 1] + d
      BY <3>1, <1>10, Zenon
    <3> QED BY <3>1, <3>2, Zenon
  <2> QED BY <2>1, <2>2
<1>12. \A i \in DOMAIN loop' : i = 1 \/ (i - 1 \in DOMAIN loop /\ i = (i - 1) + 1)
  BY <1>9
<1>13. g \in [DOMAIN loop' -> DOMAIN todo']
  <2>1. SUFFICES ASSUME NEW i \in DOMAIN loop' PROVE g[i] \in DOMAIN todo'
    BY <1>10
  <2>2. CASE i = 1
    BY <2>2, <1>6, <1>11
  <2>3. ASSUME NEW j \in DOMAIN loop, i = j + 1 PROVE g[i] \in DOMAIN todo'
    BY <2>3, <1>5, <1>6, <1>8, <1>11, SMTT(30)
  <2> QED BY <2>2, <2>3, <1>12
<1>14. ASSUME NEW i \in DOMAIN loop', NEW j \in DOMAIN loop', i < j PROVE g[i] < g[j]
  <2>1. j - 1 \in DOMAIN loop /\ g[j] = f[j - 1] + d /\ f[j - 1] \in Nat
    <3>1. j # 1
      BY <1>9, <1>14
    <3>2. j - 1 \in DOMAIN loop /\ j = (j - 1) + 1
      BY <3>1, <1>12, Zenon
    <3>3. g[j] = f[j - 1] + d
      BY <3>2, <1>11, Zenon
    <3> QED BY <3>2, <3>3, <1>4, <1>5
  <2>2. CASE i = 1
    BY <2>1, <2>2, <1>4, <1>8, <1>11
  <2>3. CASE i # 1
    <3>1. i - 1 \in DOMAIN loop /\ g[i] = f[i - 1] + d /\ f[i - 1] \in Nat
      BY <2>3, <1>4, <1>5, <1>9, <1>11, <1>12, SMTT(30)
    <3>2. f[i - 1] < f[j - 1]
      <4>1. i - 1 < j - 1
        BY <1>9, <1>14
      <4> QED BY <4>1, <3>1, <2>1, <1>5
    <3> QED BY <2>1, <3>1, <3>2, <1>4, SMTT(30)
  <2> QED BY <2>2, <2>3
<1>15. \A i \in DOMAIN loop' : ForTask(todo'[g[i]]) /\ todo'[g[i]].loop = loop'[i]
  <2>1. ForTask(todo'[g[1]]) /\ todo'[g[1]].loop = loop'[1]
    BY <1>6, <1>9, <1>11
  <2>2. \A j \in DOMAIN loop : /\ ForTask(todo'[g[j + 1]])
                               /\ todo'[g[j + 1]].loop = loop'[j + 1]
    <3> TAKE j \in DOMAIN loop
    <3>1. todo'[g[j + 1]] = todo[f[j]]
      BY <1>5, <1>6, <1>8, <1>11
    <3>2. ForTask(todo[f[j]]) /\ todo[f[j]].loop = loop[j] /\ loop'[j + 1] = loop[j]
      BY <1>5, <1>9, Zenon
    <3> QED BY <3>1, <3>2
  <2> QED BY <2>1, <2>2, <1>12
<1>16. ASSUME NEW p \in DOMAIN todo', ForTask(todo'[p])
       PROVE  \E i \in DOMAIN loop' : g[i] = p
  <2>1. CASE p = d + 1
    <3>1. 1 \in DOMAIN loop'
      BY <1>9
    <3> QED BY <2>1, <3>1, <1>11
  <2>2. ASSUME NEW q \in DOMAIN todo, p = q + d, ForTask(todo[q])
        PROVE  \E i \in DOMAIN loop' : g[i] = p
    <3>1. PICK i \in DOMAIN loop : f[i] = q
      BY <2>2, <1>5
    <3>2. i + 1 \in DOMAIN loop' /\ g[i + 1] = p
      BY <3>1, <2>2, <1>9, <1>11
    <3> QED BY <3>2
  <2> QED BY <2>1, <2>2, <1>7, <1>16
<1>17. LoopAt(g)'
  BY <1>13, <1>14, <1>15, <1>16 DEF LoopAt, ForTask
<1> QED BY <1>9, <1>13, <1>17 DEF LoopInv

\* exit_loop_ctx: the task in hand is the last of the innermost loop.
LEMMA LoopLeft ==
  ASSUME NEW S, todo \in Seq(S), todo # <<>>, NEW R, loop \in Seq(R), LoopInv,
         ForTask(Head(todo)), todo' = Tail(todo), loop' = Tail(loop)
  PROVE  LoopInv' /\ \E Q : loop' \in Seq(Q)
<1>1. PICK f : LoopAt(f)
  BY DEF LoopInv
<1>2. /\ DOMAIN todo = 1 .. Len(todo) /\ Len(todo) \in Nat
      /\ 1 \in DOMAIN todo /\ Head(todo) = todo[1]
      /\ DOMAIN todo' = 1 .. Len(todo) - 1
      /\ \A p \in DOMAIN todo' : todo'[p] = todo[p + 1]
  OBVIOUS
<1>3. /\ \A i \in DOMAIN loop : f[i] \in DOMAIN todo
      /\ \A i, j \in DOMAIN loop : i < j => f[i] < f[j]
      /\ \A i \in DOMAIN loop : ForTask(todo[f[i]]) /\ todo[f[i]].loop = loop[i]
      /\ \A p \in DOMAIN todo : ForTask(todo[p]) => \E i \in DOMAIN loop : f[i] = p
  BY <1>1, Zenon DEF LoopAt
<1>4. PICK k \in DOMAIN loop : f[k] = 1
  BY <1>2, <1>3, Zenon
<1>5. loop # <<>> /\ DOMAIN loop = 1 .. Len(loop) /\ Len(loop) \in Nat
  BY <1>4
<1>6. /\ loop' \in Seq(R) /\ DOMAIN loop' = 1 .. Len(loop) - 1
      /\ \A i \in DOMAIN loop' : loop'[i] = loop[i + 1]
  BY <1>5
<1>7. f[1] = 1
  <2>1. k \in Nat /\ k >= 1 /\ 1 \in DOMAIN loop
    BY <1>4, <1>5
  <2>2. k > 1 => f[1] < f[k]
    BY <2>1, <1>3, <1>4
  <2>3. f[1] \in Nat /\ f[1] >= 1
    BY <2>1, <1>2, <1>3
  <2> QED BY <2>1, <2>2, <2>3, <1>4
<1>8. ASSUME NEW i \in DOMAIN loop'
      PROVE  /\ i + 1 \in DOMAIN loop /\ f[i + 1] \in Nat /\ f[i + 1] > 1
             /\ f[i + 1] - 1 \in DOMAIN todo' /\ todo'[f[i + 1] - 1] = todo[f[i + 1]]
  <2>1. i + 1 \in DOMAIN loop /\ 1 \in DOMAIN loop /\ 1 < i + 1
    BY <1>5, <1>6
  <2>2. f[i + 1] \in 1 .. Len(todo) /\ f[i + 1] > 1
    BY <2>1, <1>2, <1>3, <1>7
  <2>3. f[i + 1] - 1 \in DOMAIN todo' /\ (f[i + 1] - 1) + 1 = f[i + 1]
    BY <2>2, <1>2
  <2> QED BY <2>1, <2>2, <2>3, <1>2, SMTT(30)
<1>9. PICK g : g = [i \in DOMAIN loop' |-> f[i + 1] - 1]
  BY Zenon
<1>10. g \in [DOMAIN loop' -> DOMAIN todo'] /\ \A i \in DOMAIN loop' : g[i] = f[i + 1] - 1
  BY <1>8, <1>9
<1>11. ASSUME NEW i \in DOMAIN loop', NEW j \in DOMAIN loop', i < j PROVE g[i] < g[j]
  <2>1. i + 1 < j + 1
    BY <1>5, <1>6, <1>11
  <2>2. f[i + 1] < f[j + 1]
    BY <2>1, <1>3, <1>8
  <2>3. /\ f[i + 1] \in Nat /\ f[j + 1] \in Nat
        /\ g[i] = f[i + 1] - 1 /\ g[j] = f[j + 1] - 1
    BY <1>8, <1>10, Zenon
  <2> QED BY ONLY <2>2, <2>3
<1>12. \A i \in DOMAIN loop' : ForTask(todo'[g[i]]) /\ todo'[g[i]].loop = loop'[i]
  <2> TAKE i \in DOMAIN loop'
  <2>1. todo'[g[i]] = todo[f[i + 1]] /\ i + 1 \in DOMAIN loop
    BY <1>8, <1>10, Zenon
  <2>2. loop'[i] = loop[i + 1] /\ ForTask(todo[f[i + 1]])
        /\ todo[f[i + 1]].loop = loop[i + 1]
    BY <2>1, <1>3, <1>6, Zenon
  <2> QED BY <2>1, <2>2, Zenon
<1>13. ASSUME NEW p \in DOMAIN todo', ForTask(todo'[p])
       PROVE  \E i \in DOMAIN loop' : g[i] = p
  <2>1. p + 1 \in DOMAIN todo /\ ForTask(todo[p + 1]) /\ p \in Nat /\ p >= 1
    BY <1>2, <1>13
  <2>2. PICK j \in DOMAIN loop : f[j] = p + 1
    BY <2>1, <1>3, Zenon
  <2>3. j # 1
    BY <2>1, <2>2, <1>7
  <2>4. j - 1 \in DOMAIN loop' /\ (j - 1) + 1 = j
    BY <2>3, <1>5, <1>6, SMTT(30)
  <2>5. g[j - 1] = p
    BY <2>1, <2>2, <2>4, <1>10, SMTT(30)
  <2> QED BY <2>4, <2>5
<1>14. LoopAt(g)'
  BY <1>10, <1>11, <1>12, <1>13 DEF LoopAt, ForTask
<1> QED BY <1>6, <1>10, <1>14 DEF LoopInv

-----------------------------------------------------------------------------
(* One step. *)

LEMMA InHand ==
  ASSUME CodegenInv, todo # <<>>, NEW h, h = Head(todo)
  PROVE  /\ Formed(h) /\ Sound(h) /\ Claims(h) \subseteq DOMAIN blocks
         /\ cur \notin Claims(h) /\ PhiPlace(h) \cap Live = {}
         /\ Returns(h) \subseteq Live /\ Live \subseteq DOMAIN blocks
         /\ cur \in DOMAIN blocks /\ fate = "compiling" /\ LoopInv
<1>1. 1 \in DOMAIN todo /\ h = todo[1]
  BY DEF CodegenInv, Typed
<1>2. StackInv /\ cur \in DOMAIN blocks /\ fate = "compiling" /\ LoopInv
  BY DEF CodegenInv, PhiInv
<1>3. Formed(h) /\ Sound(h) /\ PhiPlace(h) \cap Live = {}
  BY <1>1, <1>2 DEF StackInv
<1>4. \A q \in DOMAIN todo : Returns(todo[q]) \subseteq DOMAIN blocks
  BY <1>2, Zenon DEF StackInv, Sound
<1>5. Returns(h) \subseteq Live /\ Live \subseteq DOMAIN blocks
  BY <1>1, <1>4 DEF Live
<1>6. Claims(h) \subseteq DOMAIN blocks /\ cur \notin Claims(h)
  BY <1>3 DEF Sound
<1> QED BY <1>2, <1>3, <1>5, <1>6

\* The kinds of nodes and tasks tell what their parts are.
LEMMA NodeParts ==
  ASSUME NEW h, Formed(h)
  PROVE  /\ h.k \in {"and", "or"} => h.l \in Nodes /\ h.r \in Nodes
         /\ h.k = "row" => h.elements \in Seq(Nodes)
         /\ h.k = "if" => /\ h.cond \in Nodes
                          /\ h.then \in Seq(Nodes) /\ h.else \in Seq(Nodes)
         /\ h.k = "for" => /\ h.init \in Seq(Nodes) /\ h.cond \in Seq(Nodes)
                           /\ h.every \in Nodes /\ h.body \in Seq(Nodes)
         /\ h.k = "scan" => h.body \in Seq(Nodes)
<1>1. SUFFICES ASSUME h.k \in {"and", "or", "row", "if", "for", "scan"}
               PROVE  h \in Nodes
  BY NodesAssumption DEF OfKind
<1> QED BY <1>1 DEF Formed

LEMMA TaskParts ==
  ASSUME NEW h, Formed(h)
  PROVE  /\ h.k = "lhs" => h.r \in Nodes /\ h.next # h.fin
         /\ h.k = "if_cond" => /\ h.then \in Seq(Nodes) /\ h.else \in Seq(Nodes)
                               /\ h.true # h.false /\ h.true # h.fin
                               /\ h.false # h.fin
         /\ h.k = "if_true" => h.else \in Seq(Nodes) /\ h.false # h.fin
         /\ h.k = "for_init" => /\ h.cond \in Seq(Nodes) /\ h.every \in Nodes
                                /\ h.body \in Seq(Nodes)
         /\ h.k = "for_cond" => /\ h.every \in Nodes /\ h.body \in Seq(Nodes)
                                /\ h.loop.body # h.loop.every
                                /\ h.loop.body # h.loop.finish
                                /\ h.loop.every # h.loop.finish
         /\ h.k = "for_body" => h.every \in Nodes /\ h.loop.every # h.loop.finish
<1>1. h \in Nodes => h.k \in NodeKinds
  BY NodesAssumption
<1> QED BY <1>1, Zenon DEF Formed, NodeKinds

LEMMA HandsStep ==
  ASSUME CodegenInv, todo # <<>>, NEW T, NEW t, Hands(T, t),
         NEW ns \in Seq(Nodes), NEW ts \in {<<>>, <<t>>}, Replace(ns, ts),
         \A b \in DOMAIN blocks' : PhiGood(b)',
         \A b \in DOMAIN blocks' : HasPhi(b)' =>
           \/ b \in DOMAIN blocks /\ HasPhi(b)
           \/ b = cur' /\ b \in PhiPlace(Head(todo)) /\ ts = <<>>,
         fate' = fate, LoopInv', \E Q : loop' \in Seq(Q)
  PROVE  CodegenInv'
<1>1. PICK S : todo \in Seq(S)
  BY DEF CodegenInv, Typed
<1>2. StackInv /\ cur \in DOMAIN blocks
  BY DEF CodegenInv, PhiInv
<1>3. /\ StackInv' /\ cur' \in DOMAIN blocks'
      /\ \E U : blocks' \in Seq(Seq(U))
      /\ \E U : todo' \in Seq(U)
  BY <1>1, <1>2, StackStep, Zenon
<1>4. /\ fate = "compiling" /\ Live \subseteq DOMAIN blocks
      /\ Claims(Head(todo)) \subseteq DOMAIN blocks
  BY InHand, Zenon
<1>5. Closed'
  <2>1. Closed
    BY DEF CodegenInv, PhiInv
  <2>2. Grow(T) /\ T \subseteq DOMAIN blocks'
    BY <1>4, Zenon DEF Hands, Grow, Fresh
  <2> QED BY <2>1, <2>2, ClosedKept
<1> QED BY <1>3, <1>4, <1>5, Zenon DEF CodegenInv, Typed, PhiInv

LEMMA QuietStep ==
  ASSUME CodegenInv, todo # <<>>, NEW T, NEW t, Hands(T, t), Quiet,
         NEW ns \in Seq(Nodes), NEW ts \in {<<>>, <<t>>}, Replace(ns, ts),
         fate' = fate, LoopInv', \E Q : loop' \in Seq(Q)
  PROVE  CodegenInv'
<1>1. PICK S : todo \in Seq(S)
  BY DEF CodegenInv, Typed
<1>2. StackInv /\ cur \in DOMAIN blocks /\ \A b \in DOMAIN blocks : PhiGood(b)
  BY Zenon DEF CodegenInv, PhiInv
<1>3. ASSUME NEW b \in DOMAIN blocks, HasPhi(b) PROVE b \notin T
  <2>1. b \notin Live /\ b \notin Claims(Head(todo))
    BY <1>1, <1>2, <1>3, SMTT(30) DEF StackInv
  <2> QED BY <2>1 DEF Hands, Fresh
<1>4. Grow(T)
  BY Zenon DEF Hands
<1>5. /\ \A b \in DOMAIN blocks' : PhiGood(b)'
      /\ \A b \in DOMAIN blocks' : HasPhi(b)' => b \in DOMAIN blocks /\ HasPhi(b)
  BY <1>2, <1>3, <1>4, QuietPhis
<1> QED BY <1>5, HandsStep, Zenon

\* A step that emits code into the current block and moves on to a block the
\* task in hand owns.
LEMMA EmitStep ==
  ASSUME CodegenInv, todo # <<>>, NEW h, h = Head(todo),
         NEW I, NEW is \in Seq(I), Plain(is), blocks' = Emit(cur, is),
         Out(is) \subseteq Claims(h) \cup Live, cur' \in {cur} \cup Claims(h),
         NEW t, Formed(t), t.k \notin {"lhs", "rhs"}, Claims(t) \subseteq Claims(h),
         cur' \notin Claims(t), Returns(t) \subseteq Returns(h),
         NEW ns \in Seq(Nodes), NEW ts \in {<<>>, <<t>>}, Replace(ns, ts),
         fate' = fate, LoopInv', \E Q : loop' \in Seq(Q)
  PROVE  CodegenInv'
<1>1. PICK S : blocks \in Seq(Seq(S))
  BY Zenon DEF CodegenInv, Typed
<1>2. cur \in DOMAIN blocks
  BY InHand
<1>3. Grow(Out(is)) /\ Quiet /\ Fresh = {}
  BY <1>1, <1>2, GrowEmit
<1>4. PhiPlace(t) = {}
  BY Zenon DEF PhiPlace
<1>5. Hands(Out(is), t)
  BY <1>3, <1>4 DEF Hands
<1> QED BY <1>3, <1>5, QuietStep, Zenon

\* The same, when the stack of loops is left alone.
LEMMA EmitStay ==
  ASSUME CodegenInv, todo # <<>>, NEW h, h = Head(todo),
         NEW I, NEW is \in Seq(I), Plain(is), blocks' = Emit(cur, is),
         Out(is) \subseteq Claims(h) \cup Live, cur' \in {cur} \cup Claims(h),
         NEW t, Formed(t), t.k \notin {"lhs", "rhs"}, Claims(t) \subseteq Claims(h),
         cur' \notin Claims(t), Returns(t) \subseteq Returns(h),
         NEW ns \in Seq(Nodes), NEW ts \in {<<>>, <<t>>}, Replace(ns, ts),
         IF ForTask(h) THEN ts = <<t>> /\ ForTask(t) /\ t.loop = h.loop
         ELSE ts = <<>> \/ ~ForTask(t),
         fate' = fate, loop' = loop
  PROVE  CodegenInv'
<1>1. PICK S, R : todo \in Seq(S) /\ loop \in Seq(R)
  BY Zenon DEF CodegenInv, Typed
<1>2. LoopInv
  BY InHand
<1>3. LoopInv'
  BY <1>1, <1>2, LoopsStay, Zenon
<1>4. \E Q : loop' \in Seq(Q)
  BY <1>1
<1> QED BY <1>3, <1>4, EmitStep, Zenon

LEMMA EmitNothing ==
  ASSUME CodegenInv
  PROVE  blocks = Emit(cur, <<>>)
<1>1. PICK S : blocks \in Seq(Seq(S))
  BY DEF CodegenInv, Typed
<1>2. cur \in DOMAIN blocks /\ <<>> \in Seq(S)
  BY DEF CodegenInv, PhiInv
<1>3. /\ Emit(cur, <<>>)[cur] = blocks[cur] \o <<>>
      /\ DOMAIN Emit(cur, <<>>) = DOMAIN blocks /\ Emit(cur, <<>>) \in Seq(Seq(S))
      /\ \A a \in DOMAIN blocks : a # cur => Emit(cur, <<>>)[a] = blocks[a]
  BY <1>1, <1>2, EmitsAt, Zenon
<1>4. blocks[cur] \in Seq(S) /\ blocks[cur] \o <<>> = blocks[cur]
  BY <1>1, <1>2
<1> QED BY <1>1, <1>3, <1>4

\* The tasks that follow, as nodes and a task.
LEMMA Following ==
  ASSUME NEW n, NEW t
  PROVE  /\ Becomes(<<>>) => Replace(<<>>, <<>>) /\ fate' = fate
         /\ Becomes(<<n, t>>) => Replace(<<n>>, <<t>>) /\ fate' = fate
<1>1. <<>> \o <<>> = <<>>
  OBVIOUS
<1>2. <<n, t>> = <<n>> \o <<t>>
  <2>1. <<n>> \in Seq({n, t}) /\ <<t>> \in Seq({n, t}) /\ <<n, t>> \in Seq({n, t})
    OBVIOUS
  <2>2. /\ Len(<<n>> \o <<t>>) = 2 /\ (<<n>> \o <<t>>)[1] = n
        /\ (<<n>> \o <<t>>)[2] = t /\ <<n>> \o <<t>> \in Seq({n, t})
    BY <2>1
  <2>3. PICK a, b : a = <<n>> \o <<t>> /\ b = <<n, t>>
    BY Zenon
  <2>4. a \in [1 .. 2 -> {n, t}] /\ a[1] = n /\ a[2] = t
    <3>1. a \in Seq({n, t}) /\ Len(a) = 2 /\ a[1] = n /\ a[2] = t
      BY <2>2, <2>3
    <3>2. a \in [1 .. 2 -> {n, t}]
      BY ONLY <3>1
    <3> QED BY <3>1, <3>2
  <2>5. b \in [1 .. 2 -> {n, t}] /\ b[1] = n /\ b[2] = t
    BY <2>1, <2>3
  <2>6. a = b
    BY ONLY <2>4, <2>5
  <2> QED BY <2>3, <2>6
<1> QED BY <1>1, <1>2, Zenon DEF Becomes, Replace

\* A task that owns nothing.
Done == [k |-> "do"]

LEMMA DoneOwns ==
  /\ Formed(Done) /\ Done.k \notin {"lhs", "rhs"}
  /\ Claims(Done) = {} /\ Returns(Done) = {} /\ ~ForTask(Done)
<1>1. Done.k = "do" /\ Done.k \in NodeKinds
  BY DEF Done, NodeKinds
<1>2. Formed(Done)
  BY <1>1, Zenon DEF Formed
<1> QED BY <1>1, <1>2, NodeOwns

LEMMA PlainSteps ==
  ASSUME CodegenInv, DoStatement \/ TestExpression
  PROVE  CodegenInv'
<1>1. PICK h : h = Head(todo)
  OBVIOUS
<1>2. todo # <<>> /\ h.k \in {"do", "test"} /\ cur' = cur /\ loop' = loop
  BY <1>1 DEF DoStatement, TestExpression, At
<1>3. PICK i : /\ blocks' = Emit(cur, <<i>>) /\ Targets(i) = {} /\ i.op # "phi"
  <2>1. CASE DoStatement
    <3>1. Targets(Do(h.id)) = {} /\ Do(h.id).op # "phi"
      BY TargetsOf, Zenon DEF Do
    <3> QED BY <2>1, <3>1, <1>1, Zenon DEF DoStatement
  <2>2. CASE TestExpression
    <3>1. Targets(Test(h.id)) = {} /\ Test(h.id).op # "phi"
      BY TargetsOf DEF Test
    <3> QED BY <2>2, <3>1, <1>1, Zenon DEF TestExpression
  <2> QED BY <2>1, <2>2, Zenon
<1>4. Replace(<<>>, <<>>) /\ fate' = fate
  BY Following, Zenon DEF DoStatement, TestExpression
<1>5. Plain(<<i>>) /\ Out(<<i>>) = {} /\ <<i>> \in Seq({i}) /\ <<>> \in Seq(Nodes)
  <2>1. Plain(<<i>>) /\ Out(<<i>>) = {}
    BY <1>3, ShortCode, Zenon
  <2>2. <<i>> \in Seq({i})
    BY ONLY ShortSeqs
  <2>3. <<>> \in Seq(Nodes)
    OBVIOUS
  <2> QED BY <2>1, <2>2, <2>3
<1>6. Claims(h) = {} /\ ~ForTask(h)
  BY <1>2, NodeOwns DEF NodeKinds
<1> QED BY <1>1, <1>2, <1>3, <1>4, <1>5, <1>6, DoneOwns, EmitStay, Zenon

LEMMA RowStep ==
  ASSUME CodegenInv, RowLiteral
  PROVE  CodegenInv'
<1>1. PICK h : h = Head(todo)
  OBVIOUS
<1>2. todo # <<>> /\ h.k = "row" /\ cur' = cur /\ loop' = loop /\ blocks' = blocks
  BY <1>1 DEF RowLiteral, At
<1>3. Claims(h) = {} /\ ~ForTask(h) /\ h.elements \in Seq(Nodes)
  BY <1>1, <1>2, InHand, NodeParts, NodeOwns DEF NodeKinds
<1>4. PICK ns : ns = [i \in 1 .. 2 * Len(h.elements) |-> h.elements[(i + 1) \div 2]]
  BY Zenon
<1>5. ns \in Seq(Nodes)
  <2>1. PICK e : e = h.elements
    OBVIOUS
  <2>2. e \in Seq(Nodes) /\ Len(e) \in Nat /\ 2 * Len(e) \in Nat
    BY <2>1, <1>3
  <2>3. \A i \in 1 .. 2 * Len(e) : (i + 1) \div 2 \in 1 .. Len(e)
    BY <2>2
  <2>4. ns \in [1 .. 2 * Len(e) -> Nodes]
    BY <2>1, <2>2, <2>3, <1>4
  <2> QED BY <2>2, <2>4
<1>6. PICK t : t = [k |-> "do", id |-> h.id]
  BY Zenon
<1>7. Replace(ns, <<t>>) /\ fate' = fate
  BY <1>1, <1>4, <1>6, Zenon DEF RowLiteral, Becomes, Replace
<1>8. t.k = "do"
  BY <1>6, Zenon
<1>9. Formed(t) /\ Claims(t) = {} /\ Returns(t) = {} /\ ~ForTask(t)
      /\ t.k \notin {"lhs", "rhs"}
  BY <1>8, NodeOwns DEF Formed, NodeKinds
<1>10. Plain(<<>>) /\ Out(<<>>) = {} /\ <<>> \in Seq({1}) /\ blocks' = Emit(cur, <<>>)
  <2>1. Plain(<<>>) /\ Out(<<>>) = {}
    BY ShortCode, Zenon
  <2>2. <<>> \in Seq({1})
    OBVIOUS
  <2>3. blocks' = Emit(cur, <<>>)
    BY <1>2, EmitNothing
  <2> QED BY <2>1, <2>2, <2>3
<1> QED BY <1>1, <1>2, <1>3, <1>5, <1>7, <1>9, <1>10, EmitStay, Zenon

LEMMA IfTrueStep ==
  ASSUME CodegenInv, IfTrue
  PROVE  CodegenInv'
<1>1. PICK h, i : h = Head(todo) /\ i = CondBr(val, h.true, h.false)
  OBVIOUS
<1>2. PICK t : t = [k |-> "if_true", false |-> h.false, fin |-> h.fin, else |-> h.else]
  BY Zenon
<1>3. /\ todo # <<>> /\ h.k = "if_cond" /\ cur' = h.true /\ loop' = loop
      /\ blocks' = Emit(cur, <<i>>) /\ Replace(h.then, <<t>>) /\ fate' = fate
  BY <1>1, <1>2, Zenon DEF IfTrue, At, Becomes, Replace
<1>4. /\ h.then \in Seq(Nodes) /\ h.else \in Seq(Nodes)
      /\ h.true # h.false /\ h.true # h.fin /\ h.false # h.fin
  <2>1. Formed(h) /\ Sound(h) /\ cur \in DOMAIN blocks /\ LoopInv
    BY <1>1, <1>3, InHand, Zenon
  <2> QED BY <1>3, <2>1, TaskParts, ShortSeqs, Zenon
<1>5. Claims(h) = {h.true, h.false, h.fin} /\ ~ForTask(h)
  BY <1>3 DEF Claims, ForTask
<1>6. /\ t.k = "if_true" /\ t.false = h.false /\ t.fin = h.fin /\ t.else = h.else
  BY <1>2, Zenon
<1>7. /\ Formed(t) /\ Claims(t) = {h.false, h.fin} /\ Returns(t) = {} /\ ~ForTask(t)
      /\ t.k \notin {"lhs", "rhs"}
  BY <1>4, <1>6, Zenon DEF Formed, Claims, Returns, ForTask
<1>8. Plain(<<i>>) /\ Out(<<i>>) = {h.true, h.false} /\ <<i>> \in Seq({i})
  BY <1>1, CondBrCode
<1> QED BY <1>1, <1>3, <1>4, <1>5, <1>7, <1>8, EmitStay, Zenon

LEMMA IfFalseStep ==
  ASSUME CodegenInv, IfFalse
  PROVE  CodegenInv'
<1>1. PICK h, i : h = Head(todo) /\ i = Br(h.fin)
  OBVIOUS
<1>2. PICK t : t = [k |-> "if_false", fin |-> h.fin]
  BY Zenon
<1>3. /\ todo # <<>> /\ h.k = "if_true" /\ cur' = h.false /\ loop' = loop
      /\ blocks' = Emit(cur, <<i>>) /\ Replace(h.else, <<t>>) /\ fate' = fate
  BY <1>1, <1>2, ZenonT(30) DEF IfFalse, At, Becomes, Replace
<1>4. h.else \in Seq(Nodes) /\ h.false # h.fin
  <2>1. Formed(h) /\ Sound(h) /\ cur \in DOMAIN blocks /\ LoopInv
    BY <1>1, <1>3, InHand, Zenon
  <2> QED BY <1>3, <2>1, TaskParts, ShortSeqs
<1>5. Claims(h) = {h.false, h.fin} /\ ~ForTask(h)
  BY <1>3 DEF Claims, ForTask
<1>6. t.k = "if_false" /\ t.fin = h.fin
  BY <1>2
<1>7. /\ Formed(t) /\ Claims(t) = {h.fin} /\ Returns(t) = {} /\ ~ForTask(t)
      /\ t.k \notin {"lhs", "rhs"}
  BY <1>4, <1>6 DEF Formed, Claims, Returns, ForTask
<1>8. Plain(<<i>>) /\ Out(<<i>>) = {h.fin} /\ <<i>> \in Seq({i})
  BY <1>1, BrCode
<1> QED BY <1>1, <1>3, <1>4, <1>5, <1>7, <1>8, EmitStay, Zenon

LEMMA IfFinishStep ==
  ASSUME CodegenInv, IfFinish
  PROVE  CodegenInv'
<1>1. PICK h, i : h = Head(todo) /\ i = Br(h.fin)
  OBVIOUS
<1>2. /\ todo # <<>> /\ h.k = "if_false" /\ cur' = h.fin /\ loop' = loop
      /\ blocks' = Emit(cur, <<i>>) /\ Replace(<<>>, <<>>) /\ fate' = fate
  BY <1>1, Following, Zenon DEF IfFinish, At
<1>3. Claims(h) = {h.fin} /\ ~ForTask(h)
  BY <1>2 DEF Claims, ForTask
<1>4. Plain(<<i>>) /\ Out(<<i>>) = {h.fin} /\ <<i>> \in Seq({i})
  BY <1>1, BrCode
<1>5. <<>> \in Seq(Nodes)
  OBVIOUS
<1> QED BY <1>1, <1>2, <1>3, <1>4, <1>5, DoneOwns, EmitStay, Zenon

LEMMA ForStep ==
  ASSUME CodegenInv, For
  PROVE  CodegenInv'
<1>1. PICK h : h = Head(todo)
  OBVIOUS
<1>2. PICK t : t = [k |-> "for_init", cond |-> h.cond, every |-> h.every,
                    body |-> h.body]
  BY Zenon
<1>3. /\ todo # <<>> /\ h.k = "for" /\ cur' = cur /\ loop' = loop
      /\ blocks' = blocks /\ Replace(h.init, <<t>>) /\ fate' = fate
  BY <1>1, <1>2 DEF For, At, Becomes, Replace
<1>4. /\ h.init \in Seq(Nodes) /\ h.cond \in Seq(Nodes) /\ h.every \in Nodes
      /\ h.body \in Seq(Nodes)
  <2>1. Formed(h) /\ Sound(h) /\ cur \in DOMAIN blocks /\ LoopInv
    BY <1>1, <1>3, InHand
  <2> QED BY <1>3, <2>1, NodeParts, ShortSeqs
<1>5. Claims(h) = {} /\ ~ForTask(h)
  BY <1>3 DEF Claims, ForTask
<1>6. /\ t.k = "for_init" /\ t.cond = h.cond /\ t.every = h.every
      /\ t.body = h.body
  BY <1>2, Zenon
<1>7. /\ Formed(t) /\ Claims(t) = {} /\ Returns(t) = {} /\ ~ForTask(t)
      /\ t.k \notin {"lhs", "rhs"}
  BY <1>4, <1>6 DEF Formed, Claims, Returns, ForTask
<1>8. Plain(<<>>) /\ Out(<<>>) = {} /\ <<>> \in Seq({1}) /\ blocks' = Emit(cur, <<>>)
  <2>1. Plain(<<>>) /\ Out(<<>>) = {}
    BY ShortCode, Zenon
  <2>2. <<>> \in Seq({1})
    OBVIOUS
  <2>3. blocks' = Emit(cur, <<>>)
    BY <1>3, EmitNothing
  <2> QED BY <2>1, <2>2, <2>3
<1> QED BY <1>1, <1>3, <1>4, <1>5, <1>7, <1>8, EmitStay, Zenon

LEMMA ForBodyStep ==
  ASSUME CodegenInv, ForBody
  PROVE  CodegenInv'
<1>1. PICK h, i : h = Head(todo) /\ i = CondBr(val, h.loop.body, h.loop.finish)
  OBVIOUS
<1>2. PICK t : t = [k |-> "for_body", loop |-> h.loop, every |-> h.every]
  BY Zenon
<1>3. /\ todo # <<>> /\ h.k = "for_cond" /\ cur' = h.loop.body /\ loop' = loop
      /\ blocks' = IF h.cond = <<>> THEN blocks ELSE Emit(cur, <<i>>)
      /\ Replace(h.body, <<t>>) /\ fate' = fate
  BY <1>1, <1>2, Zenon DEF ForBody, At, Becomes, Replace
<1>4. /\ h.every \in Nodes /\ h.body \in Seq(Nodes) /\ h.loop.body # h.loop.every
      /\ h.loop.body # h.loop.finish /\ h.loop.every # h.loop.finish
  <2>1. Formed(h) /\ Sound(h) /\ cur \in DOMAIN blocks /\ LoopInv
    BY <1>1, <1>3, InHand, Zenon
  <2> QED BY <1>3, <2>1, TaskParts, ShortSeqs, Zenon
<1>5. /\ Claims(h) = {h.loop.body, h.loop.every, h.loop.finish} /\ ForTask(h)
      /\ Returns(h) = {h.loop.begin, h.loop.every, h.loop.finish}
  BY <1>3 DEF Claims, ForTask, Returns
<1>6. t.k = "for_body" /\ t.loop = h.loop /\ t.every = h.every
  BY <1>2
<1>7. /\ Formed(t) /\ Claims(t) = {h.loop.every, h.loop.finish} /\ ForTask(t)
      /\ Returns(t) = Returns(h) /\ t.k \notin {"lhs", "rhs"}
  BY <1>4, <1>5, <1>6, Zenon DEF Formed, Claims, Returns, ForTask
<1>8. PICK is : /\ blocks' = Emit(cur, is) /\ Plain(is) /\ is \in Seq({i})
                /\ Out(is) \subseteq {h.loop.body, h.loop.finish}
  <2>1. Plain(<<i>>) /\ Out(<<i>>) = {h.loop.body, h.loop.finish} /\ <<i>> \in Seq({i})
    <3>1. PICK v, x, y : v = val /\ x = h.loop.body /\ y = h.loop.finish
      OBVIOUS
    <3>2. i = CondBr(v, x, y)
      BY <1>1, <3>1
    <3>3. Plain(<<i>>) /\ Out(<<i>>) = {x, y} /\ <<i>> \in Seq({i})
      BY ONLY <3>2, CondBrCode
    <3> QED BY <3>1, <3>3, Zenon
  <2>2. Plain(<<>>) /\ Out(<<>>) = {} /\ <<>> \in Seq({i})
    <3>1. <<>> \in Seq({i})
      OBVIOUS
    <3> QED BY <3>1, ShortCode, Zenon
  <2> QED BY <2>1, <2>2, <1>3, EmitNothing, Zenon
<1> QED BY <1>1, <1>3, <1>4, <1>5, <1>6, <1>7, <1>8, EmitStay, ZenonT(30)

LEMMA ForEveryStep ==
  ASSUME CodegenInv, ForEvery
  PROVE  CodegenInv'
<1>1. PICK h, i : h = Head(todo) /\ i = Br(h.loop.every)
  OBVIOUS
<1>2. PICK t : t = [k |-> "for_every", loop |-> h.loop]
  BY Zenon
<1>3. /\ todo # <<>> /\ h.k = "for_body" /\ cur' = h.loop.every /\ loop' = loop
      /\ blocks' = Emit(cur, <<i>>) /\ Replace(<<h.every>>, <<t>>) /\ fate' = fate
  <2>1. Becomes(<<h.every, t>>)
    BY <1>1, <1>2, Zenon DEF ForEvery
  <2> QED BY <2>1, <1>1, Following, Zenon DEF ForEvery, At
<1>4. h.every \in Nodes /\ h.loop.every # h.loop.finish /\ <<h.every>> \in Seq(Nodes)
  <2>1. Formed(h) /\ Sound(h) /\ cur \in DOMAIN blocks /\ LoopInv
    BY <1>1, <1>3, InHand, Zenon
  <2> QED BY <1>3, <2>1, TaskParts, ShortSeqs, Zenon
<1>5. /\ Claims(h) = {h.loop.every, h.loop.finish} /\ ForTask(h)
      /\ Returns(h) = {h.loop.begin, h.loop.every, h.loop.finish}
  BY <1>3 DEF Claims, ForTask, Returns
<1>6. t.k = "for_every" /\ t.loop = h.loop
  BY <1>2
<1>7. /\ Formed(t) /\ Claims(t) = {h.loop.finish} /\ ForTask(t)
      /\ Returns(t) = Returns(h) /\ t.k \notin {"lhs", "rhs"}
  BY <1>4, <1>5, <1>6, Zenon DEF Formed, Claims, Returns, ForTask
<1>8. Plain(<<i>>) /\ Out(<<i>>) = {h.loop.every} /\ <<i>> \in Seq({i})
  BY <1>1, BrCode
<1> QED BY <1>1, <1>3, <1>4, <1>5, <1>6, <1>7, <1>8, EmitStay, Zenon

LEMMA ForFinishStep ==
  ASSUME CodegenInv, ForFinish
  PROVE  CodegenInv'
<1>1. PICK h, i : h = Head(todo) /\ i = Br(h.loop.begin)
  OBVIOUS
<1>2. /\ todo # <<>> /\ h.k = "for_every" /\ cur' = h.loop.finish
      /\ blocks' = Emit(cur, <<i>>) /\ Replace(<<>>, <<>>) /\ fate' = fate
      /\ loop' = Tail(loop) /\ todo' = <<>> \o Tail(todo)
  BY <1>1, Following, Zenon DEF ForFinish, At, Becomes
<1>3. /\ Claims(h) = {h.loop.finish} /\ ForTask(h)
      /\ Returns(h) = {h.loop.begin, h.loop.every, h.loop.finish}
  BY <1>2 DEF Claims, ForTask, Returns
<1>4. PICK S, R : todo \in Seq(S) /\ loop \in Seq(R)
  BY DEF CodegenInv, Typed
<1>5. todo' = Tail(todo)
  BY <1>2, <1>4, SMTT(30)
<1>6. LoopInv /\ Returns(h) \subseteq Live
  BY <1>1, <1>2, InHand, Zenon
<1>7. LoopInv' /\ \E Q : loop' \in Seq(Q)
  BY <1>1, <1>2, <1>3, <1>4, <1>5, <1>6, LoopLeft, Zenon
<1>8. Plain(<<i>>) /\ Out(<<i>>) = {h.loop.begin} /\ <<i>> \in Seq({i})
  BY <1>1, BrCode
<1>9. <<>> \in Seq(Nodes)
  OBVIOUS
<1> QED BY <1>1, <1>2, <1>3, <1>6, <1>7, <1>8, <1>9, DoneOwns, EmitStep, Zenon

LEMMA JumpStep ==
  ASSUME CodegenInv, Jump
  PROVE  CodegenInv'
<1>1. PICK h, l : h = Head(todo) /\ l = loop[1]
  OBVIOUS
<1>2. PICK b : b = IF h.type = "continue" THEN l.every ELSE l.finish
  OBVIOUS
<1>3. /\ todo # <<>> /\ h.k = "jump" /\ cur' = cur /\ loop' = loop /\ loop # <<>>
      /\ blocks' = Emit(cur, <<JumpBr(b)>>) /\ Replace(<<>>, <<>>) /\ fate' = fate
  BY <1>1, <1>2, Following, Zenon DEF Jump, At
<1>4. PICK S, R : todo \in Seq(S) /\ loop \in Seq(R)
  BY DEF CodegenInv, Typed
<1>5. LoopInv
  BY <1>3, InHand
<1>6. b \in Live
  <2>1. 1 \in DOMAIN loop
    BY <1>3, <1>4
  <2>2. PICK f : LoopAt(f)
    BY <1>5, Zenon DEF LoopInv
  <2>3. f[1] \in DOMAIN todo /\ ForTask(todo[f[1]]) /\ todo[f[1]].loop = l
    BY <2>1, <2>2, <1>1, Zenon DEF LoopAt
  <2>4. b \in Returns(todo[f[1]])
    BY <2>3, <1>2 DEF Returns
  <2> QED BY <2>3, <2>4 DEF Live
<1>7. PICK i : i = JumpBr(b)
  OBVIOUS
<1>8. Plain(<<i>>) /\ Out(<<i>>) = {b} /\ <<i>> \in Seq({i})
  <2>1. i.op # "phi" /\ Targets(i) = {b}
    BY <1>7, TargetsOf DEF JumpBr
  <2> QED BY <2>1, ShortCode, ShortSeqs, Zenon
<1>9. <<>> \in Seq(Nodes)
  OBVIOUS
<1>10. ~ForTask(h)
  BY <1>3 DEF ForTask
<1> QED BY <1>1, <1>3, <1>6, <1>7, <1>8, <1>9, <1>10, DoneOwns, EmitStay, Zenon

\* Nothing branches to a new block but new code.
LEMMA FreshPredecessors ==
  ASSUME NEW S, blocks \in Seq(Seq(S)), cur \in DOMAIN blocks, Closed,
         NEW n \in Nat, blocks' = blocks \o Created(n), NEW b, b \notin DOMAIN blocks
  PROVE  Predecessors(b)' = {}
<1>1. /\ Grow({}) /\ \A a \in Fresh : \E i \in 1 .. n : a = New(i)
      /\ \A i \in 1 .. n : blocks'[New(i)] = <<>>
  BY GrowCreate, Zenon
<1>2. ASSUME NEW a \in DOMAIN blocks' PROVE b \notin Out(blocks'[a])
  <2>1. CASE a \in DOMAIN blocks
    BY <2>1, <1>1 DEF Closed, Grow
  <2>2. CASE a \in Fresh
    <3>1. blocks'[a] = <<>>
      BY <2>2, <1>1, Zenon
    <3> QED BY <3>1, ShortCode, Zenon
  <2> QED BY <2>1, <2>2, Zenon DEF Fresh
<1>3. Predecessors(b)' = {a \in DOMAIN blocks' : b \in Out(blocks'[a])}
  BY ZenonT(30) DEF Predecessors, Out
<1> QED BY <1>2, <1>3

LEMMA ConditionalStep ==
  ASSUME CodegenInv, Conditional
  PROVE  CodegenInv'
<1>1. PICK h : h = Head(todo)
  OBVIOUS
<1>2. PICK k \in {"and", "or"} :
        /\ At(k) /\ blocks' = blocks \o Created(2)
        /\ Becomes(<<h.l, [k |-> "lhs", forAND |-> k = "and", next |-> New(1),
                           fin |-> New(2), r |-> h.r]>>)
        /\ cur' = cur /\ loop' = loop
  BY <1>1, Zenon DEF Conditional
<1>3. PICK t : t = [k |-> "lhs", forAND |-> k = "and", next |-> New(1),
                    fin |-> New(2), r |-> h.r]
  BY Zenon
<1>4. todo # <<>> /\ h.k \in {"and", "or"}
  BY <1>1, <1>2, Zenon DEF At
<1>5. Replace(<<h.l>>, <<t>>) /\ fate' = fate
  BY <1>2, <1>3, Following, Zenon
<1>6. /\ h.l \in Nodes /\ h.r \in Nodes /\ <<h.l>> \in Seq(Nodes)
      /\ cur \in DOMAIN blocks /\ LoopInv
  <2>1. Formed(h) /\ Sound(h) /\ cur \in DOMAIN blocks /\ LoopInv
    BY <1>1, <1>4, InHand
  <2> QED BY <1>4, <2>1, NodeParts, ShortSeqs
<1>7. ~ForTask(h)
  BY <1>4 DEF ForTask
<1>8. PICK S, R, Q : todo \in Seq(S) /\ loop \in Seq(R) /\ blocks \in Seq(Seq(Q))
  BY DEF CodegenInv, Typed
<1>9. /\ Grow({}) /\ Quiet /\ New(1) \in Fresh /\ New(2) \in Fresh
      /\ blocks'[New(1)] = <<>> /\ blocks'[New(2)] = <<>>
  <2>1. /\ Grow({}) /\ Quiet /\ \A i \in 1 .. 2 : New(i) \in Fresh
        /\ \A i \in 1 .. 2 : blocks'[New(i)] = <<>>
    <3>1. 2 \in Nat
      OBVIOUS
    <3> QED BY <3>1, <1>2, <1>6, <1>8, GrowCreate, Zenon
  <2> QED BY <2>1
<1>10. New(1) # New(2)
  BY <1>8 DEF New
<1>11. t.k = "lhs" /\ t.next = New(1) /\ t.fin = New(2) /\ t.r = h.r
  BY <1>3, Zenon
<1>12. /\ Formed(t) /\ Claims(t) = {New(1), New(2)} /\ Returns(t) = {}
       /\ PhiPlace(t) = {New(2)} /\ ~ForTask(t)
  BY <1>6, <1>10, <1>11 DEF Formed, Claims, Returns, PhiPlace, ForTask
<1>13. Predecessors(t.fin)' = {}
  <2>1. Closed /\ t.fin \notin DOMAIN blocks
    BY <1>9, <1>11 DEF CodegenInv, PhiInv, Fresh
  <2> QED BY <2>1, <1>2, <1>6, <1>8, FreshPredecessors, Zenon
<1>14. cur' \notin Claims(t)
  BY <1>2, <1>6, <1>9, <1>12, Zenon DEF Fresh
<1>15. Hands({}, t)
  BY <1>1, <1>2, <1>9, <1>11, <1>12, <1>13, <1>14, Zenon DEF Hands
<1>16. LoopInv' /\ loop' \in Seq(R)
  BY <1>1, <1>2, <1>4, <1>5, <1>6, <1>7, <1>8, <1>12, LoopsStay, Zenon
<1> QED BY <1>4, <1>5, <1>6, <1>9, <1>15, <1>16, QuietStep, Zenon

LEMMA IfStep ==
  ASSUME CodegenInv, If
  PROVE  CodegenInv'
<1>1. PICK h : h = Head(todo)
  OBVIOUS
<1>2. PICK t : t = [k |-> "if_cond", true |-> New(1), false |-> New(2),
                    fin |-> New(3), then |-> h.then, else |-> h.else]
  BY Zenon
<1>3. /\ todo # <<>> /\ h.k = "if" /\ blocks' = blocks \o Created(3)
      /\ cur' = cur /\ loop' = loop /\ Becomes(<<h.cond, t>>)
  BY <1>1, <1>2 DEF If, At
<1>4. Replace(<<h.cond>>, <<t>>) /\ fate' = fate
  BY <1>3, Following
<1>5. /\ h.cond \in Nodes /\ <<h.cond>> \in Seq(Nodes)
      /\ h.then \in Seq(Nodes) /\ h.else \in Seq(Nodes)
      /\ cur \in DOMAIN blocks /\ LoopInv
  <2>1. Formed(h) /\ Sound(h) /\ cur \in DOMAIN blocks /\ LoopInv
    BY <1>1, <1>3, InHand
  <2> QED BY <1>3, <2>1, NodeParts, ShortSeqs
<1>6. ~ForTask(h)
  BY <1>3 DEF ForTask
<1>7. PICK S, R, Q : todo \in Seq(S) /\ loop \in Seq(R) /\ blocks \in Seq(Seq(Q))
  BY DEF CodegenInv, Typed
<1>8. /\ Grow({}) /\ Quiet /\ New(1) \in Fresh /\ New(2) \in Fresh /\ New(3) \in Fresh
      /\ blocks'[New(1)] = <<>> /\ blocks'[New(2)] = <<>> /\ blocks'[New(3)] = <<>>
  <2>1. /\ Grow({}) /\ Quiet /\ \A i \in 1 .. 3 : New(i) \in Fresh
        /\ \A i \in 1 .. 3 : blocks'[New(i)] = <<>>
    <3>1. 3 \in Nat
      OBVIOUS
    <3> QED BY <3>1, <1>3, <1>5, <1>7, GrowCreate, Zenon
  <2> QED BY <2>1
<1>9. New(1) # New(2) /\ New(1) # New(3) /\ New(2) # New(3)
  BY <1>7 DEF New
<1>10. /\ t.k = "if_cond" /\ t.true = New(1) /\ t.false = New(2) /\ t.fin = New(3)
       /\ t.then = h.then /\ t.else = h.else
  BY <1>2, Zenon
<1>11. /\ Formed(t) /\ Claims(t) = {New(1), New(2), New(3)} /\ Returns(t) = {}
       /\ PhiPlace(t) = {} /\ ~ForTask(t)
  BY <1>5, <1>9, <1>10, Zenon DEF Formed, Claims, Returns, PhiPlace, ForTask
<1>12. cur' \notin Claims(t)
  BY <1>3, <1>5, <1>8, <1>11 DEF Fresh
<1>13. Hands({}, t)
  BY <1>1, <1>3, <1>8, <1>10, <1>11, <1>12, Zenon DEF Hands
<1>14. LoopInv' /\ loop' \in Seq(R)
  BY <1>1, <1>3, <1>4, <1>5, <1>6, <1>7, <1>11, LoopsStay, Zenon
<1> QED BY <1>3, <1>4, <1>5, <1>8, <1>13, <1>14, QuietStep, Zenon

LEMMA ConditionalLeftStep ==
  ASSUME CodegenInv, ConditionalLeft
  PROVE  CodegenInv'
<1>1. PICK h, c : h = Head(todo) /\ c = cur
  OBVIOUS
<1>2. PICK t, i : /\ t = [k |-> "rhs", lh |-> val, current |-> c,
                          next |-> h.next, fin |-> h.fin]
                  /\ i = CondBr(val, IF h.forAND THEN h.next ELSE h.fin,
                                     IF h.forAND THEN h.fin ELSE h.next)
  BY Zenon
<1>3. /\ todo # <<>> /\ h.k = "lhs" /\ blocks' = Emit(cur, <<i>>)
      /\ cur' = h.next /\ loop' = loop /\ Becomes(<<h.r, t>>)
  BY <1>1, <1>2, Zenon DEF ConditionalLeft, At
<1>4. Replace(<<h.r>>, <<t>>) /\ fate' = fate
  BY <1>3, Following, Zenon
<1>5. /\ h.r \in Nodes /\ <<h.r>> \in Seq(Nodes) /\ h.next # h.fin
      /\ cur \in DOMAIN blocks /\ LoopInv /\ Sound(h)
  <2>1. Formed(h) /\ Sound(h) /\ cur \in DOMAIN blocks /\ LoopInv
    BY <1>1, <1>3, InHand
  <2> QED BY <1>3, <2>1, TaskParts, ShortSeqs
<1>6. ~ForTask(h) /\ Claims(h) = {h.next, h.fin} /\ PhiPlace(h) = {h.fin}
  BY <1>3 DEF ForTask, Claims, PhiPlace
<1>7. PICK S, R, Q : todo \in Seq(S) /\ loop \in Seq(R) /\ blocks \in Seq(Seq(Q))
  BY DEF CodegenInv, Typed
<1>8. Plain(<<i>>) /\ Out(<<i>>) = {h.next, h.fin} /\ <<i>> \in Seq({i})
  <2>1. /\ Plain(<<i>>) /\ <<i>> \in Seq({i})
        /\ Out(<<i>>) = {IF h.forAND THEN h.next ELSE h.fin,
                         IF h.forAND THEN h.fin ELSE h.next}
    <3>1. PICK v, x, y : /\ v = val /\ x = IF h.forAND THEN h.next ELSE h.fin
                         /\ y = IF h.forAND THEN h.fin ELSE h.next
      BY Zenon
    <3>2. i = CondBr(v, x, y)
      BY <1>2, <3>1
    <3>3. Plain(<<i>>) /\ Out(<<i>>) = {x, y} /\ <<i>> \in Seq({i})
      BY ONLY <3>2, CondBrCode
    <3> QED BY <3>1, <3>3
  <2> QED BY <2>1
<1>9. Grow({h.next, h.fin}) /\ Quiet
  BY <1>3, <1>5, <1>7, <1>8, GrowEmit, Zenon
<1>10. t.k = "rhs" /\ t.current = c /\ t.fin = h.fin
  BY <1>2, Zenon
<1>11. /\ Formed(t) /\ Claims(t) = {h.fin} /\ Returns(t) = {}
       /\ PhiPlace(t) = {h.fin} /\ ~ForTask(t)
  BY <1>10 DEF Formed, Claims, Returns, PhiPlace, ForTask
<1>12. Predecessors(t.fin)' = {t.current}
  <2>1. h.fin \in DOMAIN blocks /\ Predecessors(h.fin) = {}
    BY <1>3, <1>5, <1>6, Zenon DEF Sound
  <2>2. Predecessors(h.fin)' = {} \cup {cur}
    BY <2>1, <1>5, <1>9, GrowPredecessors, SMTT(30)
  <2> QED BY <2>2, <1>1, <1>10, Zenon
<1>13. cur' # cur
  BY <1>3, <1>5, <1>6 DEF Sound
<1>14. Hands({h.next, h.fin}, t)
  <2>1. Claims(t) \cap Fresh = {}
    BY <1>5, <1>6, <1>11 DEF Sound, Fresh
  <2> QED BY <2>1, <1>1, <1>3, <1>5, <1>6, <1>9, <1>10, <1>11,
            <1>12, <1>13, ZenonT(30)
         DEF Hands
<1>15. LoopInv' /\ loop' \in Seq(R)
  BY <1>1, <1>3, <1>4, <1>5, <1>6, <1>7, <1>11, LoopsStay, Zenon
<1> QED BY <1>3, <1>4, <1>5, <1>9, <1>14, <1>15, QuietStep, Zenon

LEMMA ConditionalRightStep ==
  ASSUME CodegenInv, ConditionalRight
  PROVE  CodegenInv'
<1>1. PICK h, c, v : h = Head(todo) /\ c = cur /\ v = val
  OBVIOUS
<1>2. PICK i, j : i = Br(h.fin) /\ j = Phi({<<h.current, h.lh>>, <<c, v>>})
  OBVIOUS
<1>3. /\ todo # <<>> /\ h.k = "rhs" /\ cur' = h.fin /\ loop' = loop
      /\ blocks' = [blocks EXCEPT ![cur] = @ \o <<i>>, ![h.fin] = @ \o <<j>>]
      /\ Replace(<<>>, <<>>) /\ fate' = fate
  BY <1>1, <1>2, Following, ZenonT(30) DEF ConditionalRight, At
<1>4. /\ cur \in DOMAIN blocks /\ LoopInv /\ Sound(h)
      /\ Claims(h) \subseteq DOMAIN blocks /\ cur \notin Claims(h)
  BY <1>1, <1>3, InHand, Zenon
<1>5. ~ForTask(h) /\ Claims(h) = {h.fin} /\ PhiPlace(h) = {h.fin}
  BY <1>3 DEF ForTask, Claims, PhiPlace
<1>6. /\ h.fin \in DOMAIN blocks /\ h.fin # cur /\ blocks[h.fin] = <<>>
      /\ Predecessors(h.fin) = {h.current} /\ h.current # cur
  BY <1>3, <1>4, <1>5 DEF Sound
<1>7. PICK S, R, Q : todo \in Seq(S) /\ loop \in Seq(R) /\ blocks \in Seq(Seq(Q))
  BY DEF CodegenInv, Typed
<1>8. /\ Plain(<<i>>) /\ Out(<<i>>) = {h.fin} /\ <<i>> \in Seq({i, j})
      /\ Out(<<j>>) = {} /\ <<j>> \in Seq({i, j})
  <2>1. Plain(<<i>>) /\ Out(<<i>>) = {h.fin}
    BY <1>2, BrCode
  <2>2. Out(<<j>>) = {}
    BY <1>2, ShortCode, TargetsOf, ZenonT(30)
  <2> QED BY <2>1, <2>2, ShortSeqs, Zenon
<1>9. /\ Grow({h.fin}) /\ Fresh = {} /\ blocks'[h.fin] = blocks[h.fin] \o <<j>>
      /\ \A a \in DOMAIN blocks : a # h.fin => QuietAt(a)
  <2>1. PICK d, is, js : d = h.fin /\ is = <<i>> /\ js = <<j>>
    BY Zenon
  <2>2. /\ d \in DOMAIN blocks /\ d # cur /\ cur' = d /\ Plain(is)
        /\ is \in Seq({i, j}) /\ js \in Seq({i, j}) /\ Out(js) = {}
        /\ blocks' = [blocks EXCEPT ![cur] = @ \o is, ![d] = @ \o js]
    BY <2>1, <1>3, <1>6, <1>8
  <2>3. /\ Grow(Out(is)) /\ Fresh = {} /\ blocks'[d] = blocks[d] \o js
        /\ \A a \in DOMAIN blocks : a # d \/ Plain(js) => QuietAt(a)
    BY <2>2, <1>4, <1>7, GrowTwo, Zenon
  <2> QED BY <2>1, <2>2, <2>3, <1>8, Zenon
<1>10. blocks'[h.fin] = <<j>>
  BY <1>6, <1>9
<1>11. Predecessors(h.fin)' = {h.current, c}
  <2>1. Predecessors(h.fin)' = {h.current} \cup {cur}
    BY <1>4, <1>6, <1>9, GrowPredecessors, Zenon
  <2> QED BY <2>1, <1>1
<1>12. PhiGood(h.fin)'
  <2>1. DOMAIN <<j>> = {1} /\ <<j>>[1] = j /\ j.in = {<<h.current, h.lh>>, <<c, v>>}
    BY <1>2 DEF Phi
  <2>2. {in[1] : in \in j.in} = {h.current, c}
    BY <2>1
  <2>3. \A in1, in2 \in j.in : in1[1] = in2[1] => in1 = in2
    BY <2>1, <1>1, <1>6
  <2>4. ASSUME NEW n \in DOMAIN blocks'[h.fin]
        PROVE  n = 1 /\ blocks'[h.fin][n] = j
    BY <2>1, <1>10, Zenon
  <2> QED BY <2>2, <2>3, <2>4, <1>11, Zenon DEF PhiGood
<1>13. \A b \in DOMAIN blocks' : PhiGood(b)'
  <2>1. ASSUME NEW b \in DOMAIN blocks, b # h.fin PROVE PhiGood(b)'
    <3>1. PhiGood(b) /\ b \notin {h.fin}
      BY <2>1 DEF CodegenInv, PhiInv
    <3> QED BY <2>1, <3>1, <1>4, <1>9, PhisKept, Zenon
  <2> QED BY <2>1, <1>9, <1>12, Zenon DEF Fresh
<1>14. ASSUME NEW b \in DOMAIN blocks', HasPhi(b)'
       PROVE  \/ b \in DOMAIN blocks /\ HasPhi(b)
              \/ b = cur' /\ b \in PhiPlace(Head(todo)) /\ <<>> = <<>>
  <2>1. CASE b = h.fin
    BY <2>1, <1>1, <1>3, <1>5
  <2>2. CASE b # h.fin
    <3>1. b \in DOMAIN blocks
      BY <1>9 DEF Fresh
    <3> QED BY <2>2, <3>1, <1>9, <1>14, Zenon DEF HasPhi, QuietAt
  <2> QED BY <2>1, <2>2, Zenon
<1>15. Hands({h.fin}, Done)
  <2>1. PhiPlace(Done) = {}
    BY DoneOwns DEF PhiPlace
  <2> QED BY <2>1, <1>1, <1>3, <1>5, <1>9, DoneOwns, Zenon DEF Hands
<1>16. <<>> \in Seq(Nodes) /\ <<>> \in {<<>>, <<Done>>}
  OBVIOUS
<1>17. LoopInv' /\ loop' \in Seq(R)
  BY <1>1, <1>3, <1>4, <1>5, <1>7, <1>16, LoopsStay, Zenon
<1> QED BY <1>3, <1>13, <1>14, <1>15, <1>16, <1>17, HandsStep, Zenon

LEMMA ScanFinishStep ==
  ASSUME CodegenInv, ScanFinish
  PROVE  CodegenInv'
<1>1. PICK h : h = Head(todo)
  OBVIOUS
<1>2. PICK i, j, k : /\ i = Do(CursorCall(h.id, "next")) /\ j = Br(h.check)
                     /\ k = Do(CursorCall(h.id, "destroy"))
  OBVIOUS
<1>3. /\ todo # <<>> /\ h.k = "scan_body" /\ cur' = h.fin /\ loop' = loop
      /\ blocks' = [blocks EXCEPT ![cur] = @ \o <<i, j>>, ![h.fin] = @ \o <<k>>]
      /\ Replace(<<>>, <<>>) /\ fate' = fate
  BY <1>1, <1>2, Following, ZenonT(30) DEF ScanFinish, At
<1>4. /\ cur \in DOMAIN blocks /\ LoopInv /\ Returns(h) \subseteq Live
      /\ Claims(h) \subseteq DOMAIN blocks /\ cur \notin Claims(h)
  BY <1>1, <1>3, InHand, Zenon
<1>5. ~ForTask(h) /\ Claims(h) = {h.fin} /\ Returns(h) = {h.check}
  BY <1>3 DEF ForTask, Claims, Returns
<1>6. PICK S, R, Q : todo \in Seq(S) /\ loop \in Seq(R) /\ blocks \in Seq(Seq(Q))
  BY DEF CodegenInv, Typed
<1>7. /\ Plain(<<i, j>>) /\ Out(<<i, j>>) = {h.check} /\ <<i, j>> \in Seq({i, j, k})
      /\ Plain(<<k>>) /\ Out(<<k>>) = {} /\ <<k>> \in Seq({i, j, k})
  <2>1. /\ Targets(i) = {} /\ Targets(j) = {h.check} /\ Targets(k) = {}
    BY <1>2, TargetsOf, Zenon
  <2>2. i.op # "phi" /\ j.op # "phi" /\ k.op # "phi"
    BY <1>2 DEF Do, Br
  <2>3. Plain(<<i, j>>) /\ Out(<<i, j>>) = {h.check}
    <3>1. Plain(<<i, j>>) /\ Out(<<i, j>>) = Targets(i) \cup Targets(j)
      BY <2>2, ShortCode, Zenon
    <3> QED BY <3>1, <2>1
  <2>4. Plain(<<k>>) /\ Out(<<k>>) = {}
    BY <2>1, <2>2, ShortCode, Zenon
  <2> QED BY <2>3, <2>4, ShortSeqs
<1>8. h.fin \in DOMAIN blocks /\ h.fin # cur
  BY <1>4, <1>5
<1>9. /\ Grow({h.check}) /\ Fresh = {}
      /\ \A a \in DOMAIN blocks : QuietAt(a)
  <2>1. PICK d, is, js : d = h.fin /\ is = <<i, j>> /\ js = <<k>>
    BY Zenon
  <2>2. /\ d \in DOMAIN blocks /\ d # cur /\ cur' = d /\ Plain(is) /\ Plain(js)
        /\ is \in Seq({i, j, k}) /\ js \in Seq({i, j, k}) /\ Out(js) = {}
        /\ blocks' = [blocks EXCEPT ![cur] = @ \o is, ![d] = @ \o js]
    BY <2>1, <1>3, <1>7, <1>8
  <2>3. /\ Grow(Out(is)) /\ Fresh = {}
        /\ \A a \in DOMAIN blocks : a # d \/ Plain(js) => QuietAt(a)
    BY <2>2, <1>4, <1>6, GrowTwo, Zenon
  <2> QED BY <2>1, <2>2, <2>3, <1>7, Zenon
<1>10. Quiet
  BY <1>9, Zenon DEF Quiet
<1>11. Hands({h.check}, Done)
  <2>1. PhiPlace(Done) = {}
    BY DoneOwns DEF PhiPlace
  <2> QED BY <2>1, <1>1, <1>3, <1>4, <1>5, <1>9, DoneOwns DEF Hands
<1>12. <<>> \in Seq(Nodes) /\ <<>> \in {<<>>, <<Done>>}
  OBVIOUS
<1>13. LoopInv' /\ loop' \in Seq(R)
  BY <1>1, <1>3, <1>4, <1>5, <1>6, <1>12, LoopsStay, Zenon
<1> QED BY <1>3, <1>10, <1>11, <1>12, <1>13, QuietStep, Zenon

LEMMA ForBeginStep ==
  ASSUME CodegenInv, ForBegin
  PROVE  CodegenInv'
<1>1. PICK h, l : /\ h = Head(todo)
                  /\ l = [begin |-> New(1), body |-> New(2), every |-> New(3),
                          finish |-> New(4)]
  BY Zenon
<1>2. PICK t, i, new : /\ t = [k |-> "for_cond", loop |-> l, cond |-> h.cond,
                               every |-> h.every, body |-> h.body]
                       /\ i = Br(New(1)) /\ new = Created(4)
  BY Zenon
<1>3. /\ l.begin = New(1) /\ l.body = New(2) /\ l.every = New(3) /\ l.finish = New(4)
      /\ t.k = "for_cond" /\ t.loop = l /\ t.cond = h.cond /\ t.every = h.every
      /\ t.body = h.body
  BY <1>1, <1>2
<1>4. /\ todo # <<>> /\ h.k = "for_init" /\ blocks' = Emit(cur, <<i>>) \o new
      /\ cur' = New(1) /\ loop' = <<l>> \o loop
      /\ Replace(h.cond, <<t>>) /\ fate' = fate
  <2>1. /\ todo # <<>> /\ h.k = "for_init" /\ cur' = l.begin /\ loop' = <<l>> \o loop
        /\ blocks' = Emit(cur, <<Br(l.begin)>>) \o Created(4)
        /\ Becomes(h.cond \o <<t>>)
    BY <1>1, <1>2, Zenon DEF ForBegin, At
  <2> QED BY <2>1, <1>2, <1>3, Zenon DEF Becomes, Replace
<1>5. /\ h.cond \in Seq(Nodes) /\ h.every \in Nodes /\ h.body \in Seq(Nodes)
      /\ cur \in DOMAIN blocks /\ LoopInv
  <2>1. Formed(h) /\ Sound(h) /\ cur \in DOMAIN blocks /\ LoopInv
    BY <1>1, <1>4, InHand
  <2> QED BY <1>4, <2>1, TaskParts, ShortSeqs, Zenon
<1>6. ~ForTask(h)
  BY <1>4 DEF ForTask
<1>7. PICK S, R, Q : todo \in Seq(S) /\ loop \in Seq(R) /\ blocks \in Seq(Seq(Q))
  BY DEF CodegenInv, Typed
<1>8. Plain(<<i>>) /\ Out(<<i>>) = {New(1)} /\ <<i>> \in Seq({i})
  BY <1>2, BrCode, Zenon
<1>9. /\ new \in Seq(Seq({i})) /\ DOMAIN new = 1 .. 4
      /\ \A n \in DOMAIN new : new[n] = <<>>
  BY <1>2 DEF Created
<1>10. \A n \in DOMAIN new : Plain(new[n]) /\ Out(new[n]) = {}
  BY <1>9, ShortCode, Zenon
<1>11. /\ Grow(Out(<<i>>)) /\ Quiet /\ \A n \in DOMAIN new : Len(blocks) + n \in Fresh
       /\ \A n \in DOMAIN new : blocks'[Len(blocks) + n] = new[n]
  BY <1>4, <1>5, <1>7, <1>8, <1>9, <1>10, GrowEmitCreate, Zenon
<1>12. \A n \in 1 .. 4 : New(n) \in Fresh /\ blocks'[New(n)] = <<>>
  BY <1>9, <1>11, Zenon DEF New
<1>13. /\ New(1) # New(2) /\ New(1) # New(3) /\ New(1) # New(4)
       /\ New(2) # New(3) /\ New(2) # New(4) /\ New(3) # New(4)
  BY <1>7 DEF New
<1>14. /\ New(1) \in Fresh /\ New(2) \in Fresh /\ New(3) \in Fresh /\ New(4) \in Fresh
       /\ blocks'[New(2)] = <<>> /\ blocks'[New(3)] = <<>> /\ blocks'[New(4)] = <<>>
  BY <1>12
<1>15. /\ Formed(t) /\ Claims(t) = {New(2), New(3), New(4)} /\ ForTask(t)
       /\ Returns(t) = {New(1), New(3), New(4)} /\ PhiPlace(t) = {}
       /\ t.k # "lhs" /\ t.k # "rhs"
  BY <1>3, <1>5, <1>13, Zenon DEF Formed, Claims, Returns, PhiPlace, ForTask
<1>16. Hands(Out(<<i>>), t)
  BY <1>1, <1>4, <1>8, <1>11, <1>13, <1>14, <1>15, Zenon DEF Hands
<1>17. LoopInv' /\ \E P : loop' \in Seq(P)
  BY <1>1, <1>3, <1>4, <1>5, <1>6, <1>7, <1>15, LoopEntered, Zenon
<1> QED BY <1>4, <1>5, <1>11, <1>16, <1>17, QuietStep, Zenon

LEMMA ScanStep ==
  ASSUME CodegenInv, Scan
  PROVE  CodegenInv'
<1>1. PICK h : h = Head(todo)
  OBVIOUS
<1>2. PICK i, j, k, l, m : /\ i = Do(CursorCall(h.id, "get_cursor"))
                           /\ j = Br(New(1)) /\ k = Test(h.id)
                           /\ l = CondBr(TestValue(h.id), New(2), New(3))
                           /\ m = Do(CursorCall(h.id, "copy"))
  OBVIOUS
<1>3. PICK t, new : /\ t = [k |-> "scan_body", id |-> h.id, check |-> New(1),
                            fin |-> New(3)]
                    /\ new = << <<k, l>>, <<m>>, <<>> >>
  BY Zenon
<1>4. /\ todo # <<>> /\ h.k = "scan" /\ blocks' = Emit(cur, <<i, j>>) \o new
      /\ cur' = New(2) /\ loop' = loop /\ Replace(h.body, <<t>>) /\ fate' = fate
  BY <1>1, <1>2, <1>3, Zenon DEF Scan, At, Becomes, Replace
<1>5. h.body \in Seq(Nodes) /\ cur \in DOMAIN blocks /\ LoopInv
  <2>1. Formed(h) /\ Sound(h) /\ cur \in DOMAIN blocks /\ LoopInv
    BY <1>1, <1>4, InHand
  <2> QED BY <1>4, <2>1, NodeParts, ShortSeqs
<1>6. ~ForTask(h)
  BY <1>4 DEF ForTask
<1>7. PICK S, R, Q : todo \in Seq(S) /\ loop \in Seq(R) /\ blocks \in Seq(Seq(Q))
  BY DEF CodegenInv, Typed
<1> DEFINE I == {i, j, k, l, m}
<1>8. /\ Targets(i) = {} /\ Targets(j) = {New(1)} /\ Targets(k) = {}
      /\ Targets(l) = {New(2), New(3)} /\ Targets(m) = {}
  <2>1. Targets(i) = {}
    BY ONLY <1>2, TargetsOf, Zenon
  <2>2. Targets(m) = {}
    BY ONLY <1>2, TargetsOf, Zenon
  <2>3. Targets(k) = {}
    BY ONLY <1>2, TargetsOf, Zenon
  <2>4. Targets(j) = {New(1)}
    BY ONLY <1>2, TargetsOf, Zenon
  <2>5. Targets(l) = {New(2), New(3)}
    <3>1. PICK v, x, y : v = TestValue(h.id) /\ x = New(2) /\ y = New(3)
      OBVIOUS
    <3>2. Targets(CondBr(v, x, y)) = {x, y}
      BY TargetsOf, SMTT(30)
    <3>3. l = CondBr(v, x, y)
      BY <1>2, <3>1, Zenon
    <3> QED BY ONLY <3>1, <3>2, <3>3
  <2> QED BY <2>1, <2>2, <2>3, <2>4, <2>5
<1>9. i.op # "phi" /\ j.op # "phi" /\ k.op # "phi" /\ l.op # "phi" /\ m.op # "phi"
  BY <1>2 DEF Do, Br, Test, CondBr
<1>10. Plain(<<i, j>>) /\ Out(<<i, j>>) = {New(1)} /\ <<i, j>> \in Seq(I)
  <2>1. Plain(<<i, j>>) /\ Out(<<i, j>>) = Targets(i) \cup Targets(j)
    BY <1>9, ShortCode, Zenon
  <2>2. <<i, j>> \in Seq(I)
    BY ShortSeqs, Zenon
  <2> QED BY <2>1, <2>2, <1>8
<1>11. /\ Plain(<<k, l>>) /\ Out(<<k, l>>) = {New(2), New(3)} /\ <<k, l>> \in Seq(I)
       /\ Plain(<<m>>) /\ Out(<<m>>) = {} /\ <<m>> \in Seq(I)
       /\ Plain(<<>>) /\ Out(<<>>) = {} /\ <<>> \in Seq(I)
  <2>1. Plain(<<k, l>>) /\ Out(<<k, l>>) = Targets(k) \cup Targets(l)
    BY <1>9, ShortCode, Zenon
  <2>2. Plain(<<m>>) /\ Out(<<m>>) = Targets(m) /\ Plain(<<>>) /\ Out(<<>>) = {}
    BY <1>9, ShortCode, Zenon
  <2>3. <<k, l>> \in Seq(I) /\ <<m>> \in Seq(I) /\ <<>> \in Seq(I)
    BY ShortSeqs
  <2> QED BY <2>1, <2>2, <2>3, <1>8
<1> HIDE DEF I
<1>12. /\ DOMAIN new = {1, 2, 3} /\ new[1] = <<k, l>> /\ new[2] = <<m>>
       /\ new[3] = <<>>
  BY <1>3, SMTT(30)
<1>13. new \in Seq(Seq(I))
  BY <1>3, <1>11, SMTT(30)
<1>14. \A n \in DOMAIN new : Plain(new[n])
  BY <1>11, <1>12
<1>15. \A n \in DOMAIN new : \A a \in Out(new[n]) :
         \E p \in DOMAIN new : a = Len(blocks) + p
  <2>1. \A n \in DOMAIN new : Out(new[n]) \subseteq {New(2), New(3)}
    BY <1>11, <1>12
  <2>2. New(2) = Len(blocks) + 2 /\ New(3) = Len(blocks) + 3
    BY DEF New
  <2> QED BY <2>1, <2>2, <1>12, Zenon
<1>16. /\ Grow(Out(<<i, j>>)) /\ Quiet /\ \A n \in DOMAIN new : Len(blocks) + n \in Fresh
       /\ \A n \in DOMAIN new : blocks'[Len(blocks) + n] = new[n]
  BY <1>4, <1>5, <1>7, <1>10, <1>13, <1>14, <1>15, GrowEmitCreate, Zenon
<1>17. /\ New(1) \in Fresh /\ New(2) \in Fresh /\ New(3) \in Fresh
       /\ blocks'[New(3)] = <<>>
  BY <1>12, <1>16, Zenon DEF New
<1>18. New(2) # New(3)
  BY <1>7, SMTT(30) DEF New
<1>19. t.k = "scan_body" /\ t.check = New(1) /\ t.fin = New(3)
  BY <1>3, Zenon
<1>20. /\ Formed(t) /\ Claims(t) = {New(3)} /\ Returns(t) = {New(1)}
       /\ PhiPlace(t) = {} /\ ~ForTask(t) /\ t.k # "lhs" /\ t.k # "rhs"
  BY <1>19 DEF Formed, Claims, Returns, PhiPlace, ForTask
<1>21. Hands(Out(<<i, j>>), t)
  BY <1>1, <1>4, <1>10, <1>16, <1>17, <1>18, <1>20, Zenon DEF Hands
<1>22. LoopInv' /\ loop' \in Seq(R)
  BY <1>1, <1>4, <1>5, <1>6, <1>7, <1>20, LoopsStay, Zenon
<1> QED BY <1>4, <1>5, <1>16, <1>21, <1>22, QuietStep, Zenon

LEMMA UndefinedStep ==
  ASSUME CodegenInv, Undefined
  PROVE  CodegenInv'
<1>1. /\ todo' = <<>> /\ fate' = "undefined" /\ blocks' = blocks
      /\ cur' = cur /\ loop' = loop
  BY DEF Undefined
<1>2. Live' = {}
  BY <1>1, SMTT(30) DEF Live
<1>3. StackInv'
  BY <1>1, <1>2 DEF StackInv
<1>4. Typed'
  <2>1. <<>> \in Seq({1})
    OBVIOUS
  <2> QED BY <2>1, <1>1 DEF CodegenInv, Typed
<1>5. Closed' /\ cur' \in DOMAIN blocks'
  BY <1>1, Zenon DEF CodegenInv, PhiInv, Closed
<1>6. \A b \in DOMAIN blocks' : PhiGood(b)'
  BY <1>1, SMTT(30) DEF CodegenInv, PhiInv, PhiGood, Predecessors
<1> QED BY <1>1, <1>3, <1>4, <1>5, <1>6 DEF CodegenInv, PhiInv

LEMMA ReturnStep ==
  ASSUME CodegenInv, Return
  PROVE  CodegenInv'
<1>1. /\ todo = <<>> /\ blocks' = Emit(cur, <<Ret>>) /\ todo' = todo /\ cur' = cur
      /\ loop' = loop /\ fate' = fate
  BY DEF Return
<1>2. PICK S : blocks \in Seq(Seq(S))
  BY DEF CodegenInv, Typed
<1>3. cur \in DOMAIN blocks /\ Closed /\ \A b \in DOMAIN blocks : PhiGood(b)
  BY DEF CodegenInv, PhiInv
<1>4. Plain(<<Ret>>) /\ Out(<<Ret>>) = {} /\ <<Ret>> \in Seq({Ret})
  <2>1. Targets(Ret) = {} /\ Ret.op # "phi"
    BY TargetsOf DEF Ret
  <2> QED BY <2>1, ShortCode, ShortSeqs, Zenon
<1>5. Grow({}) /\ Quiet /\ Fresh = {}
  BY <1>1, <1>2, <1>3, <1>4, GrowEmit, Zenon
<1>6. \A b \in DOMAIN blocks' : PhiGood(b)'
  BY <1>3, <1>5, QuietPhis, Zenon
<1>7. Closed'
  BY <1>3, <1>5, ClosedKept
<1>8. Live' = {}
  BY <1>1, SMTT(30) DEF Live
<1>9. StackInv'
  BY <1>1, <1>8 DEF StackInv
<1>10. (fate' = "compiling" => LoopInv') /\ (fate' # "compiling" => todo' = <<>>)
  <2>1. LoopInv' = LoopInv
    BY <1>1, ZenonT(30) DEF LoopInv, LoopAt
  <2> QED BY <1>1, <2>1 DEF CodegenInv, PhiInv
<1>11. Typed' /\ cur' \in DOMAIN blocks'
  BY <1>1, <1>3, <1>5, Zenon DEF CodegenInv, Typed, Grow
<1> QED BY <1>6, <1>7, <1>9, <1>10, <1>11 DEF CodegenInv, PhiInv

-----------------------------------------------------------------------------
(* The invariant, and what it says of a compiled program. *)

LEMMA Started ==
  ASSUME Init
  PROVE  CodegenInv
<1>1. /\ prog \in Programs /\ todo = prog /\ blocks = << <<>> >> /\ cur = 1
      /\ loop = <<>> /\ fate = "compiling"
  BY DEF Init
<1>2. todo \in Seq(Nodes)
  BY <1>1, NodesAssumption, Zenon
<1>3. DOMAIN blocks = {1} /\ blocks[1] = <<>> /\ \A b \in DOMAIN blocks : blocks[b] = <<>>
  BY <1>1
<1>4. \A p \in DOMAIN todo : todo[p] \in Nodes
  BY <1>2
<1>5. \A p \in DOMAIN todo :
        /\ Claims(todo[p]) = {} /\ Returns(todo[p]) = {} /\ PhiPlace(todo[p]) = {}
        /\ todo[p].k # "lhs" /\ todo[p].k # "rhs" /\ ~ForTask(todo[p])
        /\ Formed(todo[p]) /\ Sound(todo[p])
  <2> SUFFICES ASSUME NEW s \in Nodes
               PROVE  /\ Claims(s) = {} /\ Returns(s) = {} /\ PhiPlace(s) = {}
                      /\ s.k # "lhs" /\ s.k # "rhs" /\ ~ForTask(s)
                      /\ Formed(s) /\ Sound(s)
    BY <1>4, Zenon
  <2>1. /\ Claims(s) = {} /\ Returns(s) = {} /\ PhiPlace(s) = {} /\ ~ForTask(s)
        /\ s.k # "lhs" /\ s.k # "rhs"
    BY NodeOwns, Zenon
  <2> QED BY <2>1 DEF Formed, Sound
<1>6. Live = {}
  BY <1>5, Zenon DEF Live
<1>7. \A b \in DOMAIN blocks : ~HasPhi(b) /\ PhiGood(b) /\ Out(blocks[b]) = {}
  BY <1>3 DEF HasPhi, PhiGood, Out
<1>8. StackInv
  BY <1>5, <1>6, <1>7, Zenon DEF StackInv
<1>9. LoopInv
  <2>1. PICK f : f = <<>>
    OBVIOUS
  <2>2. f \in [DOMAIN loop -> DOMAIN todo] /\ DOMAIN loop = {}
    BY <1>1, <2>1
  <2>3. LoopAt(f)
    BY <1>5, <2>2, Zenon DEF LoopAt
  <2> QED BY <2>2, <2>3, Zenon DEF LoopInv
<1>10. Typed
  <2>1. blocks \in Seq(Seq({1})) /\ loop \in Seq({1})
    BY <1>1
  <2> QED BY <1>2, <2>1 DEF Typed
<1>11. Closed
  BY <1>7 DEF Closed
<1> QED BY <1>1, <1>3, <1>7, <1>8, <1>9, <1>10, <1>11 DEF CodegenInv, PhiInv

LEMMA Unchanged ==
  ASSUME CodegenInv, UNCHANGED vars
  PROVE  CodegenInv'
<1>1. /\ blocks' = blocks /\ todo' = todo /\ cur' = cur /\ loop' = loop
      /\ fate' = fate
  BY DEF vars
<1>2. \A b : Predecessors(b)' = Predecessors(b) /\ HasPhi(b)' = HasPhi(b)
  BY <1>1, Zenon DEF Predecessors, HasPhi
<1>3. /\ \A b \in DOMAIN blocks' : PhiGood(b)'
      /\ Closed' /\ cur' \in DOMAIN blocks'
  <2>1. \A b : PhiGood(b)' = PhiGood(b)
    BY <1>1, <1>2, Zenon DEF PhiGood
  <2>2. Closed' = Closed
    BY <1>1, Zenon DEF Closed
  <2>3. (\A b \in DOMAIN blocks : PhiGood(b)) /\ Closed /\ cur \in DOMAIN blocks
    BY Zenon DEF CodegenInv, PhiInv
  <2> QED BY <1>1, <2>1, <2>2, <2>3, Zenon
<1>4. \A t : Sound(t)' = Sound(t)
  BY <1>1, <1>2, Zenon DEF Sound
<1>5. Live' = Live
  BY <1>1 DEF Live
<1>6. StackInv'
  BY <1>1, <1>2, <1>4, <1>5, Zenon DEF CodegenInv, PhiInv, StackInv
<1>7. LoopInv' = LoopInv
  BY <1>1, ZenonT(30) DEF LoopInv, LoopAt
<1>8. Typed'
  BY <1>1 DEF CodegenInv, Typed
<1> QED BY <1>1, <1>3, <1>6, <1>7, <1>8, Zenon DEF CodegenInv, PhiInv

LEMMA CodegenInvariant == Spec => []CodegenInv
<1>1. Init => CodegenInv
  BY Started
<1>2. CodegenInv /\ [Next]_vars => CodegenInv'
  <2> SUFFICES ASSUME CodegenInv, [Next]_vars
               PROVE  CodegenInv'
    OBVIOUS
  <2>1. CASE DoStatement \/ TestExpression
    BY <2>1, PlainSteps
  <2>2. CASE RowLiteral
    BY <2>2, RowStep
  <2>3. CASE Conditional
    BY <2>3, ConditionalStep, Zenon
  <2>4. CASE ConditionalLeft
    BY <2>4, ConditionalLeftStep
  <2>5. CASE ConditionalRight
    BY <2>5, ConditionalRightStep
  <2>6. CASE If
    BY <2>6, IfStep
  <2>7. CASE IfTrue
    BY <2>7, IfTrueStep
  <2>8. CASE IfFalse
    BY <2>8, IfFalseStep
  <2>9. CASE IfFinish
    BY <2>9, IfFinishStep
  <2>10. CASE For
    BY <2>10, ForStep
  <2>11. CASE ForUnset \/ JumpOutside
    BY <2>11, UndefinedStep, Zenon DEF ForUnset, JumpOutside
  <2>12. CASE ForBegin
    BY <2>12, ForBeginStep
  <2>13. CASE ForBody
    BY <2>13, ForBodyStep
  <2>14. CASE ForEvery
    BY <2>14, ForEveryStep
  <2>15. CASE ForFinish
    BY <2>15, ForFinishStep
  <2>16. CASE Jump
    BY <2>16, JumpStep
  <2>17. CASE Scan
    BY <2>17, ScanStep
  <2>18. CASE ScanFinish
    BY <2>18, ScanFinishStep
  <2>19. CASE Return
    BY <2>19, ReturnStep
  <2>20. CASE UNCHANGED vars
    BY <2>20, Unchanged
  <2> QED BY <2>1, <2>2, <2>3, <2>4, <2>5, <2>6, <2>7, <2>8, <2>9, <2>10, <2>11,
             <2>12, <2>13, <2>14, <2>15, <2>16, <2>17, <2>18, <2>19, <2>20, Zenon DEF Next
<1> QED BY <1>1, <1>2, PTL DEF Spec

(* In the code of every compiled program each phi stands first in its      *)
(* block and has exactly one incoming value for each block that branches   *)
(* there, however deep the operators && and || nest, and wherever in ifs,  *)
(* loops, scans and rows they stand.                                       *)
THEOREM PhisAlwaysMatch == Spec => []PhisMatch
<1>1. CodegenInv => PhisMatch
  BY DEF CodegenInv, PhiInv, PhiGood, PhisMatch
<1> QED BY <1>1, CodegenInvariant, PTL
=============================================================================
