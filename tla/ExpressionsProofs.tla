------------------------- MODULE ExpressionsProofs -------------------------
(***************************************************************************)
(* The three passes agree on every expression and statement that has a     *)
(* meaning and is no gap, and a gap stops the compilation: for any names,  *)
(* any nesting and programs of any size.                                   *)
(***************************************************************************)
EXTENDS Expressions, TLAPS

\* The values that the compiler can store.
Held(t) == t[1] \in {"i64", "string", "array", "struct"}

(* The types that a value can be taken out of t by indexing, t itself      *)
(* included, are held, and those of an integer or a string have the        *)
(* type_id of one.  An array has the type_id of its elements, however deep *)
(* they are: C is a set that indexing does not lead out of.                *)
Closed(C, id) ==
  \A c \in C : /\ Held(c)
               /\ c = I64 => id = "INTEGER"
               /\ c = Str => id = "STRING"
               /\ Is(c, "array") => c[2] \in C

Chain(t, id) == \E C : t \in C /\ Closed(C, id)

\* What can be said of a value of type t for which analyze answers type.
Typed(t, type) ==
  /\ Chain(t, type.id)
  /\ type.class \notin {"null", "rejected", "crash"}
  /\ Is(t, "array") => type.class = "array"
  /\ Is(t, "struct") /\ type.class = "tuple" =>
       \A m \in DOMAIN type.members :
         /\ type.members[m] \in {"INTEGER", "STRING"}
         /\ m \in DOMAIN t[2] => t[2][m] = convert_type(type.members[m])

Failed(t) == t \in {Bad, Throws}

\* The three passes give an expression what it ought to have.
Agrees(node, type, slot, val, want) ==
  /\ want[1] \in {"i1", "i64", "string", "void", "pointer", "array", "struct"}
  /\ val = want
  /\ ~Failed(slot)
  /\ type.class \notin {"rejected", "crash"}
  /\ Held(want) => slot = want /\ Typed(want, type)
  /\ Is(want, "i1") => /\ want = I1 /\ node = "Binary" /\ slot = I64
                       /\ type.class # "null" /\ type.id = "BOOL"

\* They do of an expression that has a meaning, and fail for a gap.
Sound(e) ==
  e.want # Ill =>
    IF e.gap THEN Failed(e.val)
    ELSE /\ Agrees(e.node, e.type, e.slot, e.val, e.want)
         /\ e.visit = Fine
         /\ e.stk => e.want = Void

\* A variable holds what can be stored.
SoundVariable(x) ==
  wants[x] # Ill =>
    Held(wants[x]) /\ slots[x] = wants[x] /\ Typed(wants[x], var_types[x])

SoundInv ==
  /\ DOMAIN slots = DOMAIN var_types /\ DOMAIN wants = DOMAIN var_types
  /\ \E S : exprs \in Seq(S)
  /\ status = "open" => /\ \A i \in DOMAIN exprs : Sound(exprs[i])
                        /\ \A x \in DOMAIN var_types : SoundVariable(x)

-----------------------------------------------------------------------------
(* Types *)

LEMMA Kinds ==
  /\ I1[1] = "i1" /\ I64[1] = "i64" /\ Str[1] = "string" /\ Void[1] = "void"
  /\ Bad[1] = "bad" /\ Throws[1] = "throws" /\ Ill[1] = "ill" /\ Fine[1] = "fine"
  /\ \A t : PointerTo(t)[1] = "pointer" /\ PointerTo(t)[2] = t
  /\ \A t, n : ArrayOf(t, n)[1] = "array" /\ ArrayOf(t, n)[2] = t
  /\ \A t : StructOf(t)[1] = "struct" /\ StructOf(t)[2] = t
  /\ \A t, x : RowOf(t, x)[1] = "struct" /\ RowOf(t, x)[2] = t
  BY Zenon DEF I1, I64, Str, Void, Bad, Throws, Ill, Fine, PointerTo, ArrayOf, StructOf, RowOf

\* A value that is no array.
LEMMA ChainOne ==
  ASSUME NEW t, NEW id, Held(t), ~Is(t, "array"),
         t = I64 => id = "INTEGER", t = Str => id = "STRING"
  PROVE  Chain(t, id)
<1>1. Closed({t}, id)
  BY Zenon DEF Closed
<1> QED
  BY <1>1, Zenon DEF Chain

\* An array of values that have a chain.
LEMMA ChainArray ==
  ASSUME NEW t, NEW id, NEW n, Chain(t, id)
  PROVE  Chain(ArrayOf(t, n), id)
<1>1. PICK C : t \in C /\ Closed(C, id)
  BY Zenon DEF Chain
<1>2. Closed(C \cup {ArrayOf(t, n)}, id)
  BY <1>1, Kinds DEF Closed, Held, Is
<1> QED
  BY <1>2, Zenon DEF Chain

\* An element of an array.
LEMMA ChainElement ==
  ASSUME NEW t, NEW id, Chain(t, id), Is(t, "array")
  PROVE  Held(t[2]) /\ Chain(t[2], id)
  BY Zenon DEF Chain, Closed

LEMMA ChainId ==
  ASSUME NEW t, NEW id, Chain(t, id)
  PROVE  (t = I64 => id = "INTEGER") /\ (t = Str => id = "STRING")
  BY Zenon DEF Chain, Closed

-----------------------------------------------------------------------------
(* Expressions *)

\* Strictly passes on what is neither an exception nor malformed.
LEMMA StrictlyOne ==
  ASSUME NEW s, NEW t, ~Failed(s)
  PROVE  Strictly(<<s>>, t) = t
  BY DEF Strictly, Failed

LEMMA StrictlyTwo ==
  ASSUME NEW r, NEW s, NEW t, ~Failed(r), ~Failed(s)
  PROVE  Strictly(<<r, s>>, t) = t
  BY DEF Strictly, Failed

LEMMA StrictlyAll ==
  ASSUME NEW ts, NEW t, \A i \in DOMAIN ts : ~Failed(ts[i])
  PROVE  Strictly(ts, t) = t
  BY Zenon DEF Strictly, Failed

\* It fails with its parts.
LEMMA StrictlyFails ==
  ASSUME NEW ts, NEW t, Failed(t) \/ \E i \in DOMAIN ts : Failed(ts[i])
  PROVE  Failed(Strictly(ts, t))
  BY Zenon DEF Strictly, Failed

LEMMA StrictlyTwoFails ==
  ASSUME NEW r, NEW s, NEW t, Failed(t) \/ Failed(r) \/ Failed(s)
  PROVE  Failed(Strictly(<<r, s>>, t))
  BY DEF Strictly, Failed

LEMMA StrictlyOneFails ==
  ASSUME NEW s, NEW t, Failed(t) \/ Failed(s)
  PROVE  Failed(Strictly(<<s>>, t))
  BY DEF Strictly, Failed

\* Analyzed passes on what is accepted.
LEMMA AnalyzedAll ==
  ASSUME NEW types, NEW type,
         \A i \in DOMAIN types : types[i].class \notin {"rejected", "crash"}
  PROVE  Analyzed(types, type) = type
<1>1. Rejected.class = "rejected" /\ Crash.class = "crash"
  BY DEF Rejected, Crash
<1> QED
  BY <1>1, Zenon DEF Analyzed

LEMMA AnalyzedOne ==
  ASSUME NEW s, NEW type, s.class \notin {"rejected", "crash"}
  PROVE  Analyzed(<<s>>, type) = type
<1> DEFINE types == <<s>>
<1>1. \A i \in DOMAIN types : types[i] = s
  OBVIOUS
<1> HIDE DEF types
<1>2. Analyzed(types, type) = type
  BY <1>1, AnalyzedAll, Zenon
<1> QED
  BY <1>2, Zenon DEF types

LEMMA AnalyzedTwo ==
  ASSUME NEW r, NEW s, NEW type, r.class \notin {"rejected", "crash"},
         s.class \notin {"rejected", "crash"}
  PROVE  Analyzed(<<r, s>>, type) = type
<1> DEFINE types == <<r, s>>
<1>1. \A i \in DOMAIN types : types[i] \in {r, s}
  OBVIOUS
<1> HIDE DEF types
<1>2. Analyzed(types, type) = type
  BY <1>1, AnalyzedAll, Zenon
<1> QED
  BY <1>2, Zenon DEF types

LEMMA NotNull ==
  ASSUME NEW type, type.class # "null"
  PROVE  Dereferenced(type) = type
  BY DEF Dereferenced, NullType

\* An operand that has a meaning.
LEMMA PartSound ==
  ASSUME NEW e, Sound(e), e.want \notin {Ill, Void}, ~e.gap
  PROVE  /\ e.val = e.want /\ ~Failed(e.val) /\ ~Failed(e.slot)
         /\ e.visit = Fine /\ ~e.stk
         /\ e.type.class \notin {"rejected", "crash"}
         /\ Held(e.want) => e.slot = e.want /\ Typed(e.want, e.type)
         /\ Storable(e.want) => e.want = I1 \/ Held(e.want)
         /\ ByAddress(e.val) => e.slot = e.val
<1>1. /\ Agrees(e.node, e.type, e.slot, e.val, e.want) /\ e.visit = Fine
      /\ e.stk => e.want = Void
  BY Zenon DEF Sound
<1>2. e.val = e.want /\ ~Failed(e.val)
  BY <1>1, Kinds DEF Agrees, Failed
<1>3. ByAddress(e.val) => Held(e.want)
  BY <1>2, Zenon DEF ByAddress, Held
<1>4. Storable(e.want) => e.want = I1 \/ Held(e.want)
  BY <1>1, Zenon DEF Agrees, Storable, Held, Is
<1> QED
  BY <1>1, <1>2, <1>3, <1>4, Zenon DEF Agrees

\* alloca_stack goes through what has a meaning.
LEMMA VisitFine ==
  ASSUME NEW node, NEW slot, NEW parts, ~Failed(slot),
         node \in {"ArrayRef", "Member"} => 1 \in DOMAIN parts,
         node = "Assign" => 2 \in DOMAIN parts,
         \A i \in DOMAIN parts :
           /\ parts[i].visit = Fine /\ ~Failed(parts[i].slot) /\ ~parts[i].stk
           /\ ByAddress(parts[i].val) => parts[i].slot = parts[i].val
  PROVE  each_value(node, slot, parts) = Fine
<1> DEFINE on == CASE node \in {"Array", "Call"} -> DOMAIN parts
                   [] node \in {"ArrayRef", "Member"} -> {1}
                   [] node = "Assign" -> {2}
                   [] OTHER -> {}
           types == CASE node \in {"Primary", "Binary", "Row"} -> {}
                      [] node = "Call" -> {parts[i].slot : i \in DOMAIN parts}
                      [] OTHER -> {slot}
           found == types \cup {parts[i].visit : i \in on}
           missed == \/ \E i \in DOMAIN parts \ on : parts[i].stk
                     \/ /\ node = "Call"
                        /\ \E i \in DOMAIN parts :
                             ByAddress(parts[i].val) /\ parts[i].slot # parts[i].val
<1>1. \A i \in on : i \in DOMAIN parts
  <2>1. CASE node \in {"Array", "Call"}
    BY <2>1, Zenon
  <2>2. CASE node \in {"ArrayRef", "Member"}
    BY <2>2
  <2>3. CASE node = "Assign"
    BY <2>3
  <2>4. CASE node \notin {"Array", "Call", "ArrayRef", "Member", "Assign"}
    BY <2>4
  <2> QED
    BY <2>1, <2>2, <2>3, <2>4, Zenon
<1>2. \A t \in types : ~Failed(t)
  <2>1. CASE node \in {"Primary", "Binary", "Row"}
    BY <2>1
  <2>2. CASE node = "Call"
    BY <2>2
  <2>3. CASE node \notin {"Primary", "Binary", "Row", "Call"}
    BY <2>3
  <2> QED
    BY <2>1, <2>2, <2>3, Zenon
<1>3. ~Failed(Fine)
  BY Kinds DEF Failed
<1> HIDE DEF on, types
<1>4. \A t \in found : ~Failed(t)
  BY <1>1, <1>2, <1>3, Zenon
<1>5. ~missed
  BY Zenon
<1>6. each_value(node, slot, parts) =
        IF Throws \in found THEN Throws
        ELSE IF missed \/ Bad \in found THEN Bad ELSE Fine
  BY Zenon DEF each_value, on, types
<1> HIDE DEF found, missed
<1> QED
  BY <1>4, <1>5, <1>6, Zenon DEF Failed

\* What is to be shown of each construct: it fails with a gap, and agrees
\* without one.
LEMMA NodeSound ==
  ASSUME NEW node, NEW type, NEW slot, NEW val, NEW want, NEW gap, NEW parts,
         node \in {"ArrayRef", "Member"} => 1 \in DOMAIN parts,
         node = "Assign" => 2 \in DOMAIN parts,
         \A i \in DOMAIN parts : Sound(parts[i]),
         want # Ill => \A i \in DOMAIN parts : parts[i].want \notin {Ill, Void},
         want # Ill /\ (gap \/ \E i \in DOMAIN parts : parts[i].gap) => Failed(val),
         want # Ill /\ ~gap /\ (\A i \in DOMAIN parts : ~parts[i].gap) =>
           Agrees(node, type, slot, val, want),
         node = "Call" /\ want \notin {Ill, Void} =>
           \A i \in DOMAIN parts : ~ByAddress(parts[i].want)
  PROVE  Sound(Node(node, type, slot, val, want, gap, parts))
<1> DEFINE e == Node(node, type, slot, val, want, gap, parts)
<1>1. /\ e.node = node /\ e.type = type /\ e.slot = slot
      /\ e.val = val /\ e.want = want
      /\ e.visit = each_value(node, slot, parts)
      /\ e.gap = (gap \/ \E i \in DOMAIN parts : parts[i].gap)
      /\ e.stk = \E i \in DOMAIN parts :
                   parts[i].stk \/ (node = "Call" /\ ByAddress(parts[i].val))
  BY Zenon DEF Node
<1> HIDE DEF e
<1> SUFFICES Sound(e)
  BY Zenon DEF e
<1> SUFFICES ASSUME want # Ill PROVE Sound(e)
  BY <1>1, Zenon DEF Sound
<1>2. CASE e.gap
  BY <1>1, <1>2, Zenon DEF Sound
<1>3. CASE ~e.gap
  <2>1. ~gap /\ \A i \in DOMAIN parts : ~parts[i].gap
    BY <1>1, <1>3, Zenon
  <2>2. Agrees(node, type, slot, val, want)
    BY <2>1, Zenon
  <2>3. \A i \in DOMAIN parts :
          /\ parts[i].visit = Fine /\ ~Failed(parts[i].slot) /\ ~parts[i].stk
          /\ parts[i].val = parts[i].want
          /\ ByAddress(parts[i].val) => parts[i].slot = parts[i].val
    BY <2>1, PartSound, Zenon
  <2>4. e.visit = Fine
    <3>1. ~Failed(slot)
      BY <2>2, Zenon DEF Agrees
    <3>2. each_value(node, slot, parts) = Fine
      BY <2>3, <3>1, VisitFine, SMT
    <3> QED
      BY <1>1, <3>2, Zenon
  <2>5. e.stk => e.want = Void
    BY <1>1, <2>3, Zenon
  <2> QED
    BY <1>1, <1>3, <2>2, <2>4, <2>5, Zenon DEF Sound
<1> QED
  BY <1>2, <1>3, Zenon

-----------------------------------------------------------------------------
(* Expressions *)

LEMMA PrimaryAgrees ==
  ASSUME NEW node
  PROVE  /\ Agrees(node, Primary("INTEGER"), I64, I64, I64)
         /\ Agrees(node, Primary("STRING"), Str, Str, Str)
<1>1. Typed(I64, Primary("INTEGER"))
  BY Kinds, ChainOne DEF Typed, Primary, Held, Is
<1>2. Typed(Str, Primary("STRING"))
  BY Kinds, ChainOne DEF Typed, Primary, Held, Is
<1>3. Agrees(node, Primary("INTEGER"), I64, I64, I64)
  BY <1>1, Kinds DEF Agrees, Failed, Primary, Is
<1>4. Agrees(node, Primary("STRING"), Str, Str, Str)
  BY <1>2, Kinds DEF Agrees, Failed, Primary, Is
<1> QED
  BY <1>3, <1>4, Zenon

\* A node without parts.
LEMMA LeafSound ==
  ASSUME NEW node \in {"Primary", "Variable"}, NEW type, NEW slot, NEW want,
         want # Ill => Agrees(node, type, slot, slot, want)
  PROVE  Sound(Node(node, type, slot, slot, want, FALSE, <<>>))
<1> DEFINE none == <<>>
<1>1. DOMAIN none = {}
  OBVIOUS
<1>2. node \notin {"ArrayRef", "Member", "Assign", "Call"}
  OBVIOUS
<1> HIDE DEF none
<1>3. Sound(Node(node, type, slot, slot, want, FALSE, none))
  BY <1>1, <1>2, NodeSound, Zenon
<1> QED
  BY <1>3, Zenon DEF none

LEMMA LiteralSound == Sound(Literal) /\ Sound(StringLiteral)
  BY PrimaryAgrees, LeafSound, Zenon DEF Literal, StringLiteral

LEMMA VariableSound ==
  ASSUME NEW x, x \in DOMAIN var_types => SoundVariable(x)
  PROVE  Sound(Variable(x))
<1>1. CASE x \in DOMAIN var_types
  <2>1. SoundVariable(x)
    BY <1>1, Zenon
  <2>2. wants[x] # Ill =>
          Agrees("Variable", var_types[x], slots[x], slots[x], wants[x])
    BY <2>1, Kinds DEF SoundVariable, Agrees, Typed, Held, Failed, Is
  <2> QED
    BY <1>1, <2>2, LeafSound, Zenon DEF Variable
<1>2. CASE x \notin DOMAIN var_types
  BY <1>2, LeafSound, Zenon DEF Variable
<1> QED
  BY <1>1, <1>2, Zenon

LEMMA OneSound ==
  ASSUME NEW node, NEW type, NEW slot, NEW val, NEW want, NEW gap, NEW e,
         node \notin {"Assign", "Call"}, Sound(e),
         want # Ill => e.want \notin {Ill, Void},
         want # Ill /\ (gap \/ e.gap) => Failed(val),
         want # Ill /\ ~gap /\ ~e.gap => Agrees(node, type, slot, val, want)
  PROVE  Sound(Node(node, type, slot, val, want, gap, <<e>>))
<1> DEFINE parts == <<e>>
<1>1. DOMAIN parts = {1} /\ parts[1] = e
  OBVIOUS
<1> HIDE DEF parts
<1>2. /\ \A i \in DOMAIN parts : parts[i] = e
      /\ 1 \in DOMAIN parts
  BY <1>1
<1>3. Sound(Node(node, type, slot, val, want, gap, parts))
  BY <1>2, NodeSound, SMT
<1> QED
  BY <1>3, Zenon DEF parts

LEMMA TwoSound ==
  ASSUME NEW node, NEW type, NEW slot, NEW val, NEW want, NEW gap, NEW l, NEW r,
         node # "Call", Sound(l), Sound(r),
         want # Ill => l.want \notin {Ill, Void} /\ r.want \notin {Ill, Void},
         want # Ill /\ (gap \/ l.gap \/ r.gap) => Failed(val),
         want # Ill /\ ~gap /\ ~l.gap /\ ~r.gap =>
           Agrees(node, type, slot, val, want)
  PROVE  Sound(Node(node, type, slot, val, want, gap, <<l, r>>))
<1> DEFINE parts == <<l, r>>
<1>1. DOMAIN parts = {1, 2} /\ parts[1] = l /\ parts[2] = r
  OBVIOUS
<1> HIDE DEF parts
<1>2. /\ \A i \in DOMAIN parts : parts[i] = l \/ parts[i] = r
      /\ 1 \in DOMAIN parts /\ 2 \in DOMAIN parts
  BY <1>1
<1>3. Sound(Node(node, type, slot, val, want, gap, parts))
  BY <1>1, <1>2, NodeSound, SMT
<1> QED
  BY <1>3, Zenon DEF parts

LEMMA PointerSound ==
  ASSUME NEW e, Sound(e)
  PROVE  Sound(PointerOf(e))
<1> DEFINE s == Unanalyzed(e, e.slot)
           v == Unanalyzed(e, e.val)
           slot == Strictly(<<s>>, IF s # Void THEN PointerTo(s) ELSE Bad)
           val == Strictly(<<v>>, IF Loaded(e) THEN PointerTo(v) ELSE Bad)
           meant == Assignable(e) /\ Storable(e.want)
           want == IF meant THEN PointerTo(e.want) ELSE Ill
<1>1. meant => e.want \notin {Ill, Void}
  BY Kinds DEF Storable
<1>2. ASSUME e.member \/ (meant /\ e.gap) PROVE Failed(val)
  <2>1. Failed(v)
    BY <1>1, <1>2, Zenon DEF Unanalyzed, Failed, Sound
  <2> QED
    BY <2>1, StrictlyOneFails, Zenon
<1>3. ASSUME meant, ~e.member, ~e.gap PROVE Agrees("Pointer", NullType, slot, val, want)
  <2>1. /\ s = e.slot /\ v = e.val /\ e.val = e.want
        /\ ~Failed(s) /\ ~Failed(v)
    BY <1>1, <1>3, PartSound, Zenon DEF Unanalyzed
  <2>2. e.want # I1
    <3>1. Agrees(e.node, e.type, e.slot, e.val, e.want)
      BY <1>1, <1>3, Zenon DEF Sound
    <3> QED
      BY <1>3, <3>1, Kinds DEF Agrees, Is, Assignable
  <2>3. e.slot = e.want
    BY <1>1, <1>3, <2>2, PartSound, Zenon
  <2>4. Loaded(e)
    BY <1>3, Zenon DEF Loaded, Assignable
  <2>5. slot = PointerTo(e.want) /\ val = PointerTo(e.want) /\ want = PointerTo(e.want)
    BY <1>1, <1>3, <2>1, <2>3, <2>4, StrictlyOne, Zenon
  <2> HIDE DEF slot, val, want
  <2> QED
    BY <2>5, Kinds DEF Agrees, Failed, Held, Is, NullType
<1>4. Sound(Node("Pointer", NullType, slot, val, want, e.member, <<e>>))
  <2>1. "Pointer" \notin {"Assign", "Call"}
    OBVIOUS
  <2>2. want # Ill => meant
    BY Zenon
  <2> HIDE DEF slot, val, want, meant
  <2> QED
    BY <1>1, <1>2, <1>3, <2>1, <2>2, OneSound
<1> QED
  BY <1>4, Zenon DEF PointerOf

LEMMA BinarySound ==
  ASSUME NEW l, NEW r, NEW op \in Operators, Sound(l), Sound(r)
  PROVE  Sound(Binary(l, op, r))
<1> DEFINE type == operate(l.type, r.type, op)
           same == IF l.slot = r.slot THEN l.slot ELSE Throws
           result == CASE op \in Conditional ->
                           IF {to_i1(l.val), to_i1(r.val)} = {I1} THEN I1 ELSE Bad
                      [] op \in Arithmetic ->
                           IF {l.val, r.val} = {I64} THEN I64 ELSE Bad
                      [] OTHER -> IF {l.val, r.val} = {I64} THEN I1 ELSE Bad
           strings == {l.want, r.want} = {Str}
           want == CASE op \in Conditional ->
                         IF {l.want, r.want} \subseteq {I1, I64} THEN I1 ELSE Ill
                     [] op \in Arithmetic ->
                         IF {l.want, r.want} = {I64} THEN I64
                         ELSE IF strings /\ op = "PLUS" THEN Str ELSE Ill
                     [] OTHER ->
                         IF {l.want, r.want} = {I64} \/ strings THEN I1 ELSE Ill
           analyzed == Analyzed(<<Dereferenced(l.type), Dereferenced(r.type)>>, type)
           slot == Strictly(<<l.slot, r.slot>>, same)
           val == Strictly(<<l.val, r.val>>, result)
<1>1. \/ op \in Conditional /\ op \notin Arithmetic
      \/ op \in Arithmetic /\ op \notin Conditional
      \/ op = "LESSTHAN" /\ op \notin Conditional /\ op \notin Arithmetic
  BY DEF Operators, Conditional, Arithmetic
<1>2. ASSUME want # Ill
      PROVE  \/ {l.want, r.want} \subseteq {I1, I64}
             \/ op \notin Conditional /\ l.want = Str /\ r.want = Str
  BY <1>1, <1>2
<1>3. want # Ill => l.want \notin {Ill, Void} /\ r.want \notin {Ill, Void}
  BY <1>2, Kinds
<1>4. ASSUME want # Ill, strings \/ l.gap \/ r.gap PROVE Failed(val)
  <2>1. CASE l.gap \/ r.gap
    <3>1. Failed(l.val) \/ Failed(r.val)
      BY <1>3, <1>4, <2>1, Zenon DEF Sound
    <3> QED
      BY <3>1, StrictlyTwoFails, Zenon
  <2>2. CASE ~l.gap /\ ~r.gap
    <3>1. l.val = Str /\ r.val = Str
      BY <1>3, <1>4, <2>2, PartSound
    <3>2. op \notin Conditional /\ I64 # Str
      BY <1>2, <1>4, <2>2, Kinds
    <3>3. result = Bad
      BY <1>1, <3>1, <3>2
    <3> HIDE DEF result
    <3>4. Failed(result)
      BY <3>3, Zenon DEF Failed
    <3> QED
      BY <3>4, StrictlyTwoFails, Zenon
  <2> QED
    BY <2>1, <2>2, Zenon
<1>5. ASSUME want # Ill, ~strings, ~l.gap, ~r.gap
      PROVE  Agrees("Binary", analyzed, slot, val, want)
  <2>1. \A e \in {l, r} :
          /\ e.want \in {I1, I64} /\ e.val = e.want /\ ~Failed(e.val)
          /\ e.slot = I64 /\ e.type.class \notin {"null", "rejected", "crash"}
          /\ e.want = I64 => e.type.id = "INTEGER" /\ Typed(I64, e.type)
          /\ e.want = I1 => e.type.id = "BOOL"
    <3> SUFFICES ASSUME NEW e \in {l, r}
                 PROVE  /\ e.want \in {I1, I64} /\ e.val = e.want /\ ~Failed(e.val)
                        /\ e.slot = I64
                        /\ e.type.class \notin {"null", "rejected", "crash"}
                        /\ e.want = I64 => e.type.id = "INTEGER" /\ Typed(I64, e.type)
                        /\ e.want = I1 => e.type.id = "BOOL"
      BY Zenon
    <3>1. Sound(e) /\ ~e.gap /\ e.want \in {I1, I64}
      BY <1>2, <1>5
    <3>2. e.want \notin {Ill, Void}
      BY <3>1, Kinds
    <3>3. Agrees(e.node, e.type, e.slot, e.val, e.want) /\ ~Failed(e.val)
      BY <3>1, <3>2, PartSound, Zenon DEF Sound
    <3>4. CASE e.want = I1
      BY <3>3, <3>4, Kinds DEF Agrees, Is
    <3>5. CASE e.want = I64
      <4>1. e.slot = I64 /\ Typed(I64, e.type) /\ e.val = I64
        BY <3>3, <3>5, Kinds DEF Agrees, Held
      <4>2. e.type.id = "INTEGER" /\ e.type.class \notin {"null", "rejected", "crash"}
        BY <4>1, ChainId DEF Typed
      <4> QED
        BY <3>3, <3>5, <4>1, <4>2, Kinds
    <3> QED
      BY <3>1, <3>4, <3>5, Zenon
  <2>2. val = result /\ slot = I64
    <3>1. ~Failed(l.val) /\ ~Failed(r.val) /\ ~Failed(l.slot) /\ ~Failed(r.slot)
      BY <2>1, Kinds DEF Failed
    <3>2. same = I64
      BY <2>1, Zenon
    <3> HIDE DEF same, result
    <3>3. val = result
      BY <3>1, StrictlyTwo, ZenonT(30)
    <3>4. slot = same
      BY <3>1, StrictlyTwo, Zenon
    <3> QED
      BY <3>2, <3>3, <3>4, Zenon
  <2>3. analyzed = type
    <3>1. Dereferenced(l.type) = l.type /\ Dereferenced(r.type) = r.type
      BY <2>1, NotNull, Zenon
    <3> HIDE DEF type
    <3> QED
      BY <2>1, <3>1, AnalyzedTwo, Zenon
  <2>4. CASE want = I1
    <3>1. result = I1
      <4>1. to_i1(l.val) = I1 /\ to_i1(r.val) = I1
        BY <2>1, Zenon DEF to_i1
      <4>2. CASE op \in Conditional
        <5>1. {to_i1(l.val), to_i1(r.val)} = {I1}
          BY <4>1, Zenon
        <5> QED
          BY <1>1, <4>2, <5>1
      <4>3. CASE op = "LESSTHAN" /\ op \notin Conditional /\ op \notin Arithmetic
        <5>1. l.want = I64 /\ r.want = I64
          BY <1>5, <4>3
        <5>2. l.val = I64 /\ r.val = I64
          BY <2>1, <5>1, Zenon
        <5> QED
          BY <4>3, <5>2
      <4>4. ~(op \in Arithmetic /\ op \notin Conditional)
        BY <2>4, Kinds
      <4> QED
        BY <1>1, <4>2, <4>3, <4>4, Zenon
    <3>2. type = Primary("BOOL")
      <4>1. CASE op \in Conditional
        <5>1. l.type.id \in {"INTEGER", "BOOL"} /\ r.type.id \in {"INTEGER", "BOOL"}
          BY <2>1, Zenon
        <5> QED
          BY <4>1, <5>1, Zenon DEF operate, Arithmetic, Conditional
      <4>2. CASE op = "LESSTHAN" /\ op \notin Conditional /\ op \notin Arithmetic
        <5>1. l.want = I64 /\ r.want = I64
          BY <1>5, <4>2
        <5>2. l.type.id = "INTEGER" /\ r.type.id = "INTEGER"
          BY <2>1, <5>1, Zenon
        <5> QED
          BY <4>2, <5>2, Zenon DEF operate, Arithmetic, Conditional
      <4>3. ~(op \in Arithmetic /\ op \notin Conditional)
        BY <2>4, Kinds
      <4> QED
        BY <1>1, <4>1, <4>2, <4>3, Zenon
    <3> HIDE DEF type, result, want, analyzed, val, slot
    <3> QED
      BY <2>2, <2>3, <2>4, <3>1, <3>2, Kinds DEF Agrees, Primary, Failed, Held, Is
  <2>5. CASE want # I1
    <3>1. want = I64 /\ op \in Arithmetic /\ l.want = I64 /\ r.want = I64
      BY <1>1, <1>2, <1>5, <2>5
    <3>2. result = I64
      BY <1>1, <2>1, <3>1
    <3>3. type = l.type
      <4>1. l.type.id = "INTEGER" /\ r.type.id = "INTEGER"
        BY <2>1, <3>1, Zenon
      <4> QED
        BY <3>1, <4>1, Zenon DEF operate, Arithmetic, Conditional
    <3> HIDE DEF type, result, want, analyzed, val, slot
    <3> QED
      BY <2>1, <2>2, <2>3, <3>1, <3>2, <3>3, Kinds DEF Agrees, Failed, Is
  <2> QED
    BY <2>4, <2>5, Zenon
<1>6. Sound(Node("Binary", analyzed, slot, val, want, strings, <<l, r>>))
  <2> HIDE DEF analyzed, slot, val, want, strings
  <2> QED
    BY <1>3, <1>4, <1>5, TwoSound
<1> QED
  BY <1>6, Zenon DEF Binary

LEMMA RowSound ==
  ASSUME NEW S, NEW es \in Seq(S), \A i \in DOMAIN es : Sound(es[i])
  PROVE  Sound(RowLiteral(es))
<1> DEFINE types == [i \in DOMAIN es |-> Dereferenced(es[i].type)]
           typed == \A i \in DOMAIN es : es[i].slot # Void
           slot == Strictly(Slots(es), IF typed THEN StructOf(Slots(es)) ELSE Bad)
           filled(e) == IF Is(e.val, "pointer") THEN e.val[2] ELSE e.val
           fits == \A i \in DOMAIN es : filled(es[i]) = es[i].slot
           row == Strictly(<<slot>>, IF fits THEN slot ELSE Bad)
           val == Strictly(Values(es), row)
           held == \A i \in DOMAIN es : Storable(es[i].want)
           want == IF held THEN StructOf(Wants(es)) ELSE Ill
           gap == \E i \in DOMAIN es : es[i].want = I1
           w == StructOf(Wants(es))
<1>1. held => \A i \in DOMAIN es : es[i].want \notin {Ill, Void}
  BY Kinds, Zenon DEF Storable
<1>2. DOMAIN Values(es) = DOMAIN es /\ \A i \in DOMAIN es : Values(es)[i] = es[i].val
  BY Zenon DEF Values
<1>3. ASSUME held, \E i \in DOMAIN es : es[i].gap PROVE Failed(val)
  <2>1. PICK i \in DOMAIN es : es[i].gap
    BY <1>3, Zenon
  <2>2. Failed(es[i].val)
    BY <1>1, <1>3, <2>1, Zenon DEF Sound
  <2> HIDE DEF row
  <2> QED
    BY <1>2, <2>2, StrictlyFails, Zenon
<1>4. ASSUME held, \A i \in DOMAIN es : ~es[i].gap
      PROVE  \A i \in DOMAIN es :
               /\ es[i].val = es[i].want /\ ~Failed(es[i].val)
               /\ ~Failed(es[i].slot) /\ ~Is(es[i].val, "pointer")
               /\ es[i].want = I1 => es[i].slot = I64
               /\ es[i].want # I1 => /\ es[i].slot = es[i].want
                                     /\ Held(es[i].want) /\ Typed(es[i].want, es[i].type)
  <2> SUFFICES ASSUME NEW i \in DOMAIN es
               PROVE  /\ es[i].val = es[i].want /\ ~Failed(es[i].val)
                      /\ ~Failed(es[i].slot) /\ ~Is(es[i].val, "pointer")
                      /\ es[i].want = I1 => es[i].slot = I64
                      /\ es[i].want # I1 => /\ es[i].slot = es[i].want
                                            /\ Held(es[i].want)
                                            /\ Typed(es[i].want, es[i].type)
    BY Zenon
  <2> DEFINE e == es[i]
  <2>1. Sound(e) /\ ~e.gap /\ e.want \notin {Ill, Void} /\ Storable(e.want)
    BY <1>1, <1>4, Zenon
  <2> HIDE DEF e
  <2>2. /\ e.val = e.want /\ ~Failed(e.val) /\ ~Failed(e.slot)
        /\ e.want # I1 => e.slot = e.want /\ Held(e.want) /\ Typed(e.want, e.type)
    BY <2>1, PartSound, Zenon
  <2>3. ~Is(e.val, "pointer")
    BY <2>1, <2>2 DEF Storable, Is
  <2>4. e.want = I1 => e.slot = I64
    BY <2>1, Kinds, Zenon DEF Sound, Agrees, Is
  <2> QED
    BY <2>2, <2>3, <2>4, Zenon DEF e
<1>5. ASSUME held, gap \/ \E i \in DOMAIN es : es[i].gap PROVE Failed(val)
  <2>1. CASE \E i \in DOMAIN es : es[i].gap
    BY <1>3, <1>5, <2>1, Zenon
  <2>2. CASE \A i \in DOMAIN es : ~es[i].gap
    <3>1. PICK i \in DOMAIN es : es[i].want = I1
      BY <1>5, <2>2, Zenon
    <3>2. filled(es[i]) # es[i].slot
      BY <1>4, <1>5, <2>2, <3>1, Kinds, Zenon
    <3>3. Failed(Bad) /\ ~fits
      BY <3>2, Zenon DEF Failed
    <3> HIDE DEF fits, slot
    <3>4. Failed(row)
      BY <3>3, StrictlyOneFails, Zenon
    <3> HIDE DEF row
    <3> QED
      BY <3>4, StrictlyFails, Zenon
  <2> QED
    BY <2>1, <2>2, Zenon
<1>6. ASSUME held, ~gap, \A i \in DOMAIN es : ~es[i].gap
      PROVE  Agrees("Row", Analyzed(types, LiteralType), slot, val, want)
  <2>1. \A i \in DOMAIN es :
          /\ es[i].val = es[i].want /\ ~Failed(es[i].want)
          /\ es[i].slot = es[i].want /\ es[i].want # Void
          /\ Typed(es[i].want, es[i].type) /\ filled(es[i]) = es[i].slot
    BY <1>1, <1>4, <1>6, Zenon
  <2>2. /\ Slots(es) = Wants(es) /\ Values(es) = Wants(es)
        /\ DOMAIN Wants(es) = DOMAIN es
        /\ \A i \in DOMAIN es : Wants(es)[i] = es[i].want
    BY <2>1, Zenon DEF Slots, Wants, Values
  <2>3. \A t : Strictly(Wants(es), t) = t
    BY <2>1, <2>2, StrictlyAll, Zenon
  <2>4. w[1] = "struct" /\ ~Failed(w)
    BY Kinds DEF Failed
  <2>5. typed /\ fits
    BY <2>1, Zenon
  <2>6. slot = w /\ want = w
    BY <1>6, <2>2, <2>3, <2>5, Zenon
  <2>7. val = w
    <3> HIDE DEF slot, fits, w
    <3> QED
      BY <2>2, <2>3, <2>4, <2>5, <2>6, StrictlyOne, Zenon
  <2>8. Analyzed(types, LiteralType) = LiteralType
    <3>1. \A i \in DOMAIN types : types[i].class \notin {"rejected", "crash"}
      <4>1. \A i \in DOMAIN es : es[i].type.class \notin {"null", "rejected", "crash"}
        BY <2>1, Zenon DEF Typed
      <4>2. \A i \in DOMAIN es : Dereferenced(es[i].type) = es[i].type
        BY <4>1, NotNull, Zenon
      <4> QED
        BY <4>1, <4>2, Zenon
    <3> HIDE DEF types
    <3> QED
      BY <3>1, AnalyzedAll, Zenon
  <2> HIDE DEF w, slot, val, want, types
  <2>9. Typed(w, LiteralType)
    <3>1. Chain(w, LiteralType.id)
      BY <2>4, Kinds, ChainOne DEF Held, Is
    <3> QED
      BY <2>4, <3>1 DEF Typed, LiteralType, Is
  <2> QED
    BY <2>4, <2>6, <2>7, <2>8, <2>9, Kinds DEF Agrees, LiteralType, Is
<1>7. Sound(Node("Row", Analyzed(types, LiteralType), slot, val, want, gap, es))
  <2>1. "Row" \notin {"ArrayRef", "Member", "Assign", "Call"}
    OBVIOUS
  <2>2. want # Ill => held
    BY Zenon
  <2> HIDE DEF types, slot, val, want, held, gap
  <2> QED
    BY <1>1, <1>5, <1>6, <2>1, <2>2, NodeSound
<1> QED
  BY <1>7, Zenon DEF RowLiteral

LEMMA ArraySound ==
  ASSUME NEW S, NEW es \in Seq(S), 1 \in DOMAIN es,
         \A i \in DOMAIN es : Sound(es[i])
  PROVE  Sound(ArrayLiteral(es))
<1> DEFINE first == es[1]
           t == first.want
           type == Analyzed(<<Dereferenced(first.type)>>, ArrayType(first.type.id))
           slot == Strictly(<<first.slot>>,
                            IF first.slot # Void THEN ArrayOf(first.slot, Len(es))
                            ELSE Bad)
           vals == [i \in DOMAIN es |->
                      IF i = 1 THEN first.val ELSE Unanalyzed(es[i], es[i].val)]
           fits == \A i \in DOMAIN es : es[i].val = first.slot
           array == Strictly(<<slot>>, IF fits THEN slot ELSE Bad)
           val == Strictly(vals, array)
           alike == Storable(t) /\ \A i \in DOMAIN es : Alike(es[i].want, t)
           want == IF alike THEN ArrayOf(t, Len(es)) ELSE Ill
           differ == \E i \in DOMAIN es \ {1} : es[i].member \/ es[i].want # t
           gap == t = I1 \/ differ
           w == ArrayOf(t, Len(es))
<1>1. alike => \A i \in DOMAIN es : es[i].want \notin {Ill, Void}
  <2>1. \A u : Scanned(u) => u \notin {Ill, Void}
    BY Kinds, Zenon DEF Scanned, Is
  <2>2. Storable(t) => t \notin {Ill, Void}
    BY Kinds, Zenon DEF Storable
  <2> HIDE DEF t
  <2> QED
    BY <2>1, <2>2, Zenon DEF Alike
<1>2. DOMAIN vals = DOMAIN es
  BY Zenon
<1>3. ASSUME NEW i \in DOMAIN es, Failed(es[i].val) \/ (i # 1 /\ es[i].member)
      PROVE  Failed(val)
  <2>1. Failed(vals[i])
    BY <1>3, Zenon DEF Unanalyzed, Failed
  <2> HIDE DEF vals, array
  <2> QED
    BY <1>2, <2>1, StrictlyFails, Zenon
<1>4. ASSUME ~fits PROVE Failed(val)
  <2>1. Failed(Bad)
    BY Zenon DEF Failed
  <2> HIDE DEF fits, slot
  <2>2. Failed(array)
    BY <1>4, <2>1, StrictlyOneFails, Zenon
  <2> HIDE DEF array, vals
  <2> QED
    BY <2>2, StrictlyFails, Zenon
<1>5. ASSUME alike, gap \/ \E i \in DOMAIN es : es[i].gap PROVE Failed(val)
  <2>1. CASE \E i \in DOMAIN es : es[i].gap
    <3>1. PICK i \in DOMAIN es : es[i].gap
      BY <2>1, Zenon
    <3>2. Failed(es[i].val)
      BY <1>1, <1>5, <3>1, Zenon DEF Sound
    <3> HIDE DEF val
    <3> QED
      BY <1>3, <3>2, Zenon
  <2>2. CASE \A i \in DOMAIN es : ~es[i].gap
    <3>1. \A i \in DOMAIN es : es[i].val = es[i].want
      BY <1>1, <1>5, <2>2, PartSound, Zenon
    <3>2. CASE t = I1
      <4>1. Sound(first) /\ ~first.gap /\ t # Ill
        BY <1>1, <1>5, <2>2, Zenon
      <4>2. first.slot = I64
        BY <3>2, <4>1, Kinds, Zenon DEF Sound, Agrees, Is
      <4>3. first.val # first.slot
        BY <3>1, <3>2, <4>2, Kinds
      <4> HIDE DEF val
      <4> QED
        BY <1>4, <4>3, Zenon
    <3>3. CASE t # I1
      <4>1. first.slot = t
        BY <1>1, <1>5, <2>2, <3>3, PartSound, Zenon
      <4>2. PICK i \in DOMAIN es \ {1} : es[i].member \/ es[i].want # t
        BY <1>5, <2>2, <3>3, Zenon
      <4>3. CASE es[i].member
        <5> HIDE DEF val
        <5> QED
          BY <1>3, <4>2, <4>3, Zenon
      <4>4. CASE es[i].want # t
        <5>1. ~fits
          BY <3>1, <4>1, <4>2, <4>4, Zenon
        <5> HIDE DEF val, fits
        <5> QED
          BY <1>4, <5>1, Zenon
      <4> QED
        BY <4>2, <4>3, <4>4, Zenon
    <3> QED
      BY <3>2, <3>3, Zenon
  <2> QED
    BY <2>1, <2>2, Zenon
<1>6. ASSUME alike, ~gap, \A i \in DOMAIN es : ~es[i].gap
      PROVE  Agrees("Array", type, slot, val, want)
  <2>1. /\ first.slot = t /\ Held(t) /\ Typed(t, first.type)
        /\ ~Failed(t) /\ t # Void
    BY <1>1, <1>6, PartSound, Zenon
  <2>2. \A i \in DOMAIN es : es[i].val = t
    BY <1>1, <1>6, PartSound, Zenon
  <2>3. w[1] = "array" /\ ~Failed(w)
    BY Kinds DEF Failed
  <2>4. slot = w /\ want = w
    BY <1>6, <2>1, StrictlyOne, Zenon
  <2>5. val = w
    <3>1. \A i \in DOMAIN es : vals[i] = t
      BY <1>6, <2>2, Zenon DEF Unanalyzed
    <3>2. fits
      BY <2>1, <2>2, Zenon
    <3> HIDE DEF t, w, vals, fits, slot
    <3>3. array = w
      BY <2>3, <2>4, <3>2, StrictlyOne, Zenon
    <3> HIDE DEF array
    <3> QED
      BY <1>2, <2>1, <3>1, <3>3, StrictlyAll, Zenon
  <2>6. type = ArrayType(first.type.id)
    <3>1. first.type.class \notin {"null", "rejected", "crash"}
      BY <2>1, Zenon DEF Typed
    <3>2. Dereferenced(first.type) = first.type
      BY <3>1, NotNull, Zenon
    <3> QED
      BY <3>1, <3>2, AnalyzedOne, Zenon
  <2>7. Chain(w, first.type.id)
    BY <2>1, ChainArray, Zenon DEF Typed
  <2> HIDE DEF w, t, slot, val, want, type, first
  <2>8. Typed(w, type)
    BY <2>3, <2>6, <2>7 DEF Typed, ArrayType, Is
  <2> QED
    BY <2>3, <2>4, <2>5, <2>6, <2>8, Kinds DEF Agrees, ArrayType, Is
<1>7. Sound(Node("Array", type, slot, val, want, gap, es))
  <2>1. "Array" \notin {"ArrayRef", "Member", "Assign", "Call"}
    OBVIOUS
  <2>2. want # Ill => alike
    BY Zenon
  <2> HIDE DEF type, slot, val, want, alike, gap
  <2> QED
    BY <1>1, <1>5, <1>6, <2>1, <2>2, NodeSound
<1> QED
  BY <1>7, Zenon DEF ArrayLiteral

\* What is passed for a value that failed has failed.
LEMMA ArgumentFails ==
  ASSUME NEW t
  PROVE  /\ Failed(t) => Failed(Argument(t))
         /\ Argument(Void) = Throws
         /\ ByAddress(t) => Argument(t) = PointerTo(t)
<1>1. Argument(Bad) = Bad /\ Argument(Throws) = Throws /\ Argument(Void) = Throws
  BY Kinds DEF Argument, Is
<1>2. ByAddress(t) => Argument(t) = PointerTo(t)
  BY Kinds DEF Argument, Is, ByAddress
<1> QED
  BY <1>1, <1>2, Zenon DEF Failed

LEMMA CallSound ==
  ASSUME NEW S, NEW es \in Seq(S), NEW f \in DOMAIN Signature,
         \A i \in DOMAIN es : Sound(es[i])
  PROVE  Sound(FunctionCall(f, es))
<1> DEFINE args == [i \in DOMAIN es |-> Argument(es[i].val)]
           meant == [i \in DOMAIN es |->
                       IF Is(es[i].want, "ill") THEN Ill ELSE Argument(es[i].want)]
           result == IF args = Signature[f] THEN ReturnType[f] ELSE Bad
           val == Strictly(args, result)
           ok == meant = Signature[f]
           want == IF ok THEN ReturnType[f] ELSE Ill
           type == Analyzed(Types(es), Primary("INTEGER"))
<1>1. f \in {"rand", "print_int", "print_string"}
  BY Zenon DEF Signature
<1>2. /\ \A i \in DOMAIN Signature[f] : Signature[f][i] \notin {Ill, Bad, Throws}
      /\ ReturnType[f] # Void =>
           \A i \in DOMAIN Signature[f] : Signature[f][i] = I64
  <2>1. \/ Signature[f] \in {<<I64, I64>>, <<I64>>}
        \/ Signature[f] = <<PointerTo(Str)>> /\ ReturnType[f] = Void
    BY <1>1 DEF Signature, ReturnType
  <2>2. {I64, PointerTo(Str)} \cap {Ill, Bad, Throws} = {}
    BY Kinds
  <2>3. \A s \in {<<I64, I64>>, <<I64>>} : \A i \in DOMAIN s : s[i] = I64
    OBVIOUS
  <2>4. \A i \in DOMAIN <<PointerTo(Str)>> : <<PointerTo(Str)>>[i] = PointerTo(Str)
    OBVIOUS
  <2> QED
    BY <2>1, <2>2, <2>3, <2>4, Zenon
<1>3. ReturnType[f] \in {I64, Void}
  BY <1>1 DEF ReturnType
<1>4. ASSUME ok PROVE \A i \in DOMAIN es : /\ es[i].want \notin {Ill, Void}
                                           /\ meant[i] = Argument(es[i].want)
                                           /\ ~Failed(meant[i])
  <2>1. \A i \in DOMAIN es : meant[i] \notin {Ill, Bad, Throws}
    BY <1>2, <1>4, Zenon
  <2>2. \A i \in DOMAIN es :
          ~Is(es[i].want, "ill") /\ meant[i] = Argument(es[i].want)
    BY <2>1, Zenon
  <2>3. Is(Ill, "ill")
    BY Kinds, Zenon DEF Is
  <2> HIDE DEF meant
  <2> QED
    BY <2>1, <2>2, <2>3, ArgumentFails, Zenon DEF Failed
<1>5. ASSUME ok, \E i \in DOMAIN es : es[i].gap PROVE Failed(val)
  <2>1. PICK i \in DOMAIN es : es[i].gap
    BY <1>5, Zenon
  <2>2. Failed(args[i])
    BY <1>4, <1>5, <2>1, ArgumentFails, Zenon DEF Sound
  <2>3. i \in DOMAIN args
    BY Zenon
  <2> HIDE DEF args, result
  <2> QED
    BY <2>2, <2>3, StrictlyFails, Zenon
<1>6. ASSUME ok, \A i \in DOMAIN es : ~es[i].gap
      PROVE  Agrees("Call", type, ReturnType[f], val, want)
  <2>1. \A i \in DOMAIN es : /\ es[i].val = es[i].want
                             /\ es[i].type.class \notin {"rejected", "crash"}
    BY <1>4, <1>6, PartSound, Zenon
  <2>2. args = meant
    BY <1>4, <1>6, <2>1, Zenon
  <2>3. \A i \in DOMAIN args : ~Failed(args[i])
    BY <1>4, <1>6, <2>2, Zenon
  <2>4. val = ReturnType[f] /\ want = ReturnType[f]
    <3>1. result = ReturnType[f]
      BY <1>6, <2>2, Zenon
    <3> HIDE DEF args, result
    <3> QED
      BY <1>6, <2>3, <3>1, StrictlyAll, Zenon
  <2>5. type = Primary("INTEGER")
    <3>1. \A i \in DOMAIN Types(es) : Types(es)[i].class \notin {"rejected", "crash"}
      BY <2>1, Zenon DEF Types
    <3> QED
      BY <3>1, AnalyzedAll, Zenon
  <2> HIDE DEF type, val, want
  <2>6. CASE ReturnType[f] = I64
    BY <2>4, <2>5, <2>6, PrimaryAgrees, Zenon
  <2>7. CASE ReturnType[f] = Void
    BY <2>4, <2>5, <2>7, Kinds DEF Agrees, Held, Failed, Is, Primary
  <2> QED
    BY <1>3, <2>6, <2>7, Zenon
<1>7. ASSUME ok, want # Void, NEW i \in DOMAIN es PROVE ~ByAddress(es[i].want)
  <2>1. ReturnType[f] # Void /\ meant[i] = I64
    BY <1>2, <1>7, Zenon
  <2>2. Argument(es[i].want) = I64
    BY <1>4, <1>7, <2>1, Zenon
  <2>3. ByAddress(es[i].want) => Argument(es[i].want) = PointerTo(es[i].want)
    BY ArgumentFails, Zenon
  <2> QED
    BY <2>2, <2>3, Kinds
<1>8. Sound(Node("Call", type, ReturnType[f], val, want, FALSE, es))
  <2>1. "Call" \notin {"ArrayRef", "Member", "Assign"}
    OBVIOUS
  <2>2. want # Ill => ok
    BY Zenon
  <2> HIDE DEF type, val, want, ok
  <2> QED
    BY <1>4, <1>5, <1>6, <1>7, <2>1, <2>2, NodeSound, Zenon
<1> QED
  BY <1>8, Zenon DEF FunctionCall

LEMMA ElementSound ==
  ASSUME NEW p, NEW i, Sound(p), Sound(i)
  PROVE  Sound(ArrayReference(p, i))
<1> DEFINE array == IF p.type.class = "array" THEN p.type ELSE Rejected
           element == IF Is(p.slot, "array") THEN p.slot[2] ELSE Bad
           loaded == IF Is(p.val, "array") /\ i.val \in {I1, I64}
                     THEN p.val[2] ELSE Bad
           held == Is(p.want, "array") /\ i.want = I64
           want == IF held THEN p.want[2] ELSE Ill
           named == p.node = "Variable"
           type == IF named THEN Analyzed(<<p.type, i.type>>, array) ELSE Crash
           slot == IF named THEN Strictly(<<p.slot>>, element) ELSE Bad
           val == IF named THEN Strictly(<<p.val, i.val>>, loaded) ELSE Bad
<1>1. held => /\ p.want \notin {Ill, Void} /\ i.want \notin {Ill, Void}
              /\ Held(p.want)
  BY Kinds, Zenon DEF Is, Held
<1>2. ASSUME held, ~named \/ p.gap \/ i.gap PROVE Failed(val)
  <2>1. CASE ~named
    BY <2>1, Zenon DEF Failed
  <2>2. CASE named
    <3>1. Failed(p.val) \/ Failed(i.val)
      BY <1>1, <1>2, <2>2, Zenon DEF Sound
    <3> HIDE DEF loaded
    <3> QED
      BY <2>2, <3>1, StrictlyTwoFails, Zenon
  <2> QED
    BY <2>1, <2>2, Zenon
<1>3. ASSUME held, named, ~p.gap, ~i.gap
      PROVE  Agrees("ArrayRef", type, slot, val, want)
  <2>1. /\ p.val = p.want /\ p.slot = p.want /\ Typed(p.want, p.type)
        /\ ~Failed(p.want)
    BY <1>1, <1>3, PartSound, Zenon
  <2>2. i.val = I64 /\ ~Failed(i.val) /\ i.type.class \notin {"rejected", "crash"}
    BY <1>1, <1>3, PartSound, Zenon
  <2>3. p.type.class = "array" /\ Chain(p.want, p.type.id)
    BY <1>3, <2>1, Zenon DEF Typed
  <2>4. element = p.want[2] /\ loaded = p.want[2] /\ array = p.type
    BY <1>3, <2>1, <2>2, <2>3, Zenon
  <2>5. slot = p.want[2] /\ val = p.want[2] /\ want = p.want[2]
    <3> HIDE DEF element, loaded
    <3>1. Strictly(<<p.slot>>, element) = element
      BY <2>1, StrictlyOne, Zenon
    <3>2. Strictly(<<p.val, i.val>>, loaded) = loaded
      BY <2>1, <2>2, StrictlyTwo, Zenon
    <3> QED
      BY <1>3, <2>4, <3>1, <3>2, Zenon
  <2>6. type = p.type
    <3>1. p.type.class \notin {"rejected", "crash"}
      BY <2>3
    <3> HIDE DEF array
    <3> QED
      BY <1>3, <2>2, <2>4, <3>1, AnalyzedTwo, Zenon
  <2>7. Held(p.want[2]) /\ Chain(p.want[2], p.type.id)
    BY <1>3, <2>3, ChainElement, Zenon
  <2>8. Typed(p.want[2], p.type)
    BY <2>1, <2>3, <2>7, Zenon DEF Typed
  <2> HIDE DEF type, slot, val, want
  <2> QED
    BY <2>3, <2>5, <2>6, <2>7, <2>8, Kinds DEF Agrees, Held, Failed, Is
<1>4. Sound(Node("ArrayRef", type, slot, val, want, ~named, <<p, i>>))
  <2>1. want # Ill => held
    BY Zenon
  <2> HIDE DEF type, slot, val, want, held, named
  <2> QED
    BY <1>1, <1>2, <1>3, <2>1, TwoSound, Zenon
<1> QED
  BY <1>4, Zenon DEF ArrayReference

LEMMA MemberSound ==
  ASSUME NEW p, NEW m, Sound(p)
  PROVE  Sound(MemberReference(p, m))
<1> DEFINE known == p.type.class = "tuple" /\ m \in DOMAIN p.type.members
           id == p.type.members[m]
           column == IF known THEN Primary(id) ELSE Rejected
           slot == IF known THEN convert_type(id) ELSE Bad
           has(t) == Is(t, "struct") /\ m \in DOMAIN t[2]
           named == p.node = "Variable"
           val == IF named /\ has(p.val) THEN p.val[2][m] ELSE Bad
           held == known /\ has(p.want)
           want == IF held THEN p.want[2][m] ELSE Ill
           type == Analyzed(<<p.type>>, column)
<1>1. held => p.want \notin {Ill, Void} /\ Held(p.want)
  BY Kinds, Zenon DEF Is, Held
<1>2. ASSUME held, ~named \/ p.gap PROVE Failed(val)
  <2>1. CASE ~named
    BY <2>1, Zenon DEF Failed
  <2>2. CASE named
    <3>1. Failed(p.val)
      BY <1>1, <1>2, <2>2, Zenon DEF Sound
    <3>2. ~Is(p.val, "struct")
      BY <3>1, Kinds DEF Failed, Is
    <3> QED
      BY <3>2, Zenon DEF Failed
  <2> QED
    BY <2>1, <2>2, Zenon
<1>3. ASSUME held, named, ~p.gap PROVE Agrees("Member", type, slot, val, want)
  <2>1. /\ p.val = p.want /\ Typed(p.want, p.type)
        /\ p.type.class \notin {"rejected", "crash"}
    BY <1>1, <1>3, PartSound, Zenon
  <2>2. id \in {"INTEGER", "STRING"} /\ p.want[2][m] = convert_type(id)
    BY <1>3, <2>1, Zenon DEF Typed
  <2>3. /\ type = Primary(id) /\ slot = convert_type(id)
        /\ val = convert_type(id) /\ want = convert_type(id)
    BY <1>3, <2>1, <2>2, AnalyzedOne, Zenon
  <2> HIDE DEF type, slot, val, want, id
  <2>4. CASE id = "INTEGER"
    <3>1. convert_type(id) = I64
      BY <2>4, Zenon DEF convert_type
    <3> QED
      BY <2>3, <2>4, <3>1, PrimaryAgrees, Zenon
  <2>5. CASE id = "STRING"
    <3>1. convert_type(id) = Str
      BY <2>5, Zenon DEF convert_type
    <3> QED
      BY <2>3, <2>5, <3>1, PrimaryAgrees, Zenon
  <2> QED
    BY <2>2, <2>4, <2>5, Zenon
<1>4. Sound(Node("Member", type, slot, val, want, ~named, <<p>>))
  <2>1. want # Ill => held
    BY Zenon
  <2>2. "Member" \notin {"Assign", "Call"}
    OBVIOUS
  <2> HIDE DEF type, slot, val, want, held, named
  <2> QED
    BY <1>1, <1>2, <1>3, <2>1, <2>2, OneSound, Zenon
<1> QED
  BY <1>4, Zenon DEF MemberReference

LEMMA AssignSound ==
  ASSUME NEW t, NEW v, Sound(t), Sound(v)
  PROVE  Sound(Assign(t, v))
<1> DEFINE stored == IF Assignable(t) /\ t.val = v.val THEN t.val ELSE Bad
           val == Strictly(<<t.val, v.val>>, stored)
           held == Assignable(t) /\ Storable(v.want) /\ Alike(t.want, v.want)
           want == IF held THEN t.want ELSE Ill
           gap == t.want # v.want
           type == Analyzed(<<t.type, v.type>>, v.type)
<1>1. held => t.want \notin {Ill, Void} /\ v.want \notin {Ill, Void}
  BY Kinds, Zenon DEF Storable, Alike, Scanned, Is
<1>2. ASSUME held, gap \/ t.gap \/ v.gap PROVE Failed(val)
  <2>1. CASE t.gap \/ v.gap
    <3>1. Failed(t.val) \/ Failed(v.val)
      BY <1>1, <1>2, <2>1, Zenon DEF Sound
    <3> HIDE DEF stored
    <3> QED
      BY <3>1, StrictlyTwoFails, Zenon
  <2>2. CASE ~t.gap /\ ~v.gap
    <3>1. t.val = t.want /\ v.val = v.want
      BY <1>1, <1>2, <2>2, PartSound, Zenon
    <3>2. Failed(stored)
      BY <1>2, <2>2, <3>1, Zenon DEF Failed
    <3> HIDE DEF stored
    <3> QED
      BY <3>2, StrictlyTwoFails, Zenon
  <2> QED
    BY <2>1, <2>2, Zenon
<1>3. ASSUME held, ~gap, ~t.gap, ~v.gap PROVE Agrees("Assign", type, v.slot, val, want)
  <2>1. /\ t.val = v.want /\ ~Failed(t.val) /\ t.type.class \notin {"rejected", "crash"}
        /\ v.val = v.want /\ ~Failed(v.val) /\ v.type.class \notin {"rejected", "crash"}
    BY <1>1, <1>3, PartSound, Zenon
  <2>2. val = v.want /\ want = v.want
    BY <1>3, <2>1, StrictlyTwo, Zenon
  <2>3. type = v.type
    BY <2>1, AnalyzedTwo, Zenon
  <2>4. Agrees(v.node, v.type, v.slot, v.val, v.want)
    BY <1>1, <1>3, Zenon DEF Sound
  <2>5. ~Is(v.want, "i1")
    <3>1. Agrees(t.node, t.type, t.slot, t.val, t.want)
      BY <1>1, <1>3, Zenon DEF Sound
    <3> QED
      BY <1>3, <3>1 DEF Agrees, Assignable
  <2> HIDE DEF type, val, want
  <2> QED
    BY <2>1, <2>2, <2>3, <2>4, <2>5, Zenon DEF Agrees
<1>4. Sound(Node("Assign", type, v.slot, val, want, gap, <<t, v>>))
  <2>1. want # Ill => held
    BY Zenon
  <2> HIDE DEF type, val, want, held, gap
  <2> QED
    BY <1>1, <1>2, <1>3, <2>1, TwoSound
<1> QED
  BY <1>4, Zenon DEF Assign

-----------------------------------------------------------------------------
(* Steps *)

\* Whatever is built from sound expressions is sound.
LEMMA BuildsSound ==
  ASSUME SoundInv, status = "open", Leaf \/ Prefix \/ Infix
  PROVE  \E n, e : n \in 0 .. 2 /\ n <= Len(exprs) /\ Sound(e) /\ Build(n, e)
<1>0. PICK S : exprs \in Seq(S)
  BY Zenon DEF SoundInv
<1>1. CASE Leaf
  <2>1. \A x \in Names : Sound(Variable(x))
    BY VariableSound, Zenon DEF SoundInv
  <2>2. PICK e : Sound(e) /\ Build(0, e)
    BY <1>1, <2>1, LiteralSound, Zenon DEF Leaf
  <2> QED
    BY <1>0, <2>2
<1>2. CASE Prefix
  <2> DEFINE e == Last(1)[1]
  <2>1. Len(exprs) >= 1 /\ e = exprs[Len(exprs)]
    BY <1>0, <1>2 DEF Prefix, Last
  <2>2. Sound(e)
    BY <1>0, <2>1 DEF SoundInv
  <2> HIDE DEF e
  <2> DEFINE es == <<e>>
  <2>3. es \in Seq({e}) /\ DOMAIN es = {1} /\ \A i \in DOMAIN es : Sound(es[i])
    BY <2>2
  <2> HIDE DEF es
  <2>4. /\ Sound(PointerOf(e)) /\ Sound(RowLiteral(es)) /\ Sound(ArrayLiteral(es))
        /\ \A m : Sound(MemberReference(e, m))
        /\ \A f \in DOMAIN Signature : Sound(FunctionCall(f, es))
    BY <2>2, <2>3, PointerSound, RowSound, ArraySound, MemberSound, CallSound, Zenon
  <2>5. \/ Build(1, PointerOf(e))
        \/ \E m \in 1 .. 2 : Build(1, MemberReference(e, m))
        \/ \E f \in DOMAIN Signature : Build(1, FunctionCall(f, es))
        \/ Build(1, RowLiteral(es))
        \/ Build(1, ArrayLiteral(es))
    BY Zenon, <1>2 DEF Prefix, e, es
  <2>6. PICK b : Sound(b) /\ Build(1, b)
    BY <2>4, <2>5, Zenon
  <2> QED
    BY <1>0, <2>1, <2>6
<1>3. CASE Infix
  <2> DEFINE l == Last(2)[1]
             r == Last(2)[2]
  <2>1. Len(exprs) >= 2 /\ l = exprs[Len(exprs) - 1] /\ r = exprs[Len(exprs)]
    BY <1>0, <1>3 DEF Infix, Last
  <2>2. Sound(l) /\ Sound(r)
    BY <1>0, <2>1 DEF SoundInv
  <2> HIDE DEF l, r
  <2> DEFINE es == <<l, r>>
  <2>3. es \in Seq({l, r}) /\ 1 \in DOMAIN es /\ \A i \in DOMAIN es : Sound(es[i])
    BY <2>2
  <2> HIDE DEF es
  <2>4. "rand" \in DOMAIN Signature
    BY Zenon DEF Signature
  <2>5. /\ Sound(ArrayReference(l, r)) /\ Sound(Assign(l, r))
        /\ Sound(RowLiteral(es)) /\ Sound(ArrayLiteral(es))
        /\ Sound(FunctionCall("rand", es))
        /\ \A op \in Operators : Sound(Binary(l, op, r))
    BY <2>2, <2>3, <2>4, ElementSound, AssignSound, RowSound, ArraySound,
       CallSound, BinarySound, Zenon
  <2>6. \/ \E op \in Operators : Build(2, Binary(l, op, r))
        \/ Build(2, ArrayReference(l, r))
        \/ Build(2, Assign(l, r))
        \/ Build(2, RowLiteral(es))
        \/ Build(2, ArrayLiteral(es))
        \/ Build(2, FunctionCall("rand", es))
    BY Zenon, <1>3 DEF Infix, l, r, es
  <2>7. PICK b : Sound(b) /\ Build(2, b)
    BY <2>5, <2>6, Zenon
  <2> QED
    BY <1>0, <2>1, <2>7
<1> QED
  BY <1>1, <1>2, <1>3, Zenon

LEMMA BuildKeeps ==
  ASSUME SoundInv, NEW n \in 0 .. 2, NEW e,
         n <= Len(exprs), Sound(e), Build(n, e)
  PROVE  SoundInv'
<1>1. PICK S : exprs \in Seq(S)
  BY Zenon DEF SoundInv
<1>2. /\ Below(n) \in Seq(S)
      /\ \A i \in DOMAIN Below(n) : i \in DOMAIN exprs /\ Below(n)[i] = exprs[i]
  BY <1>1 DEF Below
<1>3. /\ exprs' \in Seq(S \cup {e})
      /\ status = "open" => \A i \in DOMAIN exprs' : Sound(exprs'[i])
  BY <1>2 DEF Build, SoundInv
<1>4. UNCHANGED <<var_types, slots, wants, status>>
  BY Zenon DEF Build
<1> QED
  BY <1>3, <1>4, Zenon DEF SoundInv, SoundVariable

\* What is to be shown of a statement: if it has a meaning, it goes on
\* unless there is a gap.
LEMMA StatementDecides ==
  ASSUME MeaningfulCompiles, status = "open", NEW e, NEW outcome, NEW meant, NEW gap,
         Statement(e, outcome, meant, gap),
         meant => (outcome # "open" <=> (e.gap \/ gap))
  PROVE  MeaningfulCompiles'
<1>1. /\ status' = outcome /\ ill' = (ill \/ ~meant)
      /\ gaps' = (gaps \/ e.gap \/ gap)
  BY Zenon DEF Statement
<1>2. ~ill => ~gaps
  BY Zenon DEF MeaningfulCompiles
<1> QED
  BY <1>1, <1>2, Zenon DEF MeaningfulCompiles

\* The compilation goes on if analyze accepts the expression, nothing throws
\* and the code is well formed.
LEMMA OutcomeOpen ==
  ASSUME NEW e, NEW throws, NEW defined
  PROVE  /\ Outcome(e, throws, defined) = "open" => ~throws /\ defined
         /\ e.type.class \notin {"rejected", "crash"} /\ ~throws /\ defined =>
              Outcome(e, throws, defined) = "open"
<1>1. Rejected.class = "rejected" /\ Crash.class = "crash"
  BY DEF Rejected, Crash
<1>2. CASE e.type = Rejected \/ e.type = Crash
  BY <1>1, <1>2 DEF Outcome
<1>3. CASE e.type # Rejected /\ e.type # Crash
  BY <1>3 DEF Outcome
<1> QED
  BY <1>2, <1>3, Zenon

LEMMA LetKeeps ==
  ASSUME SoundInv, MeaningfulCompiles, status = "open", DOMAIN exprs = {1},
         NEW x, NEW ids \in Declarations \cup {<<>>}, Let(exprs[1], x, ids)
  PROVE  SoundInv' /\ MeaningfulCompiles'
<1> DEFINE e == exprs[1]
           declared == ids # <<>>
           throws == \/ declared /\ e.node \notin {"Row", "Array"}
                     \/ Throws \in {e.slot, e.val}
           meant == /\ Storable(e.want)
                    /\ declared => e.node = "Row" /\ e.want = StructOf(Columns(ids))
           outcome == Outcome(e, throws, Fits(e))
<1>1. Sound(e)
  BY Zenon DEF SoundInv
<1>2. /\ x \notin DOMAIN var_types
      /\ Statement(e, outcome, meant, e.want = I1)
      /\ var_types' = [y \in DOMAIN var_types \cup {x} |->
           IF y # x THEN var_types[y]
           ELSE IF declared /\ e.node = "Row" THEN TupleType(ids) ELSE e.type]
      /\ slots' = [y \in DOMAIN slots \cup {x} |->
           IF y = x THEN e.slot ELSE slots[y]]
      /\ wants' = [y \in DOMAIN wants \cup {x} |->
           IF y # x THEN wants[y] ELSE IF meant THEN e.want ELSE Ill]
  BY Zenon DEF Let
<1> HIDE DEF e
<1>3. meant => e.want \notin {Ill, Void} /\ Storable(e.want)
  BY Kinds, Zenon DEF Storable
<1>4. ASSUME meant, ~e.gap, e.want # I1
      PROVE  /\ e.slot = e.want /\ e.val = e.want /\ Held(e.want)
             /\ Typed(e.want, e.type) /\ ~Failed(e.want)
             /\ e.type.class \notin {"rejected", "crash"}
  BY <1>1, <1>3, <1>4, PartSound, Zenon
<1>5. ASSUME meant, e.gap \/ e.want = I1 PROVE throws \/ ~Fits(e)
  <2>1. CASE e.gap
    <3>1. Failed(e.val)
      BY <1>1, <1>3, <1>5, <2>1, Zenon DEF Sound
    <3> QED
      BY <3>1, Zenon DEF Failed, Fits
  <2>2. CASE ~e.gap
    <3>1. e.want = I1 /\ e.val = I1 /\ e.slot = I64
      BY <1>1, <1>3, <1>5, <2>2, Kinds, Zenon DEF Sound, Agrees, Is
    <3> QED
      BY <3>1, Kinds DEF Fits
  <2> QED
    BY <2>1, <2>2, Zenon
<1>6. ASSUME meant, ~e.gap, e.want # I1 PROVE ~throws /\ Fits(e)
  <2>1. ~throws
    BY <1>4, <1>6, Zenon DEF Failed
  <2> QED
    BY <1>3, <1>4, <1>6, <2>1, Zenon DEF Fits, Failed
<1>7. meant => (outcome # "open" <=> (e.gap \/ e.want = I1))
  <2> HIDE DEF meant, throws
  <2>1. ASSUME meant, e.gap \/ e.want = I1 PROVE outcome # "open"
    <3>1. outcome = "open" => ~throws /\ Fits(e)
      BY DEF Outcome
    <3> QED
      BY <1>5, <2>1, <3>1, Zenon
  <2>2. ASSUME meant, ~(e.gap \/ e.want = I1) PROVE outcome = "open"
    BY <1>4, <1>6, <2>2, OutcomeOpen, Zenon
  <2> QED
    BY <2>1, <2>2, Zenon
<1>8. MeaningfulCompiles'
  <2> HIDE DEF meant, outcome
  <2> QED
    BY <1>2, <1>7, StatementDecides, Zenon
<1>9. exprs' = <<>> /\ status' = outcome
  BY <1>2, Zenon DEF Statement
<1>10. ASSUME meant, ~e.gap, e.want # I1 PROVE Typed(e.want, var_types'[x])
  <2>1. CASE ~declared
    BY <1>2, <1>4, <1>10, <2>1, Zenon
  <2>2. CASE declared
    <3>1. var_types'[x] = TupleType(ids) /\ e.want = StructOf(Columns(ids))
      BY <1>2, <1>10, <2>2, Zenon
    <3>2. \A m \in DOMAIN ids : ids[m] \in {"INTEGER", "STRING"}
      BY <2>2 DEF Declarations
    <3>3. \A m \in DOMAIN Columns(ids) : Columns(ids)[m] = convert_type(ids[m])
      BY Zenon DEF Columns
    <3>4. Chain(StructOf(Columns(ids)), "TUPLE")
      BY ChainOne, Kinds DEF Held, Is
    <3> QED
      BY <3>1, <3>2, <3>3, <3>4, Kinds DEF Typed, TupleType, Is
  <2> QED
    BY <2>1, <2>2, Zenon
<1>11. /\ DOMAIN slots' = DOMAIN var_types' /\ DOMAIN wants' = DOMAIN var_types'
       /\ slots'[x] = e.slot /\ wants'[x] = IF meant THEN e.want ELSE Ill
  BY <1>2, Zenon DEF SoundInv
<1>12. \A y \in DOMAIN var_types :
         /\ y \in DOMAIN var_types' /\ slots'[y] = slots[y]
         /\ wants'[y] = wants[y] /\ var_types'[y] = var_types[y]
  BY <1>2, Zenon DEF SoundInv
<1>13. DOMAIN var_types' = DOMAIN var_types \cup {x}
  BY <1>2, Zenon
<1>14. status' = "open" => SoundVariable(x)'
  <2> HIDE DEF meant, outcome
  <2> QED
    BY <1>4, <1>7, <1>9, <1>10, <1>11, Zenon DEF SoundVariable
<1>15. status' = "open" => \A y \in DOMAIN var_types' : SoundVariable(y)'
  BY <1>12, <1>13, <1>14, Zenon DEF SoundVariable, SoundInv
<1>16. (\E S : exprs \in Seq(S))' /\ DOMAIN exprs' = {}
  BY <1>9
<1> QED
  BY <1>8, <1>11, <1>15, <1>16, Zenon DEF SoundInv

LEMMA ScanRowKeeps ==
  ASSUME SoundInv, status = "open", NEW x, ScanRow(x)
  PROVE  SoundInv'
<1> DEFINE row == RowOf(<<I64, I64>>, x)
           ids == <<"INTEGER", "INTEGER">>
<1>1. /\ DOMAIN var_types' = DOMAIN var_types \cup {x} /\ exprs' = exprs
      /\ DOMAIN slots' = DOMAIN var_types' /\ DOMAIN wants' = DOMAIN var_types'
      /\ slots'[x] = row /\ wants'[x] = row /\ var_types'[x] = TupleType(ids)
  BY Zenon DEF ScanRow, SoundInv
<1>2. \A y \in DOMAIN var_types : /\ slots'[y] = slots[y] /\ wants'[y] = wants[y]
                                  /\ var_types'[y] = var_types[y]
  BY Zenon DEF ScanRow, SoundInv
<1>3. convert_type("INTEGER") = I64
  BY Zenon DEF convert_type
<1>4. row[1] = "struct" /\ row[2] = <<I64, I64>>
  BY Kinds
<1>5. Chain(row, "TUPLE")
  BY <1>4, ChainOne, Kinds DEF Held, Is
<1> HIDE DEF row
<1>6. Typed(row, TupleType(ids))
  BY <1>3, <1>4, <1>5 DEF Typed, TupleType, Is
<1> HIDE DEF ids
<1>7. \A y \in DOMAIN var_types' : SoundVariable(y)'
  BY <1>1, <1>2, <1>4, <1>6, Kinds DEF SoundVariable, SoundInv, Held
<1> QED
  BY <1>1, <1>7, Zenon DEF SoundInv

LEMMA StatementKeeps ==
  ASSUME SoundInv, MeaningfulCompiles, status = "open", DOMAIN exprs = {1},
         NEW found,
         \/ ExprStatement(exprs[1]) \/ Emit(exprs[1]) \/ IfCondition(exprs[1])
         \/ ForCondition(exprs[1]) \/ ForEvery(exprs[1], found)
  PROVE  SoundInv' /\ MeaningfulCompiles'
<1> DEFINE e == exprs[1]
<1>1. Sound(e)
  BY Zenon DEF SoundInv
<1> HIDE DEF e
<1>2. /\ \/ ExprStatement(e) \/ Emit(e) \/ IfCondition(e)
         \/ ForCondition(e) \/ ForEvery(e, found)
      /\ exprs' = <<>> /\ UNCHANGED <<var_types, slots, wants>>
  BY Zenon DEF e, ExprStatement, Emit, IfCondition, ForCondition, ForEvery, Statement
<1>3. SoundInv'
  BY <1>2 DEF SoundInv, SoundVariable
<1> SUFFICES MeaningfulCompiles'
  BY <1>3, Zenon
<1>4. ASSUME e.want # Ill, e.gap PROVE Failed(e.val)
  BY <1>1, <1>4, Zenon DEF Sound
<1>5. ASSUME e.want # Ill, ~e.gap
      PROVE  /\ e.val = e.want /\ ~Failed(e.val) /\ ~Failed(e.slot) /\ e.visit = Fine
             /\ e.type.class \notin {"rejected", "crash"}
             /\ Held(e.want) => e.slot = e.want
  <2>1. Agrees(e.node, e.type, e.slot, e.val, e.want) /\ e.visit = Fine
    BY <1>1, <1>5, Zenon DEF Sound
  <2>2. ~Failed(e.want)
    BY <2>1, Kinds DEF Agrees, Failed
  <2> QED
    BY <2>1, <2>2, Zenon DEF Agrees
<1>6. CASE ExprStatement(e)
  <2> DEFINE throws == Throws \in {e.slot, e.visit, e.val}
             defined == Bad \notin {e.slot, e.visit, e.val}
  <2>1. ~Failed(Fine)
    BY Kinds DEF Failed
  <2>2. ASSUME e.want # Ill
        PROVE  (~e.gap => ~throws /\ defined) /\ (e.gap => throws \/ ~defined)
    BY <1>4, <1>5, <2>1, <2>2, Zenon DEF Failed
  <2>3. Statement(e, Outcome(e, throws, defined), e.want # Ill, FALSE)
    BY <1>6, Zenon DEF ExprStatement
  <2> HIDE DEF throws, defined
  <2>4. e.want # Ill => (Outcome(e, throws, defined) # "open" <=> e.gap)
    <3>1. ASSUME e.want # Ill, e.gap PROVE Outcome(e, throws, defined) # "open"
      <4>1. Outcome(e, throws, defined) = "open" => ~throws /\ defined
        BY DEF Outcome
      <4> QED
        BY <2>2, <3>1, <4>1, Zenon
    <3>2. ASSUME e.want # Ill, ~(e.gap) PROVE Outcome(e, throws, defined) = "open"
      BY <1>5, <2>2, <3>2, OutcomeOpen, Zenon
    <3> QED
      BY <3>1, <3>2, Zenon
  <2> QED
    BY <2>3, <2>4, StatementDecides, Zenon
<1>7. CASE Emit(e)
  <2> DEFINE throws == \/ Throws \in {e.slot, e.val}
                       \/ ~ByAddress(e.slot) /\ e.slot \notin {Bad, Void}
             meant == ByAddress(e.want)
  <2>1. meant => e.want \notin {Ill, Void} /\ Held(e.want)
    BY Kinds DEF ByAddress, Held
  <2>2. ASSUME meant
        PROVE  (~e.gap => ~throws /\ Fits(e)) /\ (e.gap => throws \/ ~Fits(e))
    <3>1. CASE e.gap
      BY <1>4, <2>1, <2>2, <3>1, Zenon DEF Failed, Fits
    <3>2. CASE ~e.gap
      <4>1. e.val = e.want /\ e.slot = e.want /\ ~Failed(e.want)
        BY <1>5, <2>1, <2>2, <3>2, Zenon
      <4> QED
        BY <2>1, <2>2, <3>2, <4>1, Zenon DEF Failed, Fits
    <3> QED
      BY <3>1, <3>2, Zenon
  <2>3. Statement(e, Outcome(e, throws, Fits(e)), meant, FALSE)
    BY <1>7, Zenon DEF Emit
  <2> HIDE DEF throws, meant
  <2>4. meant => (Outcome(e, throws, Fits(e)) # "open" <=> e.gap)
    <3>1. ASSUME meant, e.gap PROVE Outcome(e, throws, Fits(e)) # "open"
      <4>1. Outcome(e, throws, Fits(e)) = "open" => ~throws /\ Fits(e)
        BY DEF Outcome
      <4> QED
        BY <2>2, <3>1, <4>1, Zenon
    <3>2. ASSUME meant, ~(e.gap) PROVE Outcome(e, throws, Fits(e)) = "open"
      BY <1>5, <2>1, <2>2, <3>2, OutcomeOpen, Zenon
    <3> QED
      BY <3>1, <3>2, Zenon
  <2> QED
    BY <2>3, <2>4, StatementDecides, Zenon
<1>8. ASSUME e.want \in {I1, I64}
      PROVE  /\ e.want # Ill
             /\ e.gap => e.val \notin {I1, I64} /\ to_i1(e.val) # I1
             /\ ~e.gap => /\ e.val = e.want /\ e.val # Throws /\ to_i1(e.val) = I1
                          /\ e.type.class \notin {"rejected", "crash"}
  <2>1. e.want # Ill
    BY <1>8, Kinds
  <2>2. CASE e.gap
    BY <1>4, <2>1, <2>2, Kinds DEF Failed, to_i1
  <2>3. CASE ~e.gap
    BY <1>5, <1>8, <2>1, <2>3, Zenon DEF Failed, to_i1
  <2> QED
    BY <2>1, <2>2, <2>3, Zenon
<1>9. CASE IfCondition(e)
  <2> DEFINE outcome == Outcome(e, e.val = Throws, to_i1(e.val) = I1)
             meant == e.want \in {I1, I64}
  <2>1. Statement(e, outcome, meant, FALSE)
    BY <1>9, Zenon DEF IfCondition
  <2>2. meant => (outcome # "open" <=> (e.gap \/ FALSE))
    BY <1>8, OutcomeOpen, Zenon
  <2> HIDE DEF outcome, meant
  <2> QED
    BY <2>1, <2>2, StatementDecides, Zenon
<1>10. CASE ForCondition(e)
  <2> DEFINE outcome == Outcome(e, e.val = Throws, e.val = I1)
             meant == e.want \in {I1, I64}
  <2>1. Statement(e, outcome, meant, e.want = I64)
    BY <1>10, Zenon DEF ForCondition
  <2>2. I1 # I64
    BY Kinds
  <2>3. meant => (outcome # "open" <=> (e.gap \/ e.want = I64))
    BY <1>8, <2>2, OutcomeOpen, Zenon
  <2> HIDE DEF outcome, meant
  <2> QED
    BY <2>1, <2>3, StatementDecides, Zenon
<1>11. CASE ForEvery(e, found)
  <2> DEFINE typed == e.node = "Row" => found
             defined == e.val # Bad /\ ~e.stk /\ typed
             outcome == Outcome(e, e.val = Throws, defined)
             gap == e.stk \/ ~typed
  <2>1. Statement(e, outcome, e.want # Ill, gap)
    BY <1>11, Zenon DEF ForEvery
  <2>2. ASSUME e.want # Ill
        PROVE  /\ ~(e.gap \/ gap) => e.val # Throws /\ defined
               /\ e.gap \/ gap => e.val = Throws \/ ~defined
    BY <1>4, <1>5, <2>2, Zenon DEF Failed
  <2> HIDE DEF defined, gap
  <2>3. e.want # Ill => (outcome # "open" <=> (e.gap \/ gap))
    <3>1. ASSUME e.want # Ill, e.gap \/ gap PROVE outcome # "open"
      <4>1. outcome = "open" => ~(e.val = Throws) /\ defined
        BY DEF Outcome
      <4> QED
        BY <2>2, <3>1, <4>1, Zenon
    <3>2. ASSUME e.want # Ill, ~(e.gap \/ gap) PROVE outcome = "open"
      BY <1>5, <2>2, <3>2, OutcomeOpen, Zenon
    <3> QED
      BY <3>1, <3>2, Zenon
  <2> HIDE DEF outcome
  <2> QED
    BY <2>1, <2>3, StatementDecides, Zenon
<1> QED
  BY <1>2, <1>6, <1>7, <1>9, <1>10, <1>11, Zenon

LEMMA SoundStep ==
  ASSUME SoundInv, MeaningfulCompiles, [Next]_vars
  PROVE  SoundInv' /\ MeaningfulCompiles'
<1>1. CASE UNCHANGED vars
  BY <1>1, Zenon DEF vars, SoundInv, SoundVariable, MeaningfulCompiles
<1> SUFFICES ASSUME Next, status = "open" PROVE SoundInv' /\ MeaningfulCompiles'
  BY <1>1, Zenon DEF Next
<1>2. CASE Leaf \/ Prefix \/ Infix
  <2>1. PICK n, e : n \in 0 .. 2 /\ n <= Len(exprs) /\ Sound(e) /\ Build(n, e)
    BY <1>2, BuildsSound, Zenon
  <2>2. SoundInv'
    BY <2>1, BuildKeeps, Zenon
  <2>3. UNCHANGED <<status, ill, gaps>>
    BY <2>1, Zenon DEF Build
  <2> QED
    BY <2>2, <2>3, Zenon DEF MeaningfulCompiles
<1>3. CASE \E x \in Names : ScanRow(x)
  <2>1. PICK x \in Names : ScanRow(x)
    BY <1>3, Zenon
  <2>2. UNCHANGED <<status, ill, gaps>>
    BY <2>1, Zenon DEF ScanRow
  <2>3. SoundInv'
    BY <2>1, ScanRowKeeps, Zenon
  <2> QED
    BY <2>2, <2>3, Zenon DEF MeaningfulCompiles
<1>4. ASSUME Len(exprs) = 1 PROVE DOMAIN exprs = {1}
  BY <1>4 DEF SoundInv
<1>5. CASE \E x \in Names, ids \in Declarations \cup {<<>>} :
             Len(exprs) = 1 /\ Let(exprs[1], x, ids)
  BY <1>4, <1>5, LetKeeps, Zenon
<1>6. CASE \E found \in BOOLEAN :
             /\ Len(exprs) = 1
             /\ \/ ExprStatement(exprs[1]) \/ Emit(exprs[1]) \/ IfCondition(exprs[1])
                \/ ForCondition(exprs[1]) \/ ForEvery(exprs[1], found)
  BY <1>4, <1>6, StatementKeeps, Zenon
<1> QED
  BY <1>2, <1>3, <1>5, <1>6, Zenon DEF Next

-----------------------------------------------------------------------------
(* Theorems *)

\* In every state that code generation reaches, an expression or a variable
\* that has a meaning and is no gap is typed alike by analyze, get_type and
\* get_value, down to the elements of arrays and the members of rows, and
\* get_value fails for a gap.
THEOREM SoundTyping == Spec => [](SoundInv /\ MeaningfulCompiles)
<1>1. Init => SoundInv /\ MeaningfulCompiles
  BY DEF Init, SoundInv, MeaningfulCompiles
<1>2. SoundInv /\ MeaningfulCompiles /\ [Next]_vars => SoundInv' /\ MeaningfulCompiles'
  BY SoundStep, Zenon
<1> QED
  BY <1>1, <1>2, PTL DEF Spec

\* The code emitted for an expression that has a meaning and is no gap has the
\* type the language gives it, get_type reserves a slot of that type, every
\* call in it has its stack slots, and analyze gave it the type_id on which
\* operate decides; for a gap no well-formed code is emitted.
THEOREM PassesAlwaysAgree == Spec => []PassesAgree
<1>1. SoundInv => PassesAgree
  <2> DEFINE Agreed(e) ==
        IF e.gap THEN e.val \in {Bad, Throws}
        ELSE /\ e.type \notin {Rejected, Crash} /\ e.visit = Fine
             /\ e.val = e.want
             /\ Storable(e.want) => e.slot = IF e.want = I1 THEN I64 ELSE e.want
             /\ e.want = I64 => e.type.id = "INTEGER"
             /\ e.want = I1 => e.type.id = "BOOL"
             /\ e.want = Str => e.type.id = "STRING"
             /\ Is(e.want, "array") => e.type.class = "array"
  <2>1. ASSUME NEW e, Sound(e), e.want # Ill PROVE Agreed(e)
    <3>1. CASE e.gap
      BY <2>1, <3>1, Zenon DEF Sound, Failed
    <3>2. CASE ~e.gap
      <4>1. Agrees(e.node, e.type, e.slot, e.val, e.want) /\ e.visit = Fine
        BY <2>1, <3>2, Zenon DEF Sound
      <4>2. Held(e.want) => e.slot = e.want /\ Typed(e.want, e.type)
        BY <4>1, Zenon DEF Agrees
      <4>3. /\ e.want = I64 => e.type.id = "INTEGER"
            /\ e.want = Str => e.type.id = "STRING"
            /\ Is(e.want, "array") => e.type.class = "array"
        BY <4>2, ChainId, Kinds, Zenon DEF Typed, Held, Is
      <4>4. e.want = I1 => e.type.id = "BOOL" /\ e.slot = I64
        BY <4>1, Kinds, Zenon DEF Agrees, Is
      <4>5. Storable(e.want) => e.slot = IF e.want = I1 THEN I64 ELSE e.want
        BY <4>1, <4>2, <4>4, Zenon DEF Agrees, Storable, Held, Is
      <4>6. e.type \notin {Rejected, Crash} /\ e.val = e.want
        BY <4>1 DEF Agrees, Rejected, Crash
      <4> QED
        BY <3>2, <4>1, <4>3, <4>4, <4>5, <4>6, Zenon
    <3> QED
      BY <3>1, <3>2, Zenon
  <2>2. ASSUME SoundInv, status = "open", NEW i \in DOMAIN exprs, exprs[i].want # Ill
        PROVE  Agreed(exprs[i])
    BY <2>1, <2>2, Zenon DEF SoundInv
  <2> QED
    BY <2>2, Zenon DEF PassesAgree
<1> QED
  BY <1>1, SoundTyping, PTL

\* A program whose every expression and statement has a meaning is compiled to
\* well-formed code exactly if it has no gap: no pass throws, emits a malformed
\* instruction or follows a null pointer but for one.
THEOREM MeaningfulAlwaysCompiles == Spec => []MeaningfulCompiles
  BY SoundTyping, PTL
=============================================================================
