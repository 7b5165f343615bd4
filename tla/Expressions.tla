---------------------------- MODULE Expressions ----------------------------
(***************************************************************************)
(* The typing of expressions, which the compiler does three times over:    *)
(*   analyze    gives an expression a node::Type, and rejects programs;    *)
(*   get_type   gives the LLVM type of the stack slot that will hold it;   *)
(*   get_value  emits the code, whose LLVM value has a type of its own.    *)
(* Nothing makes the three agree.  Where they do not, LLVM is handed a     *)
(* malformed instruction, or the compiler follows a null pointer.          *)
(*                                                                         *)
(* An expression is built from its parts, operands first, and is reduced   *)
(* to what the three passes say of it.  "want" is the reference: the LLVM  *)
(* type that a reading of the language gives the expression, or Ill.  Not  *)
(* all that has a meaning is carried out: "gap" marks what is not, one     *)
(* disjunct for each construct that the passes do not follow through.      *)
(*                                                                         *)
(* Every variable is declared once (the Compiler module has the others).   *)
(* There are no doubles: the tokenizer makes no such literal.              *)
(***************************************************************************)
EXTENDS Naturals, Sequences

CONSTANTS
  Names,     \* the names of variables
  MaxStack,  \* bound on the operands that wait for their operator
  MaxNodes   \* bound on the nodes of a program

ASSUME BoundsAssumption == MaxStack \in Nat \ {0} /\ MaxNodes \in Nat

VARIABLES
  var_types,  \* variable_type_table_: what analyze knows of a variable
  slots,      \* variable_table_: the LLVM type of a variable's slot
  wants,      \* what a variable ought to hold
  exprs,      \* the expressions built so far for the next statement
  size,       \* the number of nodes built
  status,     \* how the compilation stands
  row_types,  \* the struct types of row literals that get_type has made
  ill,        \* some expression or statement had no meaning
  gaps        \* some had one that the compiler does not carry out

vars == <<var_types, slots, wants, exprs, size, status, row_types, ill, gaps>>

-----------------------------------------------------------------------------
(* node::Type.  An ArrayType carries the type_id of its elements, a row    *)
(* literal's type carries NONE_TYPE, a type_ never set is a null pointer.  *)

TypeIds == {"NONE_TYPE", "INTEGER", "STRING", "BOOL", "TUPLE"}

Primary(id) == [class |-> "primary", id |-> id, members |-> <<>>]
ArrayType(id) == [class |-> "array", id |-> id, members |-> <<>>]
LiteralType == [class |-> "tuple", id |-> "NONE_TYPE", members |-> <<>>]
TupleType(ids) == [class |-> "tuple", id |-> "TUPLE", members |-> ids]
NullType == [class |-> "null", id |-> "NONE_TYPE", members |-> <<>>]
\* analyze throws; analyze follows a null pointer or fails an assertion.
Rejected == [class |-> "rejected", id |-> "NONE_TYPE", members |-> <<>>]
Crash == [class |-> "crash", id |-> "NONE_TYPE", members |-> <<>>]

(* llvm::Type. *)

I1 == <<"i1">>
I64 == <<"i64">>
Str == <<"string">>
Void == <<"void">>
PointerTo(t) == <<"pointer", t>>
ArrayOf(t, n) == <<"array", t, n>>
StructOf(ts) == <<"struct", ts>>
\* The struct type of a scan's row is a type of its own.
RowOf(ts, x) == <<"struct", ts, x>>

Bad == <<"bad">>        \* malformed code, or undefined behaviour
Throws == <<"throws">>  \* get_type or get_value throws
Fine == <<"fine">>      \* a pass that gives no type went through
Ill == <<"ill">>        \* no meaning in the language

Is(t, kind) == t[1] = kind

\* The values a variable, a row or an array can hold; a pointer is only
\* passed on.
Storable(t) == t[1] \in {"i1", "i64", "string", "array", "struct"}

\* The types of one kind of value.  Every scan makes a struct type of its own
\* for the rows of the one table that there is here.
Scanned(t) == Is(t, "struct") /\ Len(t) = 3
Alike(t, u) == t = u \/ (Scanned(t) /\ Scanned(u))

Signature == [rand |-> <<I64, I64>>, print_int |-> <<I64>>,
              print_string |-> <<PointerTo(Str)>>]
ReturnType == [rand |-> I64, print_int |-> Void, print_string |-> Void]

convert_type(id) ==
  CASE id = "INTEGER" -> I64
    [] id = "STRING" -> Str
    [] OTHER -> Throws

\* A value that is passed as an argument through a stack slot of its own.
ByAddress(t) == t[1] \in {"string", "struct"}

\* each_value: the parts that it goes on to, and the expressions, of which
\* alloca_stack asks the type to reserve a slot if it is a struct.  It is Bad
\* if a slot that FunctionCall::get_value will look for is not reserved.
each_value(node, slot, parts) ==
  LET on == CASE node \in {"Array", "Call"} -> DOMAIN parts
              [] node \in {"ArrayRef", "Member"} -> {1}
              [] node = "Assign" -> {2}
              [] OTHER -> {}
      types == CASE node \in {"Primary", "Binary", "Row"} -> {}
                 [] node = "Call" -> {parts[i].slot : i \in DOMAIN parts}
                 [] OTHER -> {slot}
      found == types \cup {parts[i].visit : i \in on}
      missed == \/ \E i \in DOMAIN parts \ on : parts[i].stk
                \/ /\ node = "Call"
                   /\ \E i \in DOMAIN parts :
                        ByAddress(parts[i].val) /\ parts[i].slot # parts[i].val
  IN  IF Throws \in found THEN Throws
      ELSE IF missed \/ Bad \in found THEN Bad
      ELSE Fine

(* stk: an argument is passed through a stack slot of its own.             *)
(* member: there is a MemberReference, which get_type and get_value read   *)
(* with the type_ and the offset_ that only analyze sets.                  *)
(* rows: the types of row literals that get_type makes.                    *)
Node(node, type, slot, val, want, gap, parts) ==
  [node |-> node, type |-> type, slot |-> slot, val |-> val, want |-> want,
   visit |-> each_value(node, slot, parts),
   gap |-> gap \/ \E i \in DOMAIN parts : parts[i].gap,
   stk |-> \E i \in DOMAIN parts :
             parts[i].stk \/ (node = "Call" /\ ByAddress(parts[i].val)),
   member |-> node = "Member" \/ \E i \in DOMAIN parts : parts[i].member,
   rows |-> (IF node = "Row" THEN {slot} ELSE {})
              \cup UNION {parts[i].rows : i \in DOMAIN parts}]

\* get_value ends in a load, whose address PointerOf takes.
Loaded(e) == e.node \in {"Variable", "ArrayRef", "Member", "Assign"}

\* Expression::get_ref is null but for these.
Assignable(e) == e.node \in {"Variable", "ArrayRef", "Member"}

\* What a pass computes from the results of its parts.
Strictly(ts, t) ==
  IF \E i \in DOMAIN ts : ts[i] = Throws THEN Throws
  ELSE IF \E i \in DOMAIN ts : ts[i] = Bad THEN Bad
  ELSE t

\* The same of analyze.
Analyzed(types, type) ==
  IF \E i \in DOMAIN types : types[i] = Rejected THEN Rejected
  ELSE IF \E i \in DOMAIN types : types[i] = Crash THEN Crash
  ELSE type

\* analyze reads what a null type_ points to.
Dereferenced(type) == IF type = NullType THEN Crash ELSE type

\* What get_type or get_value makes of an expression that analyze has not
\* been called on.
Unanalyzed(e, t) == IF e.member THEN Bad ELSE t

-----------------------------------------------------------------------------
Literal == Node("Primary", Primary("INTEGER"), I64, I64, I64, FALSE, <<>>)

StringLiteral == Node("Primary", Primary("STRING"), Str, Str, Str, FALSE, <<>>)

Variable(x) ==
  IF x \in DOMAIN var_types
  THEN Node("Variable", var_types[x], slots[x], slots[x], wants[x], FALSE, <<>>)
  ELSE Node("Variable", Rejected, Throws, Throws, Ill, FALSE, <<>>)

Arithmetic == {"PLUS", "MINUS"}
Conditional == {"CONDITIONAL_AND"}
Operators == Arithmetic \cup {"LESSTHAN"} \cup Conditional

\* operate: the type of "lhs op rhs".  It looks at the type_id only, which
\* an array shares with its elements.  PLUS stands for itself, MINUS for the
\* other arithmetic operators, LESSTHAN for the comparisons.
operate(lhs, rhs, op) ==
  CASE lhs.id = "INTEGER" /\ op \in Arithmetic /\ rhs.id = "INTEGER" -> lhs
    [] lhs.id = "INTEGER" /\ op = "LESSTHAN" /\ rhs.id = "INTEGER" ->
         Primary("BOOL")
    [] lhs.id = "STRING" /\ op = "PLUS" /\ rhs.id = "STRING" ->
         Primary("STRING")
    [] lhs.id = "STRING" /\ op = "LESSTHAN" /\ rhs.id = "STRING" ->
         Primary("BOOL")
    [] lhs.id \in {"INTEGER", "BOOL"} /\ op \in Conditional
         /\ rhs.id \in {"INTEGER", "BOOL"} -> Primary("BOOL")
    [] OTHER -> Rejected

\* to_i1: an integer is compared with 0.
to_i1(t) == IF t \in {I1, I64} THEN I1 ELSE Bad

\* BinaryExpression.  get_type answers with the type of the operands, of a
\* comparison too.
Binary(l, op, r) ==
  LET type == operate(l.type, r.type, op)
      slot == IF l.slot = r.slot THEN l.slot ELSE Throws
      val == CASE op \in Conditional ->
                    IF {to_i1(l.val), to_i1(r.val)} = {I1} THEN I1 ELSE Bad
               [] op \in Arithmetic ->
                    IF {l.val, r.val} = {I64} THEN I64 ELSE Bad
               [] OTHER -> IF {l.val, r.val} = {I64} THEN I1 ELSE Bad
      strings == {l.want, r.want} = {Str}
      want == CASE op \in Conditional ->
                    IF {l.want, r.want} \subseteq {I1, I64} THEN I1 ELSE Ill
                [] op \in Arithmetic ->
                    IF {l.want, r.want} = {I64} THEN I64
                    ELSE IF strings /\ op = "PLUS" THEN Str ELSE Ill
                [] OTHER ->
                    IF {l.want, r.want} = {I64} \/ strings THEN I1 ELSE Ill
  IN  Node("Binary",
           Analyzed(<<Dereferenced(l.type), Dereferenced(r.type)>>, type),
           Strictly(<<l.slot, r.slot>>, slot),
           Strictly(<<l.val, r.val>>, val), want, strings, <<l, r>>)

Types(es) == [i \in DOMAIN es |-> es[i].type]
Slots(es) == [i \in DOMAIN es |-> es[i].slot]
Values(es) == [i \in DOMAIN es |-> es[i].val]
Wants(es) == [i \in DOMAIN es |-> es[i].want]

\* RowLiteral.  The struct is typed by get_type of the elements and filled
\* with their values, pointers being followed.
RowLiteral(es) ==
  LET types == [i \in DOMAIN es |-> Dereferenced(es[i].type)]
      typed == \A i \in DOMAIN es : es[i].slot # Void
      slot == Strictly(Slots(es), IF typed THEN StructOf(Slots(es)) ELSE Bad)
      filled(e) == IF Is(e.val, "pointer") THEN e.val[2] ELSE e.val
      fits == \A i \in DOMAIN es : filled(es[i]) = es[i].slot
      val == Strictly(<<slot>>, IF fits THEN slot ELSE Bad)
      want == IF \A i \in DOMAIN es : Storable(es[i].want)
              THEN StructOf(Wants(es)) ELSE Ill
      gap == \E i \in DOMAIN es : es[i].want = I1
  IN  Node("Row", Analyzed(types, LiteralType), slot,
           Strictly(Values(es), val), want, gap, es)

\* ArrayLiteral.  analyze and get_type look at the first element only.  What
\* the others are is found out when LLVM is given their values.
ArrayLiteral(es) ==
  LET first == es[1]
      type == Analyzed(<<Dereferenced(first.type)>>, ArrayType(first.type.id))
      slot == Strictly(<<first.slot>>,
                       IF first.slot # Void THEN ArrayOf(first.slot, Len(es))
                       ELSE Bad)
      vals == [i \in DOMAIN es |->
                 IF i = 1 THEN first.val ELSE Unanalyzed(es[i], es[i].val)]
      fits == \A i \in DOMAIN es : es[i].val = first.slot
      val == Strictly(<<slot>>, IF fits THEN slot ELSE Bad)
      want == IF /\ Storable(first.want)
                 /\ \A i \in DOMAIN es : Alike(es[i].want, first.want)
              THEN ArrayOf(first.want, Len(es)) ELSE Ill
      gap == \/ first.want = I1
             \/ \E i \in DOMAIN es \ {1} :
                  es[i].member \/ es[i].want # first.want
  IN  Node("Array", type, slot, Strictly(vals, val), want, gap, es)

\* PointerOf: analyze does nothing; it leaves type_ null, and the target as
\* the parser made it.
PointerOf(e) ==
  LET slot == Unanalyzed(e, e.slot)
      val == Unanalyzed(e, e.val)
  IN  Node("Pointer", NullType,
           Strictly(<<slot>>, IF slot # Void THEN PointerTo(slot) ELSE Bad),
           Strictly(<<val>>, IF Loaded(e) THEN PointerTo(val) ELSE Bad),
           IF Assignable(e) /\ Storable(e.want) THEN PointerTo(e.want) ELSE Ill,
           e.member, <<e>>)

\* The argument FunctionCall::get_value passes for a value.
Argument(t) ==
  CASE t \in {I1, I64} -> t
    [] Is(t, "string") \/ Is(t, "struct") -> PointerTo(t)
    [] Is(t, "pointer") -> IF t[2] \in {I1, I64} THEN t[2] ELSE t
    [] t = Bad -> Bad
    [] OTHER -> Throws

\* FunctionCall.  analyze says INTEGER whatever is called, and compares
\* neither the number of arguments nor their types with the function's.
FunctionCall(f, es) ==
  LET args == [i \in DOMAIN es |-> Argument(es[i].val)]
      meant == [i \in DOMAIN es |->
                  IF Is(es[i].want, "ill") THEN Ill ELSE Argument(es[i].want)]
      val == IF args = Signature[f] THEN ReturnType[f] ELSE Bad
      want == IF meant = Signature[f] THEN ReturnType[f] ELSE Ill
  IN  Node("Call", Analyzed(Types(es), Primary("INTEGER")), ReturnType[f],
           Strictly(args, val), want, FALSE, es)

\* ArrayReference.  Its type is that of the array, not of the element.  The
\* parser leaves the parent null if it is not a variable.
ArrayReference(p, i) ==
  LET type == IF p.type.class = "array" THEN p.type ELSE Rejected
      slot == IF Is(p.slot, "array") THEN p.slot[2] ELSE Bad
      val == IF Is(p.val, "array") /\ i.val \in {I1, I64} THEN p.val[2] ELSE Bad
      want == IF Is(p.want, "array") /\ i.want = I64 THEN p.want[2] ELSE Ill
      named == p.node = "Variable"
  IN  Node("ArrayRef",
           IF named THEN Analyzed(<<p.type, i.type>>, type) ELSE Crash,
           IF named THEN Strictly(<<p.slot>>, slot) ELSE Bad,
           IF named THEN Strictly(<<p.val, i.val>>, val) ELSE Bad,
           want, ~named, <<p, i>>)

\* Mutant: analyze counts a column too many before it stops.
MemberReferenceNext(p, m) ==
  LET has(t) == Is(t, "struct") /\ m + 1 \in DOMAIN t[2]
      known == p.type.class = "tuple" /\ m \in DOMAIN p.type.members
      want == IF known /\ Is(p.want, "struct") /\ m \in DOMAIN p.want[2]
              THEN p.want[2][m] ELSE Ill
  IN  Node("Member",
           IF known THEN Primary(p.type.members[m]) ELSE Rejected,
           IF known THEN convert_type(p.type.members[m]) ELSE Bad,
           IF p.node = "Variable" /\ has(p.val) THEN p.val[2][m + 1] ELSE Bad,
           want, p.node # "Variable", <<p>>)

\* MemberReference to the m-th column.  Only a row whose type_ has the names
\* of its columns has members: a declared one or a scan's.  get_ref takes the
\* parent for a variable, and does not evaluate it.
MemberReference(p, m) ==
  LET known == p.type.class = "tuple" /\ m \in DOMAIN p.type.members
      type == IF known THEN Primary(p.type.members[m]) ELSE Rejected
      slot == IF known THEN convert_type(p.type.members[m]) ELSE Bad
      has(t) == Is(t, "struct") /\ m \in DOMAIN t[2]
      named == p.node = "Variable"
      val == IF named /\ has(p.val) THEN p.val[2][m] ELSE Bad
      want == IF known /\ has(p.want) THEN p.want[2][m] ELSE Ill
  IN  Node("Member", Analyzed(<<p.type>>, type), slot, val, want, ~named, <<p>>)

\* Assign.  analyze does not compare the types of target and value.
Assign(t, v) ==
  LET val == IF Assignable(t) /\ t.val = v.val THEN t.val ELSE Bad
      want == IF Assignable(t) /\ Storable(v.want) /\ Alike(t.want, v.want)
              THEN t.want ELSE Ill
  IN  Node("Assign", Analyzed(<<t.type, v.type>>, v.type), v.slot,
           Strictly(<<t.val, v.val>>, val), want, t.want # v.want, <<t, v>>)

-----------------------------------------------------------------------------
Init ==
  /\ var_types = <<>> /\ slots = <<>> /\ wants = <<>>
  /\ exprs = <<>> /\ size = 0 /\ row_types = {}
  /\ status = "open" /\ ill = FALSE /\ gaps = FALSE

\* The last n expressions, and what is below them.
Last(n) == SubSeq(exprs, Len(exprs) - n + 1, Len(exprs))
Below(n) == SubSeq(exprs, 1, Len(exprs) - n)

\* e is built from the last n expressions.
Build(n, e) ==
  /\ size < MaxNodes /\ Len(exprs) - n < MaxStack
  /\ size' = size + 1
  /\ exprs' = Append(Below(n), e)
  /\ UNCHANGED <<var_types, slots, wants, status, row_types, ill, gaps>>

Leaf ==
  \/ Build(0, Literal)
  \/ Build(0, StringLiteral)
  \/ \E x \in Names : Build(0, Variable(x))

Prefix ==
  /\ Len(exprs) >= 1
  /\ LET e == Last(1)[1] IN
       \/ Build(1, PointerOf(e))
       \/ \E m \in 1 .. 2 : Build(1, MemberReference(e, m))
       \/ \E f \in DOMAIN Signature : Build(1, FunctionCall(f, <<e>>))
       \/ Build(1, RowLiteral(<<e>>))
       \/ Build(1, ArrayLiteral(<<e>>))

Infix ==
  /\ Len(exprs) >= 2
  /\ LET l == Last(2)[1]  r == Last(2)[2] IN
       \/ \E op \in Operators : Build(2, Binary(l, op, r))
       \/ Build(2, ArrayReference(l, r))
       \/ Build(2, Assign(l, r))
       \/ Build(2, RowLiteral(<<l, r>>))
       \/ Build(2, ArrayLiteral(<<l, r>>))
       \/ Build(2, FunctionCall("rand", <<l, r>>))

\* A statement takes the one expression e that was built, ends the compilation
\* or goes on, and has a meaning or not, which is carried out or not.
Statement(e, outcome, meant, gap) ==
  /\ exprs = <<e>> /\ exprs' = <<>>
  /\ status' = outcome
  /\ ill' = (ill \/ ~meant)
  /\ gaps' = (gaps \/ e.gap \/ gap)
  /\ UNCHANGED size

\* The program is analysed before anything of it is coded.
Outcome(e, throws, defined) ==
  CASE e.type = Rejected -> "rejected"
    [] e.type = Crash -> "undefined"
    [] OTHER -> IF throws THEN "rejected"
                ELSE IF defined THEN "open" ELSE "undefined"

\* The value can be stored in the slot that get_type asks for.
Fits(e) == e.slot \notin {Bad, Void} /\ e.val = e.slot

\* The column types of a declaration such as let <{int:x, string:y}> p = ...
Declarations == {<<"INTEGER">>, <<"INTEGER", "STRING">>}
Columns(ids) == [i \in DOMAIN ids |-> convert_type(ids[i])]

\* Let: the declared type replaces that of a row literal unseen.
Let(e, x, ids) ==
  LET declared == ids # <<>>
      throws == \/ declared /\ e.node \notin {"Row", "Array"}
                \/ Throws \in {e.slot, e.val}
      meant == /\ Storable(e.want)
               /\ declared => e.node = "Row" /\ e.want = StructOf(Columns(ids))
  IN  /\ x \notin DOMAIN var_types
      /\ Statement(e, Outcome(e, throws, Fits(e)), meant, e.want = I1)
      /\ row_types' = row_types \cup e.rows
      /\ var_types' = [y \in DOMAIN var_types \cup {x} |->
           IF y # x THEN var_types[y]
           ELSE IF declared /\ e.node = "Row" THEN TupleType(ids) ELSE e.type]
      /\ slots' = [y \in DOMAIN slots \cup {x} |->
           IF y = x THEN e.slot ELSE slots[y]]
      /\ wants' = [y \in DOMAIN wants \cup {x} |->
           IF y # x THEN wants[y] ELSE IF meant THEN e.want ELSE Ill]

\* Scan: the row variable of a table of two integer columns.
ScanRow(x) ==
  /\ exprs = <<>> /\ size < MaxNodes /\ size' = size + 1
  /\ x \notin DOMAIN var_types
  /\ var_types' = [y \in DOMAIN var_types \cup {x} |->
       IF y = x THEN TupleType(<<"INTEGER", "INTEGER">>) ELSE var_types[y]]
  /\ slots' = [y \in DOMAIN slots \cup {x} |->
       IF y = x THEN RowOf(<<I64, I64>>, x) ELSE slots[y]]
  /\ wants' = [y \in DOMAIN wants \cup {x} |->
       IF y = x THEN RowOf(<<I64, I64>>, x) ELSE wants[y]]
  /\ UNCHANGED <<exprs, status, row_types, ill, gaps>>

ExprStatement(e) ==
  /\ Statement(e, Outcome(e, Throws \in {e.slot, e.visit, e.val},
                          Bad \notin {e.slot, e.visit, e.val}),
               e.want # Ill, FALSE)
  /\ row_types' = row_types \cup e.rows
  /\ UNCHANGED <<var_types, slots, wants>>

Emit(e) ==
  /\ Statement(e, Outcome(e, \/ Throws \in {e.slot, e.val}
                             \/ ~ByAddress(e.slot) /\ e.slot \notin {Bad, Void},
                          Fits(e)),
               ByAddress(e.want), FALSE)
  /\ row_types' = row_types \cup e.rows
  /\ UNCHANGED <<var_types, slots, wants>>

\* Mutant: the condition is taken as it is.
IfConditionRaw(e) ==
  /\ Statement(e, Outcome(e, e.val = Throws, e.val = I1),
               e.want \in {I1, I64}, FALSE)
  /\ UNCHANGED <<var_types, slots, wants, row_types>>

\* If converts its condition, For does not.
IfCondition(e) ==
  /\ Statement(e, Outcome(e, e.val = Throws, to_i1(e.val) = I1),
               e.want \in {I1, I64}, FALSE)
  /\ UNCHANGED <<var_types, slots, wants, row_types>>

ForCondition(e) ==
  /\ Statement(e, Outcome(e, e.val = Throws, e.val = I1),
               e.want \in {I1, I64}, e.want = I64)
  /\ UNCHANGED <<var_types, slots, wants, row_types>>

\* No pass reserves stack slots for the third clause of a For, nor makes the
\* type of a row literal there.  The type is found if a statement has made it:
\* one of those above, or another, since every statement gets its slots before
\* any is coded (an insert, which is not modelled here, does too).
ForEvery(e, found) ==
  LET typed == e.node = "Row" => found
  IN  /\ (e.node = "Row" => e.slot \in row_types) => found
      /\ Statement(e, Outcome(e, e.val = Throws, e.val # Bad /\ ~e.stk /\ typed),
                   e.want # Ill, e.stk \/ ~typed)
      /\ UNCHANGED <<var_types, slots, wants, row_types>>

Next ==
  /\ status = "open"
  /\ \/ Leaf
     \/ Prefix
     \/ Infix
     \/ \E x \in Names : ScanRow(x)
     \/ \E x \in Names, ids \in Declarations \cup {<<>>} :
          Len(exprs) = 1 /\ Let(exprs[1], x, ids)
     \/ Len(exprs) = 1 /\ ExprStatement(exprs[1])
     \/ Len(exprs) = 1 /\ Emit(exprs[1])
     \/ Len(exprs) = 1 /\ IfCondition(exprs[1])
     \/ Len(exprs) = 1 /\ ForCondition(exprs[1])
     \/ \E found \in BOOLEAN : Len(exprs) = 1 /\ ForEvery(exprs[1], found)

Spec == Init /\ [][Next]_vars

-----------------------------------------------------------------------------
(* The passes agree on what has a meaning and is no gap: analyze accepts   *)
(* it, the code emitted for it has the LLVM type that the language gives   *)
(* it, get_type gives its slot the same type if it can be stored at all,   *)
(* every call in it has its slots, and analyze gave it the type_id on      *)
(* which operate decides.  For a gap there is no well-formed code at all,  *)
(* so that none is compiled into something other than what it means.       *)
PassesAgree ==
  status = "open" => \A i \in DOMAIN exprs :
    LET e == exprs[i] IN
    e.want # Ill =>
      IF e.gap THEN e.val \in {Bad, Throws}
      ELSE /\ e.type \notin {Rejected, Crash} /\ e.visit = Fine
           /\ e.val = e.want
           /\ Storable(e.want) => e.slot = IF e.want = I1 THEN I64 ELSE e.want
           /\ e.want = I64 => e.type.id = "INTEGER"
           /\ e.want = I1 => e.type.id = "BOOL"
           /\ e.want = Str => e.type.id = "STRING"
           /\ Is(e.want, "array") => e.type.class = "array"

(* A program whose every expression and statement has a meaning is         *)
(* compiled to well-formed code exactly if it has no gap: then analyze,    *)
(* get_type and get_value throw for nothing in it, no instruction has      *)
(* operands of the wrong type, and no null pointer is followed; and each   *)
(* of the gaps stops the compilation of every program it is in.            *)
MeaningfulCompiles == ~ill => (status # "open" <=> gaps)
=============================================================================
