-------------------------------- MODULE Parser --------------------------------
(***************************************************************************)
(* The recursive-descent parser of the language: parse (parser.cpp),       *)
(* parse_statement and the statement constructors                          *)
(* (ast_statement_parser.cpp), parse_expr, parse_expr_postfix and the      *)
(* expression constructors (ast_expression_parser.cpp), and the type       *)
(* constructors (ast_node_parser.cpp).                                     *)
(*                                                                         *)
(* The C++ call stack is the variable todo: what the functions that are    *)
(* running have still to do, the innermost first.  One step is one test of *)
(* the current token with what depends on it.  The trees under             *)
(* construction are the variable ast; a constructor that ends takes the    *)
(* trees above the mark it started from as its fields.                     *)
(*                                                                         *)
(* The parser looks one token ahead and never back, so the source program  *)
(* is revealed one token at a time, and only when the parser asks for it.  *)
(***************************************************************************)
EXTENDS Naturals, Sequences, FiniteSets

CONSTANTS Sources   \* each gives the types that the first, the second, ...
                    \* token of a program may have, and bounds its length

VARIABLES source,   \* the member of Sources this program is from
          tokens,   \* tokens_ of the TokenStream, as far as it is revealed
          eof,      \* TRUE when tokens is all of tokens_
          idx,      \* idx_, counted from 1
          todo,     \* the rest of the functions that are running
          ast,      \* the trees built and not yet in a larger tree
          outcome   \* "parsing", "parsed" or "error" (an exception)

vars == <<source, tokens, eof, idx, todo, ast, outcome>>

\* An identifier is "IDENTIFIER", or "PROPERTY" when its text is key, nullable
\* or unique: only the properties of a column tell them apart.  A number that
\* std::stoi refuses is "WIDE_NUMBER".  The reserved word int has the token type
\* INT in capitals too, which is "UPPER_INT": type_parse refuses it.
Identifiers == {"IDENTIFIER", "PROPERTY"}

BinaryOperators == {"PLUS", "MINUS", "ASTERISK", "SLASH", "PERCENT",
    "OPEN_ANGLE", "CLOSE_ANGLE", "EQUAL_EQUAL", "EXCLAMATION_MARK_EQUAL",
    "OPEN_ANGLE_EQUAL", "CLOSE_ANGLE_EQUAL", "AND_AND", "OR_OR"}

TokenTypes == Identifiers \cup BinaryOperators \cup {"STRING_LITERAL",
    "NUMBER", "WIDE_NUMBER", "OPEN_BRACE", "CLOSE_BRACE", "OPEN_PAREN",
    "CLOSE_PAREN", "OPEN_BRACKET", "CLOSE_BRACKET", "COMMA", "COLON",
    "SEMICOLON", "PERIOD", "EQUAL", "AND", "PLUS_EQUAL", "INT",
    "UPPER_INT", "DEFINE", "LET", "TRANSACTION", "IF", "ELSE", "FOR", "EMIT",
    "INSERT", "SCAN", "BREAK", "CONTINUE", "TUPLE", "INVALID"}

ASSUME SourcesAssumption ==
    \A s \in Sources : s \in Seq(SUBSET TokenTypes)

-----------------------------------------------------------------------------
(* Trees and the work of the running functions. *)

Node(kind, kids) == [kind |-> kind, at |-> 0, kids |-> kids]

\* A name, a literal or an operator: the token it was read from.
Leaf(kind, at) == [kind |-> kind, at |-> at, kids |-> <<>>]

\* A null pointer, and a pointer member that the constructor never sets.
Null == Node("Null", <<>>)
Unset == Node("Unset", <<>>)

Do(d) == [do |-> d, arg |-> "", kind |-> "", mark |-> 0]

\* expect_token(tokens.get(), t); tokens.next()
Expect(t) == [Do("expect") EXCEPT !.arg = t]

\* expect_token(tokens.get(), t)
Peek(t) == [Do("peek") EXCEPT !.arg = t]

\* The text of the current token, of type t or of any type, is kept.
Take(t, kind) == [Do("take") EXCEPT !.arg = t, !.kind = kind]
TakeAny(kind) == Take("any", kind)

\* The elements of a list that ends with the token close.
List(close) == [Do("list") EXCEPT !.arg = close]
More(close) == [Do("more") EXCEPT !.arg = close]

\* dynamic_cast of the last tree; the second throws when it yields nullptr.
Cast(kind) == [Do("cast") EXCEPT !.kind = kind]
CastOrThrow(kind) == [Do("cast_or_throw") EXCEPT !.kind = kind]

\* The end of a constructor: its fields are the trees after the first n.
Build(kind, n) == [Do("build") EXCEPT !.kind = kind, !.mark = n]

-----------------------------------------------------------------------------
(* The TokenStream. *)

Known == idx <= Len(tokens) \/ eof

has_next == idx <= Len(tokens)

cur == tokens[idx]

IsA(t) ==
    /\ has_next
    /\ \/ t = "any"
       \/ t = "IDENTIFIER" /\ cur \in Identifiers
       \/ t = cur

\* The lexer has produced another token, or it has reached the end.
Reveal ==
    /\ outcome = "parsing"
    /\ ~Known
    /\ \/ /\ Len(tokens) < Len(source)
          /\ \E t \in source[idx] : tokens' = Append(tokens, t)
          /\ UNCHANGED eof
       \/ eof' = TRUE /\ UNCHANGED tokens
    /\ UNCHANGED <<source, idx, todo, ast, outcome>>

\* The function on top of the call stack is about to do d.
Top(d) == outcome = "parsing" /\ Known /\ Head(todo).do = d

Expand(items) ==
    /\ todo' = items \o Tail(todo)
    /\ UNCHANGED <<source, tokens, eof, idx, ast, outcome>>

Return == Expand(<<>>)

ReturnTree(tree) ==
    /\ todo' = Tail(todo)
    /\ ast' = Append(ast, tree)
    /\ UNCHANGED <<source, tokens, eof, idx, outcome>>

\* An exception leaves parse: get() at the end of the tokens, a token that is
\* not expected, or a refused number.
Throw ==
    /\ outcome' = "error"
    /\ UNCHANGED <<source, tokens, eof, idx, todo, ast>>

ExpectToken ==
    /\ Top("expect")
    /\ \/ /\ IsA(Head(todo).arg)
          /\ idx' = idx + 1
          /\ todo' = Tail(todo)
          /\ UNCHANGED <<source, tokens, eof, ast, outcome>>
       \/ ~IsA(Head(todo).arg) /\ Throw

PeekToken ==
    /\ Top("peek")
    /\ \/ IsA(Head(todo).arg) /\ Return
       \/ ~IsA(Head(todo).arg) /\ Throw

TakeToken ==
    /\ Top("take")
    /\ \/ /\ IsA(Head(todo).arg)
          /\ idx' = idx + 1
          /\ todo' = Tail(todo)
          /\ ast' = Append(ast, Leaf(Head(todo).kind, idx))
          /\ UNCHANGED <<source, tokens, eof, outcome>>
       \/ ~IsA(Head(todo).arg) /\ Throw

LastTree == ast[Len(ast)]

CastTree ==
    /\ Top("cast")
    /\ todo' = Tail(todo)
    /\ ast' = IF LastTree.kind = Head(todo).kind THEN ast
              ELSE [ast EXCEPT ![Len(ast)] = Null]
    /\ UNCHANGED <<source, tokens, eof, idx, outcome>>

CastOrThrowTree ==
    /\ Top("cast_or_throw")
    /\ \/ LastTree.kind = Head(todo).kind /\ Return
       \/ LastTree.kind # Head(todo).kind /\ Throw

BuildTree ==
    /\ Top("build")
    /\ LET n == Head(todo).mark
       IN  ast' = Append(SubSeq(ast, 1, n),
                         Node(Head(todo).kind, SubSeq(ast, n + 1, Len(ast))))
    /\ todo' = Tail(todo)
    /\ UNCHANGED <<source, tokens, eof, idx, outcome>>

-----------------------------------------------------------------------------
(* Statements. *)

\* parse: a statement that parse_statement does not return is not added, and
\* parse_statement returns nullptr at a closing brace without consuming it.
Program ==
    /\ Top("program")
    /\ \/ /\ ~has_next
          /\ outcome' = "parsed"
          /\ UNCHANGED <<source, tokens, eof, idx, todo, ast>>
       \/ IsA("CLOSE_BRACE") /\ UNCHANGED vars
       \/ /\ has_next /\ ~IsA("CLOSE_BRACE")
          /\ Expand(<<Do("statement"), Do("program")>>)

Block ==
    /\ Top("block")
    /\ Expand(<<Expect("OPEN_BRACE"), Do("statements"), Expect("CLOSE_BRACE"),
                Build("Block", Len(ast))>>)

\* Mutant: a block's loop does not end at a closing brace.
StatementsStuck ==
    /\ Top("statements")
    /\ \/ ~has_next /\ Throw
       \/ IsA("CLOSE_BRACE") /\ UNCHANGED vars
       \/ /\ has_next /\ ~IsA("CLOSE_BRACE")
          /\ Expand(<<Do("statement"), Do("statements")>>)

\* The loop of Block's constructor.
Statements ==
    /\ Top("statements")
    /\ \/ ~has_next /\ Throw
       \/ IsA("CLOSE_BRACE") /\ Return
       \/ /\ has_next /\ ~IsA("CLOSE_BRACE")
          /\ Expand(<<Do("statement"), Do("statements")>>)

\* What the constructor of each statement does, by its first token.
StatementOf(t, n) ==
    CASE t = "OPEN_BRACE" -> <<Do("block")>>
      [] t = "TRANSACTION" ->
            <<Expect(t), Do("isolation"), Peek("OPEN_BRACE"), Do("block"),
              Build("Transaction", n)>>
      [] t = "LET" ->
            <<Expect(t), Do("let_type"), Take("IDENTIFIER", "Name"),
              Expect("EQUAL"), Do("expr"), Build("Let", n)>>
      [] t = "IF" ->
            <<Expect(t), Do("expr"), Peek("OPEN_BRACE"), Do("block"),
              Do("else"), Build("If", n)>>
      [] t = "FOR" ->
            <<Expect(t), Do("for_init"), Expect("SEMICOLON"),
              Do("for_clause"), Expect("SEMICOLON"),
              Do("for_clause"), Peek("OPEN_BRACE"), Do("block"),
              Build("For", n)>>
      [] t = "DEFINE" ->
            <<Expect(t), Do("row_type"), Cast("TupleType"),
              Take("IDENTIFIER", "Name"), Build("Define", n)>>
      [] t = "EMIT" -> <<Expect(t), Do("expr"), Build("Emit", n)>>
      [] t = "INSERT" ->
            <<Expect(t), Take("IDENTIFIER", "Name"), Peek("OPEN_BRACE"),
              Do("expr"), Build("Insert", n)>>
      [] t = "SCAN" ->
            <<Expect(t), Take("IDENTIFIER", "Name"), Expect("COMMA"),
              TakeAny("Name"), Peek("OPEN_BRACE"), Do("block"),
              Build("Scan", n)>>
      [] t \in {"BREAK", "CONTINUE"} -> <<Expect(t), Build("Jump", n)>>
      [] t = "TUPLE" ->
            <<Expect(t), Take("IDENTIFIER", "Name"), Do("type"),
              CastOrThrow("TupleType"), Build("DefineTuple", n)>>
      [] OTHER -> <<Do("expr"), Build("ExprStatement", n)>>

StatementTokens == Identifiers \cup {"OPEN_BRACE", "TRANSACTION", "LET", "IF",
    "FOR", "DEFINE", "EMIT", "INSERT", "SCAN", "BREAK", "CONTINUE", "TUPLE",
    "OPEN_BRACKET", "OPEN_PAREN", "NUMBER", "WIDE_NUMBER", "STRING_LITERAL"}

Statement ==
    /\ Top("statement")
    /\ \/ IsA("CLOSE_BRACE") /\ ReturnTree(Null)
       \/ /\ has_next /\ cur \in StatementTokens
          /\ Expand(StatementOf(cur, Len(ast)))
       \/ /\ has_next => cur \notin StatementTokens \cup {"CLOSE_BRACE"}
          /\ Throw

\* The isolation level is any token but an opening brace, SERIALIZABLE when
\* there is none.
Isolation ==
    /\ Top("isolation")
    /\ \/ ~has_next /\ Throw
       \/ IsA("OPEN_BRACE") /\ ReturnTree(Leaf("Isolation", 0))
       \/ /\ has_next /\ ~IsA("OPEN_BRACE")
          /\ Expand(<<TakeAny("Isolation")>>)

LetType ==
    /\ Top("let_type")
    /\ \/ ~has_next /\ Throw
       \/ IsA("OPEN_ANGLE") /\ Expand(<<Do("row_type")>>)
       \/ has_next /\ ~IsA("OPEN_ANGLE") /\ ReturnTree(Null)

\* Mutant: false_block_ is not set when there is no else.
ElseUnset ==
    /\ Top("else")
    /\ \/ IsA("ELSE") /\ Expand(<<Expect("ELSE"), Peek("OPEN_BRACE"),
                                  Do("block")>>)
       \/ ~IsA("ELSE") /\ Return

\* The one place that asks has_next before get.
Else ==
    /\ Top("else")
    /\ \/ IsA("ELSE") /\ Expand(<<Expect("ELSE"), Peek("OPEN_BRACE"),
                                  Do("block")>>)
       \/ ~IsA("ELSE") /\ ReturnTree(Null)

\* A clause that is left out leaves its member unset.
ForInit ==
    /\ Top("for_init")
    /\ \/ ~has_next /\ Throw
       \/ IsA("SEMICOLON") /\ ReturnTree(Unset)
       \/ has_next /\ ~IsA("SEMICOLON") /\ Expand(<<Do("statement")>>)

ForClause ==
    /\ Top("for_clause")
    /\ \/ ~has_next /\ Throw
       \/ IsA("SEMICOLON") /\ ReturnTree(Unset)
       \/ has_next /\ ~IsA("SEMICOLON") /\ Expand(<<Do("expr")>>)

-----------------------------------------------------------------------------
(* Expressions. *)

\* Mutant: a parenthesis may stay open.
ExprOfUnclosed(t, n) ==
    CASE t = "AND" -> <<Expect(t), Do("expr"), Build("PointerOf", n)>>
      [] t = "OPEN_BRACE" ->
            <<Expect(t), List("CLOSE_BRACE"), Expect("CLOSE_BRACE"),
              Build("RowLiteral", n)>>
      [] t = "OPEN_PAREN" -> <<Expect(t), Do("expr")>>
      [] t = "OPEN_BRACKET" ->
            <<Expect(t), List("CLOSE_BRACKET"), Expect("CLOSE_BRACKET"),
              Build("ArrayLiteral", n)>>
      [] t \in Identifiers -> <<Take(t, "Variable")>>
      [] OTHER -> <<Take(t, "Primary")>>

\* parse_expr up to the postfix, by the first token.
ExprOf(t, n) ==
    CASE t = "AND" -> <<Expect(t), Do("expr"), Build("PointerOf", n)>>
      [] t = "OPEN_BRACE" ->
            <<Expect(t), List("CLOSE_BRACE"), Expect("CLOSE_BRACE"),
              Build("RowLiteral", n)>>
      [] t = "OPEN_PAREN" -> <<Expect(t), Do("expr"), Expect("CLOSE_PAREN")>>
      [] t = "OPEN_BRACKET" ->
            <<Expect(t), List("CLOSE_BRACKET"), Expect("CLOSE_BRACKET"),
              Build("ArrayLiteral", n)>>
      [] t \in Identifiers -> <<Take(t, "Variable")>>
      [] OTHER -> <<Take(t, "Primary")>>

ExprTokens == Identifiers \cup {"AND", "OPEN_BRACE", "OPEN_PAREN",
    "OPEN_BRACKET", "STRING_LITERAL", "NUMBER"}

Expr ==
    /\ Top("expr")
    /\ \/ /\ has_next /\ cur \in ExprTokens
          /\ Expand(Append(ExprOf(cur, Len(ast)), Do("postfix")))
       \/ (has_next => cur \notin ExprTokens) /\ Throw

\* parse_expr_postfix: the last tree is what the postfix applies to.  A binary
\* operator takes the whole rest of the expression as its right operand.
PostfixOf(t, n) ==
    CASE t = "OPEN_PAREN" ->
            <<Expect(t), List("CLOSE_PAREN"), Expect("CLOSE_PAREN"),
              Build("FunctionCall", n), Do("postfix")>>
      [] t = "OPEN_BRACKET" ->
            <<Cast("Variable"), Expect(t), Do("expr"),
              Expect("CLOSE_BRACKET"), Build("ArrayReference", n),
              Do("postfix")>>
      [] t = "PERIOD" ->
            <<Expect(t), TakeAny("Name"), Build("MemberReference", n),
              Do("postfix")>>
      [] t = "EQUAL" ->
            <<Expect(t), Do("expr"), Build("Assign", n), Do("postfix")>>
      [] OTHER ->
            <<Take(t, "Operator"), Do("expr"), Build("BinaryExpression", n)>>

PostfixTokens ==
    BinaryOperators \cup {"OPEN_PAREN", "OPEN_BRACKET", "PERIOD", "EQUAL"}

Postfix ==
    /\ Top("postfix")
    /\ \/ /\ has_next /\ cur \in PostfixTokens
          /\ Expand(PostfixOf(cur, Len(ast) - 1))
       \/ (has_next => cur \notin PostfixTokens) /\ Return

\* The loops over the elements of a call, a row or an array: a comma follows
\* every element but the last, where it may.
ListLoop ==
    /\ Top("list")
    /\ \/ ~has_next /\ Throw
       \/ IsA(Head(todo).arg) /\ Return
       \/ /\ has_next /\ ~IsA(Head(todo).arg)
          /\ Expand(<<Do("expr"), More(Head(todo).arg)>>)

ListMore ==
    /\ Top("more")
    /\ \/ ~has_next /\ Throw
       \/ IsA(Head(todo).arg) /\ Return
       \/ /\ has_next /\ ~IsA(Head(todo).arg)
          /\ Expand(<<Expect("COMMA"), List(Head(todo).arg)>>)

-----------------------------------------------------------------------------
(* Types. *)

RowType ==
    /\ Top("row_type")
    /\ Expand(<<Expect("OPEN_ANGLE"), Do("type"), Expect("CLOSE_ANGLE")>>)

TypeOf(t, n) ==
    CASE t = "OPEN_BRACKET" ->
            <<Expect(t), Do("type"), Expect("CLOSE_BRACKET"),
              Build("ArrayType", n)>>
      [] t = "OPEN_BRACE" ->
            <<Expect(t), Do("column"), Expect("CLOSE_BRACE"),
              Build("TupleType", n)>>
      [] OTHER -> <<Take("INT", "PrimaryType")>>

ParseType ==
    /\ Top("type")
    /\ \/ ~has_next /\ Throw
       \/ has_next /\ Expand(TypeOf(cur, Len(ast)))

\* One turn of TupleType's loop.  The name of the type is any token.
Column ==
    /\ Top("column")
    /\ Expand(<<TakeAny("TypeName"), Do("parameter"), Expect("COLON"),
                Take("IDENTIFIER", "Name"), Do("properties"),
                Build("Column", Len(ast)), Do("columns")>>)

Parameter ==
    /\ Top("parameter")
    /\ \/ ~has_next /\ Throw
       \/ /\ IsA("OPEN_PAREN")
          /\ Expand(<<Expect("OPEN_PAREN"), Take("NUMBER", "Parameter"),
                      Expect("CLOSE_PAREN")>>)
       \/ has_next /\ ~IsA("OPEN_PAREN") /\ ReturnTree(Null)

\* Mutant: a property is read and not recorded.
PropertiesDrop ==
    /\ Top("properties")
    /\ \/ ~has_next /\ Throw
       \/ IsA("PROPERTY") /\ Expand(<<Expect("PROPERTY"), Do("properties")>>)
       \/ has_next /\ cur = "IDENTIFIER" /\ Throw
       \/ has_next /\ cur \notin Identifiers /\ Return

Properties ==
    /\ Top("properties")
    /\ \/ ~has_next /\ Throw
       \/ IsA("PROPERTY") /\ Expand(<<Take("PROPERTY", "Property"),
                                      Do("properties")>>)
       \/ has_next /\ cur = "IDENTIFIER" /\ Throw
       \/ has_next /\ cur \notin Identifiers /\ Return

Columns ==
    /\ Top("columns")
    /\ \/ ~has_next /\ Throw
       \/ IsA("COMMA") /\ Expand(<<Expect("COMMA"), Do("column")>>)
       \/ has_next /\ ~IsA("COMMA") /\ Return

-----------------------------------------------------------------------------
Init ==
    /\ source \in Sources
    /\ tokens = <<>> /\ eof = FALSE /\ idx = 1
    /\ todo = <<Do("program")>>
    /\ ast = <<>>
    /\ outcome = "parsing"

Parse ==
    \/ Program \/ Block \/ Statements \/ Statement
    \/ Isolation \/ LetType \/ Else \/ ForInit \/ ForClause
    \/ Expr \/ Postfix \/ ListLoop \/ ListMore
    \/ RowType \/ ParseType \/ Column \/ Parameter \/ Properties \/ Columns
    \/ ExpectToken \/ PeekToken \/ TakeToken
    \/ CastTree \/ CastOrThrowTree \/ BuildTree

Next == Reveal \/ Parse

Spec == Init /\ [][Next]_vars

\* The parser runs until it has a result, on the tokens of a finite program.
FairSpec == Spec /\ WF_vars(Next)
=============================================================================
