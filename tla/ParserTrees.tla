----------------------------- MODULE ParserTrees ------------------------------
(***************************************************************************)
(* What a program that Parser accepts looks like: properties of the trees  *)
(* that parse hands to the compiler.  They are walked recursively, which   *)
(* keeps this module for TLC.                                              *)
(***************************************************************************)
EXTENDS Parser, SequencesExt

-----------------------------------------------------------------------------
(* Walking a tree. *)

RECURSIVE Nodes(_)

\* A tree's nodes, in the order they are in the source.
Nodes(tree) ==
    <<tree>> \o FlattenSeq([k \in DOMAIN tree.kids |-> Nodes(tree.kids[k])])

\* The nodes of all that has been parsed.
AllNodes == FlattenSeq([k \in DOMAIN ast |-> Nodes(ast[k])])

\* The positions of the tokens that the trees keep, in order.
Kept ==
    LET leaves == SelectSeq(AllNodes, LAMBDA t : t.at > 0)
    IN  [k \in DOMAIN leaves |-> leaves[k].at]

\* A field that is nullptr because its dynamic_cast failed: what it would have
\* pointed to is not in the tree.
FailedCast(t) ==
    t.kind \in {"ArrayReference", "Define"} /\ t.kids[1] = Null

-----------------------------------------------------------------------------
(* The fields of each node, by the kinds they may have. *)

StatementKinds == {"Block", "Transaction", "Let", "If", "For", "Define",
    "Emit", "Insert", "Scan", "Jump", "DefineTuple", "ExprStatement"}

ExpressionKinds == {"PointerOf", "RowLiteral", "ArrayLiteral", "Variable",
    "Primary", "FunctionCall", "ArrayReference", "MemberReference", "Assign",
    "BinaryExpression"}

TypeKinds == {"ArrayType", "TupleType", "PrimaryType"}

\* The nodes with a fixed number of fields.
Fields ==
    [Transaction |-> <<{"Isolation"}, {"Block"}>>,
     Let |-> <<TypeKinds \cup {"Null"}, {"Name"}, ExpressionKinds>>,
     If |-> <<ExpressionKinds, {"Block"}, {"Block", "Null"}>>,
     For |-> <<StatementKinds \cup {"Unset"}, ExpressionKinds \cup {"Unset"},
               ExpressionKinds, {"Block"}>>,
     Define |-> <<{"TupleType", "Null"}, {"Name"}>>,
     Emit |-> <<ExpressionKinds>>,
     Insert |-> <<{"Name"}, ExpressionKinds>>,
     Scan |-> <<{"Name"}, {"Name"}, {"Block"}>>,
     Jump |-> <<>>,
     DefineTuple |-> <<{"Name"}, {"TupleType"}>>,
     ExprStatement |-> <<ExpressionKinds>>,
     PointerOf |-> <<ExpressionKinds>>,
     ArrayReference |-> <<{"Variable", "Null"}, ExpressionKinds>>,
     MemberReference |-> <<ExpressionKinds, {"Name"}>>,
     Assign |-> <<ExpressionKinds, ExpressionKinds>>,
     BinaryExpression |-> <<ExpressionKinds, {"Operator"}, ExpressionKinds>>,
     ArrayType |-> <<TypeKinds>>]

\* The nodes with a list, after the fields that come first.
Lists ==
    [Block |-> [first |-> <<>>, rest |-> StatementKinds],
     RowLiteral |-> [first |-> <<>>, rest |-> ExpressionKinds],
     ArrayLiteral |-> [first |-> <<>>, rest |-> ExpressionKinds],
     FunctionCall |-> [first |-> <<ExpressionKinds>>, rest |-> ExpressionKinds],
     TupleType |-> [first |-> <<{"Column"}>>, rest |-> {"Column"}],
     Column |-> [first |-> <<{"TypeName"}, {"Parameter", "Null"}, {"Name"}>>,
                 rest |-> {"Property"}]]

FieldsFit(kids, fields) ==
    /\ Len(kids) >= Len(fields)
    /\ \A k \in DOMAIN fields : kids[k].kind \in fields[k]

Fits(t) ==
    /\ t.kind \in DOMAIN Fields =>
          FieldsFit(t.kids, Fields[t.kind]) /\ Len(t.kids) = Len(Fields[t.kind])
    /\ t.kind \in DOMAIN Lists =>
          /\ FieldsFit(t.kids, Lists[t.kind].first)
          /\ \A k \in Len(Lists[t.kind].first) + 1 .. Len(t.kids) :
                t.kids[k].kind \in Lists[t.kind].rest

-----------------------------------------------------------------------------
(* Properties. *)

\* In an accepted program every node has the fields its constructor is meant
\* to set, each of a kind the later passes can use, and only statements are at
\* the top.  The only members that may be nullptr are an absent type or else
\* block, a table whose type is not a tuple and the array of an index that is
\* not a variable; the only ones never set are the first two clauses of For.
\* A number that std::stoi cannot hold is in no literal and no parameter.
AcceptedTreesFit ==
    outcome = "parsed" =>
        /\ \A k \in DOMAIN ast : ast[k].kind \in StatementKinds
        /\ \A k \in DOMAIN AllNodes :
              LET t == AllNodes[k] IN
              /\ Fits(t)
              /\ t.kind \in {"Primary", "Parameter"} =>
                    tokens[t.at] \in {"NUMBER", "STRING_LITERAL"}

Opens == [CLOSE_BRACE |-> "OPEN_BRACE", CLOSE_PAREN |-> "OPEN_PAREN",
          CLOSE_BRACKET |-> "OPEN_BRACKET"]

RECURSIVE Nested(_, _)

\* The brackets of s match, when those of open are still open.
Nested(s, open) ==
    IF s = <<>> THEN open = <<>>
    ELSE IF Head(s) \in DOMAIN Opens
         THEN /\ open # <<>>
              /\ Head(open) = Opens[Head(s)]
              /\ Nested(Tail(s), Tail(open))
         ELSE Nested(Tail(s), IF \E c \in DOMAIN Opens : Opens[c] = Head(s)
                              THEN <<Head(s)>> \o open ELSE open)

\* In an accepted program the braces, parentheses and brackets that are not
\* read as a name (a member, a row, an isolation level or a type may be any
\* token) nest: no constructor returns before the token that closes it.
AcceptedBracketsNest ==
    outcome = "parsed" /\ (\A k \in DOMAIN AllNodes : ~FailedCast(AllNodes[k])) =>
        LET names == {Kept[k] : k \in DOMAIN Kept}
            rest == SelectSeq([k \in DOMAIN tokens |-> k],
                              LAMBDA k : k \notin names)
        IN  Nested([k \in DOMAIN rest |-> tokens[rest[k]]], <<>>)

Significant ==
    Identifiers \cup {"NUMBER", "STRING_LITERAL"}
      \cup (BinaryOperators \ {"OPEN_ANGLE", "CLOSE_ANGLE"})

\* In an accepted program the trees keep every identifier, literal and binary
\* operator once, in the order of the source, unless a failed dynamic_cast has
\* dropped a subtree.
AcceptedTreesKeepTokens ==
    outcome = "parsed" =>
        /\ \A j, k \in DOMAIN Kept : j < k => Kept[j] < Kept[k]
        /\ (\A k \in DOMAIN AllNodes : ~FailedCast(AllNodes[k])) =>
              \A p \in DOMAIN tokens :
                 tokens[p] \in Significant => \E k \in DOMAIN Kept : Kept[k] = p

\* The parser stands at a closing brace that no block is open for.
StrayBrace == todo = <<Do("program")>> /\ IsA("CLOSE_BRACE")

\* parse ends, with a tree or an exception, on every program, except where it
\* meets a closing brace outside every block: parse_statement returns nullptr
\* there without consuming it, and the loop of parse calls it for ever.
ParseEnds == <>(outcome # "parsing" \/ StrayBrace)

-----------------------------------------------------------------------------
(* What the description of the language says. *)

\* The position of a tree's first token.
First(tree) == LET s == SelectSeq(Nodes(tree), LAMBDA t : t.at > 0) IN s[1].at

\* Subtraction associates to the left: "8 - 1 - 2 # 5".  The right operand of
\* one is not itself one, unless it is in parentheses.
SubtractsFromLeft ==
    outcome = "parsed" =>
        \A k \in DOMAIN AllNodes :
            LET t == AllNodes[k]
                minus(u) == u.kind = "BinaryExpression"
                            /\ tokens[u.kids[2].at] = "MINUS"
            IN  minus(t) /\ minus(t.kids[3]) =>
                    First(t.kids[3]) # t.kids[2].at + 1
=============================================================================
