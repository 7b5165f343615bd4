------------------------------- MODULE MCParser -------------------------------
(***************************************************************************)
(* Parser on all programs over small vocabularies, one or more for each    *)
(* part of the grammar.                                                    *)
(***************************************************************************)
EXTENDS ParserTrees

\* n tokens of these types.
Of(n, words) == [k \in 1 .. n |-> words]

\* These tokens, in this order.
Exactly(words) == [k \in DOMAIN words |-> {words[k]}]

Braces == {"OPEN_BRACE", "CLOSE_BRACE"}

MCSources == {
    \* control
    Exactly(<<"FOR">>)
      \o Of(7, {"IDENTIFIER", "SEMICOLON"} \cup Braces),
    Of(6, {"NUMBER", "IF", "ELSE", "CONTINUE"} \cup Braces),
    Of(6, {"IDENTIFIER", "TRANSACTION", "SCAN", "COMMA"} \cup Braces),
    Of(5, {"IDENTIFIER", "INSERT", "LET", "EQUAL", "EMIT", "BREAK",
           "INVALID"} \cup Braces),
    \* expressions
    Of(6, {"NUMBER", "MINUS", "OPEN_PAREN", "CLOSE_PAREN", "COMMA"}),
    Of(5, {"IDENTIFIER", "WIDE_NUMBER", "OPEN_BRACKET", "CLOSE_BRACKET",
           "COMMA", "PERIOD"}),
    Exactly(<<"EMIT">>)
      \o Of(5, {"STRING_LITERAL", "EQUAL_EQUAL", "EQUAL", "AND", "COMMA"}
               \cup Braces),
    \* types
    Exactly(<<"DEFINE", "OPEN_ANGLE", "OPEN_BRACE">>)
      \o Of(8, {"IDENTIFIER", "PROPERTY", "COLON", "COMMA", "CLOSE_BRACE",
                "CLOSE_ANGLE"}),
    Exactly(<<"TUPLE", "IDENTIFIER">>)
      \o Of(8, {"IDENTIFIER", "INT", "COLON", "OPEN_PAREN", "CLOSE_PAREN",
                "NUMBER", "WIDE_NUMBER", "OPEN_BRACKET"} \cup Braces),
    Exactly(<<"LET">>)
      \o Of(7, {"OPEN_ANGLE", "CLOSE_ANGLE", "INT", "OPEN_BRACKET",
                "CLOSE_BRACKET", "EQUAL", "IDENTIFIER"}),
    Exactly(<<"DEFINE", "OPEN_ANGLE">>)
      \o Of(5, {"INT", "UPPER_INT", "OPEN_BRACKET", "CLOSE_BRACKET",
                "CLOSE_ANGLE", "IDENTIFIER"})}
=============================================================================
