---------------------------- MODULE MCTokenizer -----------------------------
EXTENDS Tokenizer, TLC

\* Every class of characters, two letters that spell a reserved word, and
\* the operator characters that are and are not tokens alone.
MCAlphabet == {"\"", "\n", "(", "=", "!", "1", "i", "F"}

MCcapitalize == [c \in numbers \cup {"i", "F"} |->
                   CASE c = "i" -> "I" [] c = "F" -> "F" [] OTHER -> "digit"]

MCreserved == <<"I", "F">> :> "IF"
=============================================================================
