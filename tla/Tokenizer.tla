----------------------------- MODULE Tokenizer ------------------------------
(***************************************************************************)
(* tokenize(): one pass over the program text that cuts it into tokens.    *)
(*                                                                         *)
(* Each turn of the loop is a step; `code' is any text over Alphabet up to *)
(* MaxLen characters.  Positions start at 1.  A token refers to its text   *)
(* by position and length, as util::slice does.  The outcome is "abort"    *)
(* where symbol_token calls abort(), "throw" where tokenize throws.        *)
(***************************************************************************)
EXTENDS Integers, Sequences, FiniteSets

CONSTANTS
  Alphabet,    \* characters of the program text
  MaxLen,      \* bound: length of the text
  capitalize,  \* c & ~0x20 for the characters that make up names
  reserved     \* reserved words: capitalised spelling -> token type

openBrace == "{"
closeBrace == "}"
comma == ","
colon == ":"
semicolon == ";"
period == "."
less == "<"
greater == ">"
quote == "\""

delimiters == {"\n", " ", "\t"}
symbols == {openBrace, closeBrace, "(", ")", "[", "]", comma, colon, semicolon}
numbers == {"0", "1", "2", "3", "4", "5", "6", "7", "8", "9"}
operator_tokens ==
  {"+", "-", "*", "/", "%", "=", "!", less, greater, period, "&", "|"}

Letters ==
  Alphabet \ (delimiters \cup symbols \cup numbers \cup operator_tokens \cup {quote})

reserved_words ==
  {"TYPE", "INT", "DEFINE", "LET", "TRANSACTION", "SERIALIZABLE", "IF", "ELSE",
   "FOR", "EMIT", "INSERT", "SCAN", "BREAK", "CONTINUE", "TUPLE"}

ASSUME TokenizerAssumption ==
  /\ MaxLen \in Nat
  /\ Letters \cup numbers \subseteq DOMAIN capitalize
  /\ \A w \in DOMAIN reserved : reserved[w] \in reserved_words

VARIABLES
  code,     \* the text
  i,        \* the position of the loop
  state,    \* current_state
  from,     \* start and length of the token being read
  len,
  row,
  col,
  ret,      \* the tokens
  outcome   \* "reading", or how tokenize ended: "done", "throw", "abort"

vars == <<code, i, state, from, len, row, col, ret, outcome>>

Texts == UNION {[1 .. n -> Alphabet] : n \in 0 .. MaxLen}

-----------------------------------------------------------------------------
(* Token types *)

symbol_types ==
  {<<openBrace, "OPEN_BRACE">>, <<closeBrace, "CLOSE_BRACE">>,
   <<"(", "OPEN_PAREN">>, <<")", "CLOSE_PAREN">>,
   <<"[", "OPEN_BRACKET">>, <<"]", "CLOSE_BRACKET">>,
   <<less, "OPEN_ANGLE">>, <<greater, "CLOSE_ANGLE">>,
   <<comma, "COMMA">>, <<"*", "ASTERISK">>, <<"/", "SLASH">>,
   <<"+", "PLUS">>, <<"-", "MINUS">>, <<colon, "COLON">>,
   <<semicolon, "SEMICOLON">>, <<period, "PERIOD">>, <<"=", "EQUAL">>,
   <<"&", "AND">>, <<"%", "PERCENT">>}

operator_token_list ==
  {<<<<"=", "=">>, "EQUAL_EQUAL">>, <<<<"!", "=">>, "EXCLAMATION_MARK_EQUAL">>,
   <<<<less, "=">>, "OPEN_ANGLE_EQUAL">>, <<<<greater, "=">>, "CLOSE_ANGLE_EQUAL">>,
   <<<<"+", "=">>, "PLUS_EQUAL">>, <<<<"-", "=">>, "MINUS_EQUAL">>,
   <<<<"*", "=">>, "ASTERISK_EQUAL">>, <<<<"/", "=">>, "SLASH_EQUAL">>,
   <<<<"%", "=">>, "PERCENT_EQUAL">>, <<<<"&", "&">>, "AND_AND">>,
   <<<<"|", "|">>, "OR_OR">>}

\* The type that a table gives to an image, or the default.
Lookup(table, image, default) ==
  IF \E def \in table : def[1] = image
    THEN (CHOOSE def \in table : def[1] = image)[2]
    ELSE default

symbol_token(c) == Lookup(symbol_types, c, "abort")

operator_token(s) ==
  IF Len(s) = 1 THEN symbol_token(s[1])
  ELSE Lookup(operator_token_list, s, "INVALID")

Capitalized(s) == [k \in DOMAIN s |-> capitalize[s[k]]]

in_reserverd_word(s) == Capitalized(s) \in DOMAIN reserved
as_reserved(s) == reserved[Capitalized(s)]

-----------------------------------------------------------------------------
(* Finishing the token being read *)

Token(type, f, n, r, c) ==
  [type |-> type, from |-> f, len |-> n, row |-> r, col |-> c]

\* The types given to text that is not in quotes; "abort" is no type, but what
\* symbol_token does instead of returning one.
plain_types ==
  {def[2] : def \in symbol_types} \cup {def[2] : def \in operator_token_list}
    \cup reserved_words \cup {"IDENTIFIER", "NUMBER", "INVALID", "abort"}

Tokens == [type : plain_types \cup {"STRING_LITERAL"},
           from : Nat, len : Nat, row : Int, col : Int]

Pending == SubSeq(code, from, from + len - 1)

\* Mutant: a name is never a reserved word.
add_tokenPlain(s, f, n) ==
  Token(CASE s = "NAME" -> "IDENTIFIER" [] s = "NUMBER" -> "NUMBER"
          [] OTHER -> operator_token(SubSeq(code, f, f + n - 1)), f, n, row, col)

\* Both overloads of add_token, and add_operator.  For a name the position
\* has a single number: the row of a reserved word, the col of another name.
add_token(s, f, n) ==
  LET word == SubSeq(code, f, f + n - 1)
  IN  CASE s = "NAME" ->
             IF in_reserverd_word(word)
               THEN Token(as_reserved(word), f, n, row, 0)
               ELSE Token("IDENTIFIER", f, n, col, 0)
        [] s = "NUMBER" -> Token("NUMBER", f, n, row, col)
        [] OTHER -> Token(operator_token(word), f, n, row, col)

Reading == outcome = "reading" /\ i <= Len(code)

Stop(how) ==
  /\ outcome' = how
  /\ UNCHANGED <<code, i, state, from, len, row, col, ret>>

\* The operator "!" or "|" alone has no token type.
Aborts == state = "OPERATOR" /\ operator_token(Pending) = "abort"

\* Mutant: the token being read is dropped unless it is a name.
FinishDrop(toks, s, n) ==
  /\ ret' = (IF state = "NAME" THEN Append(ret, add_token(state, from, len))
             ELSE ret) \o toks
  /\ state' = s /\ from' = i /\ len' = n /\ i' = i + 1
  /\ UNCHANGED <<code, outcome>>

\* Add the token being read, if there is one, then the tokens toks, and go
\* to state s, in which the first n characters of a token have been read.
Finish(toks, s, n) ==
  /\ ret' = (IF state = "INIT" THEN ret
             ELSE Append(ret, add_token(state, from, len))) \o toks
  /\ state' = s /\ from' = i /\ len' = n /\ i' = i + 1
  /\ UNCHANGED <<code, outcome>>

Extend ==
  /\ len' = len + 1 /\ i' = i + 1
  /\ UNCHANGED <<code, state, from, ret, outcome>>

-----------------------------------------------------------------------------
(* The branches of the loop *)

TypeOK ==
  /\ code \in Texts
  /\ i \in 1 .. Len(code) + 1
  /\ state \in {"INIT", "NAME", "NUMBER", "STRING", "OPERATOR"}
  /\ from \in 1 .. Len(code) + 1 /\ len \in 0 .. Len(code)
  /\ row \in Nat /\ col \in Int
  /\ ret \in Seq(Tokens)
  /\ outcome \in {"reading", "done", "throw", "abort"}

Init ==
  /\ code \in Texts
  /\ i = 1 /\ state = "INIT" /\ from = 1 /\ len = 0
  /\ row = 1 /\ col = 0
  /\ ret = << >> /\ outcome = "reading"

StringChar ==
  /\ Reading /\ state = "STRING" /\ code[i] # quote
  /\ Extend
  /\ col' = col + 1
  /\ UNCHANGED row

\* Mutant: the literal starts at its quote.
StringEndQuoted ==
  /\ Reading /\ state = "STRING" /\ code[i] = quote
  /\ ret' = Append(ret, Token("STRING_LITERAL", from, len, row, col))
  /\ state' = "INIT" /\ from' = i /\ len' = 0 /\ i' = i + 1
  /\ col' = col + 1
  /\ UNCHANGED <<code, row, outcome>>

StringEnd ==
  /\ Reading /\ state = "STRING" /\ code[i] = quote
  /\ ret' = Append(ret, Token("STRING_LITERAL", from + 1, len - 1, row, col))
  /\ state' = "INIT" /\ from' = i /\ len' = 0 /\ i' = i + 1
  /\ col' = col + 1
  /\ UNCHANGED <<code, row, outcome>>

Quote ==
  /\ Reading /\ state # "STRING" /\ code[i] = quote
  /\ IF Aborts THEN Stop("abort")
     ELSE Finish(<< >>, "STRING", 1) /\ UNCHANGED <<row, col>>

\* Mutant: the row is counted before the token being read is added.
DelimiterEarly ==
  /\ Reading /\ state # "STRING" /\ code[i] \in delimiters
  /\ IF Aborts THEN Stop("abort")
     ELSE /\ ret' = IF state = "INIT" THEN ret
                    ELSE Append(ret, [add_token(state, from, len) EXCEPT !.row = @ + 1])
          /\ state' = "INIT" /\ from' = i /\ len' = 0 /\ i' = i + 1
          /\ row' = row + (IF code[i] = "\n" THEN 1 ELSE 0)
          /\ col' = IF code[i] = "\n" THEN -1 ELSE col
          /\ UNCHANGED <<code, outcome>>

Delimiter ==
  /\ Reading /\ state # "STRING" /\ code[i] \in delimiters
  /\ IF Aborts THEN Stop("abort")
     ELSE /\ Finish(<< >>, "INIT", 0)
          /\ row' = row + (IF code[i] = "\n" THEN 1 ELSE 0)
          /\ col' = IF code[i] = "\n" THEN -1 ELSE col

Symbol ==
  /\ Reading /\ state # "STRING" /\ code[i] \in symbols
  /\ IF Aborts THEN Stop("abort")
     ELSE /\ Finish(<<Token(symbol_token(code[i]), i, 1, row, col)>>, "INIT", 0)
          /\ UNCHANGED <<row, col>>

Operator ==
  /\ Reading /\ state # "STRING" /\ code[i] \in operator_tokens
  /\ IF state = "OPERATOR" THEN Extend ELSE Finish(<< >>, "OPERATOR", 1)
  /\ UNCHANGED <<row, col>>

Number ==
  /\ Reading /\ state # "STRING" /\ code[i] \in numbers
  /\ IF Aborts THEN Stop("abort")
     ELSE /\ IF state \in {"NAME", "NUMBER"} THEN Extend
             ELSE Finish(<< >>, "NUMBER", 1)
          /\ UNCHANGED <<row, col>>

Name ==
  /\ Reading /\ state # "STRING" /\ code[i] \in Letters
  /\ IF state = "NUMBER" THEN Stop("throw")
     ELSE IF Aborts THEN Stop("abort")
     ELSE /\ IF state = "NAME" THEN Extend ELSE Finish(<< >>, "NAME", 1)
          /\ col' = col + 1
          /\ UNCHANGED row

\* After the loop.
EndOfCode ==
  /\ outcome = "reading" /\ i = Len(code) + 1
  /\ IF state = "STRING" THEN Stop("throw")
     ELSE IF Aborts THEN Stop("abort")
     ELSE /\ ret' = IF state = "INIT" THEN ret
                    ELSE Append(ret, add_token(state, from, len))
          /\ outcome' = "done"
          /\ UNCHANGED <<code, i, state, from, len, row, col>>

Next == \/ StringChar \/ StringEnd \/ Quote \/ Delimiter \/ Symbol
        \/ Operator \/ Number \/ Name \/ EndOfCode

Spec == Init /\ [][Next]_vars

-----------------------------------------------------------------------------
(* Properties *)

\* The text a token stands for, a string literal with its quotes.
Extent(t) ==
  IF t.type = "STRING_LITERAL" THEN t.from - 1 .. t.from + t.len
  ELSE t.from .. t.from + t.len - 1

\* Text read but not yet in a token.
PendingExtent ==
  IF state = "INIT" \/ outcome = "done" THEN {} ELSE from .. i - 1

\* Every character read that is not a delimiter is in a token, or in the
\* one being read, whatever state the loop was in when it met it.
Covered ==
  \A p \in 1 .. i - 1 :
    \/ code[p] \in delimiters
    \/ p \in PendingExtent
    \/ \E k \in DOMAIN ret : p \in Extent(ret[k])

\* Tokens do not overlap, and are in the order of the text.
Ordered ==
  /\ \A k, m \in DOMAIN ret : k < m =>
       \A p \in Extent(ret[k]), q \in Extent(ret[m]) : p < q
  /\ \A k \in DOMAIN ret : \A p \in Extent(ret[k]) :
       p \in 1 .. i - 1 /\ \A q \in PendingExtent : p < q

-----------------------------------------------------------------------------
(* Reference: the tokens of a text, told from the text alone *)

Quotes(p) == {q \in 1 .. p - 1 : code[q] = quote}

\* Positions in a string literal or its quotes.
Quoted(p) == code[p] = quote \/ Cardinality(Quotes(p)) % 2 = 1

CharClass(p) ==
  IF Quoted(p) THEN "quoted"
  ELSE CASE code[p] \in delimiters -> "blank"
         [] code[p] \in symbols -> "symbol"
         [] code[p] \in operator_tokens -> "operator"
         [] OTHER -> "word"

\* p .. q is a maximal run of operator characters, of letters and digits, a
\* single symbol, or a string literal with its quotes.
Lexeme(p, q) ==
  \/ /\ CharClass(p) \in {"operator", "word"}
     /\ \A k \in p .. q : CharClass(k) = CharClass(p)
     /\ p > 1 => CharClass(p - 1) # CharClass(p)
     /\ q < Len(code) => CharClass(q + 1) # CharClass(p)
  \/ p = q /\ CharClass(p) = "symbol"
  \/ /\ p < q /\ code[p] = quote /\ code[q] = quote
     /\ Cardinality(Quotes(p)) % 2 = 0
     /\ Cardinality(Quotes(q)) = Cardinality(Quotes(p)) + 1

Spans == {pq \in (1 .. Len(code)) \X (1 .. Len(code)) : pq[1] <= pq[2]}
Lexemes == {pq \in Spans : Lexeme(pq[1], pq[2])}

LexemeType(p, q) ==
  LET word == SubSeq(code, p, q)
  IN  CASE CharClass(p) = "quoted" -> "STRING_LITERAL"
        [] CharClass(p) = "symbol" -> symbol_token(code[p])
        [] CharClass(p) = "operator" -> operator_token(word)
        [] code[p] \in numbers -> "NUMBER"
        [] OTHER -> IF in_reserverd_word(word) THEN as_reserved(word)
                    ELSE "IDENTIFIER"

\* Texts that tokenize rejects: a number with a letter in it, an unfinished
\* literal; and those it aborts on, an operator "!" or "|" alone.
Rejected ==
  \/ \E pq \in Lexemes :
       /\ code[pq[1]] \in numbers /\ ~Quoted(pq[1])
       /\ \E k \in pq[1] .. pq[2] : code[k] \in Letters
  \/ Cardinality(Quotes(Len(code) + 1)) % 2 = 1

Aborted == \E pq \in Lexemes : LexemeType(pq[1], pq[2]) = "abort"

\* tokenize accepts exactly the texts whose lexemes are all well formed, and
\* then returns their lexemes, with their types.
Munch ==
  /\ outcome = "done" =>
       /\ ~Rejected /\ ~Aborted
       /\ {<<t.type, Extent(t)>> : t \in {ret[k] : k \in DOMAIN ret}} =
          {<<LexemeType(pq[1], pq[2]), pq[1] .. pq[2]>> : pq \in Lexemes}
  /\ outcome = "throw" => Rejected
  /\ outcome = "abort" => Aborted

\* The row of a token other than an identifier is the line it is on, when no
\* string literal before it spans lines: expect_token reports it as "line:".
RowsRight ==
  \A k \in DOMAIN ret :
    LET p == ret[k].from
        breaks == {q \in 1 .. p - 1 : code[q] = "\n"}
    IN  ret[k].type # "IDENTIFIER" /\ (\A q \in breaks : ~Quoted(q))
          => ret[k].row = 1 + Cardinality(breaks)
=============================================================================
