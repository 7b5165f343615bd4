-------------------------- MODULE TokenizerProofs ---------------------------
(***************************************************************************)
(* For texts of every length: tokenize() loses and reorders nothing, its   *)
(* tokens are the lexemes of the text, and their rows its lines.           *)
(***************************************************************************)
EXTENDS Tokenizer, FiniteSetTheorems, WellFoundedInduction, TLAPS

-----------------------------------------------------------------------------
(* Sequences of tokens: in order, below a position, covering the text *)

Sorted(r) ==
  \A k, m \in DOMAIN r : k < m =>
    \A p \in Extent(r[k]), q \in Extent(r[m]) : p < q

Below(r, b) == \A k \in DOMAIN r : \A p \in Extent(r[k]) : p \in 1 .. b - 1

Covers(r, b) ==
  \A p \in 1 .. b - 1 :
    code[p] \in delimiters \/ \E k \in DOMAIN r : p \in Extent(r[k])

\* The tokens r stand for the text before b.
Good(r, b) == r \in Seq(Tokens) /\ Sorted(r) /\ Below(r, b) /\ Covers(r, b)

\* Adding a token whose text starts where the tokens before it end.
LEMMA Appending ==
  ASSUME NEW r, NEW b \in Nat \ {0}, Good(r, b), NEW t \in Tokens,
         NEW e \in Nat, b <= e, Extent(t) = b .. e - 1
  PROVE  Good(Append(r, t), e)
<1> DEFINE a == Append(r, t)
<1>1. /\ r \in Seq(Tokens) /\ Len(r) \in Nat /\ DOMAIN r = 1 .. Len(r)
      /\ a \in Seq(Tokens) /\ DOMAIN a = 1 .. Len(r) + 1
      /\ \A k \in DOMAIN r : a[k] = r[k]
      /\ a[Len(r) + 1] = t
  BY DEF Good
<1> HIDE DEF a
<1>2. \A k \in DOMAIN a : k \in DOMAIN r \/ k = Len(r) + 1
  BY <1>1
<1>3. Sorted(a)
  <2> SUFFICES ASSUME NEW k \in DOMAIN a, NEW m \in DOMAIN a, k < m,
                      NEW p \in Extent(a[k]), NEW q \in Extent(a[m])
               PROVE  p < q
    BY DEF Sorted
  <2>1. k \in DOMAIN r
    BY <1>1
  <2>2. CASE m \in DOMAIN r
    BY <2>1, <2>2, <1>1 DEF Good, Sorted
  <2>3. CASE m = Len(r) + 1
    <3>1. p \in 1 .. b - 1
      BY <2>1, <1>1 DEF Good, Below
    <3>2. q \in b .. e - 1
      BY <2>3, <1>1
    <3> QED
      BY <3>1, <3>2
  <2> QED
    BY <2>2, <2>3, <1>2
<1>4. Below(a, e)
  <2> SUFFICES ASSUME NEW k \in DOMAIN a, NEW p \in Extent(a[k])
               PROVE  p \in 1 .. e - 1
    BY DEF Below
  <2>1. CASE k \in DOMAIN r
    <3>1. p \in 1 .. b - 1
      BY <2>1, <1>1 DEF Good, Below
    <3> QED
      BY <3>1
  <2>2. CASE k = Len(r) + 1
    BY <2>2, <1>1
  <2> QED
    BY <2>1, <2>2, <1>2
<1>5. Covers(a, e)
  <2> SUFFICES ASSUME NEW p \in 1 .. e - 1
               PROVE  code[p] \in delimiters \/ \E k \in DOMAIN a : p \in Extent(a[k])
    BY DEF Covers
  <2>1. CASE p \in 1 .. b - 1
    <3>1. code[p] \in delimiters \/ \E k \in DOMAIN r : p \in Extent(r[k])
      BY <2>1 DEF Good, Covers
    <3> QED
      BY <3>1, <1>1
  <2>2. CASE p \in b .. e - 1
    <3>1. Len(r) + 1 \in DOMAIN a /\ p \in Extent(a[Len(r) + 1])
      BY <2>2, <1>1
    <3> QED
      BY <3>1
  <2> QED
    BY <2>1, <2>2
<1> QED
  BY <1>1, <1>3, <1>4, <1>5 DEF Good, a

\* Going past a delimiter.
LEMMA Skipping ==
  ASSUME NEW r, NEW b \in Nat \ {0}, Good(r, b), code[b] \in delimiters
  PROVE  Good(r, b + 1)
<1>1. Below(r, b + 1)
  <2> SUFFICES ASSUME NEW k \in DOMAIN r, NEW p \in Extent(r[k])
               PROVE  p \in 1 .. b + 1 - 1
    BY DEF Below
  <2>1. p \in 1 .. b - 1
    BY DEF Good, Below
  <2> QED
    BY <2>1
<1>2. Covers(r, b + 1)
  <2> SUFFICES ASSUME NEW p \in 1 .. b + 1 - 1
               PROVE  code[p] \in delimiters \/ \E k \in DOMAIN r : p \in Extent(r[k])
    BY DEF Covers
  <2>1. p = b \/ p \in 1 .. b - 1
    OBVIOUS
  <2> QED
    BY <2>1 DEF Good, Covers
<1> QED
  BY <1>1, <1>2 DEF Good

-----------------------------------------------------------------------------
(* The tokens that the loop makes *)

\* Looking up an image gives a type of the table or the default.
LEMMA LookupType ==
  ASSUME NEW table, NEW image, NEW default, NEW T,
         \A def \in table : def[2] \in T, default \in T
  PROVE  Lookup(table, image, default) \in T
  BY DEF Lookup

\* No text outside quotes is taken for a string literal.
LEMMA NotLiteral == "STRING_LITERAL" \notin plain_types
<1>1. \A def \in symbol_types : def[2] # "STRING_LITERAL"
  BY DEF symbol_types
<1>2. \A def \in operator_token_list : def[2] # "STRING_LITERAL"
  BY DEF operator_token_list
<1>3. "STRING_LITERAL" \notin reserved_words
  BY DEF reserved_words
<1> QED
  BY <1>1, <1>2, <1>3 DEF plain_types

\* The type of a symbol.
LEMMA SymbolType ==
  ASSUME NEW c
  PROVE  symbol_token(c) \in plain_types
<1>1. \A def \in symbol_types : def[2] \in plain_types
  BY DEF plain_types
<1>2. "abort" \in plain_types
  BY DEF plain_types
<1> QED
  BY <1>1, <1>2, LookupType DEF symbol_token

\* The type of an operator.
LEMMA OperatorType ==
  ASSUME NEW s
  PROVE  operator_token(s) \in plain_types
<1>1. \A def \in operator_token_list : def[2] \in plain_types
  BY DEF plain_types
<1>2. "INVALID" \in plain_types
  BY DEF plain_types
<1> QED
  BY <1>1, <1>2, LookupType, SymbolType DEF operator_token

\* The token that add_token makes stands for the characters it is given.
LEMMA AddedToken ==
  ASSUME NEW s, NEW f \in Nat, NEW n \in Nat, row \in Nat, col \in Int
  PROVE  /\ add_token(s, f, n) \in Tokens
         /\ Extent(add_token(s, f, n)) = f .. f + n - 1
<1> DEFINE word == SubSeq(code, f, f + n - 1)
           t == add_token(s, f, n)
<1>1. in_reserverd_word(word) => as_reserved(word) \in plain_types
  BY TokenizerAssumption DEF in_reserverd_word, as_reserved, plain_types
<1>2. operator_token(word) \in plain_types
  BY OperatorType
<1> HIDE DEF word
<1>3. \E type, r, c :
        /\ type \in plain_types /\ r \in Int /\ c \in Int
        /\ t = [type |-> type, from |-> f, len |-> n, row |-> r, col |-> c]
  <2>0. row \in Int /\ col \in Int /\ 0 \in Int
    OBVIOUS
  <2>1. CASE s = "NAME" /\ in_reserverd_word(word)
    <3>1. t = [type |-> as_reserved(word), from |-> f, len |-> n, row |-> row, col |-> 0]
      BY <2>1 DEF add_token, word, Token
    <3> QED
      BY Zenon, <3>1, <2>0, <2>1, <1>1
  <2>2. CASE s = "NAME" /\ ~in_reserverd_word(word)
    <3>1. t = [type |-> "IDENTIFIER", from |-> f, len |-> n, row |-> col, col |-> 0]
      BY <2>2 DEF add_token, word, Token
    <3>2. "IDENTIFIER" \in plain_types
      BY DEF plain_types
    <3> QED
      BY Zenon, <3>1, <3>2, <2>0
  <2>3. CASE s = "NUMBER"
    <3>1. t = [type |-> "NUMBER", from |-> f, len |-> n, row |-> row, col |-> col]
      BY <2>3 DEF add_token, word, Token
    <3>2. "NUMBER" \in plain_types
      BY DEF plain_types
    <3> QED
      BY Zenon, <3>1, <3>2, <2>0
  <2>4. CASE s # "NAME" /\ s # "NUMBER"
    <3>1. t = [type |-> operator_token(word), from |-> f, len |-> n,
               row |-> row, col |-> col]
      BY <2>4 DEF add_token, word, Token
    <3> QED
      BY Zenon, <3>1, <2>0, <1>2
  <2> QED
    BY <2>1, <2>2, <2>3, <2>4
<1> QED
  BY <1>3, NotLiteral DEF Tokens, Extent

-----------------------------------------------------------------------------
(* The invariant of the loop *)

\* Where the text not yet in a token starts.
Bound == IF state = "INIT" \/ outcome = "done" THEN i ELSE from

GoodInv ==
  /\ state = "INIT" => len = 0
  /\ state # "INIT" => from \in 1 .. i - 1 /\ from + len = i
  /\ Good(ret, Bound)

\* The invariant after a step, from the values the step leaves.
LEMMA GoodAfter ==
  ASSUME code' = code,
         state' = "INIT" => len' = 0,
         state' # "INIT" => from' \in 1 .. i' - 1 /\ from' + len' = i',
         NEW b, Bound' = b, Good(ret', b)
  PROVE  GoodInv'
  BY DEF GoodInv, Good, Sorted, Below, Covers

\* The facts about positions that the steps share.
LEMMA Positions ==
  ASSUME TypeOK
  PROVE  /\ Len(code) \in Nat /\ i \in Nat \ {0} /\ i <= Len(code) + 1
         /\ from \in Nat \ {0} /\ len \in Nat
         /\ row \in Nat /\ col \in Int
<1>1. Len(code) \in Nat
  <2>1. PICK n \in 0 .. MaxLen : code \in [1 .. n -> Alphabet]
    BY DEF TypeOK, Texts
  <2>2. n \in Nat
    BY <2>1, TokenizerAssumption
  <2> QED
    BY <2>1, <2>2
<1> QED
  BY <1>1 DEF TypeOK

\* With the token being read added, the tokens stand for the text before i.
LEMMA Finishing ==
  ASSUME TypeOK, GoodInv, outcome = "reading"
  PROVE  Good(IF state = "INIT" THEN ret
              ELSE Append(ret, add_token(state, from, len)), i)
<1>1. CASE state = "INIT"
  BY <1>1 DEF GoodInv, Bound
<1>2. CASE state # "INIT"
  <2>1. Good(ret, from) /\ from \in 1 .. i - 1 /\ from + len = i
    BY <1>2 DEF GoodInv, Bound
  <2>2. from \in Nat \ {0} /\ len \in Nat /\ i \in Nat /\ from <= i
        /\ row \in Nat /\ col \in Int
    BY <2>1, Positions
  <2>3. /\ add_token(state, from, len) \in Tokens
        /\ Extent(add_token(state, from, len)) = from .. i - 1
    BY <2>1, <2>2, AddedToken
  <2> HIDE DEF GoodInv
  <2>4. Good(Append(ret, add_token(state, from, len)), i)
    BY <2>1, <2>2, <2>3, Appending
  <2> QED
    BY <1>2, <2>4
<1> QED
  BY <1>1, <1>2

\* The loop goes on to state s with the token being read added.
LEMMA FinishStep ==
  ASSUME TypeOK, GoodInv, Reading, NEW toks, NEW s, NEW n, Finish(toks, s, n),
         \/ /\ s \in {"NAME", "NUMBER", "STRING", "OPERATOR"}
            /\ toks = << >> /\ n = 1
         \/ /\ s = "INIT" /\ n = 0
            /\ \/ toks = << >> /\ code[i] \in delimiters
               \/ \E t \in Tokens : toks = <<t>> /\ Extent(t) = i .. i
  PROVE  GoodInv' /\ ret' \in Seq(Tokens)
<1> DEFINE r == IF state = "INIT" THEN ret
                ELSE Append(ret, add_token(state, from, len))
<1>1. Good(r, i)
  BY Finishing DEF Reading
<1> HIDE DEF r
<1>2. r \in Seq(Tokens)
  BY <1>1 DEF Good
<1>3. i \in Nat \ {0}
  BY Positions
<1>4. /\ ret' = r \o toks /\ state' = s /\ from' = i /\ len' = n /\ i' = i + 1
      /\ code' = code /\ outcome' = "reading"
  BY DEF Finish, Reading, r
<1>5. CASE s \in {"NAME", "NUMBER", "STRING", "OPERATOR"} /\ toks = << >> /\ n = 1
  <2>1. ret' = r
    BY <1>2, <1>4, <1>5
  <2>2. s # "INIT"
    BY <1>5
  <2>3. Bound' = i /\ i \in 1 .. i' - 1 /\ i + 1 = i'
    BY <2>2, <1>3, <1>4 DEF Bound
  <2>4. GoodInv'
    BY <2>1, <2>2, <2>3, <1>1, <1>4, <1>5, GoodAfter
  <2> QED
    BY <2>1, <2>4, <1>2
<1>6. CASE s = "INIT" /\ n = 0 /\ toks = << >> /\ code[i] \in delimiters
  <2>1. ret' = r /\ Bound' = i + 1
    BY <1>2, <1>4, <1>6 DEF Bound
  <2>2. Good(r, i + 1)
    BY <1>1, <1>3, <1>6, Skipping
  <2>3. GoodInv'
    BY <2>1, <2>2, <1>4, <1>6, GoodAfter
  <2> QED
    BY <2>1, <2>3, <1>2
<1>7. ASSUME s = "INIT", n = 0, NEW t \in Tokens, toks = <<t>>, Extent(t) = i .. i
      PROVE  GoodInv' /\ ret' \in Seq(Tokens)
  <2>1. ret' = Append(r, t) /\ Bound' = i + 1
    BY <1>2, <1>4, <1>7 DEF Bound
  <2>2. i + 1 \in Nat /\ i <= i + 1 /\ Extent(t) = i .. (i + 1) - 1
    BY <1>3, <1>7
  <2>3. Good(Append(r, t), i + 1)
    BY Zenon, <2>2, <1>1, <1>3, Appending
  <2>4. GoodInv'
    BY <2>1, <2>3, <1>4, <1>7, GoodAfter
  <2> QED
    BY <2>1, <2>3, <2>4 DEF Good
<1> QED
  BY <1>5, <1>6, <1>7

\* The loop reads one more character of the token.
LEMMA ExtendStep ==
  ASSUME TypeOK, GoodInv, Reading, state # "INIT", Extend
  PROVE  GoodInv' /\ ret' \in Seq(Tokens)
<1>1. /\ from \in 1 .. i - 1 /\ from + len = i /\ Good(ret, from)
  BY DEF GoodInv, Bound, Reading
<1>2. /\ len' = len + 1 /\ i' = i + 1 /\ from' = from /\ state' = state
      /\ ret' = ret /\ code' = code /\ outcome' = "reading"
  BY DEF Extend, Reading
<1>3. Bound' = from /\ from \in 1 .. i' - 1 /\ from + len' = i'
  <2>1. from \in Nat \ {0} /\ i \in Nat /\ len \in Nat
    BY Positions
  <2>2. Bound' = from
    BY <1>2 DEF Bound
  <2> QED
    BY <1>1, <1>2, <2>1, <2>2
<1> HIDE DEF GoodInv
<1>4. GoodInv'
  BY <1>1, <1>2, <1>3, GoodAfter
<1> QED
  BY <1>1, <1>2, <1>4 DEF Good

\* The loop ends a string literal.
LEMMA StringEndStep ==
  ASSUME TypeOK, GoodInv, StringEnd
  PROVE  GoodInv' /\ ret' \in Seq(Tokens)
<1> DEFINE t == Token("STRING_LITERAL", from + 1, len - 1, row, col)
<1>1. /\ from \in 1 .. i - 1 /\ from + len = i /\ Good(ret, from)
  BY DEF GoodInv, Bound, StringEnd, Reading
<1>2. /\ ret' = Append(ret, t) /\ state' = "INIT" /\ len' = 0
      /\ i' = i + 1 /\ code' = code
  BY DEF StringEnd
<1>3. /\ from \in Nat \ {0} /\ i + 1 \in Nat /\ from <= i + 1
      /\ from + 1 \in Nat /\ len - 1 \in Nat /\ row \in Int /\ col \in Int
      /\ from + 1 - 1 = from /\ from + 1 + (len - 1) = (i + 1) - 1
  <2>1. from \in Nat \ {0} /\ i \in Nat /\ len \in Nat /\ row \in Int /\ col \in Int
    BY Positions
  <2> QED
    BY <1>1, <2>1
<1>4. t \in Tokens
  BY <1>3 DEF Token, Tokens
<1>5. Extent(t) = from .. (i + 1) - 1
  BY <1>3 DEF Extent, Token
<1> HIDE DEF t, GoodInv
<1>6. Good(Append(ret, t), i + 1)
  BY <1>1, <1>3, <1>4, <1>5, Appending
<1>7. Bound' = i + 1
  BY <1>2 DEF Bound
<1>8. GoodInv'
  BY <1>2, <1>6, <1>7, GoodAfter
<1> QED
  BY <1>2, <1>6, <1>8 DEF Good

\* tokenize ends with an exception or an abort.
LEMMA StopStep ==
  ASSUME TypeOK, GoodInv, NEW how \in {"throw", "abort"}, Stop(how),
         outcome = "reading"
  PROVE  GoodInv' /\ ret' \in Seq(Tokens)
<1>1. /\ ret' = ret /\ state' = state /\ from' = from /\ len' = len
      /\ i' = i /\ code' = code /\ outcome' = how
  BY DEF Stop
<1>2. Bound' = Bound
  BY <1>1 DEF Bound
<1>3. Good(ret, Bound)
  BY DEF GoodInv
<1>4. /\ state' = "INIT" => len' = 0
      /\ state' # "INIT" => from' \in 1 .. i' - 1 /\ from' + len' = i'
  BY <1>1 DEF GoodInv
<1>5. GoodInv'
  BY <1>1, <1>2, <1>3, <1>4, GoodAfter
<1> QED
  BY <1>1, <1>3, <1>5 DEF Good

\* tokenize returns its tokens.
LEMMA EndStep ==
  ASSUME TypeOK, GoodInv, EndOfCode
  PROVE  GoodInv' /\ ret' \in Seq(Tokens)
<1>1. CASE Stop("throw") \/ Stop("abort")
  BY <1>1, StopStep DEF EndOfCode
<1>2. CASE /\ ret' = IF state = "INIT" THEN ret
                     ELSE Append(ret, add_token(state, from, len))
           /\ outcome' = "done"
           /\ UNCHANGED <<code, i, state, from, len, row, col>>
  <2>1. Good(ret', i)
    BY <1>2, Finishing DEF EndOfCode
  <2>2. Bound' = i /\ code' = code
    BY <1>2 DEF Bound
  <2>3. /\ state' = "INIT" => len' = 0
        /\ state' # "INIT" => from' \in 1 .. i' - 1 /\ from' + len' = i'
    BY <1>2 DEF GoodInv
  <2> HIDE DEF GoodInv
  <2>4. GoodInv'
    BY <2>1, <2>2, <2>3, GoodAfter
  <2> QED
    BY <2>1, <2>4 DEF Good
<1> QED
  BY <1>1, <1>2 DEF EndOfCode

\* Every step of the loop keeps the invariant.
LEMMA TokenizerStep ==
  TypeOK /\ GoodInv /\ [Next]_vars => TypeOK' /\ GoodInv'
<1> SUFFICES ASSUME TypeOK, GoodInv, [Next]_vars PROVE TypeOK' /\ GoodInv'
  OBVIOUS
<1> DEFINE Small == /\ code' = code /\ row' \in Nat /\ col' \in Int
                    /\ state' \in {"INIT", "NAME", "NUMBER", "STRING", "OPERATOR"}
                    /\ outcome' \in {"reading", "done", "throw", "abort"}
                    /\ i' \in 1 .. Len(code) + 1 /\ from' \in 1 .. Len(code) + 1
                    /\ len' \in 0 .. Len(code)
<1>0. /\ Len(code) \in Nat /\ i \in Nat \ {0} /\ i <= Len(code) + 1
      /\ from \in Nat \ {0} /\ len \in Nat /\ row \in Nat /\ col \in Int
      /\ from <= Len(code) + 1 /\ len <= Len(code)
  BY Positions DEF TypeOK
<1>1. ASSUME Small, GoodInv', ret' \in Seq(Tokens) PROVE TypeOK' /\ GoodInv'
  BY <1>1 DEF TypeOK
<1>2. CASE UNCHANGED vars
  BY <1>2 DEF vars, TypeOK, GoodInv, Bound, Good, Sorted, Below, Covers
<1>3. ASSUME NEW how \in {"throw", "abort"}, Stop(how), outcome = "reading"
      PROVE  TypeOK' /\ GoodInv'
  <2>1. Small
    BY <1>3, <1>0 DEF Stop, TypeOK
  <2> QED
    BY <1>1, <1>3, <2>1, StopStep
<1>4. ASSUME Reading, state # "INIT", Extend, row' \in Nat, col' \in Int
      PROVE  TypeOK' /\ GoodInv'
  <2>1. from + len = i /\ from \in 1 .. i - 1 /\ i <= Len(code)
    BY <1>4 DEF GoodInv, Reading
  <2>2. len + 1 \in 0 .. Len(code) /\ i + 1 \in 1 .. Len(code) + 1
    BY <2>1, <1>0
  <2>3. Small
    BY <1>4, <1>0, <2>2 DEF Extend, TypeOK
  <2> QED
    BY <1>1, <1>4, <2>3, ExtendStep
<1>5. ASSUME NEW toks, NEW s, NEW n, Reading, Finish(toks, s, n),
             row' \in Nat, col' \in Int,
             \/ /\ s \in {"NAME", "NUMBER", "STRING", "OPERATOR"}
                /\ toks = << >> /\ n = 1
             \/ /\ s = "INIT" /\ n = 0
                /\ \/ toks = << >> /\ code[i] \in delimiters
                   \/ \E t \in Tokens : toks = <<t>> /\ Extent(t) = i .. i
      PROVE  TypeOK' /\ GoodInv'
  <2>1. i <= Len(code)
    BY <1>5 DEF Reading
  <2>2. n \in 0 .. Len(code) /\ i + 1 \in 1 .. Len(code) + 1 /\ i \in 1 .. Len(code) + 1
    BY <2>1, <1>0, <1>5
  <2>3. s \in {"INIT", "NAME", "NUMBER", "STRING", "OPERATOR"}
    BY <1>5
  <2>4. Small
    BY <1>5, <2>2, <2>3 DEF Finish, TypeOK
  <2> QED
    BY <1>1, <1>5, <2>4, FinishStep
<1> HIDE DEF Small, GoodInv
<1>6. CASE StringChar
  <2>1. col + 1 \in Int
    BY <1>0
  <2> QED
    BY <1>0, <1>4, <1>6, <2>1 DEF StringChar
<1>7. CASE StringEnd
  <2>1. i <= Len(code)
    BY <1>7 DEF StringEnd, Reading
  <2>2. i + 1 \in 1 .. Len(code) + 1 /\ i \in 1 .. Len(code) + 1 /\ col + 1 \in Int
        /\ 0 \in 0 .. Len(code)
    BY <2>1, <1>0
  <2>3. Small
    BY <1>7, <1>0, <2>2 DEF StringEnd, TypeOK, Small
  <2> QED
    BY <1>1, <1>7, <2>3, StringEndStep
<1>8. CASE Quote
  <2>1. CASE Stop("abort")
    BY <1>3, <1>8, <2>1 DEF Quote, Reading
  <2>2. CASE Finish(<< >>, "STRING", 1) /\ UNCHANGED <<row, col>>
    <3>1. row' \in Nat /\ col' \in Int /\ Reading
      BY <1>0, <1>8, <2>2 DEF Quote
    <3> QED
      BY <1>5, <2>2, <3>1
  <2> QED
    BY <1>8, <2>1, <2>2 DEF Quote
<1>9. CASE Delimiter
  <2>1. CASE Stop("abort")
    BY <1>3, <1>9, <2>1 DEF Delimiter, Reading
  <2>2. CASE /\ Finish(<< >>, "INIT", 0)
             /\ row' = row + (IF code[i] = "\n" THEN 1 ELSE 0)
             /\ col' = IF code[i] = "\n" THEN -1 ELSE col
    <3>1. row' \in Nat /\ col' \in Int
      BY <1>0, <2>2
    <3>2. Reading /\ code[i] \in delimiters
      BY <1>9 DEF Delimiter
    <3> QED
      BY <1>5, <2>2, <3>1, <3>2
  <2> QED
    BY <1>9, <2>1, <2>2 DEF Delimiter
<1>10. CASE Symbol
  <2> DEFINE t == Token(symbol_token(code[i]), i, 1, row, col)
  <2>1. CASE Stop("abort")
    BY <1>3, <1>10, <2>1 DEF Symbol, Reading
  <2>2. CASE Finish(<<t>>, "INIT", 0) /\ UNCHANGED <<row, col>>
    <3>1. row' \in Nat /\ col' \in Int /\ Reading
      BY <1>0, <1>10, <2>2 DEF Symbol
    <3>2. i \in Nat /\ 1 \in Nat /\ row \in Int /\ col \in Int /\ i + 1 - 1 = i
      BY <1>0
    <3>3. t \in Tokens
      BY <3>2, SymbolType DEF Token, Tokens
    <3>4. Extent(t) = i .. i
      BY <3>2, SymbolType, NotLiteral DEF Token, Extent
    <3> HIDE DEF t
    <3> QED
      BY <1>5, <2>2, <3>1, <3>3, <3>4
  <2> QED
    BY <1>10, <2>1, <2>2 DEF Symbol
<1>11. CASE Operator
  <2>1. Reading /\ row' \in Nat /\ col' \in Int
    BY <1>0, <1>11 DEF Operator
  <2>2. CASE state = "OPERATOR" /\ Extend
    BY <1>4, <2>1, <2>2
  <2>3. CASE Finish(<< >>, "OPERATOR", 1)
    BY <1>5, <2>1, <2>3
  <2> QED
    BY <1>11, <2>2, <2>3 DEF Operator
<1>12. CASE Number
  <2>1. CASE Stop("abort")
    BY <1>3, <1>12, <2>1 DEF Number, Reading
  <2>2. CASE UNCHANGED <<row, col>>
    <3>1. Reading /\ row' \in Nat /\ col' \in Int
      BY <1>0, <1>12, <2>2 DEF Number
    <3>2. CASE state \in {"NAME", "NUMBER"} /\ Extend
      BY <1>4, <3>1, <3>2
    <3>3. CASE Finish(<< >>, "NUMBER", 1)
      BY <1>5, <3>1, <3>3
    <3> QED
      BY <1>12, <2>1, <3>2, <3>3 DEF Number
  <2> QED
    BY <1>12, <2>1, <2>2 DEF Number
<1>13. CASE Name
  <2>1. CASE Stop("abort") \/ Stop("throw")
    BY <1>3, <1>13, <2>1 DEF Name, Reading
  <2>2. CASE col' = col + 1 /\ UNCHANGED row
    <3>1. Reading /\ row' \in Nat /\ col' \in Int
      BY <1>0, <1>13, <2>2 DEF Name
    <3>2. CASE state = "NAME" /\ Extend
      BY <1>4, <3>1, <3>2
    <3>3. CASE Finish(<< >>, "NAME", 1)
      BY <1>5, <3>1, <3>3
    <3> QED
      BY <1>13, <2>1, <3>2, <3>3 DEF Name
  <2> QED
    BY <1>13, <2>1, <2>2 DEF Name
<1>14. CASE EndOfCode
  <2>1. CASE Stop("abort") \/ Stop("throw")
    BY <1>3, <1>14, <2>1 DEF EndOfCode
  <2>2. CASE outcome' = "done" /\ UNCHANGED <<code, i, state, from, len, row, col>>
    <3>1. Small
      BY <1>0, <2>2 DEF Small, TypeOK
    <3> QED
      BY <1>1, <1>14, <3>1, EndStep
  <2> QED
    BY <1>14, <2>1, <2>2 DEF EndOfCode
<1> QED
  BY <1>2, <1>6, <1>7, <1>8, <1>9, <1>10, <1>11, <1>12, <1>13, <1>14 DEF Next

\* The tokens, the one being read, and the delimiters make up the text read
\* so far: the inductive invariant.
THEOREM TokensGood == Spec => [](TypeOK /\ GoodInv)
<1>1. Init => TypeOK /\ GoodInv
  <2> SUFFICES ASSUME Init PROVE TypeOK /\ GoodInv
    OBVIOUS
  <2>1. PICK n \in 0 .. MaxLen : code \in [1 .. n -> Alphabet]
    BY DEF Init, Texts
  <2>2. n \in Nat /\ Len(code) = n
    BY <2>1, TokenizerAssumption
  <2>3. << >> \in Seq(Tokens) /\ DOMAIN << >> = {}
    OBVIOUS
  <2>4. TypeOK
    BY <2>2, <2>3 DEF Init, TypeOK
  <2>5. Good(<< >>, 1)
    BY <2>3 DEF Good, Sorted, Below, Covers
  <2> QED
    BY <2>4, <2>5 DEF Init, GoodInv, Bound
<1> QED
  BY <1>1, TokenizerStep, PTL DEF Spec

\* tokenize never leaves the text: the position, the start and the length of
\* the token being read stay within it, for texts of every length.
THEOREM TokenizerTypeCorrect == Spec => []TypeOK
  BY TokensGood, PTL

\* No character but delimiters is lost between tokens, whatever the state of
\* the loop when it is read.
THEOREM TokensCover == Spec => []Covered
<1>1. TypeOK /\ GoodInv => Covered
  <2> SUFFICES ASSUME TypeOK, GoodInv, NEW p \in 1 .. i - 1
               PROVE  \/ code[p] \in delimiters
                      \/ p \in PendingExtent
                      \/ \E k \in DOMAIN ret : p \in Extent(ret[k])
    BY DEF Covered
  <2>1. i \in Nat /\ from \in Nat
    BY Positions
  <2>2. Covers(ret, Bound)
    BY DEF GoodInv, Good
  <2>3. CASE state = "INIT" \/ outcome = "done"
    BY <2>2, <2>3 DEF Bound, Covers
  <2>4. CASE ~(state = "INIT" \/ outcome = "done")
    <3>1. p \in 1 .. from - 1 \/ p \in from .. i - 1
      BY <2>1
    <3> QED
      BY <3>1, <2>2, <2>4 DEF Bound, Covers, PendingExtent
  <2> QED
    BY <2>3, <2>4
<1> QED
  BY <1>1, TokensGood, PTL

\* Tokens come in the order of the text and share none of it.
THEOREM TokensOrdered == Spec => []Ordered
<1>1. TypeOK /\ GoodInv => Ordered
  <2> SUFFICES ASSUME TypeOK, GoodInv PROVE Ordered
    OBVIOUS
  <2>1. i \in Nat /\ from \in Nat
    BY Positions
  <2>2. Sorted(ret) /\ Below(ret, Bound)
    BY DEF GoodInv, Good
  <2>3. \/ Bound = i /\ PendingExtent = {}
        \/ Bound = from /\ PendingExtent = from .. i - 1 /\ from <= i
    <3>1. CASE state = "INIT" \/ outcome = "done"
      BY <3>1 DEF Bound, PendingExtent
    <3>2. CASE ~(state = "INIT" \/ outcome = "done")
      <4>1. from \in 1 .. i - 1
        BY <3>2 DEF GoodInv
      <4>2. from <= i
        BY <4>1, <2>1
      <4> QED
        BY <4>2, <3>2 DEF Bound, PendingExtent
    <3> QED
      BY <3>1, <3>2
  <2>4. ASSUME NEW k \in DOMAIN ret, NEW p \in Extent(ret[k])
        PROVE  p \in 1 .. i - 1 /\ \A q \in PendingExtent : p < q
    <3>1. p \in 1 .. Bound - 1
      BY <2>2, <2>4 DEF Below
    <3> QED
      BY <3>1, <2>1, <2>3
  <2> QED
    BY <2>2, <2>4 DEF Ordered, Sorted
<1> QED
  BY <1>1, TokensGood, PTL

-----------------------------------------------------------------------------
(* The tokens are the lexemes of the text *)

NQ(p) == Cardinality(Quotes(p))

\* The class of the characters of a token that is read in state s.
ClassOf(s) == IF s = "OPERATOR" THEN "operator" ELSE "word"
Class == ClassOf(state)

\* What it says of the text that the loop is at position j in state s, with a
\* token that starts at f.
ReadAt(s, f, j) ==
  /\ s = "STRING" <=> NQ(j) % 2 = 1
  /\ s = "STRING" => code[f] = quote /\ NQ(f) % 2 = 0 /\ NQ(j) = NQ(f) + 1
  /\ s \in {"NAME", "NUMBER", "OPERATOR"} =>
       /\ \A k \in f .. j - 1 : CharClass(k) = ClassOf(s)
       /\ f > 1 => CharClass(f - 1) # ClassOf(s)
  /\ s = "NUMBER" => \A k \in f .. j - 1 : code[k] \in numbers
  /\ s = "NAME" => code[f] \notin numbers
  /\ s = "INIT" /\ j > 1 => CharClass(j - 1) \notin {"operator", "word"}

ReadInv == ReadAt(state, from, i)

\* The lexemes that end before b.
Before(b) == {pq \in Lexemes : pq[2] < b}

\* The token t stands for the lexeme pq.
Stands(t, pq) == t.type = LexemeType(pq[1], pq[2]) /\ Extent(t) = pq[1] .. pq[2]

\* The tokens r are the lexemes before b.
Said(r, b) ==
  /\ \A k \in DOMAIN r : \E pq \in Before(b) : Stands(r[k], pq)
  /\ \A pq \in Before(b) : \E k \in DOMAIN r : Stands(r[k], pq)

\* A number with a letter in it.
Mixed(pq) ==
  /\ code[pq[1]] \in numbers /\ ~Quoted(pq[1])
  /\ \E k \in pq[1] .. pq[2] : code[k] \in Letters

\* None of the lexemes before b is rejected or aborted on.
Fine(b) ==
  \A pq \in Before(b) : ~Mixed(pq) /\ LexemeType(pq[1], pq[2]) # "abort"

MunchInv ==
  /\ ReadInv /\ Said(ret, Bound) /\ Fine(Bound)
  /\ outcome = "done" => state # "STRING" /\ i = Len(code) + 1
  /\ outcome = "throw" => Rejected
  /\ outcome = "abort" => Aborted

\* The ends of lines before p, those in string literals left out.
Lines(p) == {q \in 1 .. p - 1 : code[q] = "\n" /\ ~Quoted(q)}

\* The row of a token is its line.
RowOk(t) == t.type # "IDENTIFIER" => t.row = 1 + Cardinality(Lines(t.from))

LineInv ==
  row = 1 + Cardinality(Lines(i)) /\ \A k \in DOMAIN ret : RowOk(ret[k])

-----------------------------------------------------------------------------
(* The text *)

\* The quotes before a position, counted.
LEMMA QuoteCount ==
  ASSUME NEW p \in Nat \ {0}
  PROVE  /\ NQ(p) \in Nat
         /\ NQ(p + 1) = IF code[p] = quote THEN NQ(p) + 1 ELSE NQ(p)
<1>1. IsFiniteSet(1 .. p - 1)
  BY FS_Interval
<1>2. Quotes(p) \in SUBSET (1 .. p - 1)
  BY DEF Quotes
<1>3. IsFiniteSet(Quotes(p))
  BY <1>1, <1>2, FS_Subset
<1>4. p \notin Quotes(p)
  BY DEF Quotes
<1>5. CASE code[p] = quote
  <2>1. Quotes(p + 1) = Quotes(p) \cup {p}
    BY <1>5 DEF Quotes
  <2> QED BY <1>3, <1>4, <1>5, <2>1, FS_AddElement, FS_CardinalityType DEF NQ
<1>6. CASE code[p] # quote
  <2>1. Quotes(p + 1) = Quotes(p)
    BY <1>6 DEF Quotes
  <2> QED BY <1>3, <1>6, <2>1, FS_CardinalityType DEF NQ
<1> QED BY <1>5, <1>6

LEMMA QuotesGrow ==
  ASSUME NEW p \in Nat \ {0}, NEW q \in Nat \ {0}, p <= q
  PROVE  NQ(p) <= NQ(q)
<1>1. IsFiniteSet(1 .. q - 1)
  BY FS_Interval
<1>2. Quotes(q) \in SUBSET (1 .. q - 1) /\ Quotes(p) \in SUBSET Quotes(q)
  BY DEF Quotes
<1>3. IsFiniteSet(Quotes(q))
  BY <1>1, <1>2, FS_Subset
<1> QED BY <1>2, <1>3, FS_Subset DEF NQ

LEMMA QuotesRise ==
  ASSUME NEW p \in Nat \ {0}, NEW q \in Nat \ {0}, p < q, code[p] = quote
  PROVE  NQ(p) + 1 <= NQ(q)
<1>1. p + 1 \in Nat \ {0} /\ p + 1 <= q
  OBVIOUS
<1>2. NQ(p + 1) = NQ(p) + 1
  BY QuoteCount
<1> QED BY <1>1, <1>2, QuotesGrow

LEMMA QuotedBy ==
  ASSUME NEW p
  PROVE  Quoted(p) <=> code[p] = quote \/ NQ(p) % 2 = 1
  BY DEF Quoted, NQ

\* The classes of characters.
LEMMA Classes ==
  ASSUME NEW p
  PROVE  /\ Quoted(p) => CharClass(p) = "quoted"
         /\ ~Quoted(p) =>
              /\ code[p] \in delimiters => CharClass(p) = "blank"
              /\ code[p] \in symbols => CharClass(p) = "symbol"
              /\ code[p] \in operator_tokens => CharClass(p) = "operator"
              /\ code[p] \notin delimiters \cup symbols \cup operator_tokens =>
                   CharClass(p) = "word"
<1>1. CASE Quoted(p)
  BY <1>1, Zenon DEF CharClass
<1>2. CASE ~Quoted(p)
  <2>1. CharClass(p) = CASE code[p] \in delimiters -> "blank"
                         [] code[p] \in symbols -> "symbol"
                         [] code[p] \in operator_tokens -> "operator"
                         [] OTHER -> "word"
    BY <1>2, Zenon DEF CharClass
  <2>2. /\ delimiters \cap symbols = {} /\ delimiters \cap operator_tokens = {}
        /\ symbols \cap operator_tokens = {}
    BY DEF delimiters, symbols, operator_tokens, openBrace, closeBrace, comma, colon,
           semicolon, period, less, greater
  <2>3. /\ code[p] \in delimiters => code[p] \notin symbols /\ code[p] \notin operator_tokens
        /\ code[p] \in symbols => code[p] \notin operator_tokens
    BY <2>2, Zenon
  <2>4. code[p] \in delimiters => CharClass(p) = "blank"
    BY <2>1, <2>3, Zenon
  <2>5. code[p] \in symbols => CharClass(p) = "symbol"
    BY <2>1, <2>3, Zenon
  <2>6. code[p] \in operator_tokens => CharClass(p) = "operator"
    BY <2>1, <2>3, Zenon
  <2>7. code[p] \notin delimiters \cup symbols \cup operator_tokens => CharClass(p) = "word"
    BY <2>1, Zenon
  <2> QED BY <1>2, <2>4, <2>5, <2>6, <2>7
<1> QED BY <1>1, <1>2

\* Letters and digits are in none of the other sets.
LEMMA Disjoint ==
  /\ \A c \in numbers \cup Letters :
       c \notin delimiters \cup symbols \cup operator_tokens /\ c # quote
  /\ \A c \in delimiters \cup symbols \cup operator_tokens : c # quote
  /\ \A c \in Alphabet :
       c \in delimiters \cup symbols \cup operator_tokens \cup numbers \cup Letters \cup {quote}
  /\ \A c \in Letters : c \notin numbers
<1>1. /\ \A c \in numbers : c \notin delimiters \cup symbols \cup operator_tokens /\ c # quote
      /\ \A c \in delimiters \cup symbols \cup operator_tokens : c # quote
  BY DEF delimiters, symbols, operator_tokens, openBrace, closeBrace, comma, colon,
         semicolon, period, less, greater, numbers, quote
<1> QED BY <1>1 DEF Letters

\* The type of a lexeme.
LEMMA LexemeTypes ==
  ASSUME NEW p, NEW q, NEW word, word = SubSeq(code, p, q),
         CharClass(p) # "word" => code[p] \notin numbers
  PROVE  /\ CharClass(p) = "quoted" => LexemeType(p, q) = "STRING_LITERAL"
         /\ CharClass(p) = "symbol" => LexemeType(p, q) = symbol_token(code[p])
         /\ CharClass(p) = "operator" => LexemeType(p, q) = operator_token(word)
         /\ CharClass(p) = "word" =>
              LexemeType(p, q) = IF code[p] \in numbers THEN "NUMBER"
                                 ELSE IF in_reserverd_word(word) THEN as_reserved(word)
                                 ELSE "IDENTIFIER"
<1>1. LexemeType(p, q) =
        CASE CharClass(p) = "quoted" -> "STRING_LITERAL"
          [] CharClass(p) = "symbol" -> symbol_token(code[p])
          [] CharClass(p) = "operator" -> operator_token(word)
          [] code[p] \in numbers -> "NUMBER"
          [] OTHER -> IF in_reserverd_word(word) THEN as_reserved(word) ELSE "IDENTIFIER"
  BY Zenon DEF LexemeType
<1>2. CASE CharClass(p) = "quoted"
  BY <1>1, <1>2, Zenon
<1>3. CASE CharClass(p) = "symbol"
  BY <1>1, <1>3, Zenon
<1>4. CASE CharClass(p) = "operator"
  BY <1>1, <1>4, Zenon
<1>5. CASE CharClass(p) = "word"
  BY <1>1, <1>5, Zenon
<1> QED BY <1>2, <1>3, <1>4, <1>5, Zenon

\* A lexeme is of the class of its last character.
LEMMA LexemeAt ==
  ASSUME NEW p \in Nat \ {0}, NEW q \in Nat, p <= q, Lexeme(p, q)
  PROVE  /\ CharClass(q) # "blank"
         /\ CharClass(q) = "symbol" => p = q
         /\ CharClass(q) \in {"operator", "word"} =>
              /\ \A k \in p .. q : CharClass(k) = CharClass(q)
              /\ p > 1 => CharClass(p - 1) # CharClass(q)
              /\ q < Len(code) => CharClass(q + 1) # CharClass(q)
         /\ CharClass(q) = "quoted" =>
              /\ p < q /\ code[p] = quote /\ code[q] = quote
              /\ NQ(p) % 2 = 0 /\ NQ(q) = NQ(p) + 1
<1>1. CASE /\ CharClass(p) \in {"operator", "word"}
           /\ \A k \in p .. q : CharClass(k) = CharClass(p)
           /\ p > 1 => CharClass(p - 1) # CharClass(p)
           /\ q < Len(code) => CharClass(q + 1) # CharClass(p)
  <2>1. q \in p .. q
    OBVIOUS
  <2>2. CharClass(q) = CharClass(p)
    BY <1>1, <2>1, Zenon
  <2> QED BY <1>1, <2>2, Zenon
<1>2. CASE p = q /\ CharClass(p) = "symbol"
  BY <1>2, Zenon
<1>3. CASE /\ p < q /\ code[p] = quote /\ code[q] = quote
           /\ NQ(p) % 2 = 0 /\ NQ(q) = NQ(p) + 1
  <2>1. CharClass(q) = "quoted"
    BY <1>3, Classes, QuotedBy
  <2> QED BY <1>3, <2>1, Zenon
<1> QED BY <1>1, <1>2, <1>3, Zenon DEF Lexeme, NQ

\* The lexemes that end from b on and before e are p .. q alone.
Only(b, e, p, q) ==
  \A x, y \in 1 .. Len(code) :
    x <= y /\ b <= y /\ y < e /\ Lexeme(x, y) => x = p /\ y = q

\* There is none.
None(b, e) ==
  \A x, y \in 1 .. Len(code) : ~(x <= y /\ b <= y /\ y < e /\ Lexeme(x, y))

LEMMA BeforeSplit ==
  ASSUME NEW b \in Nat, NEW e \in Nat, NEW pq \in Before(e)
  PROVE  /\ pq = <<pq[1], pq[2]>>
         /\ pq[1] \in 1 .. Len(code) /\ pq[2] \in 1 .. Len(code) /\ pq[1] <= pq[2]
         /\ Lexeme(pq[1], pq[2]) /\ pq[2] < e
         /\ pq \in Before(b) \/ b <= pq[2]
  BY DEF Before, Lexemes, Spans

LEMMA BeforeGrows ==
  ASSUME NEW b \in Nat, NEW e \in Nat, b <= e, NEW pq \in Before(b)
  PROVE  pq \in Before(e)
  BY DEF Before, Lexemes, Spans

LEMMA NoMore ==
  ASSUME NEW b \in Nat, NEW e \in Nat, b <= e, None(b, e)
  PROVE  Before(e) = Before(b)
<1>1. ASSUME NEW pq \in Before(e) PROVE pq \in Before(b)
  BY <1>1, BeforeSplit DEF None
<1> QED BY <1>1, BeforeGrows

LEMMA OneMore ==
  ASSUME NEW b \in Nat, NEW e \in Nat, b <= e,
         NEW p \in 1 .. Len(code), NEW q \in 1 .. Len(code),
         p <= q, q < e, Lexeme(p, q), Only(b, e, p, q)
  PROVE  Before(e) = Before(b) \cup {<<p, q>>}
<1>1. ASSUME NEW pq \in Before(e) PROVE pq \in Before(b) \/ pq = <<p, q>>
  BY <1>1, BeforeSplit DEF Only
<1>2. <<p, q>> \in Before(e)
  BY DEF Before, Lexemes, Spans
<1> QED BY <1>1, <1>2, BeforeGrows

\* The token t is added for the lexeme p .. q.
LEMMA Saying ==
  ASSUME NEW r \in Seq(Tokens), NEW b, NEW e, Said(r, b), Fine(b), NEW t, t \in Tokens,
         NEW pq, Before(e) = Before(b) \cup {pq}, Stands(t, pq),
         ~Mixed(pq), LexemeType(pq[1], pq[2]) # "abort"
  PROVE  Said(Append(r, t), e) /\ Fine(e)
<1>1. PICK a, n : a = Append(r, t) /\ n = Len(r)
  BY Zenon
<1>2. /\ DOMAIN a = DOMAIN r \cup {n + 1} /\ a[n + 1] = t
      /\ \A k \in DOMAIN r : a[k] = r[k]
  BY <1>1
<1>3. \A k \in DOMAIN a : \E x \in Before(e) : Stands(a[k], x)
  BY <1>2, Zenon DEF Said
<1>4. \A x \in Before(e) : \E k \in DOMAIN a : Stands(a[k], x)
  <2> TAKE x \in Before(e)
  <2>1. CASE x \in Before(b)
    BY <2>1, <1>2, Zenon DEF Said
  <2>2. CASE x = pq
    BY <2>2, <1>2, Zenon
  <2> QED BY <2>1, <2>2
<1>5. Fine(e)
  BY Zenon DEF Fine
<1> QED BY <1>1, <1>3, <1>4, <1>5, Zenon DEF Said

\* The token being read is a lexeme, and the only one that ends in it, when
\* the character after it is of another class.
LEMMA RunLexeme ==
  ASSUME TypeOK, GoodInv, ReadInv, state \in {"NAME", "NUMBER", "OPERATOR"},
         i <= Len(code) => CharClass(i) # Class
  PROVE  /\ from \in 1 .. Len(code) /\ i - 1 \in 1 .. Len(code) /\ from <= i - 1
         /\ Lexeme(from, i - 1) /\ Only(from, i, from, i - 1)
<1>1. from \in 1 .. i - 1 /\ from + len = i
  BY DEF GoodInv
<1>2. /\ Len(code) \in Nat /\ i \in Nat \ {0} /\ i <= Len(code) + 1
      /\ from \in Nat \ {0} /\ from <= i - 1 /\ i - 1 + 1 = i
  BY <1>1, Positions
<1>3. Class \in {"operator", "word"}
  BY DEF Class, ClassOf
<1>4. /\ \A k \in from .. i - 1 : CharClass(k) = Class
      /\ from > 1 => CharClass(from - 1) # Class
  BY Zenon DEF ReadInv, ReadAt, Class
<1>5. CharClass(from) = Class
  BY <1>2, <1>4
<1>6. Lexeme(from, i - 1)
  <2>1. i - 1 < Len(code) => CharClass(i - 1 + 1) # Class
    BY <1>2
  <2> QED BY <1>3, <1>4, <1>5, <2>1, Zenon DEF Lexeme
<1>7. Only(from, i, from, i - 1)
  <2> SUFFICES ASSUME NEW x \in 1 .. Len(code), NEW y \in 1 .. Len(code),
                      x <= y, from <= y, y < i, Lexeme(x, y)
               PROVE  x = from /\ y = i - 1
    BY DEF Only
  <2>1. /\ x \in Nat \ {0} /\ y \in Nat /\ y \in from .. i - 1 /\ y \in Nat \ {0}
        /\ y + 1 \in from .. i
    BY <1>2
  <2>2. CharClass(y) = Class
    BY <1>4, <2>1
  <2>3. /\ \A k \in x .. y : CharClass(k) = Class
        /\ x > 1 => CharClass(x - 1) # Class
        /\ y < Len(code) => CharClass(y + 1) # Class
    BY <1>3, <2>1, <2>2, LexemeAt
  <2>4. y = i - 1
    <3>1. SUFFICES ASSUME y # i - 1 PROVE FALSE
      OBVIOUS
    <3>2. y + 1 \in from .. i - 1 /\ y < Len(code)
      BY <1>2, <2>1, <3>1
    <3> QED BY <1>4, <2>3, <3>2
  <2>5. ~(x < from)
    <3>1. SUFFICES ASSUME x < from PROVE FALSE
      OBVIOUS
    <3>2. from > 1 /\ from - 1 \in x .. y
      BY <1>2, <3>1
    <3> QED BY <1>4, <2>3, <3>2
  <2>6. ~(x > from)
    <3>1. SUFFICES ASSUME x > from PROVE FALSE
      OBVIOUS
    <3>2. x > 1 /\ x - 1 \in from .. i - 1
      BY <1>2, <3>1
    <3> QED BY <1>4, <2>3, <3>2
  <2> QED BY <1>2, <2>4, <2>5, <2>6
<1>8. from \in 1 .. Len(code) /\ i - 1 \in 1 .. Len(code)
  BY <1>2
<1> QED BY <1>2, <1>6, <1>7, <1>8

\* The text is not changed, nor anything that is told from it alone.
LEMMA SameQuotes ==
  ASSUME code' = code
  PROVE  \A p : NQ(p)' = NQ(p) /\ (Quoted(p)' <=> Quoted(p)) /\ Lines(p)' = Lines(p)
<1>1. \A p : Quotes(p)' = Quotes(p)
  BY DEF Quotes
<1>2. \A p : Quoted(p)' <=> Quoted(p)
  BY <1>1 DEF Quoted
<1> QED BY <1>1, <1>2 DEF NQ, Lines

LEMMA SameClasses ==
  ASSUME code' = code
  PROVE  \A p : CharClass(p)' = CharClass(p)
<1> TAKE p
<1>1. Quoted(p)' <=> Quoted(p)
  BY SameQuotes
<1>2. CASE Quoted(p)
  BY <1>1, <1>2, Zenon DEF CharClass
<1>3. CASE ~Quoted(p)
  <2>1. PICK c : c = code[p] /\ c = code[p]'
    OBVIOUS
  <2>2. CharClass(p)' = CASE c \in delimiters -> "blank"
                          [] c \in symbols -> "symbol"
                          [] c \in operator_tokens -> "operator"
                          [] OTHER -> "word"
    BY <1>1, <1>3, <2>1, Zenon DEF CharClass
  <2>3. CharClass(p) = CASE c \in delimiters -> "blank"
                         [] c \in symbols -> "symbol"
                         [] c \in operator_tokens -> "operator"
                         [] OTHER -> "word"
    BY <1>3, <2>1, Zenon DEF CharClass
  <2> QED BY <2>2, <2>3
<1> QED BY <1>2, <1>3

LEMMA SameLexemes ==
  ASSUME code' = code
  PROVE  /\ \A p, q : /\ Lexeme(p, q)' <=> Lexeme(p, q)
                      /\ LexemeType(p, q)' = LexemeType(p, q)
         /\ Lexemes' = Lexemes
<1>1. \A p : CharClass(p)' = CharClass(p)
  BY SameClasses
<1>2. \A p : Quotes(p)' = Quotes(p)
  BY DEF Quotes
<1>3. \A p, q : Lexeme(p, q)' <=> Lexeme(p, q)
  BY <1>1, <1>2 DEF Lexeme
<1>4. \A p, q : LexemeType(p, q)' = LexemeType(p, q)
  BY <1>1, Zenon DEF LexemeType
<1>5. Lexemes' = Lexemes
  BY <1>3 DEF Lexemes, Spans
<1> QED BY <1>3, <1>4, <1>5

LEMMA SameText ==
  ASSUME code' = code
  PROVE  /\ \A b : Before(b)' = Before(b) /\ (Fine(b)' <=> Fine(b))
         /\ (Rejected' <=> Rejected) /\ (Aborted' <=> Aborted)
<1>1. /\ \A p, q : LexemeType(p, q)' = LexemeType(p, q)
      /\ Lexemes' = Lexemes
  BY SameLexemes
<1>2. \A p : Quoted(p)' <=> Quoted(p)
  BY SameQuotes
<1>3. \A b : Before(b)' = Before(b)
  BY <1>1 DEF Before
<1>4. \A pq : Mixed(pq)' <=> Mixed(pq)
  BY <1>2 DEF Mixed
<1>5. \A b : Fine(b)' <=> Fine(b)
  BY <1>1, <1>3, <1>4 DEF Fine
<1>6. Rejected' <=> Rejected
  BY <1>1, <1>2, SMT DEF Rejected, Quotes
<1>7. Aborted' <=> Aborted
  BY <1>1, Zenon DEF Aborted
<1> QED BY <1>3, <1>5, <1>6, <1>7

\* The invariant after a step, from the values the step leaves.
LEMMA MunchAfter ==
  ASSUME code' = code, ReadInv', NEW b, Bound' = b, Said(ret', b), Fine(b),
         outcome' = "done" => state' # "STRING" /\ i' = Len(code) + 1,
         outcome' = "throw" => Rejected,
         outcome' = "abort" => Aborted
  PROVE  MunchInv'
<1>1. Fine(Bound)'
  BY SameText DEF Fine
<1>2. Said(ret, Bound)'
  <2>1. \A t, pq : Stands(t, pq)' <=> Stands(t, pq)
    BY SameLexemes DEF Stands, Extent
  <2>2. Before(Bound)' = Before(b)
    BY SameText DEF Before
  <2> QED BY <2>1, <2>2 DEF Said
<1> QED BY <1>1, <1>2, SameText DEF MunchInv

-----------------------------------------------------------------------------
(* The tokens that are added *)

LEMMA DigitClass ==
  ASSUME NEW p, code[p] \in numbers
  PROVE  CharClass(p) \in {"quoted", "word"}
  BY Classes, Disjoint

\* add_token makes the token of the lexeme that has been read.
LEMMA ReadToken ==
  ASSUME TypeOK, GoodInv, ReadInv, state \in {"NAME", "NUMBER", "OPERATOR"}, ~Aborts
  PROVE  /\ add_token(state, from, len) \in Tokens
         /\ Stands(add_token(state, from, len), <<from, i - 1>>)
         /\ ~Mixed(<<from, i - 1>>) /\ LexemeType(from, i - 1) # "abort"
<1>1. /\ from \in Nat \ {0} /\ len \in Nat /\ row \in Nat /\ col \in Int
      /\ from + len - 1 = i - 1 /\ from \in from .. i - 1
  <2>1. from \in 1 .. i - 1 /\ from + len = i
    BY DEF GoodInv
  <2> QED BY <2>1, Positions
<1>2. PICK t : t = add_token(state, from, len)
  OBVIOUS
<1>3. t \in Tokens /\ Extent(t) = from .. i - 1
  BY <1>1, <1>2, AddedToken
<1>4. PICK word : word = SubSeq(code, from, i - 1)
  BY Zenon
<1>5. CharClass(from) = Class
  BY <1>1 DEF ReadInv, ReadAt, Class
<1>6. CharClass(from) # "word" => code[from] \notin numbers
  BY <1>5, DigitClass DEF Class, ClassOf
<1>7. CASE state = "NAME"
  <2>1. CharClass(from) = "word" /\ code[from] \notin numbers
    BY <1>5, <1>7 DEF Class, ClassOf, ReadInv, ReadAt
  <2>2. LexemeType(from, i - 1) =
          IF in_reserverd_word(word) THEN as_reserved(word) ELSE "IDENTIFIER"
    BY <1>4, <2>1, LexemeTypes, Zenon
  <2>3. t = IF in_reserverd_word(word) THEN Token(as_reserved(word), from, len, row, 0)
            ELSE Token("IDENTIFIER", from, len, col, 0)
    BY <1>1, <1>2, <1>4, <1>7, Zenon DEF add_token
  <2>4. t.type = LexemeType(from, i - 1)
    BY <2>2, <2>3 DEF Token
  <2>5. in_reserverd_word(word) => as_reserved(word) # "abort"
    BY TokenizerAssumption DEF in_reserverd_word, as_reserved, reserved_words
  <2> QED BY <1>2, <1>3, <2>1, <2>2, <2>4, <2>5 DEF Stands, Mixed
<1>8. CASE state = "NUMBER"
  <2>1. CharClass(from) = "word" /\ \A k \in from .. i - 1 : code[k] \in numbers
    BY <1>5, <1>8 DEF Class, ClassOf, ReadInv, ReadAt
  <2>2. LexemeType(from, i - 1) = "NUMBER"
    BY <1>1, <1>4, <2>1, LexemeTypes
  <2>3. t = Token("NUMBER", from, len, row, col)
    BY <1>2, <1>8, Zenon DEF add_token
  <2>4. t.type = LexemeType(from, i - 1)
    BY <2>2, <2>3 DEF Token
  <2>5. ~Mixed(<<from, i - 1>>)
    BY <2>1, Disjoint DEF Mixed
  <2> QED BY <1>2, <1>3, <2>2, <2>4, <2>5 DEF Stands
<1>9. CASE state = "OPERATOR"
  <2>1. CharClass(from) = "operator" /\ code[from] \notin numbers
    BY <1>5, <1>6, <1>9 DEF Class, ClassOf
  <2>2. LexemeType(from, i - 1) = operator_token(word)
    BY <1>4, <1>6, <2>1, LexemeTypes, Zenon
  <2>3. t = Token(operator_token(word), from, len, row, col)
    BY <1>1, <1>2, <1>4, <1>9, Zenon DEF add_token
  <2>4. t.type = LexemeType(from, i - 1)
    BY <2>2, <2>3 DEF Token
  <2>5. operator_token(word) # "abort"
    BY <1>1, <1>4, <1>9, Zenon DEF Aborts, Pending
  <2> QED BY <1>2, <1>3, <2>1, <2>2, <2>4, <2>5 DEF Stands, Mixed
<1> QED BY <1>7, <1>8, <1>9

\* With the token being read added, the tokens are the lexemes before i, when
\* the next character does not belong to it.
LEMMA Closing ==
  ASSUME TypeOK, GoodInv, ReadInv, Said(ret, Bound), Fine(Bound), outcome = "reading",
         state # "STRING", ~Aborts,
         state # "INIT" /\ i <= Len(code) => CharClass(i) # Class
  PROVE  /\ Said(IF state = "INIT" THEN ret
                 ELSE Append(ret, add_token(state, from, len)), i)
         /\ Fine(i)
<1>1. CASE state = "INIT"
  BY <1>1 DEF Bound
<1>2. CASE state # "INIT"
  <2>1. state \in {"NAME", "NUMBER", "OPERATOR"}
    BY <1>2 DEF TypeOK
  <2>2. Bound = from
    BY <1>2 DEF Bound
  <2>3. PICK q, t : q = i - 1 /\ t = add_token(state, from, len)
    OBVIOUS
  <2>4. /\ from \in 1 .. Len(code) /\ q \in 1 .. Len(code) /\ from <= q
        /\ Lexeme(from, q) /\ Only(from, i, from, q)
    BY <1>2, <2>1, <2>3, RunLexeme
  <2>5. from \in Nat /\ i \in Nat /\ from <= i /\ q < i
    BY <2>3, <2>4, Positions
  <2>6. Before(i) = Before(from) \cup {<<from, q>>}
    BY <2>4, <2>5, OneMore
  <2>7. /\ t \in Tokens /\ Stands(t, <<from, q>>) /\ ~Mixed(<<from, q>>)
        /\ LexemeType(from, q) # "abort"
    BY <2>1, <2>3, ReadToken
  <2>8. ret \in Seq(Tokens) /\ <<from, q>>[1] = from /\ <<from, q>>[2] = q
    BY DEF TypeOK
  <2>9. Said(Append(ret, t), i) /\ Fine(i)
    BY <2>2, <2>6, <2>7, <2>8, Saying
  <2> QED BY <1>2, <2>3, <2>9
<1> QED BY <1>1, <1>2

\* A string literal is a lexeme, and the only one that ends in it.
LEMMA StringLexeme ==
  ASSUME TypeOK, GoodInv, ReadInv, state = "STRING", i <= Len(code), code[i] = quote
  PROVE  /\ from \in 1 .. Len(code) /\ i \in 1 .. Len(code) /\ from < i
         /\ Lexeme(from, i) /\ Only(from, i + 1, from, i)
<1>1. /\ Len(code) \in Nat /\ i \in Nat \ {0} /\ from \in Nat \ {0} /\ from < i
  BY Positions DEF GoodInv
<1>2. code[from] = quote /\ NQ(from) % 2 = 0 /\ NQ(i) = NQ(from) + 1
  BY DEF ReadInv, ReadAt
<1>3. Lexeme(from, i)
  BY <1>1, <1>2 DEF Lexeme, NQ
<1>4. NQ(from) \in Nat
  BY <1>1, QuoteCount, Zenon
<1>5. Only(from, i + 1, from, i)
  <2> SUFFICES ASSUME NEW x \in 1 .. Len(code), NEW y \in 1 .. Len(code),
                      x <= y, from <= y, y < i + 1, Lexeme(x, y)
               PROVE  x = from /\ y = i
    BY DEF Only
  <2>1. x \in Nat \ {0} /\ y \in Nat \ {0} /\ y <= i
    BY <1>1
  <2>2. NQ(x) \in Nat /\ NQ(y) \in Nat
    BY <2>1, QuoteCount
  <2>3. y # from => NQ(y) = NQ(from) + 1
    <3>1. SUFFICES ASSUME from < y PROVE NQ(y) = NQ(from) + 1
      BY <1>1, <2>1
    <3>2. NQ(from) + 1 <= NQ(y)
      BY <1>1, <1>2, <2>1, <3>1, QuotesRise
    <3>3. NQ(y) <= NQ(i)
      BY <1>1, <2>1, QuotesGrow
    <3> QED BY <1>2, <1>4, <2>2, <3>2, <3>3
  <2>4. CharClass(y) = "quoted"
    <3>1. CASE y = from
      BY <1>2, <3>1, Classes, QuotedBy
    <3>2. CASE y # from
      <4>1. NQ(y) % 2 = 1
        BY <1>2, <1>4, <2>3, <3>2
      <4> QED BY <4>1, Classes, QuotedBy
    <3> QED BY <3>1, <3>2
  <2>5. /\ x < y /\ code[x] = quote /\ code[y] = quote
        /\ NQ(x) % 2 = 0 /\ NQ(y) = NQ(x) + 1
    BY <2>1, <2>4, LexemeAt
  <2>6. y # from
    BY <1>2, <2>2, <2>5
  <2>7. NQ(x) = NQ(from)
    BY <1>4, <2>2, <2>3, <2>5, <2>6
  <2>8. y = i
    <3>1. SUFFICES ASSUME y < i PROVE FALSE
      BY <1>1, <2>1
    <3>2. NQ(y) + 1 <= NQ(i)
      BY <1>1, <2>1, <2>5, <3>1, QuotesRise
    <3> QED BY <1>2, <1>4, <2>3, <2>6, <3>2
  <2>9. ~(x < from)
    <3>1. x < from => NQ(x) + 1 <= NQ(from)
      BY <1>1, <2>1, <2>5, QuotesRise
    <3> QED BY <1>4, <2>7, <3>1
  <2>10. ~(from < x)
    <3>1. from < x => NQ(from) + 1 <= NQ(x)
      BY <1>1, <1>2, <2>1, QuotesRise
    <3> QED BY <1>4, <2>7, <3>1
  <2> QED BY <1>1, <2>1, <2>8, <2>9, <2>10
<1> QED BY <1>1, <1>3, <1>5

\* So is a symbol.
LEMMA SymbolLexeme ==
  ASSUME NEW p \in 1 .. Len(code), Len(code) \in Nat, CharClass(p) = "symbol"
  PROVE  Lexeme(p, p) /\ Only(p, p + 1, p, p)
<1>1. Lexeme(p, p)
  BY DEF Lexeme
<1>2. Only(p, p + 1, p, p)
  <2> SUFFICES ASSUME NEW x \in 1 .. Len(code), NEW y \in 1 .. Len(code),
                      x <= y, p <= y, y < p + 1, Lexeme(x, y)
               PROVE  x = p /\ y = p
    BY DEF Only
  <2>1. y = p /\ x \in Nat \ {0} /\ y \in Nat
    OBVIOUS
  <2> QED BY <2>1, LexemeAt
<1> QED BY <1>1, <1>2

LEMMA BlankNone ==
  ASSUME NEW p \in 1 .. Len(code), Len(code) \in Nat, CharClass(p) = "blank"
  PROVE  None(p, p + 1)
<1> SUFFICES ASSUME NEW x \in 1 .. Len(code), NEW y \in 1 .. Len(code),
                    x <= y, p <= y, y < p + 1, Lexeme(x, y)
             PROVE  FALSE
  BY DEF None
<1>1. y = p /\ x \in Nat \ {0} /\ y \in Nat
  OBVIOUS
<1> QED BY <1>1, LexemeAt

-----------------------------------------------------------------------------
(* The state of the loop and the text *)

LEMMA ReadAfter ==
  ASSUME code' = code, NEW s, NEW f, NEW j, state' = s, from' = f, i' = j, ReadAt(s, f, j)
  PROVE  ReadInv'
<1>1. \A p : NQ(p)' = NQ(p) /\ CharClass(p)' = CharClass(p)
  BY SameQuotes, SameClasses
<1> QED BY <1>1, Zenon DEF ReadInv, ReadAt

\* The class of the next character outside a literal.
LEMMA NextClass ==
  ASSUME TypeOK, ReadInv, Reading, state # "STRING"
  PROVE  /\ i \in Nat \ {0} /\ i \in 1 .. Len(code) /\ Len(code) \in Nat
         /\ NQ(i) \in Nat /\ NQ(i) % 2 = 0
         /\ code[i] = quote => CharClass(i) = "quoted" /\ NQ(i + 1) = NQ(i) + 1
         /\ code[i] # quote => NQ(i + 1) = NQ(i)
         /\ code[i] \in delimiters => CharClass(i) = "blank"
         /\ code[i] \in symbols => CharClass(i) = "symbol"
         /\ code[i] \in operator_tokens => CharClass(i) = "operator"
         /\ code[i] \in numbers \cup Letters => CharClass(i) = "word"
<1>1. i \in Nat \ {0} /\ i \in 1 .. Len(code) /\ Len(code) \in Nat
  BY Positions DEF Reading
<1>2. NQ(i) \in Nat /\ NQ(i + 1) = IF code[i] = quote THEN NQ(i) + 1 ELSE NQ(i)
  BY <1>1, QuoteCount
<1>3. ~(NQ(i) % 2 = 1)
  BY DEF ReadInv, ReadAt
<1>4. NQ(i) % 2 = 0
  BY <1>2, <1>3
<1>5. Quoted(i) <=> code[i] = quote
  BY <1>3, QuotedBy
<1>6. code[i] = quote => CharClass(i) = "quoted"
  BY <1>5, Classes
<1>7. /\ code[i] \in delimiters => CharClass(i) = "blank"
      /\ code[i] \in symbols => CharClass(i) = "symbol"
      /\ code[i] \in operator_tokens => CharClass(i) = "operator"
      /\ code[i] \in numbers \cup Letters => CharClass(i) = "word"
  BY <1>5, Classes, Disjoint
<1> QED BY <1>1, <1>2, <1>4, <1>6, <1>7

\* The class of the character before.
LEMMA LastClass ==
  ASSUME TypeOK, GoodInv, ReadInv, state # "STRING", i > 1,
         CharClass(i - 1) \in {"operator", "word"}
  PROVE  state # "INIT" /\ CharClass(i - 1) = Class
<1>1. state # "INIT"
  BY DEF ReadInv, ReadAt
<1>2. state \in {"NAME", "NUMBER", "OPERATOR"}
  BY <1>1 DEF TypeOK
<1>3. i - 1 \in from .. i - 1
  BY <1>1, Positions DEF GoodInv
<1> QED BY <1>1, <1>2, <1>3 DEF ReadInv, ReadAt, Class

LEMMA StartWord ==
  ASSUME TypeOK, GoodInv, ReadInv, Reading, state # "STRING",
         NEW s \in {"NAME", "NUMBER", "OPERATOR"}, CharClass(i) = ClassOf(s),
         state # "INIT" => Class # ClassOf(s), code[i] # quote,
         s = "NUMBER" => code[i] \in numbers, s = "NAME" => code[i] \notin numbers
  PROVE  ReadAt(s, i, i + 1)
<1>1. i \in Nat \ {0} /\ NQ(i) % 2 = 0 /\ NQ(i + 1) = NQ(i) /\ i .. (i + 1) - 1 = {i}
  <2>1. i \in Nat \ {0} /\ NQ(i) % 2 = 0 /\ NQ(i + 1) = NQ(i)
    BY NextClass
  <2> QED BY <2>1
<1>2. i > 1 => CharClass(i - 1) # ClassOf(s)
  <2>1. ClassOf(s) \in {"operator", "word"}
    BY DEF ClassOf
  <2> QED BY <2>1, LastClass
<1>3. s # "STRING" /\ s # "INIT" /\ NQ(i + 1) % 2 # 1
  BY <1>1
<1> QED BY <1>1, <1>2, <1>3 DEF ReadAt

LEMMA StartString ==
  ASSUME TypeOK, ReadInv, Reading, state # "STRING", code[i] = quote
  PROVE  ReadAt("STRING", i, i + 1)
<1>1. NQ(i) \in Nat /\ NQ(i) % 2 = 0 /\ NQ(i + 1) = NQ(i) + 1
  BY NextClass
<1>2. NQ(i + 1) % 2 = 1
  BY <1>1
<1> QED BY <1>1, <1>2, Zenon DEF ReadAt

LEMMA StartOver ==
  ASSUME TypeOK, ReadInv, Reading, state # "STRING", code[i] # quote,
         CharClass(i) \notin {"operator", "word"}
  PROVE  ReadAt("INIT", i, i + 1)
<1>1. i \in Nat \ {0} /\ NQ(i) % 2 = 0 /\ NQ(i + 1) = NQ(i)
  BY NextClass
<1>2. NQ(i + 1) % 2 # 1 /\ (i + 1) - 1 = i
  BY <1>1
<1>3. PICK j : j = i + 1
  OBVIOUS
<1>4. CharClass(j - 1) \notin {"operator", "word"} /\ NQ(j) % 2 # 1
  BY <1>2, <1>3
<1>5. ReadAt("INIT", i, j)
  BY <1>4, Zenon DEF ReadAt
<1> QED BY <1>3, <1>5

LEMMA GoOn ==
  ASSUME TypeOK, GoodInv, ReadInv, Reading,
         \/ state = "STRING" /\ code[i] # quote
         \/ /\ state \in {"NAME", "NUMBER", "OPERATOR"}
            /\ CharClass(i) = Class /\ code[i] # quote
            /\ state = "NUMBER" => code[i] \in numbers
  PROVE  ReadAt(state, from, i + 1)
<1>1. i \in Nat \ {0} /\ from \in Nat \ {0} /\ from <= i - 1
  BY Positions DEF GoodInv
<1>2. NQ(i + 1) = NQ(i)
  BY <1>1, QuoteCount
<1>3. \A k \in from .. (i + 1) - 1 : k \in from .. i - 1 \/ k = i
  BY <1>1
<1>4. CASE state = "STRING"
  BY <1>2, <1>4, Zenon DEF ReadInv, ReadAt
<1>5. CASE /\ state \in {"NAME", "NUMBER", "OPERATOR"}
           /\ CharClass(i) = Class /\ code[i] # quote
           /\ state = "NUMBER" => code[i] \in numbers
  <2>1. state # "STRING" /\ state # "INIT"
    BY <1>5
  <2>2. \A k \in from .. (i + 1) - 1 : CharClass(k) = ClassOf(state)
    BY <1>3, <1>5 DEF ReadInv, ReadAt, Class
  <2>3. state = "NUMBER" => \A k \in from .. (i + 1) - 1 : code[k] \in numbers
    BY <1>3, <1>5 DEF ReadInv, ReadAt
  <2>4. NQ(i + 1) % 2 # 1 /\ (from > 1 => CharClass(from - 1) # ClassOf(state))
    BY <1>2, <1>5 DEF ReadInv, ReadAt
  <2>5. state = "NAME" => code[from] \notin numbers
    BY DEF ReadInv, ReadAt
  <2>6. PICK j : j = i + 1
    OBVIOUS
  <2>7. ReadAt(state, from, j)
    BY ONLY <2>1, <2>2, <2>3, <2>4, <2>5, <2>6, Zenon DEF ReadAt
  <2> QED BY <2>6, <2>7
<1> QED BY <1>4, <1>5

LEMMA AfterString ==
  ASSUME TypeOK, GoodInv, ReadInv, Reading, state = "STRING", code[i] = quote
  PROVE  ReadAt("INIT", i, i + 1)
<1>1. i \in Nat \ {0} /\ from \in Nat \ {0}
  BY Positions
<1>2. NQ(i) \in Nat /\ NQ(i + 1) = NQ(i) + 1 /\ NQ(i) % 2 = 1
  BY <1>1, QuoteCount DEF ReadInv, ReadAt
<1>3. NQ(i + 1) % 2 # 1 /\ (i + 1) - 1 = i
  BY <1>1, <1>2
<1>4. CharClass(i) = "quoted"
  BY Classes, QuotedBy
<1>5. PICK j : j = i + 1
  OBVIOUS
<1>6. CharClass(j - 1) \notin {"operator", "word"} /\ NQ(j) % 2 # 1
  BY <1>3, <1>4, <1>5
<1>7. ReadAt("INIT", i, j)
  BY <1>6, Zenon DEF ReadAt
<1> QED BY <1>5, <1>7

-----------------------------------------------------------------------------
(* Texts that are not accepted *)

\* The operator being read has no type.
LEMMA AbortsRight ==
  ASSUME TypeOK, GoodInv, ReadInv, Aborts, i <= Len(code) => CharClass(i) # "operator"
  PROVE  Aborted
<1>1. state = "OPERATOR" /\ Class = "operator"
  BY DEF Aborts, Class, ClassOf
<1>2. PICK q, word : q = i - 1 /\ word = SubSeq(code, from, q)
  BY Zenon
<1>3. /\ from \in 1 .. Len(code) /\ q \in 1 .. Len(code) /\ from <= q /\ Lexeme(from, q)
  BY <1>1, <1>2, RunLexeme
<1>4. from + len - 1 = q /\ from \in from .. q
  BY SMTT(30), <1>1, <1>2, Positions DEF GoodInv
<1>5. operator_token(word) = "abort"
  BY <1>2, <1>4, Zenon DEF Aborts, Pending
<1>6. CharClass(from) = "operator"
  BY <1>1, <1>2, <1>4 DEF ReadInv, ReadAt, Class
<1>7. LexemeType(from, q) = "abort"
  BY <1>2, <1>5, <1>6, DigitClass, LexemeTypes, Zenon
<1>8. <<from, q>> \in Lexemes
  BY <1>3 DEF Lexemes, Spans
<1>9. <<from, q>>[1] = from /\ <<from, q>>[2] = q
  OBVIOUS
<1> QED BY <1>7, <1>8, <1>9, Zenon DEF Aborted

\* A set of numbers has a least one.
LEMMA Least ==
  ASSUME NEW T, T \subseteq Nat, T # {}
  PROVE  \E n \in T : \A m \in T : n <= m
<1>1. PICK n \in T : \A m \in T : ~(<<m, n>> \in OpToRel(<, Nat))
  BY Zenon, NatLessThanWellFounded, WFMin
<1>2. OpToRel(<, Nat) = {ss \in Nat \X Nat : ss[1] < ss[2]}
  BY DEF OpToRel
<1>3. \A m \in T : ~(m < n)
  <2>1. \A m \in T : <<m, n>> \in Nat \X Nat
    BY <1>1, Zenon
  <2> QED BY Zenon, <1>1, <1>2, <2>1
<1>4. \A m \in T : n <= m
  <2>1. n \in Nat /\ \A m \in T : m \in Nat
    BY <1>1, Zenon
  <2> QED BY <1>3, <2>1
<1> QED BY <1>1, <1>4, Zenon

\* A run of a class ends somewhere.
LEMMA RunEnds ==
  ASSUME NEW p \in 1 .. Len(code), Len(code) \in Nat, NEW c, CharClass(p) = c
  PROVE  \E q \in p .. Len(code) :
           /\ \A k \in p .. q : CharClass(k) = c
           /\ q < Len(code) => CharClass(q + 1) # c
<1>1. PICK T : T = {k \in p + 1 .. Len(code) : CharClass(k) # c}
  BY Zenon
<1>2. CASE T = {}
  <2>1. \A k \in p .. Len(code) : CharClass(k) = c
    BY <1>1, <1>2
  <2>2. Len(code) \in p .. Len(code) /\ ~(Len(code) < Len(code))
    OBVIOUS
  <2> QED BY <2>1, <2>2
<1>3. CASE T # {}
  <2>1. T \subseteq Nat
    BY <1>1
  <2>2. PICK n \in T : \A m \in T : n <= m
    BY <1>3, <2>1, Least, Zenon
  <2>3. n \in p + 1 .. Len(code) /\ CharClass(n) # c
    BY <1>1, <2>2
  <2>4. PICK q : q = n - 1
    OBVIOUS
  <2>5. q \in p .. Len(code) /\ q + 1 = n
    BY <2>3, <2>4
  <2>6. ASSUME NEW k \in p .. q PROVE CharClass(k) = c
    <3>1. k = p \/ k \in p + 1 .. Len(code)
      BY <2>3, <2>4
    <3>2. ~(n <= k)
      BY <2>3, <2>4
    <3> QED BY <1>1, <2>2, <3>1, <3>2
  <2> QED BY <2>3, <2>5, <2>6, Zenon
<1> QED BY <1>2, <1>3

\* A letter in the number being read.
LEMMA ThrowsRight ==
  ASSUME TypeOK, GoodInv, ReadInv, Reading, state = "NUMBER", code[i] \in Letters
  PROVE  Rejected
<1>1. /\ i \in Nat \ {0} /\ i \in 1 .. Len(code) /\ Len(code) \in Nat
      /\ CharClass(i) = "word"
  BY NextClass
<1>2. from \in 1 .. i - 1 /\ from \in Nat
  BY Positions DEF GoodInv
<1>3. PICK q \in i .. Len(code) : /\ \A k \in i .. q : CharClass(k) = "word"
                                  /\ q < Len(code) => CharClass(q + 1) # "word"
  BY <1>1, RunEnds
<1>4. /\ \A k \in from .. i - 1 : CharClass(k) = "word" /\ code[k] \in numbers
      /\ from > 1 => CharClass(from - 1) # "word"
  BY DEF ReadInv, ReadAt, ClassOf
<1>5. \A k \in from .. q : CharClass(k) = "word"
  <2>1. \A k \in from .. q : k \in from .. i - 1 \/ k \in i .. q
    BY <1>1, <1>2
  <2> QED BY <1>3, <1>4, <2>1
<1>6. from \in from .. i - 1 /\ from \in 1 .. Len(code) /\ q \in 1 .. Len(code) /\ from <= q
      /\ i \in from .. q
  BY <1>1, <1>2, <1>3
<1>7. CharClass(from) = "word" /\ code[from] \in numbers
  BY <1>4, <1>6
<1>8. Lexeme(from, q)
  BY <1>3, <1>4, <1>5, <1>7, Zenon DEF Lexeme
<1>9. <<from, q>> \in Lexemes /\ <<from, q>>[1] = from /\ <<from, q>>[2] = q
  BY <1>6, <1>8 DEF Lexemes, Spans
<1>10. ~Quoted(from)
  <2>1. Quoted(from) => CharClass(from) = "quoted"
    BY Classes
  <2> QED BY <1>7, <2>1
<1> QED BY <1>6, <1>7, <1>9, <1>10, Zenon DEF Rejected

\* A literal without an end.
LEMMA OpenRight ==
  ASSUME ReadInv, state = "STRING", i = Len(code) + 1
  PROVE  Rejected
<1>1. NQ(i) % 2 = 1
  BY DEF ReadInv, ReadAt
<1>2. Cardinality(Quotes(Len(code) + 1)) % 2 = 1
  BY <1>1 DEF NQ
<1> QED BY <1>2, Zenon DEF Rejected

-----------------------------------------------------------------------------
(* Steps *)

LEMMA MunchStop ==
  ASSUME MunchInv, outcome = "reading", NEW how, Stop(how), how # "done",
         how = "throw" => Rejected, how = "abort" => Aborted
  PROVE  MunchInv'
<1>1. /\ code' = code /\ state' = state /\ from' = from /\ i' = i /\ ret' = ret
      /\ outcome' = how
  BY DEF Stop
<1>2. ReadInv'
  BY <1>1, ReadAfter DEF MunchInv, ReadInv
<1>3. Bound' = Bound
  BY <1>1 DEF Bound
<1>4. Said(ret', Bound) /\ Fine(Bound)
  BY <1>1 DEF MunchInv
<1> QED BY <1>1, <1>2, <1>3, <1>4, MunchAfter

LEMMA MunchExtend ==
  ASSUME MunchInv, Reading, Extend, state # "INIT", ReadAt(state, from, i + 1)
  PROVE  MunchInv'
<1>1. /\ code' = code /\ state' = state /\ from' = from /\ i' = i + 1 /\ ret' = ret
      /\ outcome' = "reading"
  BY DEF Extend, Reading
<1>2. ReadInv'
  BY <1>1, ReadAfter
<1>3. Bound' = Bound
  BY <1>1 DEF Bound, Reading
<1>4. Said(ret', Bound) /\ Fine(Bound)
  BY <1>1 DEF MunchInv
<1> QED BY <1>1, <1>2, <1>3, <1>4, MunchAfter

\* The token t is that of the symbol at i.
IsSymbol(t) ==
  /\ t \in Tokens /\ CharClass(i) = "symbol" /\ Stands(t, <<i, i>>)
  /\ ~Mixed(<<i, i>>) /\ LexemeType(i, i) # "abort"

LEMMA MunchFinish ==
  ASSUME TypeOK, GoodInv, MunchInv, Reading, state # "STRING", ~Aborts,
         state # "INIT" => CharClass(i) # Class,
         NEW toks, NEW s, NEW n, Finish(toks, s, n), ReadAt(s, i, i + 1),
         \/ s # "INIT" /\ toks = << >>
         \/ s = "INIT" /\ toks = << >> /\ CharClass(i) = "blank"
         \/ s = "INIT" /\ \E t : toks = <<t>> /\ IsSymbol(t)
  PROVE  MunchInv'
<1>1. PICK r : r = IF state = "INIT" THEN ret
                   ELSE Append(ret, add_token(state, from, len))
  BY Zenon
<1>2. Said(r, i) /\ Fine(i)
  BY <1>1, Closing DEF MunchInv, Reading
<1>3. r \in Seq(Tokens)
  <2>1. Good(r, i)
    BY <1>1, Finishing DEF Reading
  <2> QED BY <2>1 DEF Good
<1>4. /\ code' = code /\ state' = s /\ from' = i /\ i' = i + 1 /\ ret' = r \o toks
      /\ outcome' = "reading"
  BY <1>1 DEF Finish, Reading
<1>5. ReadInv'
  BY <1>4, ReadAfter
<1>6. i \in Nat \ {0} /\ i \in 1 .. Len(code) /\ Len(code) \in Nat
  BY Positions DEF Reading
<1>7. PICK e : e = i + 1
  OBVIOUS
<1>8. i \in Nat /\ e \in Nat /\ i <= e /\ i < e
  BY <1>6, <1>7
<1>9. CASE s # "INIT" /\ toks = << >>
  <2>1. Bound' = i /\ ret' = r
    BY <1>3, <1>4, <1>9 DEF Bound
  <2> QED BY <1>2, <1>4, <1>5, <2>1, MunchAfter
<1>10. CASE s = "INIT" /\ toks = << >> /\ CharClass(i) = "blank"
  <2>1. Bound' = e /\ ret' = r
    BY <1>3, <1>4, <1>7, <1>10 DEF Bound
  <2>2. None(i, e)
    BY <1>6, <1>7, <1>10, BlankNone
  <2>3. Before(e) = Before(i)
    BY <1>8, <2>2, NoMore
  <2>4. Said(r, e) /\ Fine(e)
    BY <1>2, <2>3, Zenon DEF Said, Fine
  <2> QED BY <1>4, <1>5, <2>1, <2>4, MunchAfter
<1>11. ASSUME NEW t, s = "INIT", toks = <<t>>, IsSymbol(t)
       PROVE  MunchInv'
  <2>1. Bound' = e /\ ret' = Append(r, t)
    BY <1>3, <1>4, <1>7, <1>11 DEF Bound
  <2>2. Lexeme(i, i) /\ Only(i, e, i, i)
    BY <1>6, <1>7, <1>11, SymbolLexeme DEF IsSymbol
  <2>3. Before(e) = Before(i) \cup {<<i, i>>}
    BY <1>6, <1>8, <2>2, OneMore
  <2>4. /\ t \in Tokens /\ Stands(t, <<i, i>>) /\ ~Mixed(<<i, i>>)
        /\ LexemeType(<<i, i>>[1], <<i, i>>[2]) # "abort"
    BY <1>11 DEF IsSymbol
  <2>5. Said(Append(r, t), e) /\ Fine(e)
    BY <1>2, <1>3, <2>3, <2>4, Saying
  <2> QED BY <1>4, <1>5, <2>1, <2>5, MunchAfter
<1> QED BY <1>9, <1>10, <1>11

LEMMA MunchStringEnd ==
  ASSUME TypeOK, GoodInv, MunchInv, StringEnd
  PROVE  MunchInv'
<1>1. Reading /\ state = "STRING" /\ code[i] = quote /\ i <= Len(code) /\ ReadInv
  BY DEF StringEnd, Reading, MunchInv
<1>2. PICK t, e : t = Token("STRING_LITERAL", from + 1, len - 1, row, col) /\ e = i + 1
  OBVIOUS
<1>3. /\ from \in 1 .. Len(code) /\ i \in 1 .. Len(code) /\ from < i
      /\ Lexeme(from, i) /\ Only(from, e, from, i)
  BY <1>1, <1>2, StringLexeme
<1>4. /\ code' = code /\ state' = "INIT" /\ from' = i /\ i' = e /\ ret' = Append(ret, t)
      /\ outcome' = "reading"
  BY <1>2 DEF StringEnd, Reading
<1>5. /\ from \in Nat \ {0} /\ i \in Nat /\ len \in Nat /\ row \in Int /\ col \in Int
      /\ from + len = i
  BY <1>1, Positions DEF GoodInv
<1>6. /\ from \in Nat /\ e \in Nat /\ from <= e /\ from <= i /\ i < e
      /\ from + 1 \in Nat /\ len - 1 \in Nat
      /\ (from + 1) - 1 = from /\ (from + 1) + (len - 1) = i
  BY <1>2, <1>3, <1>5
<1>7. t \in Tokens /\ t.type = "STRING_LITERAL" /\ Extent(t) = from .. i
  BY <1>2, <1>5, <1>6 DEF Token, Tokens, Extent
<1>8. code[from] = quote
  BY <1>1 DEF ReadInv, ReadAt
<1>9. CharClass(from) = "quoted" /\ Quoted(from) /\ code[from] \notin numbers
  BY <1>8, Classes, QuotedBy, Disjoint
<1>10. LexemeType(from, i) = "STRING_LITERAL"
  BY <1>9, LexemeTypes, Zenon
<1>11. /\ Stands(t, <<from, i>>) /\ ~Mixed(<<from, i>>)
       /\ LexemeType(<<from, i>>[1], <<from, i>>[2]) # "abort"
  BY <1>7, <1>9, <1>10 DEF Stands, Mixed
<1>12. Before(e) = Before(from) \cup {<<from, i>>}
  BY <1>3, <1>6, OneMore
<1>13. Said(ret, from) /\ Fine(from) /\ ret \in Seq(Tokens)
  BY <1>1 DEF MunchInv, Bound, Reading, TypeOK
<1>14. Said(Append(ret, t), e) /\ Fine(e)
  BY <1>7, <1>11, <1>12, <1>13, Saying
<1>15. ReadInv'
  <2>1. ReadAt("INIT", i, e)
    BY <1>1, <1>2, AfterString
  <2> QED BY <1>4, <2>1, ReadAfter
<1>16. Bound' = e
  BY <1>4 DEF Bound
<1> QED BY <1>4, <1>14, <1>15, <1>16, MunchAfter

LEMMA MunchEnd ==
  ASSUME TypeOK, GoodInv, MunchInv, EndOfCode
  PROVE  MunchInv'
<1>1. outcome = "reading" /\ i = Len(code) + 1 /\ ReadInv /\ Len(code) \in Nat
  BY Positions DEF EndOfCode, MunchInv
<1>2. ~(i <= Len(code))
  BY <1>1
<1>3. CASE state = "STRING"
  <2>1. Stop("throw") /\ Rejected
    BY <1>1, <1>3, OpenRight DEF EndOfCode
  <2> QED BY <1>1, <2>1, MunchStop
<1>4. CASE state # "STRING" /\ Aborts
  <2>1. Stop("abort") /\ Aborted
    BY <1>1, <1>2, <1>4, AbortsRight DEF EndOfCode
  <2> QED BY <1>1, <2>1, MunchStop
<1>5. CASE state # "STRING" /\ ~Aborts
  <2>1. PICK r : r = IF state = "INIT" THEN ret
                     ELSE Append(ret, add_token(state, from, len))
    BY Zenon
  <2>2. /\ code' = code /\ state' = state /\ from' = from /\ i' = i /\ ret' = r
        /\ outcome' = "done"
    BY <1>5, <2>1 DEF EndOfCode
  <2>3. Said(r, i) /\ Fine(i)
    BY <1>1, <1>2, <1>5, <2>1, Closing DEF MunchInv
  <2>4. ReadInv'
    BY <1>1, <2>2, ReadAfter DEF ReadInv
  <2>5. Bound' = i
    BY <2>2 DEF Bound
  <2> QED BY <1>1, <1>5, <2>2, <2>3, <2>4, <2>5, MunchAfter
<1> QED BY <1>3, <1>4, <1>5

LEMMA SymbolToken ==
  ASSUME TypeOK, ReadInv, Reading, state # "STRING", code[i] \in symbols,
         NEW t, t = Token(symbol_token(code[i]), i, 1, row, col)
  PROVE  IsSymbol(t)
<1>1. i \in Nat \ {0} /\ CharClass(i) = "symbol" /\ row \in Int /\ col \in Int
  BY NextClass, Positions
<1>2. symbol_token(code[i]) \in plain_types
  BY SymbolType
<1>3. symbol_token(code[i]) # "STRING_LITERAL"
  BY <1>2, NotLiteral
<1>4. t \in Tokens /\ t.type = symbol_token(code[i]) /\ Extent(t) = i .. i
  <2>1. i + 1 - 1 = i /\ i \in Nat /\ 1 \in Nat
    BY <1>1
  <2> QED BY <1>1, <1>2, <1>3, <2>1 DEF Token, Tokens, Extent
<1>5. code[i] \notin numbers
  BY <1>1, DigitClass
<1>6. LexemeType(i, i) = symbol_token(code[i])
  BY <1>1, <1>5, LexemeTypes, Zenon
<1>7. symbol_token(code[i]) # "abort"
  <2>1. \E def \in symbol_types : def[1] = code[i]
    BY DEF symbols, symbol_types
  <2>2. \A def \in symbol_types : def[2] # "abort"
    BY DEF symbol_types
  <2>3. PICK d : d = CHOOSE def \in symbol_types : def[1] = code[i]
    OBVIOUS
  <2>4. d \in symbol_types
    BY <2>1, <2>3, Zenon
  <2>5. symbol_token(code[i]) = d[2]
    BY <2>1, <2>3, Zenon DEF symbol_token, Lookup
  <2> QED BY <2>2, <2>4, <2>5
<1> QED BY <1>1, <1>4, <1>5, <1>6, <1>7 DEF IsSymbol, Stands, Mixed

\* Every step of the loop adds the lexeme it has read to the end of, if any.
LEMMA MunchStep ==
  ASSUME TypeOK, GoodInv, MunchInv, [Next]_vars
  PROVE  MunchInv'
<1>1. ReadInv
  BY DEF MunchInv
<1>2. Class = IF state = "OPERATOR" THEN "operator" ELSE "word"
  BY DEF Class, ClassOf
<1>3. state \in {"INIT", "NAME", "NUMBER", "STRING", "OPERATOR"}
  BY DEF TypeOK
<1>4. ASSUME Reading, Aborts, CharClass(i) # "operator", Stop("abort")
      PROVE  MunchInv'
  BY <1>1, <1>4, AbortsRight, MunchStop DEF Reading
<1>5. CASE StringChar
  <2>1. Reading /\ state = "STRING" /\ code[i] # quote /\ Extend
    BY <1>5 DEF StringChar
  <2>2. ReadAt(state, from, i + 1)
    BY <1>1, <2>1, GoOn
  <2> QED BY <2>1, <2>2, MunchExtend
<1>6. CASE Quote
  <2>1. Reading /\ state # "STRING" /\ code[i] = quote
    BY <1>6 DEF Quote
  <2>2. CharClass(i) = "quoted" /\ ReadAt("STRING", i, i + 1)
    BY <1>1, <2>1, NextClass, StartString
  <2>3. CASE Aborts
    BY <1>4, <1>6, <2>1, <2>2, <2>3 DEF Quote
  <2>4. CASE ~Aborts
    <3>1. Finish(<< >>, "STRING", 1)
      BY <1>6, <2>4 DEF Quote
    <3> QED BY <1>2, <2>1, <2>2, <2>4, <3>1, MunchFinish
  <2> QED BY <2>3, <2>4
<1>7. CASE Delimiter
  <2>1. Reading /\ state # "STRING" /\ code[i] \in delimiters
    BY <1>7 DEF Delimiter
  <2>2. CharClass(i) = "blank" /\ code[i] # quote
    BY <1>1, <2>1, NextClass, Disjoint
  <2>3. CASE Aborts
    BY <1>4, <1>7, <2>1, <2>2, <2>3 DEF Delimiter
  <2>4. CASE ~Aborts
    <3>1. Finish(<< >>, "INIT", 0)
      BY <1>7, <2>4 DEF Delimiter
    <3>2. ReadAt("INIT", i, i + 1)
      BY <1>1, <2>1, <2>2, StartOver
    <3> QED BY SMTT(30), <1>2, <2>1, <2>2, <2>4, <3>1, <3>2, MunchFinish
  <2> QED BY <2>3, <2>4
<1>8. CASE Symbol
  <2>1. Reading /\ state # "STRING" /\ code[i] \in symbols
    BY <1>8 DEF Symbol
  <2>2. CharClass(i) = "symbol" /\ code[i] # quote
    BY <1>1, <2>1, NextClass, Disjoint
  <2>3. CASE Aborts
    BY <1>4, <1>8, <2>1, <2>2, <2>3 DEF Symbol
  <2>4. CASE ~Aborts
    <3>1. PICK t : t = Token(symbol_token(code[i]), i, 1, row, col)
      OBVIOUS
    <3>2. Finish(<<t>>, "INIT", 0)
      BY <1>8, <2>4, <3>1 DEF Symbol
    <3>3. ReadAt("INIT", i, i + 1)
      BY <1>1, <2>1, <2>2, StartOver
    <3>4. IsSymbol(t)
      BY <1>1, <2>1, <3>1, SymbolToken
    <3> QED BY <1>2, <2>1, <2>2, <2>4, <3>2, <3>3, <3>4, MunchFinish
  <2> QED BY <2>3, <2>4
<1>9. CASE Operator
  <2>1. Reading /\ state # "STRING" /\ code[i] \in operator_tokens
    BY <1>9 DEF Operator
  <2>2. CharClass(i) = "operator" /\ code[i] # quote
    BY <1>1, <2>1, NextClass, Disjoint
  <2>3. CASE state = "OPERATOR"
    <3>1. Extend
      BY <1>9, <2>3 DEF Operator
    <3>2. ReadAt(state, from, i + 1)
      BY <1>1, <1>2, <2>1, <2>2, <2>3, GoOn
    <3> QED BY <2>1, <2>3, <3>1, <3>2, MunchExtend
  <2>4. CASE state # "OPERATOR"
    <3>1. Finish(<< >>, "OPERATOR", 1) /\ ~Aborts
      BY <1>9, <2>4 DEF Operator, Aborts
    <3>2. CharClass(i) = ClassOf("OPERATOR") /\ Class # ClassOf("OPERATOR")
      BY <1>2, <2>2, <2>4 DEF ClassOf
    <3>3. ReadAt("OPERATOR", i, i + 1)
      BY <1>1, <2>1, <2>2, <3>2, StartWord
    <3> QED BY <2>1, <3>1, <3>2, <3>3, MunchFinish
  <2> QED BY <2>3, <2>4
<1>10. CASE Number
  <2>1. Reading /\ state # "STRING" /\ code[i] \in numbers
    BY <1>10 DEF Number
  <2>2. CharClass(i) = "word" /\ code[i] # quote
    BY <1>1, <2>1, NextClass, Disjoint
  <2>3. CASE Aborts
    BY <1>4, <1>10, <2>1, <2>2, <2>3 DEF Number
  <2>4. CASE state \in {"NAME", "NUMBER"}
    <3>1. Extend
      BY <1>10, <2>4 DEF Number, Aborts
    <3>2. ReadAt(state, from, i + 1)
      BY <1>1, <1>2, <2>1, <2>2, <2>4, GoOn
    <3> QED BY <2>1, <2>4, <3>1, <3>2, MunchExtend
  <2>5. CASE ~Aborts /\ state \notin {"NAME", "NUMBER"}
    <3>1. Finish(<< >>, "NUMBER", 1)
      BY <1>10, <2>5 DEF Number
    <3>2. /\ CharClass(i) = ClassOf("NUMBER")
          /\ state # "INIT" => Class # ClassOf("NUMBER")
      BY <1>2, <1>3, <2>1, <2>2, <2>5 DEF ClassOf
    <3>3. ReadAt("NUMBER", i, i + 1)
      BY <1>1, <2>1, <2>2, <3>2, StartWord
    <3> QED BY <2>1, <2>5, <3>1, <3>2, <3>3, MunchFinish
  <2> QED BY <2>3, <2>4, <2>5
<1>11. CASE Name
  <2>1. Reading /\ state # "STRING" /\ code[i] \in Letters
    BY <1>11 DEF Name
  <2>2. CharClass(i) = "word" /\ code[i] # quote /\ code[i] \notin numbers
    BY <1>1, <2>1, NextClass, Disjoint
  <2>3. CASE state = "NUMBER"
    <3>1. Stop("throw") /\ Rejected
      BY <1>1, <1>11, <2>1, <2>3, ThrowsRight DEF Name
    <3> QED BY <2>1, <3>1, MunchStop DEF Reading
  <2>4. CASE Aborts
    <3>1. state # "NUMBER"
      BY <2>4 DEF Aborts
    <3> QED BY <1>4, <1>11, <2>1, <2>2, <2>4, <3>1 DEF Name
  <2>5. CASE state = "NAME"
    <3>1. Extend
      BY <1>11, <2>5 DEF Name, Aborts
    <3>2. ReadAt(state, from, i + 1)
      BY <1>1, <1>2, <2>1, <2>2, <2>5, GoOn
    <3> QED BY <2>1, <2>5, <3>1, <3>2, MunchExtend
  <2>6. CASE ~Aborts /\ state \notin {"NAME", "NUMBER"}
    <3>1. Finish(<< >>, "NAME", 1)
      BY <1>11, <2>6 DEF Name
    <3>2. /\ CharClass(i) = ClassOf("NAME")
          /\ state # "INIT" => Class # ClassOf("NAME")
      BY <1>2, <1>3, <2>1, <2>2, <2>6 DEF ClassOf
    <3>3. ReadAt("NAME", i, i + 1)
      BY <1>1, <2>1, <2>2, <3>2, StartWord
    <3> QED BY <2>1, <2>6, <3>1, <3>2, <3>3, MunchFinish
  <2> QED BY <2>3, <2>4, <2>5, <2>6
<1>12. CASE UNCHANGED vars
  <2>1. /\ code' = code /\ state' = state /\ from' = from /\ i' = i /\ ret' = ret
        /\ outcome' = outcome
    BY <1>12 DEF vars
  <2>2. ReadInv'
    BY <1>1, <2>1, ReadAfter DEF ReadInv
  <2>3. Bound' = Bound
    BY <2>1 DEF Bound
  <2>4. Said(ret', Bound) /\ Fine(Bound)
    BY <2>1 DEF MunchInv
  <2> QED BY <2>1, <2>2, <2>3, <2>4, MunchAfter DEF MunchInv
<1> QED
  BY <1>5, <1>6, <1>7, <1>8, <1>9, <1>10, <1>11, <1>12, MunchStringEnd, MunchEnd DEF Next

\* The tokens made so far are the lexemes that end before the position of the
\* loop, and the token being read starts a lexeme: the inductive invariant.
THEOREM TokensAreLexemes == Spec => []MunchInv
<1>1. Init => MunchInv
  <2> SUFFICES ASSUME Init PROVE MunchInv
    OBVIOUS
  <2>1. /\ i = 1 /\ state = "INIT" /\ from = 1 /\ ret = << >> /\ outcome = "reading"
    BY DEF Init
  <2>2. Quotes(1) = {}
    BY DEF Quotes
  <2>3. NQ(1) % 2 # 1
    BY <2>2, FS_EmptySet DEF NQ
  <2>4. ~(1 > 1)
    OBVIOUS
  <2>5. ReadInv
    BY <2>1, <2>3, <2>4, Zenon DEF ReadInv, ReadAt
  <2>6. Bound = 1
    BY <2>1 DEF Bound
  <2>7. Before(1) = {}
    BY DEF Before, Lexemes, Spans
  <2>8. Said(<< >>, 1) /\ Fine(1)
    BY <2>7 DEF Said, Fine
  <2> QED BY <2>1, <2>5, <2>6, <2>8 DEF MunchInv
<1> QED
  BY <1>1, MunchStep, TokensGood, PTL DEF Spec

\* tokenize accepts exactly the texts, of any length, whose lexemes are all
\* well formed, and returns their lexemes, with their types.
THEOREM TokenizeMunches == Spec => []Munch
<1>1. ASSUME TypeOK, MunchInv PROVE Munch
  <2>1. ASSUME outcome = "done"
        PROVE  /\ ~Rejected /\ ~Aborted
               /\ {<<t.type, Extent(t)>> : t \in {ret[k] : k \in DOMAIN ret}} =
                  {<<LexemeType(pq[1], pq[2]), pq[1] .. pq[2]>> : pq \in Lexemes}
    <3>1. i = Len(code) + 1 /\ Bound = i /\ state # "STRING" /\ Len(code) \in Nat
      BY <1>1, <2>1, Positions DEF MunchInv, Bound
    <3>2. Before(i) = Lexemes
      BY <3>1 DEF Before, Lexemes, Spans
    <3>3. Said(ret, i) /\ Fine(i)
      BY <1>1, <3>1 DEF MunchInv
    <3>4. ~Aborted
      BY <3>2, <3>3, Zenon DEF Aborted, Fine
    <3>5. NQ(Len(code) + 1) % 2 # 1
      BY <1>1, <3>1 DEF MunchInv, ReadInv, ReadAt
    <3>6. ~Rejected
      BY <3>2, <3>3, <3>5, Zenon DEF Rejected, Fine, Mixed, NQ
    <3>7. ASSUME NEW k \in DOMAIN ret
          PROVE  \E pq \in Lexemes : <<ret[k].type, Extent(ret[k])>> =
                                     <<LexemeType(pq[1], pq[2]), pq[1] .. pq[2]>>
      BY <3>2, <3>3, Zenon DEF Said, Stands
    <3>8. ASSUME NEW pq \in Lexemes
          PROVE  \E k \in DOMAIN ret : <<ret[k].type, Extent(ret[k])>> =
                                       <<LexemeType(pq[1], pq[2]), pq[1] .. pq[2]>>
      BY <3>2, <3>3, Zenon DEF Said, Stands
    <3>9. {<<t.type, Extent(t)>> : t \in {ret[k] : k \in DOMAIN ret}} =
          {<<LexemeType(pq[1], pq[2]), pq[1] .. pq[2]>> : pq \in Lexemes}
      <4>1. PICK L, R :
              /\ L = {<<t.type, Extent(t)>> : t \in {ret[k] : k \in DOMAIN ret}}
              /\ R = {<<LexemeType(pq[1], pq[2]), pq[1] .. pq[2]>> : pq \in Lexemes}
        BY Zenon
      <4>2. ASSUME NEW x \in L PROVE x \in R
        <5>1. PICK k \in DOMAIN ret : x = <<ret[k].type, Extent(ret[k])>>
          BY <4>1, Zenon
        <5> QED BY <3>7, <4>1, <5>1, Zenon
      <4>3. ASSUME NEW x \in R PROVE x \in L
        <5>1. PICK pq \in Lexemes : x = <<LexemeType(pq[1], pq[2]), pq[1] .. pq[2]>>
          BY <4>1, Zenon
        <5>2. PICK k \in DOMAIN ret : x = <<ret[k].type, Extent(ret[k])>>
          BY <3>8, <5>1, Zenon
        <5>3. ret[k] \in {ret[m] : m \in DOMAIN ret}
          OBVIOUS
        <5> QED BY <4>1, <5>2, <5>3, Zenon
      <4> QED BY <4>1, <4>2, <4>3
    <3> QED BY <3>4, <3>6, <3>9
  <2> QED BY <1>1, <2>1 DEF Munch, MunchInv
<1> QED
  BY <1>1, TokensAreLexemes, TokensGood, PTL

-----------------------------------------------------------------------------
(* The rows of the tokens *)

LEMMA LineCount ==
  ASSUME NEW p \in Nat \ {0}
  PROVE  /\ Cardinality(Lines(p)) \in Nat
         /\ code[p] = "\n" /\ ~Quoted(p) =>
              Cardinality(Lines(p + 1)) = Cardinality(Lines(p)) + 1
         /\ ~(code[p] = "\n" /\ ~Quoted(p)) => Lines(p + 1) = Lines(p)
<1>1. IsFiniteSet(1 .. p - 1)
  BY FS_Interval
<1>2. Lines(p) \in SUBSET (1 .. p - 1)
  BY DEF Lines
<1>3. IsFiniteSet(Lines(p))
  BY <1>1, <1>2, FS_Subset
<1>4. p \notin Lines(p)
  BY DEF Lines
<1>5. code[p] = "\n" /\ ~Quoted(p) => Lines(p + 1) = Lines(p) \cup {p}
  BY DEF Lines
<1>6. ~(code[p] = "\n" /\ ~Quoted(p)) => Lines(p + 1) = Lines(p)
  BY DEF Lines
<1>7. Cardinality(Lines(p) \cup {p}) = Cardinality(Lines(p)) + 1
  BY <1>3, <1>4, FS_AddElement
<1> QED BY <1>3, <1>5, <1>6, <1>7, FS_CardinalityType, Zenon

\* A token that spans no end of a line.
LEMMA SameLine ==
  ASSUME NEW f \in Nat \ {0}, NEW e \in Nat, f <= e,
         \A k \in f .. e - 1 : CharClass(k) # "blank"
  PROVE  Lines(e) = Lines(f)
<1>1. ASSUME NEW q \in Lines(e) PROVE q < f
  <2>1. q \in 1 .. e - 1 /\ code[q] = "\n" /\ ~Quoted(q)
    BY <1>1 DEF Lines
  <2>2. CharClass(q) = "blank"
    BY <2>1, Classes, Zenon DEF delimiters
  <2> QED BY <2>1, <2>2
<1> QED BY <1>1 DEF Lines

\* The token being read starts on the line that the loop has reached.
LEMMA PendingLine ==
  ASSUME TypeOK, GoodInv, ReadInv, state # "INIT"
  PROVE  /\ Lines(i) = Lines(from)
         /\ state = "STRING" => Lines(from + 1) = Lines(from)
<1>1. /\ i \in Nat \ {0} /\ from \in Nat \ {0} /\ from < i
  BY Positions DEF GoodInv
<1>2. CASE state = "STRING"
  <2>1. code[from] = quote /\ NQ(from) % 2 = 0 /\ NQ(i) = NQ(from) + 1
    BY <1>2 DEF ReadInv, ReadAt
  <2>2. ASSUME NEW k \in from .. i - 1 PROVE CharClass(k) # "blank"
    <3>1. k \in Nat \ {0} /\ NQ(k) \in Nat /\ NQ(from) \in Nat
      BY <1>1, QuoteCount
    <3>2. CASE k = from
      BY <2>1, <3>2, Classes, QuotedBy
    <3>3. CASE k # from
      <4>1. NQ(from) + 1 <= NQ(k)
        BY <1>1, <2>1, <3>1, <3>3, QuotesRise
      <4>2. NQ(k) <= NQ(i)
        BY <1>1, <3>1, QuotesGrow
      <4>3. NQ(k) = NQ(from) + 1
        BY <2>1, <3>1, <4>1, <4>2
      <4>4. NQ(k) % 2 = 1
        BY <2>1, <3>1, <4>3
      <4> QED BY <4>4, Classes, QuotedBy
    <3> QED BY <3>2, <3>3
  <2>3. Lines(i) = Lines(from)
    BY <1>1, <2>2, SameLine
  <2>4. Quoted(from)
    BY <2>1, QuotedBy
  <2> QED BY <1>1, <2>3, <2>4, LineCount
<1>3. CASE state # "STRING"
  <2>1. state \in {"NAME", "NUMBER", "OPERATOR"}
    BY <1>3 DEF TypeOK
  <2>2. \A k \in from .. i - 1 : CharClass(k) = ClassOf(state)
    BY <2>1 DEF ReadInv, ReadAt
  <2>3. ClassOf(state) # "blank"
    BY DEF ClassOf
  <2> QED BY <1>1, <1>3, <2>2, <2>3, SameLine
<1> QED BY <1>2, <1>3

LEMMA RowsAppend ==
  ASSUME NEW r \in Seq(Tokens), \A k \in DOMAIN r : RowOk(r[k]), NEW t \in Tokens, RowOk(t)
  PROVE  \A k \in DOMAIN Append(r, t) : RowOk(Append(r, t)[k])
<1> TAKE k \in DOMAIN Append(r, t)
<1>1. CASE k \in DOMAIN r
  BY <1>1
<1>2. CASE k = Len(r) + 1
  BY <1>2
<1> QED BY <1>1, <1>2

\* add_token gives it that line.
LEMMA AddedRow ==
  ASSUME TypeOK, GoodInv, ReadInv, LineInv, state \in {"NAME", "NUMBER", "OPERATOR"}
  PROVE  RowOk(add_token(state, from, len))
<1>1. PICK t, word : /\ t = add_token(state, from, len)
                     /\ word = SubSeq(code, from, from + len - 1)
  BY Zenon
<1>2. row = 1 + Cardinality(Lines(from))
  BY PendingLine DEF LineInv
<1>3. t.from = from /\ (t.type = "IDENTIFIER" \/ t.row = row)
  <2>1. CASE state = "NAME" /\ in_reserverd_word(word)
    <3>1. t = Token(as_reserved(word), from, len, row, 0)
      BY <1>1, <2>1, Zenon DEF add_token
    <3> QED BY <3>1 DEF Token
  <2>2. CASE state = "NAME" /\ ~in_reserverd_word(word)
    <3>1. t = Token("IDENTIFIER", from, len, col, 0)
      BY <1>1, <2>2, Zenon DEF add_token
    <3> QED BY <3>1 DEF Token
  <2>3. CASE state = "NUMBER"
    <3>1. t = Token("NUMBER", from, len, row, col)
      BY <1>1, <2>3, Zenon DEF add_token
    <3> QED BY <3>1 DEF Token
  <2>4. CASE state = "OPERATOR"
    <3>1. t = Token(operator_token(word), from, len, row, col)
      BY <1>1, <2>4, Zenon DEF add_token
    <3> QED BY <3>1 DEF Token
  <2> QED BY <2>1, <2>2, <2>3, <2>4
<1> QED BY <1>1, <1>2, <1>3 DEF RowOk

\* The invariant after a step.
LEMMA LineAfter ==
  ASSUME code' = code, row' = 1 + Cardinality(Lines(i')),
         \A k \in DOMAIN ret' : RowOk(ret'[k])
  PROVE  LineInv'
<1>1. \A p : Lines(p)' = Lines(p)
  BY SameQuotes
<1> QED BY <1>1 DEF LineInv, RowOk

\* With the token being read added, the rows are right.
LEMMA ClosingRows ==
  ASSUME TypeOK, GoodInv, ReadInv, LineInv, state # "STRING", outcome = "reading",
         NEW r, r = IF state = "INIT" THEN ret
                    ELSE Append(ret, add_token(state, from, len))
  PROVE  r \in Seq(Tokens) /\ \A k \in DOMAIN r : RowOk(r[k])
<1>1. CASE state = "INIT"
  BY <1>1 DEF TypeOK, LineInv
<1>2. CASE state # "INIT"
  <2>1. state \in {"NAME", "NUMBER", "OPERATOR"}
    BY <1>2 DEF TypeOK
  <2>2. from \in Nat /\ len \in Nat /\ row \in Nat /\ col \in Int
    BY Positions
  <2>3. PICK t : t = add_token(state, from, len)
    OBVIOUS
  <2>4. t \in Tokens /\ RowOk(t)
    BY SMTT(30), <2>1, <2>2, <2>3, AddedToken, AddedRow
  <2>5. r = Append(ret, t) /\ ret \in Seq(Tokens) /\ \A k \in DOMAIN ret : RowOk(ret[k])
    BY <1>2, <2>3 DEF TypeOK, LineInv
  <2> QED BY <2>4, <2>5, RowsAppend
<1> QED BY <1>1, <1>2

\* The row, past a character that ends no line.
LEMMA RowGoesOn ==
  ASSUME TypeOK, LineInv, code' = code, row' = row, i' = i + 1,
         code[i] # "\n" \/ Quoted(i)
  PROVE  row' = 1 + Cardinality(Lines(i'))
<1>1. Lines(i + 1) = Lines(i)
  BY Positions, LineCount
<1> QED BY <1>1 DEF LineInv

\* The tokens that Finish adds.
LEMMA FinishRows ==
  ASSUME TypeOK, GoodInv, ReadInv, LineInv, Reading, state # "STRING",
         NEW toks, NEW s, NEW n, Finish(toks, s, n),
         toks = << >> \/ \E t \in Tokens : toks = <<t>> /\ RowOk(t)
  PROVE  \A k \in DOMAIN ret' : RowOk(ret'[k])
<1>1. PICK r : r = IF state = "INIT" THEN ret
                   ELSE Append(ret, add_token(state, from, len))
  BY Zenon
<1>2. r \in Seq(Tokens) /\ \A k \in DOMAIN r : RowOk(r[k])
  BY <1>1, ClosingRows, Zenon DEF Reading
<1>3. ret' = r \o toks
  BY <1>1 DEF Finish
<1>4. CASE toks = << >>
  <2>1. r \o << >> = r
    BY <1>2
  <2> QED BY <1>2, <1>3, <1>4, <2>1
<1>5. ASSUME NEW t \in Tokens, toks = <<t>>, RowOk(t)
      PROVE  \A k \in DOMAIN ret' : RowOk(ret'[k])
  <2>1. r \o <<t>> = Append(r, t)
    BY <1>2, <1>5
  <2>2. \A k \in DOMAIN Append(r, t) : RowOk(Append(r, t)[k])
    BY <1>2, <1>5, RowsAppend
  <2> QED BY <1>3, <1>5, <2>1, <2>2
<1> QED BY <1>4, <1>5

LEMMA LineFinish ==
  ASSUME TypeOK, GoodInv, ReadInv, LineInv, Reading, state # "STRING",
         NEW toks, NEW s, NEW n, Finish(toks, s, n), row' = row, code[i] # "\n",
         toks = << >> \/ \E t \in Tokens : toks = <<t>> /\ RowOk(t)
  PROVE  LineInv'
<1>1. code' = code /\ i' = i + 1
  BY DEF Finish
<1>2. \A k \in DOMAIN ret' : RowOk(ret'[k])
  BY FinishRows
<1> QED BY <1>1, <1>2, RowGoesOn, LineAfter

LEMMA LineExtend ==
  ASSUME TypeOK, LineInv, Extend, row' = row, code[i] # "\n" \/ Quoted(i)
  PROVE  LineInv'
<1>1. code' = code /\ i' = i + 1 /\ ret' = ret
  BY DEF Extend
<1>2. \A k \in DOMAIN ret' : RowOk(ret'[k])
  BY <1>1 DEF LineInv
<1> QED BY <1>1, <1>2, RowGoesOn, LineAfter

LEMMA LineStop ==
  ASSUME LineInv, NEW how, Stop(how)
  PROVE  LineInv'
<1>1. code' = code /\ i' = i /\ ret' = ret /\ row' = row
  BY DEF Stop
<1> QED BY <1>1, LineAfter DEF LineInv

LEMMA LineStringEnd ==
  ASSUME TypeOK, GoodInv, ReadInv, LineInv, StringEnd
  PROVE  LineInv'
<1>1. PICK t : t = Token("STRING_LITERAL", from + 1, len - 1, row, col)
  OBVIOUS
<1>2. /\ Reading /\ state = "STRING" /\ code[i] = quote /\ code' = code /\ row' = row
      /\ i' = i + 1 /\ ret' = Append(ret, t)
  BY <1>1 DEF StringEnd
<1>3. /\ from \in Nat \ {0} /\ i \in Nat \ {0} /\ from \in 1 .. i - 1 /\ from + len = i
      /\ row \in Int /\ col \in Int /\ len \in Nat
  BY <1>2, Positions DEF GoodInv
<1>4. t \in Tokens
  <2>1. from + 1 \in Nat /\ len - 1 \in Nat
    BY <1>3
  <2> QED BY <1>1, <1>3, <2>1 DEF Token, Tokens
<1>5. Lines(i) = Lines(from + 1)
  BY <1>2, PendingLine
<1>6. t.from = from + 1 /\ t.row = row
  BY <1>1 DEF Token
<1>7. RowOk(t)
  BY <1>5, <1>6 DEF RowOk, LineInv
<1>8. ret \in Seq(Tokens) /\ \A k \in DOMAIN ret : RowOk(ret[k])
  BY DEF TypeOK, LineInv
<1>9. \A k \in DOMAIN ret' : RowOk(ret'[k])
  BY <1>2, <1>4, <1>7, <1>8, RowsAppend
<1>10. Quoted(i)
  BY <1>2, QuotedBy
<1> QED BY <1>2, <1>9, <1>10, RowGoesOn, LineAfter

LEMMA LineEnd ==
  ASSUME TypeOK, GoodInv, ReadInv, LineInv, EndOfCode
  PROVE  LineInv'
<1>1. CASE state = "STRING" \/ Aborts
  <2>1. Stop("throw") \/ Stop("abort")
    BY <1>1 DEF EndOfCode
  <2> QED BY <2>1, LineStop
<1>2. CASE state # "STRING" /\ ~Aborts
  <2>1. PICK r : r = IF state = "INIT" THEN ret
                     ELSE Append(ret, add_token(state, from, len))
    BY Zenon
  <2>2. code' = code /\ i' = i /\ row' = row /\ ret' = r /\ outcome = "reading"
    BY <1>2, <2>1 DEF EndOfCode
  <2>3. \A k \in DOMAIN r : RowOk(r[k])
    BY <1>2, <2>1, <2>2, ClosingRows
  <2> QED BY <2>2, <2>3, LineAfter DEF LineInv
<1> QED BY <1>1, <1>2

LEMMA LineDelimiter ==
  ASSUME TypeOK, GoodInv, ReadInv, LineInv, Delimiter
  PROVE  LineInv'
<1>1. Reading /\ state # "STRING" /\ code[i] \in delimiters
  BY DEF Delimiter
<1>2. CASE Aborts
  BY <1>2, LineStop DEF Delimiter
<1>3. CASE ~Aborts
  <2>1. /\ Finish(<< >>, "INIT", 0)
        /\ row' = row + (IF code[i] = "\n" THEN 1 ELSE 0)
    BY <1>3 DEF Delimiter
  <2>2. code' = code /\ i' = i + 1
    BY <2>1 DEF Finish
  <2>3. CASE code[i] # "\n"
    <3>1. row' = row
      BY <2>1, <2>3, Positions
    <3> QED BY <1>1, <2>1, <2>3, <3>1, LineFinish
  <2>4. CASE code[i] = "\n"
    <3>1. i \in Nat \ {0} /\ CharClass(i) = "blank"
      BY <1>1, NextClass
    <3>2. ~Quoted(i)
      BY <3>1, Classes
    <3>3. /\ Cardinality(Lines(i + 1)) = Cardinality(Lines(i)) + 1
          /\ Cardinality(Lines(i)) \in Nat
      BY <2>4, <3>1, <3>2, LineCount
    <3>4. row' = 1 + Cardinality(Lines(i'))
      BY <2>1, <2>2, <2>4, <3>3 DEF LineInv
    <3>5. \A k \in DOMAIN ret' : RowOk(ret'[k])
      BY <1>1, <2>1, FinishRows
    <3> QED BY <2>2, <3>4, <3>5, LineAfter
  <2> QED BY <2>3, <2>4
<1> QED BY <1>2, <1>3

LEMMA LineSymbol ==
  ASSUME TypeOK, GoodInv, ReadInv, LineInv, Symbol
  PROVE  LineInv'
<1>1. Reading /\ state # "STRING" /\ code[i] \in symbols
  BY DEF Symbol
<1>2. CASE Aborts
  BY <1>2, LineStop DEF Symbol
<1>3. CASE ~Aborts
  <2>1. PICK t : t = Token(symbol_token(code[i]), i, 1, row, col)
    OBVIOUS
  <2>2. Finish(<<t>>, "INIT", 0) /\ row' = row
    BY <1>3, <2>1 DEF Symbol
  <2>3. t \in Tokens
    BY <1>1, <2>1, SymbolToken DEF IsSymbol
  <2>4. t.from = i /\ t.row = row
    BY <2>1 DEF Token
  <2>5. RowOk(t)
    BY <2>4 DEF RowOk, LineInv
  <2>6. code[i] # "\n"
    BY <1>1, Zenon DEF symbols, openBrace, closeBrace, comma, colon, semicolon
  <2> QED BY <1>1, <2>2, <2>3, <2>5, <2>6, LineFinish
<1> QED BY <1>2, <1>3

LEMMA LineStep ==
  ASSUME TypeOK, GoodInv, ReadInv, LineInv, [Next]_vars
  PROVE  LineInv'
<1>1. CASE StringChar
  <2>1. Reading /\ state = "STRING" /\ Extend /\ row' = row
    BY <1>1 DEF StringChar
  <2>2. Quoted(i)
    BY <2>1, QuotedBy DEF ReadInv, ReadAt
  <2> QED BY <2>1, <2>2, LineExtend
<1>2. CASE Quote
  <2>1. Reading /\ state # "STRING" /\ code[i] # "\n"
    BY <1>2, Zenon DEF Quote, quote
  <2>2. Stop("abort") \/ (Finish(<< >>, "STRING", 1) /\ row' = row)
    BY <1>2 DEF Quote
  <2> QED BY <2>1, <2>2, LineStop, LineFinish
<1>3. CASE Operator
  <2>1. Reading /\ state # "STRING" /\ code[i] # "\n" /\ row' = row
    BY <1>3 DEF Operator, operator_tokens, less, greater, period
  <2>2. Extend \/ Finish(<< >>, "OPERATOR", 1)
    BY <1>3 DEF Operator
  <2> QED BY <2>1, <2>2, LineExtend, LineFinish
<1>4. CASE Number
  <2>1. Reading /\ state # "STRING" /\ code[i] # "\n"
    BY <1>4 DEF Number, numbers
  <2>2. Stop("abort") \/ (row' = row /\ (Extend \/ Finish(<< >>, "NUMBER", 1)))
    BY <1>4 DEF Number
  <2> QED BY <2>1, <2>2, LineStop, LineExtend, LineFinish
<1>5. CASE Name
  <2>1. Reading /\ state # "STRING" /\ code[i] # "\n"
    BY <1>5, Zenon DEF Name, Letters, delimiters
  <2>2. \/ Stop("throw") \/ Stop("abort")
        \/ row' = row /\ (Extend \/ Finish(<< >>, "NAME", 1))
    BY <1>5 DEF Name
  <2> QED BY <2>1, <2>2, LineStop, LineExtend, LineFinish
<1>6. CASE UNCHANGED vars
  <2>1. code' = code /\ i' = i /\ ret' = ret /\ row' = row
    BY <1>6 DEF vars
  <2> QED BY <2>1, LineAfter DEF LineInv
<1> QED
  BY <1>1, <1>2, <1>3, <1>4, <1>5, <1>6, LineStringEnd, LineDelimiter, LineSymbol, LineEnd
  DEF Next

\* The loop's row is the line it has reached, and so is the row of every token
\* but an identifier, ends of lines in literals not counted.
THEOREM RowsAreLines == Spec => []LineInv
<1>1. Init => LineInv
  <2> SUFFICES ASSUME Init PROVE LineInv
    OBVIOUS
  <2>1. i = 1 /\ row = 1 /\ ret = << >>
    BY DEF Init
  <2>2. Lines(1) = {}
    BY DEF Lines
  <2> QED BY <2>1, <2>2, FS_EmptySet DEF LineInv
<1>2. ASSUME TypeOK, GoodInv, MunchInv, LineInv, [Next]_vars PROVE LineInv'
  BY <1>2, LineStep DEF MunchInv
<1> QED
  BY <1>1, <1>2, TokensGood, TokensAreLexemes, PTL DEF Spec

\* The row of a token other than an identifier is the line it is on, when no
\* literal before it spans lines, for texts of any length.
THEOREM TokensOnTheirLines == Spec => []RowsRight
<1>1. ASSUME LineInv PROVE RowsRight
  <2> SUFFICES ASSUME NEW k \in DOMAIN ret, ret[k].type # "IDENTIFIER",
                      \A q \in {x \in 1 .. ret[k].from - 1 : code[x] = "\n"} : ~Quoted(q)
               PROVE  ret[k].row =
                        1 + Cardinality({q \in 1 .. ret[k].from - 1 : code[q] = "\n"})
    BY Zenon DEF RowsRight
  <2>1. Lines(ret[k].from) = {q \in 1 .. ret[k].from - 1 : code[q] = "\n"}
    BY DEF Lines
  <2> QED BY <1>1, <2>1, Zenon DEF LineInv, RowOk
<1> QED
  BY <1>1, RowsAreLines, PTL
=============================================================================
