-------------------------------- MODULE Texts -------------------------------
(***************************************************************************)
(* The text of a schema: Schema, Attribute and AttrType write and read it, *)
(* one inside the other.  A name is a sequence of characters, a number its *)
(* digits.                                                                 *)
(***************************************************************************)
EXTENDS Sums

CONSTANTS
  Names     \* names of tables and columns, sequences of characters

\* What a sequence holds.
Items(s) == {s[i] : i \in DOMAIN s}

AttrTypes == <<"INTEGER", "DOUBLE", "STRING">>
Attribute == [name : Names, type : Items(AttrTypes), param : 0 .. 99,
              property : SUBSET {"NULLABLE", "KEY", "UNIQUE"}]

-----------------------------------------------------------------------------
(* serialize *)

Blank == " "
Digit == <<"0", "1", "2", "3", "4", "5", "6", "7", "8", "9">>
Digits(n) ==
  IF n < 10 THEN <<Digit[n + 1]>>
  ELSE <<Digit[(n \div 10) + 1], Digit[(n % 10) + 1]>>

\* The values of the enumerators of AttrType::Type and Attribute::AttrProperty.
TypeNumber(type) == (CHOOSE k \in DOMAIN AttrTypes : AttrTypes[k] = type) - 1
Bit(p) == CASE p = "NULLABLE" -> 1 [] p = "KEY" -> 2 [] p = "UNIQUE" -> 4
PropertyNumber(P) ==
  LET bit(p) == IF p \in P THEN Bit(p) ELSE 0
  IN  bit("NULLABLE") + bit("KEY") + bit("UNIQUE")

AttrTypeText(a) ==
  <<"(">> \o Digits(TypeNumber(a.type)) \o <<Blank>> \o Digits(a.param) \o <<")">>

AttributeText(a) ==
  <<"(">> \o a.name \o <<Blank>> \o AttrTypeText(a)
    \o <<Blank>> \o Digits(PropertyNumber(a.property)) \o <<")">>

SchemaText(s) ==
  s.name \o <<":">>
    \o Concat(Len(s.attrs), [i \in 1 .. Len(s.attrs) |-> AttributeText(s.attrs[i])])

-----------------------------------------------------------------------------
(* deserialize *)

Lowest(S) == CHOOSE k \in S : \A j \in S : k <= j

\* The first position from i on where s has a character of C, else its end.
FindIn(s, C, i) ==
  LET there == {k \in i .. Len(s) : s[k] \in C}
  IN  IF there = {} THEN Len(s) + 1 ELSE Lowest(there)

\* std::stoll: spaces, then digits up to anything else.
Numeral(s) ==
  LET i == FindIn(s, Items(s) \ {Blank}, 1)
  IN  SubSeq(s, i, FindIn(s, Items(s) \ Items(Digit), i) - 1)
Number(s) ==
  LET digits == Numeral(s)
      DigitOf(c) == CHOOSE d \in 0 .. 9 : Digit[d + 1] = c
      value[n \in 0 .. Len(digits)] ==
        IF n = 0 THEN 0 ELSE 10 * value[n - 1] + DigitOf(digits[n])
  IN  value[Len(digits)]

\* Mutant: AttrType::deserialize leaves its last character to its caller.
FieldsShort(t, p) ==
  LET open == FindIn(t, {"("}, p)
      space == FindIn(t, {Blank}, open + 1)
      topen == FindIn(t, {"("}, space + 1)
      tspace == FindIn(t, {Blank}, topen + 1)
      tclose == FindIn(t, {")"}, tspace + 1)
  IN  [name |-> SubSeq(t, open + 1, space - 1),
       type |-> SubSeq(t, topen + 1, tspace - 1),
       param |-> SubSeq(t, tspace + 1, tclose - 1),
       property |-> << >>,
       close |-> tclose]

\* The parts of the text of the attribute at p in t, by the characters that
\* Attribute::deserialize and, for its type, AttrType::deserialize look for.
Fields(t, p) ==
  LET open == FindIn(t, {"("}, p)
      space == FindIn(t, {Blank}, open + 1)
      topen == FindIn(t, {"("}, space + 1)
      tspace == FindIn(t, {Blank}, topen + 1)
      tclose == FindIn(t, {")"}, tspace + 1)
      close == FindIn(t, {")"}, tclose + 1)
  IN  [name |-> SubSeq(t, open + 1, space - 1),
       type |-> SubSeq(t, topen + 1, tspace - 1),
       param |-> SubSeq(t, tspace + 1, tclose - 1),
       property |-> SubSeq(t, tclose + 1, close - 1),
       close |-> close]

PropertyOf(n) == {p \in {"NULLABLE", "KEY", "UNIQUE"} : (n \div Bit(p)) % 2 = 1}

AttributeOf(f) ==
  [name |-> f.name, type |-> AttrTypes[Number(f.type) + 1],
   param |-> Number(f.param), property |-> PropertyOf(Number(f.property))]

Readable(t, f) ==
  /\ f.close <= Len(t)
  /\ \A s \in {f.type, f.param, f.property} : Numeral(s) # << >>

-----------------------------------------------------------------------------
(* What is found in a text *)

\* The text of attribute a is read from p on, up to e.
AttributeAt(t, p, a, e) ==
  Readable(t, Fields(t, p)) /\ AttributeOf(Fields(t, p)) = a /\ Fields(t, p).close = e

\* Where the attributes of the schema s end in its text t.  A name is found if it
\* is free of the character that ends it, and what is found as a name is.
ReadAs(s, t, g) ==
  /\ Len(t) \in Nat /\ Len(s.attrs) \in Nat
  /\ g \in [0 .. Len(s.attrs) -> Nat] /\ g[Len(s.attrs)] = Len(t)
  /\ ":" \notin Items(s.name) =>
       FindIn(t, {":"}, 1) = g[0] /\ SubSeq(t, 1, g[0] - 1) = s.name
  /\ \A i \in 1 .. Len(s.attrs) :
       /\ g[i - 1] < g[i]
       /\ Blank \notin Items(s.attrs[i].name) =>
            AttributeAt(t, g[i - 1] + 1, s.attrs[i], g[i])
  /\ FindIn(t, {":"}, 1) \in Nat
  /\ ":" \notin Items(SubSeq(t, 1, FindIn(t, {":"}, 1) - 1))
  /\ \A p \in Nat : Fields(t, p).close \in Nat /\ Blank \notin Items(Fields(t, p).name)
=============================================================================
