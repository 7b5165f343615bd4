---------------------------- MODULE CodecProofs -----------------------------
(***************************************************************************)
(* For every set of schemas, cells and buffers: encode stays within the    *)
(* length it reports, decode gives back what was encoded, and a schema is  *)
(* read back from its text exactly when no name in it has the character    *)
(* that ends it.                                                           *)
(***************************************************************************)
EXTENDS Codec, TLAPS

-----------------------------------------------------------------------------
(* The codec *)

Flag(a) == IF Nullable(a) THEN << 1 >> ELSE << >>

\* The loops' variables while they run, and the tuple decoded into.
Shape ==
  /\ \E S : attrs \in Seq(S)
  /\ phase \in {"read_name", "read", "schema"} => col = 1
  /\ phase \in {"encode", "decode"} =>
       /\ tuple \in [DOMAIN attrs -> Cells]
       /\ part \in (IF phase = "encode" THEN Parts ELSE {"encode", "serialize"})
       /\ part = "serialize" => Len(attrs) = 1
       /\ col \in 1 .. Len(attrs) + 1
       /\ phase = "encode" => offset \in Nat /\ extent \in Nat
       /\ out \in [DOMAIN attrs -> [exists : BOOLEAN, impl : DOMAIN attrs]]
       /\ DOMAIN impls = DOMAIN attrs

\* A single cell is serialized at the start of the buffer.
Fresh ==
  phase = "encode" /\ part = "serialize" /\ col = 1 => offset = 0 /\ extent = 0

\* The ways in which a cell can be encoded in a column of attribute a.
NullCell(a, c) == ~c.exists /\ c = Null /\ Nullable(a)
IntCell(a, c) ==
  /\ c.exists /\ a.type = "INTEGER" /\ ValType(a) = "INT"
  /\ c.value.data \in Seq(Byte) /\ Len(c.value.data) = SizeT
  /\ c = Some(IntValue(c.value.data)) /\ c.value = IntValue(c.value.data)
StringCell(a, c) ==
  /\ c.exists /\ a.type = "STRING" /\ ValType(a) = "VARCHAR"
  /\ c.value.data \in Seq(Byte) /\ Len(c.value.data) < 256
  /\ c = Some(Varchar(c.value.data)) /\ c.value = Varchar(c.value.data)

\* The buffer holds the bytes b from offset at on.
Stored(at, b) ==
  at + Len(b) <= Room /\ \A k \in 1 .. Len(b) : buf[at + k] = b[k]

\* What encode of column i left in the buffer at offset at.
Placed(i, at) ==
  /\ ~Throws(attrs[i], tuple[i])
  /\ Stored(at, encode(attrs[i], tuple[i]))
  /\ ~tuple[i].exists => at + 1 <= Room /\ buf[at + 1] = 0

\* The first n columns are in the buffer, at the offsets that both loops
\* compute for them.
Laid(offs, n) ==
  /\ offs \in [Nat -> Nat] /\ offs[1] = Len(Prefix)
  /\ \A i \in 1 .. n :
       Placed(i, offs[i]) /\ offs[i + 1] = offs[i] + encoded_length(attrs[i], tuple[i])

\* The hypotheses of RoundTrip.
Apart == ~Shared /\ \A i \in DOMAIN attrs : Kept(i)

EncodeInv ==
  phase = "encode" /\ part = "encode" /\ Apart =>
    \E offs : /\ Laid(offs, col - 1) /\ offs[col] = offset
              /\ \A i \in 1 .. col - 1 : offs[i + 1] <= offset
              /\ col <= Len(attrs) => \A k \in offset + 1 .. Room : buf[k] = fill

DecodeInv ==
  phase = "decode" /\ part = "encode" /\ Apart =>
    \E offs : /\ Laid(offs, Len(attrs)) /\ offs[col] = offset
              /\ \A i \in 1 .. col - 1 : Cell(i) = tuple[i]

\* The same of a single cell.
SerialInv ==
  part = "serialize" /\ Apart =>
    /\ phase = "encode" /\ col = 2 => Stored(0, serialize(tuple[1]))
    /\ phase = "decode" /\ col = 1 => Stored(0, serialize(tuple[1]))
    /\ phase = "decode" /\ col = 2 => Cell(1) = tuple[1]

-----------------------------------------------------------------------------
(* Cells *)

LEMMA FunctionSeq ==
  ASSUME NEW S, NEW n \in Nat, NEW f \in [1 .. n -> S]
  PROVE  f \in Seq(S) /\ Len(f) = n
  OBVIOUS

LEMMA ConcatSeq ==
  ASSUME NEW S, NEW s \in Seq(S), NEW t \in Seq(S)
  PROVE  /\ s \o t \in Seq(S) /\ Len(s \o t) = Len(s) + Len(t)
         /\ \A k \in 1 .. Len(s) : (s \o t)[k] = s[k]
         /\ \A k \in 1 .. Len(t) : (s \o t)[Len(s) + k] = t[k]
  OBVIOUS

\* The size_t in front of a string.
LEMMA WordSeq ==
  ASSUME NEW n \in Nat, n < 256
  PROVE  WordOf(n) \in Seq(Byte) /\ Len(WordOf(n)) = SizeT
<1>1. n \in Byte /\ 0 \in Byte
  BY DEF Byte
<1>2. WordOf(n) \in [1 .. SizeT -> Byte] /\ SizeT \in Nat
  BY <1>1, Zenon DEF WordOf, SizeT
<1> QED
  BY <1>2, FunctionSeq, Zenon

LEMMA CellKinds ==
  ASSUME NEW c \in Cells
  PROVE  \/ ~c.exists /\ c = Null
         \/ /\ c.exists /\ c = Some(c.value) /\ c.value = IntValue(c.value.data)
            /\ c.value.data \in Seq(Byte) /\ Len(c.value.data) = SizeT
         \/ /\ c.exists /\ c = Some(c.value) /\ c.value = Varchar(c.value.data)
            /\ c.value.data \in Seq(Byte) /\ Len(c.value.data) < 256
<1>1. CASE c = Null
  BY <1>1, Zenon DEF Null
<1>2. CASE \E w \in Ints : c = Some(IntValue(w))
  <2>1. PICK w \in Ints : c = Some(IntValue(w))
    BY <1>2, Zenon
  <2>2. w \in Seq(Byte) /\ Len(w) = SizeT
    BY Zenon, CodecAssumption, FunctionSeq DEF Word, SizeT
  <2>3. c.exists /\ c.value = IntValue(w) /\ c.value.data = w
    BY <2>1, Zenon DEF Some, IntValue
  <2> QED
    BY <2>1, <2>2, <2>3, Zenon
<1>3. CASE \E s \in Strings : c = Some(Varchar(s))
  <2>1. PICK s \in Strings : c = Some(Varchar(s))
    BY <1>3, Zenon
  <2>2. c.exists /\ c.value = Varchar(s) /\ c.value.data = s
    BY <2>1, Zenon DEF Some, Varchar
  <2> QED
    BY <2>1, <2>2, CodecAssumption
<1> QED
  BY <1>1, <1>2, <1>3, Zenon DEF Cells, Values

LEMMA ValTypeOf ==
  ASSUME NEW a
  PROVE  /\ ValType(a) = "INT" => a.type = "INTEGER"
         /\ ValType(a) = "VARCHAR" => a.type = "STRING"
<1>1. CASE a.type = "INTEGER"
  BY Zenon, <1>1 DEF ValType
<1>2. CASE a.type = "STRING"
  <2>1. ValType(a) = "VARCHAR"
    BY Zenon, <1>2 DEF ValType
  <2> QED
    BY <1>2, <2>1, Zenon
<1>3. CASE a.type \notin {"INTEGER", "STRING"}
  <2>1. ValType(a) = "UNKNOWN"
    BY Zenon, <1>3 DEF ValType
  <2> QED
    BY <2>1, Zenon
<1> QED
  BY <1>1, <1>2, <1>3, Zenon

\* What encode does not throw for.
LEMMA Encodable ==
  ASSUME NEW a, NEW c \in Cells, ~Throws(a, c)
  PROVE  NullCell(a, c) \/ IntCell(a, c) \/ StringCell(a, c)
<1>1. CASE ~c.exists
  BY <1>1, CellKinds, Zenon DEF Throws, NullCell
<1>2. CASE c.exists /\ c.value = IntValue(c.value.data)
  <2>1. c.value.val = "INT"
    BY <1>2 DEF IntValue
  <2>2. ValType(a) = "INT" /\ a.type = "INTEGER"
    BY <1>2, <2>1, ValTypeOf, Zenon DEF Throws
  <2>3. /\ c = Some(c.value) /\ c.value.data \in Seq(Byte)
        /\ Len(c.value.data) = SizeT
    <3>1. c.value # Varchar(c.value.data)
      BY <2>1 DEF Varchar
    <3> QED
      BY <1>2, <3>1, CellKinds, Zenon
  <2> QED
    BY <1>2, <2>1, <2>2, <2>3, Zenon DEF IntCell
<1>3. CASE c.exists /\ c.value = Varchar(c.value.data)
  <2>1. c.value.val = "VARCHAR"
    BY <1>3 DEF Varchar
  <2>2. ValType(a) = "VARCHAR" /\ a.type = "STRING"
    BY <1>3, <2>1, ValTypeOf, Zenon DEF Throws
  <2>3. /\ c = Some(c.value) /\ c.value.data \in Seq(Byte)
        /\ Len(c.value.data) < 256
    <3>1. c.value # IntValue(c.value.data)
      BY <2>1 DEF IntValue
    <3> QED
      BY <1>3, <3>1, CellKinds, Zenon
  <2> QED
    BY <1>3, <2>1, <2>2, <2>3, Zenon DEF StringCell
<1> QED
  BY <1>1, <1>2, <1>3, CellKinds, Zenon

LEMMA NullCode ==
  ASSUME NEW a, NEW c, NullCell(a, c)
  PROVE  encode(a, c) = << >> /\ encoded_length(a, c) = 1
  BY Zenon DEF NullCell, encode, encoded_length

LEMMA IntCode ==
  ASSUME NEW a, NEW c, IntCell(a, c)
  PROVE  /\ encode(a, c) = Flag(a) \o c.value.data
         /\ encoded_length(a, c) = (IF Nullable(a) THEN 1 ELSE 0) + SizeT
  BY Zenon DEF IntCell, encode, encoded_length, Flag

LEMMA StringCode ==
  ASSUME NEW a, NEW c, StringCell(a, c)
  PROVE  /\ encode(a, c) = Flag(a) \o WordOf(Len(c.value.data)) \o c.value.data
         /\ encoded_length(a, c) = (IF Nullable(a) THEN 1 ELSE 0) + Len(c.value.data)
  BY Zenon DEF StringCell, encode, encoded_length, Flag

\* The bytes that are written, and the length that is counted for them.
LEMMA CodeLength ==
  ASSUME NEW a, NEW c \in Cells, ~Throws(a, c)
  PROVE  /\ encode(a, c) \in Seq(Byte)
         /\ encoded_length(a, c) \in Nat
         /\ Len(encode(a, c)) <= encoded_length(a, c)
                                   + (IF a.type = "STRING" /\ c.exists THEN SizeT ELSE 0)
<1> DEFINE d == c.value.data
           b == encode(a, c)
           n == encoded_length(a, c)
           f == IF Nullable(a) THEN 1 ELSE 0
<1>0. 1 \in Byte
  BY DEF Byte
<1>1. Flag(a) \in Seq(Byte) /\ Len(Flag(a)) = f /\ f \in Nat
  BY <1>0 DEF Flag
<1> SUFFICES /\ b \in Seq(Byte) /\ n \in Nat
             /\ Len(b) <= n + (IF a.type = "STRING" /\ c.exists THEN SizeT ELSE 0)
  BY Zenon
<1>3. CASE NullCell(a, c)
  <2>1. b = << >> /\ n = 1 /\ ~c.exists
    BY <1>3, NullCode, Zenon DEF NullCell
  <2> HIDE DEF b, n
  <2> QED
    BY <2>1
<1>4. CASE IntCell(a, c)
  <2>1. b = Flag(a) \o d /\ n = f + SizeT /\ a.type = "INTEGER"
    BY Zenon, <1>4, IntCode DEF IntCell
  <2>2. d \in Seq(Byte) /\ Len(d) = SizeT
    BY <1>4, Zenon DEF IntCell
  <2> HIDE DEF b, n, d, f
  <2>3. b \in Seq(Byte) /\ Len(b) = f + SizeT
    BY <1>1, <2>1, <2>2, ConcatSeq, Zenon
  <2> QED
    BY <1>1, <2>1, <2>3 DEF SizeT
<1>5. CASE StringCell(a, c)
  <2>1. d \in Seq(Byte) /\ Len(d) < 256 /\ a.type = "STRING" /\ c.exists
    BY <1>5, Zenon DEF StringCell
  <2>2. WordOf(Len(d)) \in Seq(Byte) /\ Len(WordOf(Len(d))) = SizeT
    BY <2>1, WordSeq
  <2>3. b = Flag(a) \o WordOf(Len(d)) \o d /\ n = f + Len(d)
    BY Zenon, <1>5, StringCode
  <2> HIDE DEF b, n, d, f
  <2> DEFINE g == Flag(a) \o WordOf(Len(d))
  <2>4. g \in Seq(Byte) /\ Len(g) = f + SizeT
    BY Zenon, <1>1, <2>2, ConcatSeq
  <2>5. b = g \o d
    BY <2>3, Zenon
  <2> HIDE DEF g
  <2>6. b \in Seq(Byte) /\ Len(b) = f + SizeT + Len(d)
    BY <2>1, <2>4, <2>5, ConcatSeq, Zenon
  <2> QED
    BY <1>1, <2>1, <2>3, <2>6 DEF SizeT
<1> QED
  BY <1>3, <1>4, <1>5, Encodable, Zenon

\* MaybeValue::serialize.
Serial(c) ==
  \/ c = Null /\ ~c.exists /\ serialize(c) = << 0 >>
  \/ /\ c = Some(IntValue(c.value.data)) /\ c.exists /\ c.value.val = "INT"
     /\ c.value.data \in Seq(Byte) /\ Len(c.value.data) = SizeT
     /\ serialize(c) = << 1 >> \o c.value.data
  \/ /\ c = Some(Varchar(c.value.data)) /\ c.exists /\ c.value.val = "VARCHAR"
     /\ c.value.data \in Seq(Byte) /\ Len(c.value.data) < 256
     /\ serialize(c) = << 1 >> \o WordOf(Len(c.value.data)) \o c.value.data

LEMMA SerialCode ==
  ASSUME NEW c \in Cells
  PROVE  Serial(c)
<1>1. CASE ~c.exists
  BY Zenon, <1>1, CellKinds DEF serialize, Serial
<1>2. CASE /\ c.exists /\ c = Some(c.value) /\ c.value = IntValue(c.value.data)
           /\ c.value.data \in Seq(Byte) /\ Len(c.value.data) = SizeT
  <2>1. c.value.val = "INT"
    BY <1>2 DEF IntValue
  <2>2. serialize(c) = << 1 >> \o c.value.data
    BY Zenon, <1>2, <2>1 DEF serialize
  <2> QED
    BY <1>2, <2>1, <2>2, Zenon DEF Serial
<1>3. CASE /\ c.exists /\ c = Some(c.value) /\ c.value = Varchar(c.value.data)
           /\ c.value.data \in Seq(Byte) /\ Len(c.value.data) < 256
  <2>1. c.value.val = "VARCHAR"
    BY <1>3 DEF Varchar
  <2>2. "VARCHAR" # "INT"
    BY Zenon
  <2>3. serialize(c) = << 1 >> \o WordOf(Len(c.value.data)) \o c.value.data
    BY Zenon, <1>3, <2>1, <2>2 DEF serialize
  <2> QED
    BY <1>3, <2>1, <2>3, Zenon DEF Serial
<1> QED
  BY <1>1, <1>2, <1>3, CellKinds

LEMMA SerialLength ==
  ASSUME NEW c \in Cells
  PROVE  /\ serialize(c) \in Seq(Byte)
         /\ serialized_length(c) \in Nat
         /\ Len(serialize(c)) <= serialized_length(c)
                                   + (IF c.value.val = "VARCHAR" THEN SizeT ELSE 0)
<1> DEFINE d == c.value.data
           b == serialize(c)
           n == serialized_length(c)
<1>0. << 0 >> \in Seq(Byte) /\ << 1 >> \in Seq(Byte) /\ Len(<< 0 >>) = 1 /\ Len(<< 1 >>) = 1
  <2>1. 0 \in Byte /\ 1 \in Byte
    BY DEF Byte
  <2> QED
    BY <2>1
<1> SUFFICES /\ b \in Seq(Byte) /\ n \in Nat
             /\ Len(b) <= n + (IF c.value.val = "VARCHAR" THEN SizeT ELSE 0)
  BY Zenon
<1>1. CASE c = Null /\ ~c.exists /\ b = << 0 >>
  <2>1. n = 1 /\ c.value.val # "VARCHAR"
    BY <1>1, Zenon DEF serialized_length, Null, Unknown
  <2> HIDE DEF b, n
  <2> QED
    BY <1>0, <1>1, <2>1
<1>2. CASE /\ c.exists /\ c.value.val = "INT" /\ d \in Seq(Byte) /\ Len(d) = SizeT
           /\ b = << 1 >> \o d
  <2>1. n = 1 + Len(d)
    BY <1>2, Zenon DEF serialized_length
  <2> HIDE DEF b, n, d
  <2>2. b \in Seq(Byte) /\ Len(b) = 1 + Len(d)
    BY <1>0, <1>2, ConcatSeq
  <2> QED
    BY <1>2, <2>1, <2>2
<1>3. CASE /\ c.exists /\ c.value.val = "VARCHAR" /\ d \in Seq(Byte) /\ Len(d) < 256
           /\ b = << 1 >> \o WordOf(Len(d)) \o d
  <2>1. n = 1 + Len(d)
    BY <1>3, Zenon DEF serialized_length
  <2> HIDE DEF b, n, d
  <2> DEFINE g == << 1 >> \o WordOf(Len(d))
  <2>2. g \in Seq(Byte) /\ Len(g) = 1 + SizeT
    BY <1>0, <1>3, WordSeq, ConcatSeq
  <2>3. b = g \o d
    BY <1>3, Zenon
  <2> HIDE DEF g
  <2>4. b \in Seq(Byte) /\ Len(b) = 1 + SizeT + Len(d)
    <3>1. g \o d \in Seq(Byte) /\ Len(g \o d) = Len(g) + Len(d)
      BY ONLY <1>3, <2>2, ConcatSeq, Zenon
    <3> QED BY <2>2, <2>3, <3>1, Zenon
  <2> QED
    BY <1>3, <2>1, <2>4 DEF SizeT
<1>4. \/ c = Null /\ ~c.exists /\ b = << 0 >>
      \/ /\ c.exists /\ c.value.val = "INT" /\ d \in Seq(Byte) /\ Len(d) = SizeT
         /\ b = << 1 >> \o d
      \/ /\ c.exists /\ c.value.val = "VARCHAR" /\ d \in Seq(Byte) /\ Len(d) < 256
         /\ b = << 1 >> \o WordOf(Len(d)) \o d
  <2>1. Serial(c)
    BY SerialCode, Zenon
  <2> QED BY <2>1, Zenon DEF Serial
<1> HIDE DEF b, d, n
<1> QED
  BY <1>1, <1>2, <1>3, <1>4

-----------------------------------------------------------------------------
(* The loops *)

LEMMA Selects ==
  ASSUME NEW i
  PROVE  (part = "serialize" => ~Selected(i)) /\ (part = "encode" => Selected(i))
<1>1. ASSUME part = "serialize" PROVE ~Selected(i)
  BY Zenon, <1>1 DEF Selected
<1>2. ASSUME part = "encode" PROVE Selected(i)
  BY Zenon, <1>2 DEF Selected
<1> QED
  BY <1>1, <1>2, Zenon

LEMMA PrefixLength == \A p : prefix_length(p) \in Nat
  BY CodecAssumption DEF prefix_length

LEMMA ReadShape ==
  ASSUME Shape, SchemaNext, UNCHANGED codecVars
  PROVE  Shape'
<1>1. PICK S : attrs \in Seq(S)
  BY Zenon DEF Shape
<1>2. PICK a, x, y : a = AttributeOf(Fields(text, pos)) /\ x = attrs /\ y = attrs'
  BY Zenon
<1>3. y = x \/ y = Append(x, a)
  BY <1>2, Zenon DEF SchemaNext, ReadName, ReadAttribute, ReadEnd, schemaVars
<1>4. x \in Seq(S)
  BY <1>1, <1>2, Zenon
<1>5. y \in Seq(S \cup {a})
  BY ONLY <1>3, <1>4
<1>6. \E T : attrs' \in Seq(T)
  BY <1>2, <1>5, Zenon
<1>7. /\ phase \in {"read_name", "read"} /\ phase' \in {"read", "schema", "error"}
      /\ col' = col
  BY Zenon DEF SchemaNext, ReadName, ReadAttribute, ReadEnd, codecVars
<1> QED
  BY <1>6, <1>7, Zenon DEF Shape

LEMMA BeginShape ==
  ASSUME Shape, Begin
  PROVE  Shape'
<1>1. PICK S : attrs \in Seq(S)
  BY Zenon DEF Shape
<1>2. /\ attrs' = attrs /\ col' = 1 /\ phase' = "encode" /\ part' \in Parts
      /\ offset' = prefix_length(part') /\ extent' = prefix_length(part')
      /\ tuple' \in [DOMAIN attrs -> Cells] /\ DOMAIN impls' = DOMAIN attrs
  BY Zenon DEF Begin, Shape, schemaVars, Parts
<1>3. part' = "serialize" => Len(attrs) = 1
  BY Zenon DEF Begin
<1>4. out' \in [DOMAIN attrs -> [exists : BOOLEAN, impl : DOMAIN attrs]]
  <2>1. \A k \in DOMAIN attrs : 1 \in DOMAIN attrs
    BY <1>1
  <2> QED
    BY <2>1 DEF Begin
<1> QED
  BY <1>1, <1>2, <1>3, <1>4, PrefixLength DEF Shape

LEMMA EncodeShape ==
  ASSUME Shape, EncodeColumn \/ EncodeSkip \/ EncodeThrow \/ SerializeCell \/ EncodeEnd
  PROVE  Shape'
<1>1. PICK S : attrs \in Seq(S)
  BY Zenon DEF Shape
<1>2. /\ UNCHANGED <<attrs, tuple, part, impls, out>> /\ phase = "encode"
  BY Zenon DEF EncodeColumn, EncodeSkip, EncodeThrow, SerializeCell, EncodeEnd, job, schemaVars
<1>3. CASE EncodeColumn
  <2>1. /\ col \in 1 .. Len(attrs) /\ tuple[col] \in Cells
        /\ ~Throws(attrs[col], tuple[col])
    BY <1>1, <1>3 DEF Shape, EncodeColumn
  <2>2. /\ encode(attrs[col], tuple[col]) \in Seq(Byte)
        /\ encoded_length(attrs[col], tuple[col]) \in Nat
    BY <2>1, CodeLength, Zenon
  <2>3. offset' \in Nat /\ extent' \in Nat
    <3>1. offset \in Nat /\ extent \in Nat
      BY <1>2, Zenon DEF Shape
    <3>2. PICK l, n : /\ l = Len(encode(attrs[col], tuple[col]))
                      /\ n = encoded_length(attrs[col], tuple[col])
      BY Zenon
    <3>3. l \in Nat /\ n \in Nat
      BY ONLY <2>2, <3>2
    <3>4. offset' = offset + n /\ (extent' = extent \/ extent' = offset + l)
      BY <1>3, <3>2, Zenon DEF EncodeColumn, Write
    <3> QED BY ONLY <3>1, <3>3, <3>4
  <2> QED
    BY <1>1, <1>2, <1>3, <2>1, <2>3 DEF Shape, EncodeColumn
<1>4. CASE EncodeSkip
  BY <1>1, <1>2, <1>4 DEF Shape, EncodeSkip
<1>5. CASE EncodeThrow
  BY <1>1, <1>2, <1>5, Zenon DEF Shape, EncodeThrow
<1>6. CASE SerializeCell
  <2>1. tuple[1] \in Cells /\ Len(attrs) = 1
    BY <1>1, <1>6 DEF Shape, SerializeCell
  <2>2. serialize(tuple[1]) \in Seq(Byte) /\ serialized_length(tuple[1]) \in Nat
    BY <2>1, SerialLength, Zenon
  <2>3. offset' \in Nat /\ extent' \in Nat
    BY <1>6, <2>2 DEF SerializeCell, Write, Shape
  <2> QED
    BY <1>1, <1>2, <1>6, <2>1, <2>3 DEF Shape, SerializeCell
<1>7. CASE EncodeEnd
  BY <1>1, <1>2, <1>7, PrefixLength DEF Shape, EncodeEnd
<1> QED
  BY <1>3, <1>4, <1>5, <1>6, <1>7, Zenon

LEMMA DecodeShape ==
  ASSUME Shape, DecodeNull \/ DecodeColumn \/ DecodeFail \/ DeserializeCell \/ DecodeEnd
  PROVE  Shape'
<1>1. PICK S : attrs \in Seq(S)
  BY Zenon DEF Shape
<1>2. /\ UNCHANGED <<attrs, tuple, part, extent>> /\ phase = "decode"
  BY Zenon DEF DecodeNull, DecodeColumn, DecodeFail, Decodes, DeserializeCell, DecodeEnd,
     job, schemaVars
<1>3. ASSUME NEW e \in BOOLEAN, NEW v, NEW i \in DOMAIN attrs, Assign(i, e, v)
      PROVE  /\ out' \in [DOMAIN attrs -> [exists : BOOLEAN, impl : DOMAIN attrs]]
             /\ DOMAIN impls' = DOMAIN attrs
  BY <1>2, <1>3, Zenon DEF Assign, Shape
<1>4. CASE DecodeNull
  <2>1. /\ Assign(col, FALSE, Unknown) /\ col <= Len(attrs) /\ col' = col + 1
        /\ phase' = phase
    BY Zenon, <1>4 DEF DecodeNull
  <2>2. col \in DOMAIN attrs
    BY <1>1, <1>2, <2>1 DEF Shape
  <2>3. /\ out' \in [DOMAIN attrs -> [exists : BOOLEAN, impl : DOMAIN attrs]]
        /\ DOMAIN impls' = DOMAIN attrs
    BY Zenon, <1>3, <2>1, <2>2
  <2> QED
    BY <1>1, <1>2, <2>1, <2>2, <2>3 DEF Shape
<1>5. CASE DecodeColumn
  <2> DEFINE a == attrs[col]
             v == DecodeValue(ValType(a), ValueOffset)
  <2>1. /\ Assign(col, TRUE, v) /\ col <= Len(attrs) /\ col' = col + 1
        /\ phase' = phase
    BY Zenon, <1>5 DEF DecodeColumn, Decodes
  <2>2. col \in DOMAIN attrs
    BY <1>1, <1>2, <2>1 DEF Shape
  <2>3. /\ out' \in [DOMAIN attrs -> [exists : BOOLEAN, impl : DOMAIN attrs]]
        /\ DOMAIN impls' = DOMAIN attrs
    BY Zenon, <1>3, <2>1, <2>2
  <2> QED
    BY <1>1, <1>2, <2>1, <2>2, <2>3 DEF Shape
<1>6. CASE DecodeFail
  BY <1>1, <1>2, <1>6, Zenon DEF DecodeFail, Shape
<1>7. CASE DeserializeCell
  <2>1. 1 \in DOMAIN attrs /\ Len(attrs) = 1 /\ col \in {1, 2}
    BY <1>1, <1>2, <1>7 DEF DeserializeCell, Shape
  <2>2. CASE Assign(1, TRUE, DecodeValue(as, 1)) /\ col' = 2 /\ phase' = phase
    <3>1. /\ out' \in [DOMAIN attrs -> [exists : BOOLEAN, impl : DOMAIN attrs]]
          /\ DOMAIN impls' = DOMAIN attrs
      BY Zenon, <1>3, <2>1, <2>2
    <3> QED
      BY <1>1, <1>2, <2>1, <2>2, <3>1 DEF Shape
  <2>3. CASE phase' = "undefined" /\ UNCHANGED <<col, impls, out>>
    BY <1>1, <1>2, <2>3, Zenon DEF Shape
  <2>4. CASE /\ out' = [out EXCEPT ![1].exists = FALSE]
             /\ col' = 2 /\ UNCHANGED <<phase, impls>>
    <3>1. out \in [DOMAIN attrs -> [exists : BOOLEAN, impl : DOMAIN attrs]]
      BY <1>2, Zenon DEF Shape
    <3>2. out' \in [DOMAIN attrs -> [exists : BOOLEAN, impl : DOMAIN attrs]]
      BY Zenon, <2>1, <2>4, <3>1
    <3> QED
      BY <1>1, <1>2, <2>1, <2>4, <3>2 DEF Shape
  <2> QED
    BY Zenon, <1>7, <2>2, <2>3, <2>4 DEF DeserializeCell
<1>8. CASE DecodeEnd
  BY <1>1, <1>2, <1>8, Zenon DEF DecodeEnd, Shape
<1> QED
  BY <1>4, <1>5, <1>6, <1>7, <1>8, Zenon

LEMMA ShapeStep ==
  ASSUME Shape, [Next]_vars
  PROVE  Shape'
<1>1. CASE UNCHANGED vars
  BY <1>1, Zenon DEF vars, schemaVars, codecVars, Shape
<1> QED
  BY <1>1, ReadShape, BeginShape, EncodeShape, DecodeShape, Zenon DEF Next

-----------------------------------------------------------------------------
(* The lengths *)

LEMMA FreshStep ==
  ASSUME Shape, Fresh, [Next]_vars
  PROVE  Fresh'
<1>1. CASE UNCHANGED vars
  BY <1>1, Zenon DEF vars, schemaVars, codecVars, Fresh
<1>2. CASE SchemaNext /\ UNCHANGED codecVars
  BY <1>2, Zenon DEF SchemaNext, ReadName, ReadAttribute, ReadEnd, Fresh
<1>3. CASE Begin
  BY <1>3, Zenon DEF Begin, Fresh, prefix_length
<1>4. CASE EncodeColumn \/ EncodeSkip \/ SerializeCell
  <2>1. col \in Nat /\ col >= 1 /\ (col' = col + 1 \/ col' = 2)
    BY <1>4 DEF EncodeColumn, EncodeSkip, SerializeCell, Shape
  <2> QED
    BY <2>1 DEF Fresh
<1>5. CASE EncodeThrow \/ EncodeEnd
  BY <1>5, Zenon DEF EncodeThrow, EncodeEnd, Fresh
<1>6. CASE DecodeNull \/ DecodeColumn \/ DecodeFail \/ DeserializeCell \/ DecodeEnd
  <2>1. phase' \in {"decode", "error", "undefined", "decoded"}
    BY Zenon, <1>6 DEF DecodeNull, DecodeColumn, DecodeFail, Decodes, DeserializeCell, DecodeEnd
  <2> QED
    BY <2>1, Zenon DEF Fresh
<1> QED
  BY <1>1, <1>2, <1>3, <1>4, <1>5, <1>6, Zenon DEF Next

LEMMA WithinStep ==
  ASSUME Shape, Fresh, WithinLength, [Next]_vars
  PROVE  WithinLength'
<1> SUFFICES ASSUME phase' = "encode"
             PROVE  extent' <= offset' + (IF HasString' THEN SizeT ELSE 0)
  BY Zenon DEF WithinLength
<1>1. CASE UNCHANGED vars
  <2>1. HasString' = HasString
    BY Zenon, <1>1 DEF vars, schemaVars, codecVars, HasString, Selected
  <2> QED
    BY <1>1, <2>1, Zenon DEF vars, codecVars, WithinLength
<1>2. CASE Begin
  <2>1. extent' = offset' /\ offset' \in Nat
    BY <1>2, PrefixLength, Zenon DEF Begin
  <2>2. \A m \in Nat : m <= m + SizeT /\ m <= m + 0
    BY DEF SizeT
  <2>3. extent' <= offset' + SizeT /\ extent' <= offset' + 0
    BY Zenon, <2>1, <2>2
  <2> QED
    BY Zenon, <2>3
<1>3. ASSUME EncodeColumn \/ EncodeSkip \/ SerializeCell
      PROVE  HasString' = HasString /\ tuple' = tuple /\ part' = part
  <2>1. UNCHANGED <<attrs, tuple, part>>
    BY Zenon, <1>3 DEF EncodeColumn, EncodeSkip, SerializeCell, job, schemaVars
  <2> QED
    BY Zenon, <2>1 DEF HasString, Selected
<1>4. CASE EncodeColumn
  <2> DEFINE a == attrs[col]
             c == tuple[col]
             b == encode(a, c)
             n == encoded_length(a, c)
  <2>1. /\ phase = "encode" /\ col \in DOMAIN attrs /\ c \in Cells /\ ~Throws(a, c)
        /\ offset \in Nat /\ extent \in Nat /\ Selected(col)
    BY <1>4 DEF EncodeColumn, Shape
  <2>2. /\ b \in Seq(Byte) /\ n \in Nat
        /\ Len(b) <= n + (IF a.type = "STRING" /\ c.exists THEN SizeT ELSE 0)
    BY <2>1, CodeLength, Zenon
  <2>3. /\ offset' = offset + n
        /\ extent' = extent \/ extent' = offset + Len(b)
    BY <1>4, Zenon DEF EncodeColumn, Write
  <2>4. a.type = "STRING" => HasString
    BY <2>1, Zenon DEF HasString
  <2>5. extent <= offset + (IF HasString THEN SizeT ELSE 0)
    BY <2>1, Zenon DEF WithinLength
  <2> HIDE DEF a, c, b, n
  <2> QED
    BY <1>3, <1>4, <2>1, <2>2, <2>3, <2>4, <2>5 DEF SizeT
<1>5. CASE EncodeSkip
  BY <1>3, <1>5 DEF EncodeSkip, WithinLength
<1>6. CASE SerializeCell
  <2> DEFINE c == tuple[1]
             b == serialize(c)
             n == serialized_length(c)
  <2>1. /\ phase = "encode" /\ 1 \in DOMAIN attrs /\ c \in Cells /\ part = "serialize"
        /\ offset = 0 /\ extent = 0
    BY <1>6 DEF SerializeCell, Shape, Fresh
  <2>2. /\ b \in Seq(Byte) /\ n \in Nat
        /\ Len(b) <= n + (IF c.value.val = "VARCHAR" THEN SizeT ELSE 0)
    BY <2>1, SerialLength, Zenon
  <2>3. /\ offset' = n
        /\ extent' = extent \/ extent' = offset + Len(b)
    BY <1>6, Zenon DEF SerializeCell, Write
  <2>4. c.value.val = "VARCHAR" => HasString
    BY <2>1, Zenon DEF HasString
  <2> HIDE DEF c, b, n
  <2> QED
    BY <1>3, <1>6, <2>1, <2>2, <2>3, <2>4 DEF SizeT
<1>7. ASSUME \/ SchemaNext \/ EncodeThrow \/ EncodeEnd \/ DecodeNull \/ DecodeColumn
             \/ DecodeFail \/ DeserializeCell \/ DecodeEnd
      PROVE  FALSE
  BY Zenon, <1>7 DEF SchemaNext, ReadName, ReadAttribute, ReadEnd, EncodeThrow, EncodeEnd,
     DecodeNull, DecodeColumn, DecodeFail, Decodes, DeserializeCell, DecodeEnd
<1> QED
  BY <1>1, <1>2, <1>4, <1>5, <1>6, <1>7, Zenon DEF Next

-----------------------------------------------------------------------------
(* The bytes of a cell *)

LEMMA StoredConcat ==
  ASSUME NEW at \in Nat, NEW s \in Seq(Byte), NEW t \in Seq(Byte), Stored(at, s \o t)
  PROVE  Stored(at, s) /\ Stored(at + Len(s), t)
<1>1. /\ Len(s \o t) = Len(s) + Len(t)
      /\ \A k \in 1 .. Len(s) : (s \o t)[k] = s[k]
      /\ \A k \in 1 .. Len(t) : (s \o t)[Len(s) + k] = t[k]
  BY ConcatSeq
<1>2. Room \in Nat /\ Len(s) \in Nat /\ Len(t) \in Nat
  BY CodecAssumption
<1>3. /\ at + (Len(s) + Len(t)) <= Room
      /\ \A k \in 1 .. Len(s) + Len(t) : buf[at + k] = (s \o t)[k]
  BY <1>1, Zenon DEF Stored
<1>4. Stored(at, s)
  <2>1. at + Len(s) <= Room
    BY <1>2, <1>3
  <2>2. \A k \in 1 .. Len(s) : k \in 1 .. Len(s) + Len(t)
    BY <1>2
  <2> QED
    BY <1>1, <1>3, <2>1, <2>2, Zenon DEF Stored
<1>5. ASSUME NEW k \in 1 .. Len(t) PROVE buf[at + Len(s) + k] = t[k]
  <2>1. Len(s) + k \in 1 .. Len(s) + Len(t) /\ at + Len(s) + k = at + (Len(s) + k)
    BY <1>2
  <2> QED
    BY <1>1, <1>3, <2>1, Zenon
<1>6. (at + Len(s)) + Len(t) <= Room
  BY <1>2, <1>3
<1> QED
  BY <1>4, <1>5, <1>6, Zenon DEF Stored

LEMMA ReadBack ==
  ASSUME NEW at, NEW s \in Seq(Byte), Stored(at, s)
  PROVE  Read(at, Len(s)) = s
<1>1. \A k \in 1 .. Len(s) : Read(at, Len(s))[k] = s[k]
  BY Zenon DEF Read, Stored
<1>2. DOMAIN Read(at, Len(s)) = 1 .. Len(s)
  BY Zenon DEF Read
<1>3. s = [k \in 1 .. Len(s) |-> s[k]]
  OBVIOUS
<1> QED
  BY <1>3, Zenon DEF Read, Stored

LEMMA IntStored ==
  ASSUME NEW at, NEW d \in Seq(Byte), Len(d) = SizeT, Stored(at, d)
  PROVE  ~Runaway("INT", at) /\ DecodeValue("INT", at) = IntValue(d)
<1>1. Read(at, SizeT) = d
  BY ReadBack, Zenon
<1> QED
  BY <1>1, Zenon DEF Runaway, DecodeValue

LEMMA StringStored ==
  ASSUME NEW at \in Nat, NEW d \in Seq(Byte), Len(d) < 256,
         Stored(at, WordOf(Len(d))), Stored(at + SizeT, d)
  PROVE  ~Runaway("VARCHAR", at) /\ DecodeValue("VARCHAR", at) = Varchar(d)
<1>1. buf[at + 1] = Len(d) /\ \A k \in 2 .. SizeT : buf[at + k] = 0
  <2>1. Len(WordOf(Len(d))) = SizeT
    BY WordSeq
  <2>2. \A k \in 1 .. SizeT : buf[at + k] = WordOf(Len(d))[k]
    BY <2>1, Zenon DEF Stored
  <2> QED
    BY <2>2 DEF WordOf, SizeT
<1>2. at + SizeT + Len(d) <= Room
  BY Zenon DEF Stored
<1>3. Read(at + SizeT, Len(d)) = d
  BY ReadBack, Zenon
<1>4. ~Runaway("VARCHAR", at)
  <2>1. ~(at + SizeT + buf[at + 1] > Room)
    BY <1>1, <1>2, CodecAssumption DEF SizeT
  <2> QED
    BY <1>1, <2>1, Zenon DEF Runaway
<1> QED
  BY <1>1, <1>3, <1>4, Zenon DEF DecodeValue

\* What follows a flag of one byte or none.
LEMMA FlagStored ==
  ASSUME NEW at \in Nat, NEW g \in {<< 1 >>, << >>}, NEW c,
         c.value.data \in Seq(Byte),
         \/ /\ c.value = IntValue(c.value.data) /\ Len(c.value.data) = SizeT
            /\ Stored(at, g \o c.value.data)
         \/ /\ c.value = Varchar(c.value.data) /\ Len(c.value.data) < 256
            /\ Stored(at, g \o WordOf(Len(c.value.data)) \o c.value.data)
  PROVE  /\ g = << 1 >> => buf[at + 1] = 1
         /\ ~Runaway(c.value.val, at + Len(g))
         /\ DecodeValue(c.value.val, at + Len(g)) = c.value
<1> DEFINE d == c.value.data
<1>1. g \in Seq(Byte) /\ Len(g) \in Nat /\ (g = << 1 >> => Len(g) = 1 /\ g[1] = 1)
  <2>1. << 1 >> \in Seq(Byte) /\ << >> \in Seq(Byte)
    <3>1. 1 \in Byte
      BY DEF Byte
    <3> QED
      BY <3>1
  <2>2. CASE g = << 1 >>
    BY <2>1, <2>2, Zenon
  <2>3. CASE g = << >>
    BY <2>1, <2>3, Zenon
  <2> QED
    BY <2>2, <2>3, Zenon
<1>2. ASSUME Stored(at, g) PROVE g = << 1 >> => buf[at + 1] = 1
  BY <1>1, <1>2 DEF Stored
<1>3. CASE c.value = IntValue(d) /\ Len(d) = SizeT /\ Stored(at, g \o d)
  <2>1. Stored(at, g) /\ Stored(at + Len(g), d)
    BY <1>1, <1>3, StoredConcat, Zenon
  <2>2. c.value.val = "INT"
    BY <1>3 DEF IntValue
  <2>3. ~Runaway("INT", at + Len(g)) /\ DecodeValue("INT", at + Len(g)) = IntValue(d)
    BY <1>3, <2>1, IntStored, Zenon
  <2> QED
    BY <1>2, <1>3, <2>1, <2>2, <2>3, Zenon
<1>4. CASE /\ c.value = Varchar(d) /\ Len(d) < 256
           /\ Stored(at, g \o WordOf(Len(d)) \o d)
  <2> DEFINE w == WordOf(Len(d))
  <2>1. w \in Seq(Byte) /\ Len(w) = SizeT
    BY <1>4, WordSeq
  <2> HIDE DEF w
  <2>2. g \o w \in Seq(Byte) /\ Len(g \o w) = Len(g) + SizeT
    <3>1. g \in Seq(Byte)
      BY <1>1, Zenon
    <3> QED BY ONLY <2>1, <3>1, ConcatSeq
  <2>3. Stored(at, g \o w) /\ Stored(at + (Len(g) + SizeT), d)
    BY Zenon, <1>4, <2>2, StoredConcat DEF w
  <2>4. Stored(at, g) /\ Stored(at + Len(g), w)
    BY <1>1, <2>1, <2>3, StoredConcat, Zenon
  <2>5. at + (Len(g) + SizeT) = (at + Len(g)) + SizeT /\ at + Len(g) \in Nat
    BY <1>1 DEF SizeT
  <2>6. c.value.val = "VARCHAR"
    BY <1>4 DEF Varchar
  <2>7. /\ ~Runaway("VARCHAR", at + Len(g))
        /\ DecodeValue("VARCHAR", at + Len(g)) = Varchar(d)
    BY <1>4, <2>3, <2>4, <2>5, StringStored, Zenon DEF w
  <2> QED
    BY <1>2, <1>4, <2>4, <2>6, <2>7, Zenon
<1> QED
  BY <1>3, <1>4, Zenon

LEMMA CellStored ==
  ASSUME NEW i, NEW at \in Nat, tuple[i] \in Cells, tuple[i].exists, Placed(i, at)
  PROVE  LET a == attrs[i]
             from == IF Nullable(a) THEN at + 1 ELSE at
         IN  /\ Nullable(a) => buf[at + 1] = 1
             /\ ValType(a) \in ValTypes /\ ~Runaway(ValType(a), from)
             /\ tuple[i] = Some(DecodeValue(ValType(a), from))
<1> DEFINE a == attrs[i]
           c == tuple[i]
           g == Flag(a)
<1>1. /\ g \in {<< 1 >>, << >>} /\ (Nullable(a) => g = << 1 >>)
      /\ at + Len(g) = IF Nullable(a) THEN at + 1 ELSE at
  BY DEF Flag
<1>2. Stored(at, encode(a, c))
  BY Zenon DEF Placed
<1>3. IntCell(a, c) \/ StringCell(a, c)
  BY Encodable, Zenon DEF Placed, NullCell
<1>4. /\ c.value.data \in Seq(Byte) /\ c = Some(c.value)
      /\ \/ /\ c.value = IntValue(c.value.data) /\ Len(c.value.data) = SizeT
            /\ ValType(a) = "INT" /\ Stored(at, g \o c.value.data)
         \/ /\ c.value = Varchar(c.value.data) /\ Len(c.value.data) < 256
            /\ ValType(a) = "VARCHAR"
            /\ Stored(at, g \o WordOf(Len(c.value.data)) \o c.value.data)
  BY Zenon, <1>2, <1>3, IntCode, StringCode DEF IntCell, StringCell
<1>5. ValType(a) = c.value.val /\ ValType(a) \in ValTypes
  BY <1>4 DEF IntValue, Varchar, ValTypes
<1> HIDE DEF c, g, a
<1>6. /\ g = << 1 >> => buf[at + 1] = 1
      /\ ~Runaway(c.value.val, at + Len(g))
      /\ DecodeValue(c.value.val, at + Len(g)) = c.value
  BY Zenon, <1>1, <1>4, FlagStored
<1> QED
  BY <1>1, <1>4, <1>5, <1>6, Zenon DEF a, c

LEMMA SerialStored ==
  ASSUME NEW c \in Cells, Stored(0, serialize(c))
  PROVE  /\ ~c.exists => buf[1] # 1 /\ c = Null
         /\ c.exists => /\ buf[1] = 1 /\ ~Runaway(c.value.val, 1)
                        /\ c = Some(DecodeValue(c.value.val, 1))
<1>1. CASE c = Null /\ ~c.exists /\ serialize(c) = << 0 >>
  BY <1>1 DEF Stored
<1>2. ASSUME c.exists PROVE /\ buf[1] = 1 /\ ~Runaway(c.value.val, 1)
                            /\ c = Some(DecodeValue(c.value.val, 1))
  <2> DEFINE d == c.value.data
  <2>1. /\ d \in Seq(Byte) /\ c = Some(c.value)
        /\ \/ c.value = IntValue(d) /\ Len(d) = SizeT /\ Stored(0, << 1 >> \o d)
           \/ /\ c.value = Varchar(d) /\ Len(d) < 256
              /\ Stored(0, << 1 >> \o WordOf(Len(d)) \o d)
    <3>1. \A v : Some(v).value = v
      BY Zenon DEF Some
    <3>2. Serial(c)
      BY SerialCode, Zenon
    <3>3. \/ /\ c = Some(IntValue(d)) /\ d \in Seq(Byte) /\ Len(d) = SizeT
             /\ serialize(c) = << 1 >> \o d
          \/ /\ c = Some(Varchar(d)) /\ d \in Seq(Byte) /\ Len(d) < 256
             /\ serialize(c) = << 1 >> \o WordOf(Len(d)) \o d
      BY <1>2, <3>2, Zenon DEF Serial
    <3> QED BY <3>1, <3>3, Zenon
  <2>2. Len(<< 1 >>) = 1
    BY Zenon
  <2>3. /\ buf[0 + 1] = 1 /\ ~Runaway(c.value.val, 0 + 1)
        /\ DecodeValue(c.value.val, 0 + 1) = c.value
    BY <2>1, <2>2, FlagStored, Zenon
  <2> QED
    BY <2>1, <2>3
<1> QED
  <2>1. Serial(c)
    BY SerialCode, Zenon
  <2> QED BY <1>1, <1>2, <2>1, Zenon DEF Serial

-----------------------------------------------------------------------------
(* Encoding *)

LEMMA ApartBefore ==
  ASSUME UNCHANGED <<attrs, tuple, part, as, fill>>, DOMAIN out' = DOMAIN out,
         \A i \in DOMAIN out : out'[i].impl = out[i].impl, Apart'
  PROVE  Apart
<1>1. ~Shared
  BY Zenon DEF Apart, Shared
<1>2. \A i \in DOMAIN attrs : Kept(i)
  BY Zenon DEF Apart, Kept
<1> QED
  BY <1>1, <1>2, Zenon DEF Apart

\* A write leaves what is stored below it.
LEMMA StoredBelow ==
  ASSUME NEW at \in Nat, NEW b \in Seq(Byte), NEW w \in Seq(Byte), offset \in Nat,
         at + Len(b) <= offset, Stored(at, b), Write(w)
  PROVE  Stored(at, b)'
<1>1. \A k \in 1 .. Len(b) : at + k \in 1 .. Room /\ at + k <= offset
  BY CodecAssumption DEF Stored
<1>2. \A k \in 1 .. Room : k <= offset => buf'[k] = buf[k]
  BY CodecAssumption DEF Write
<1>3. \A k \in 1 .. Len(b) : buf'[at + k] = b[k]
  BY <1>1, <1>2, Zenon DEF Stored
<1> QED
  BY <1>3, Zenon DEF Stored

LEMMA BeginEncode ==
  ASSUME Begin, Shape
  PROVE  EncodeInv'
<1> SUFFICES ASSUME part' = "encode"
             PROVE  \E offs : /\ Laid(offs, col - 1)' /\ offs[col'] = offset'
                              /\ \A i \in 1 .. col' - 1 : offs[i + 1] <= offset'
                              /\ \A k \in offset' + 1 .. Room : buf'[k] = fill'
  BY Zenon DEF EncodeInv
<1>1. col' = 1 /\ offset' = Len(Prefix) /\ Len(Prefix) \in Nat
  BY CodecAssumption DEF Begin, Shape, prefix_length
<1>2. \A k \in offset' + 1 .. Room : buf'[k] = fill'
  BY <1>1, CodecAssumption DEF Begin, prefix_length
<1> DEFINE offs == [n \in Nat |-> Len(Prefix)]
<1>3. offs \in [Nat -> Nat] /\ offs[1] = Len(Prefix)
  BY <1>1, Zenon
<1> HIDE DEF offs
<1>4. Laid(offs, col - 1)'
  BY <1>1, <1>3 DEF Laid
<1> QED
  BY <1>1, <1>2, <1>3, <1>4

LEMMA EncodeStep ==
  ASSUME Shape, EncodeInv, EncodeColumn
  PROVE  EncodeInv'
<1> SUFFICES ASSUME part' = "encode", Apart'
             PROVE  \E offs : /\ Laid(offs, col - 1)' /\ offs[col'] = offset'
                              /\ \A i \in 1 .. col' - 1 : offs[i + 1] <= offset'
                              /\ col' <= Len(attrs') =>
                                   \A k \in offset' + 1 .. Room : buf'[k] = fill'
  BY Zenon DEF EncodeInv
<1> DEFINE a == attrs[col]
           c == tuple[col]
           b == encode(a, c)
           n == encoded_length(a, c)
<1>1. /\ phase = "encode" /\ UNCHANGED <<attrs, tuple, part, as, fill, out>>
      /\ ~Throws(a, c) /\ Write(b) /\ offset' = offset + n /\ offset' <= Room
      /\ col' = col + 1 /\ col <= Len(attrs)
  BY Zenon DEF EncodeColumn, job, schemaVars
<1>2. Apart
  BY <1>1, ApartBefore, Zenon
<1>3. PICK offs : /\ Laid(offs, col - 1) /\ offs[col] = offset
                  /\ \A i \in 1 .. col - 1 : offs[i + 1] <= offset
                  /\ \A k \in offset + 1 .. Room : buf[k] = fill
  BY <1>1, <1>2, Zenon DEF EncodeInv
<1>4. /\ col \in Nat /\ col >= 1 /\ Len(attrs) \in Nat /\ DOMAIN attrs = 1 .. Len(attrs)
      /\ offset \in Nat /\ Room \in Nat /\ \A i \in DOMAIN attrs : tuple[i] \in Cells
  BY <1>1, CodecAssumption DEF Shape
<1>5. ASSUME NEW i \in DOMAIN attrs, ~Throws(attrs[i], tuple[i])
      PROVE  LET s == encode(attrs[i], tuple[i])
                 m == encoded_length(attrs[i], tuple[i])
             IN  s \in Seq(Byte) /\ m \in Nat /\ (i < Len(attrs) => Len(s) <= m)
  <2>1. attrs[i].type = "STRING" /\ tuple[i].exists => i = Len(attrs)
    BY <1>1, <1>2, Zenon DEF Apart, Kept
  <2> QED
    BY <1>4, <1>5, <2>1, CodeLength DEF SizeT
<1>6. b \in Seq(Byte) /\ n \in Nat /\ (col < Len(attrs) => Len(b) <= n)
  BY <1>1, <1>4, <1>5
<1>7. ASSUME NEW i \in 1 .. col - 1
      PROVE  /\ Placed(i, offs[i])' /\ offs[i] \in Nat /\ offs[i + 1] <= offset
             /\ offs[i + 1] = offs[i] + encoded_length(attrs[i], tuple[i])
  <2> DEFINE s == encode(attrs[i], tuple[i])
             m == encoded_length(attrs[i], tuple[i])
             at == offs[i]
  <2>1. i \in DOMAIN attrs /\ i < Len(attrs) /\ i \in Nat
    BY <1>1, <1>4
  <2>2. /\ ~Throws(attrs[i], tuple[i]) /\ Stored(at, s) /\ at \in Nat
        /\ ~tuple[i].exists => at + 1 <= Room /\ buf[at + 1] = 0
        /\ offs[i + 1] = at + m /\ at + m <= offset
    BY Zenon, <1>3, <2>1 DEF Laid, Placed
  <2>3. s \in Seq(Byte) /\ m \in Nat /\ Len(s) <= m
    BY <1>5, <2>1, <2>2, Zenon
  <2>4. Stored(at, s)'
    <3> HIDE DEF m, s, at
    <3>1. at + Len(s) <= offset
      BY <1>4, <2>2, <2>3
    <3>2. s \in Seq(Byte) /\ Stored(at, s)
      BY <2>2, <2>3, Zenon
    <3>3. UNCHANGED s
      BY <1>1, Zenon DEF s
    <3> QED
      BY <1>1, <1>4, <1>6, <2>2, <3>1, <3>2, <3>3, StoredBelow, Zenon
  <2>5. ASSUME ~tuple[i].exists PROVE at + 1 <= Room /\ buf'[at + 1] = 0
    <3>1. NullCell(attrs[i], tuple[i])
      BY <1>4, <2>1, <2>2, <2>5, Encodable, Zenon DEF IntCell, StringCell
    <3>2. m = 1
      BY <3>1, NullCode, Zenon
    <3>3. at + 1 \in 1 .. Room /\ at + 1 <= offset
      BY <1>4, <2>2, <2>5, <3>2
    <3>4. buf'[at + 1] = buf[at + 1]
      BY <1>1, <1>4, <3>3 DEF Write
    <3> QED
      BY <2>2, <2>5, <3>4, Zenon
  <2> QED
    BY <1>1, <2>2, <2>4, <2>5, Zenon DEF Placed
<1>8. PICK j, at, next : j = col /\ at = offset /\ next = [offs EXCEPT ![j + 1] = offset']
  BY Zenon
<1>9. Placed(j, at)'
  <2>1. at + Len(b) <= Room /\ \A k \in 1 .. Len(b) : buf'[at + k] = b[k]
    <3> HIDE DEF b
    <3>1. \A p \in 1 .. Room : p \in offset + 1 .. offset + Len(b) => buf'[p] = b[p - offset]
      BY <1>1, Zenon DEF Write
    <3>2. \A k \in 1 .. Len(b) : buf'[at + k] = b[k]
      <4> SUFFICES ASSUME NEW k \in 1 .. Len(b) PROVE buf'[at + k] = b[k]
        BY Zenon
      <4> DEFINE p == at + k
      <4>1. p \in 1 .. Room /\ p \in offset + 1 .. offset + Len(b) /\ p - offset = k
        BY <1>1, <1>4, <1>6, <1>8 DEF Write
      <4> HIDE DEF p
      <4>2. buf'[p] = b[k]
        BY <3>1, <4>1, Zenon
      <4> QED
        BY <4>2, Zenon DEF p
    <3>3. at + Len(b) <= Room
      BY <1>1, <1>8, Zenon DEF Write
    <3> QED
      BY <3>2, <3>3, Zenon
  <2>2. ASSUME ~c.exists PROVE at + 1 <= Room /\ buf'[at + 1] = 0
    <3>1. NullCell(a, c)
      BY <1>1, <1>4, <2>2, Encodable DEF IntCell, StringCell
    <3>2. b = << >> /\ n = 1
      BY <3>1, NullCode, Zenon
    <3>3. offset + 1 \in offset + 1 .. Room /\ offset + 1 \in 1 .. Room
      BY <1>1, <1>4, <3>2
    <3>4. fill = 0
      BY <1>1, <1>2, <1>4, <2>2 DEF Apart, Kept
    <3>5. buf'[offset + 1] = buf[offset + 1]
      BY <1>1, <1>4, <3>2, <3>3 DEF Write
    <3> QED
      BY <1>3, <1>8, <3>3, <3>4, <3>5
  <2>3. UNCHANGED <<attrs[j], tuple[j]>> /\ attrs[j] = a /\ tuple[j] = c
    BY <1>1, <1>8, Zenon
  <2>4. Stored(at, encode(attrs[j], tuple[j]))'
    BY <2>1, <2>3, Zenon DEF Stored
  <2> QED
    BY <1>1, <2>2, <2>3, <2>4, Zenon DEF Placed
<1>10. /\ next \in [Nat -> Nat] /\ next[1] = Len(Prefix) /\ next[j + 1] = offset'
       /\ \A i \in 1 .. j : next[i] = offs[i]
  <2>1. offs \in [Nat -> Nat] /\ offs[1] = Len(Prefix)
    BY <1>3, Zenon DEF Laid
  <2>2. offset' \in Nat /\ j \in Nat /\ j >= 1
    <3> HIDE DEF n
    <3> QED
      BY <1>1, <1>4, <1>6, <1>8
  <2>3. j + 1 \in Nat /\ \A i \in 1 .. j : i \in Nat /\ i # j + 1
    BY <2>2
  <2>4. next = [offs EXCEPT ![j + 1] = offset']
    BY <1>8, Zenon
  <2>5. next \in [Nat -> Nat] /\ next[j + 1] = offset'
    BY Zenon, <2>1, <2>2, <2>3, <2>4
  <2>6. \A i \in 1 .. j : next[i] = offs[i]
    BY <2>1, <2>3, <2>4, Zenon
  <2>7. 1 \in 1 .. j
    BY <2>2
  <2> QED
    BY Zenon, <2>1, <2>5, <2>6, <2>7
<1>11. ASSUME NEW i \in 1 .. j
       PROVE  /\ Placed(i, next[i])' /\ next[i + 1] <= offset'
              /\ next[i + 1] = next[i] + encoded_length(attrs[i], tuple[i])
  <2>1. CASE i = j
    BY <1>1, <1>3, <1>4, <1>6, <1>8, <1>9, <1>10, <2>1
  <2>2. CASE i \in 1 .. col - 1
    <3>1. i + 1 \in 1 .. j
      BY <1>4, <1>8, <2>2
    <3>2. next[i] = offs[i] /\ next[i + 1] = offs[i + 1] /\ next[i + 1] \in Nat
      BY <1>10, <3>1
    <3>3. offs[i + 1] <= offset'
      BY <1>1, <1>4, <1>6, <1>7, <2>2, <3>2
    <3> QED
      BY <1>7, <2>2, <3>2, <3>3, Zenon
  <2> QED
    BY <1>4, <1>8, <2>1, <2>2
<1>12. ASSUME col' <= Len(attrs'), NEW k \in offset' + 1 .. Room
       PROVE  buf'[k] = fill'
  <2> HIDE DEF b, n
  <2>1. k \in offset + 1 .. Room /\ k \in 1 .. Room /\ k > offset + Len(b)
    BY <1>1, <1>4, <1>6, <1>12
  <2> QED
    BY <1>1, <1>3, <1>4, <1>6, <2>1 DEF Write
<1>13. col' - 1 = j /\ col' = j + 1
  BY <1>1, <1>4, <1>8
<1>14. Laid(next, col - 1)'
  BY Zenon, <1>1, <1>10, <1>11, <1>13 DEF Laid
<1> QED
  BY Zenon, <1>10, <1>11, <1>12, <1>13, <1>14

LEMMA EncodeInvStep ==
  ASSUME Shape, EncodeInv, [Next]_vars
  PROVE  EncodeInv'
<1>1. CASE UNCHANGED vars
  <2> SUFFICES ASSUME phase' = "encode", part' = "encode", Apart'
               PROVE  \E offs : /\ Laid(offs, col - 1)' /\ offs[col'] = offset'
                                /\ \A i \in 1 .. col' - 1 : offs[i + 1] <= offset'
                                /\ col' <= Len(attrs') =>
                                     \A k \in offset' + 1 .. Room : buf'[k] = fill'
    BY Zenon DEF EncodeInv
  <2>1. /\ UNCHANGED <<attrs, tuple, part, as, fill, out, buf>>
        /\ UNCHANGED <<phase, col, offset>>
    BY <1>1, Zenon DEF vars, schemaVars, codecVars
  <2>2. PICK offs : /\ Laid(offs, col - 1) /\ offs[col] = offset
                    /\ \A i \in 1 .. col - 1 : offs[i + 1] <= offset
                    /\ col <= Len(attrs) => \A k \in offset + 1 .. Room : buf[k] = fill
    BY <2>1, ApartBefore, Zenon DEF EncodeInv
  <2>3. Laid(offs, col - 1)'
    BY <2>1, <2>2, Zenon DEF Laid, Placed, Stored
  <2> QED
    BY <2>1, <2>2, <2>3, Zenon
<1>2. CASE EncodeSkip
  BY <1>2, Selects, Zenon DEF EncodeSkip, EncodeInv, job
<1>3. CASE SerializeCell
  BY <1>3, Zenon DEF SerializeCell, EncodeInv, job
<1>4. ASSUME phase' = "encode",
             \/ SchemaNext \/ EncodeThrow \/ EncodeEnd \/ DecodeNull \/ DecodeColumn
             \/ DecodeFail \/ DeserializeCell \/ DecodeEnd
      PROVE  FALSE
  BY Zenon, <1>4 DEF SchemaNext, ReadName, ReadAttribute, ReadEnd, EncodeThrow, EncodeEnd,
     DecodeNull, DecodeColumn, DecodeFail, Decodes, DeserializeCell, DecodeEnd
<1> QED
  BY <1>1, <1>2, <1>3, <1>4, BeginEncode, EncodeStep, Zenon DEF Next, EncodeInv

-----------------------------------------------------------------------------
(* Decoding *)

\* An assignment to one cell is seen in no other that has its own ValueImpl.
LEMMA AssignCell ==
  ASSUME Shape, phase = "decode", NEW j \in DOMAIN attrs, NEW e \in BOOLEAN, NEW v,
         Assign(j, e, v)
  PROVE  /\ DOMAIN out' = DOMAIN out /\ \A i \in DOMAIN out : out'[i].impl = out[i].impl
         /\ Cell(j)' = IF e THEN Some(v) ELSE Null
         /\ ~Shared => \A i \in DOMAIN attrs : i # j => Cell(i)' = Cell(i)
<1>1. /\ out \in [DOMAIN attrs -> [exists : BOOLEAN, impl : DOMAIN attrs]]
      /\ DOMAIN impls = DOMAIN attrs
  BY Zenon DEF Shape
<1>2. /\ out' = [out EXCEPT ![j] = [exists |-> e, impl |-> out[j].impl]]
      /\ impls' = [impls EXCEPT ![out[j].impl] = v]
  BY Zenon DEF Assign
<1>3. DOMAIN out' = DOMAIN out /\ \A i \in DOMAIN out : out'[i].impl = out[i].impl
  BY <1>1, <1>2, Zenon
<1>4. Cell(j)' = IF e THEN Some(v) ELSE Null
  <2>1. out'[j].exists = e /\ impls'[out'[j].impl] = v
    BY <1>1, <1>2, Zenon
  <2> QED
    BY <2>1, Zenon DEF Cell
<1>5. ASSUME ~Shared, NEW i \in DOMAIN attrs, i # j PROVE Cell(i)' = Cell(i)
  <2>1. out'[i] = out[i] /\ out[i].impl # out[j].impl /\ out[i].impl \in DOMAIN impls
    BY <1>1, <1>2, <1>5, Zenon DEF Shared
  <2>2. impls'[out'[i].impl] = impls[out[i].impl]
    BY <1>2, <2>1, Zenon
  <2> QED
    BY <2>1, <2>2, Zenon DEF Cell
<1> QED
  BY <1>3, <1>4, <1>5, Zenon

\* A column that is decoded as it was encoded.
LEMMA DecodeStep ==
  ASSUME Shape, DecodeInv, DecodeNull \/ DecodeColumn \/ DecodeFail, Apart'
  PROVE  phase' = "decode" /\ DecodeInv'
<1>1. /\ phase = "decode" /\ part = "encode" /\ col <= Len(attrs)
      /\ UNCHANGED <<attrs, tuple, part, as, fill, buf>>
  BY Zenon DEF DecodeNull, DecodeColumn, DecodeFail, Decodes, job, schemaVars
<1>2. PICK j, at : j = col /\ at = offset
  BY Zenon
<1>3. /\ j \in DOMAIN attrs /\ DOMAIN attrs = 1 .. Len(attrs) /\ Len(attrs) \in Nat
      /\ tuple[j] \in Cells
  BY <1>1, <1>2 DEF Shape
<1> DEFINE a == attrs[j]
           v == DecodeValue(ValType(a), IF Nullable(a) THEN at + 1 ELSE at)
<1>4. \/ /\ Nullable(a) /\ buf[at + 1] = 0 /\ Assign(j, FALSE, Unknown)
         /\ offset' = at + 1 /\ col' = j + 1 /\ phase' = phase
      \/ /\ ~(Nullable(a) /\ buf[at + 1] = 0) /\ Assign(j, TRUE, v)
         /\ offset' = at + encoded_length(a, Some(v)) /\ col' = j + 1 /\ phase' = phase
      \/ /\ ~(Nullable(a) /\ buf[at + 1] = 0) /\ out' = out
         /\ \/ ValType(a) \notin ValTypes
            \/ Runaway(ValType(a), IF Nullable(a) THEN at + 1 ELSE at)
  BY Zenon, <1>1, <1>2 DEF DecodeNull, DecodeColumn, DecodeFail, Decodes, ValueOffset
<1>5. Apart
  BY Zenon, <1>1, <1>3, <1>4, AssignCell, ApartBefore
<1>6. PICK offs : /\ Laid(offs, Len(attrs)) /\ offs[col] = offset
                  /\ \A i \in 1 .. col - 1 : Cell(i) = tuple[i]
  BY <1>1, <1>5, Zenon DEF DecodeInv
<1>7. /\ Placed(j, at) /\ at \in Nat
      /\ offs[j + 1] = at + encoded_length(a, tuple[j])
  <2>1. offs[j] = at /\ j \in 1 .. Len(attrs) /\ j \in Nat
    BY <1>2, <1>3, <1>6
  <2>2. /\ offs \in [Nat -> Nat] /\ Placed(j, offs[j])
        /\ offs[j + 1] = offs[j] + encoded_length(attrs[j], tuple[j])
    BY Zenon, <1>6, <2>1 DEF Laid
  <2>3. offs[j] \in Nat
    BY <2>1, <2>2, Zenon
  <2> QED
    BY <2>1, <2>2, <2>3, Zenon
<1>8. ASSUME tuple[j].exists
      PROVE  /\ Nullable(a) => buf[at + 1] = 1
             /\ ValType(a) \in ValTypes
             /\ ~Runaway(ValType(a), IF Nullable(a) THEN at + 1 ELSE at)
             /\ tuple[j] = Some(v)
  BY <1>3, <1>7, <1>8, CellStored, Zenon
<1>9. ASSUME ~tuple[j].exists
      PROVE  /\ Nullable(a) /\ buf[at + 1] = 0 /\ tuple[j] = Null
             /\ encoded_length(a, tuple[j]) = 1
  <2>1. NullCell(a, tuple[j])
    BY <1>3, <1>7, <1>9, Encodable, Zenon DEF Placed, IntCell, StringCell
  <2> QED
    BY <1>7, <1>9, <2>1, NullCode, Zenon DEF Placed, NullCell
<1>10. \/ /\ ~tuple[j].exists /\ Assign(j, FALSE, Unknown) /\ offset' = at + 1
          /\ col' = j + 1 /\ phase' = phase
       \/ /\ tuple[j].exists /\ Assign(j, TRUE, v) /\ col' = j + 1 /\ phase' = phase
          /\ offset' = at + encoded_length(a, Some(v))
  <2> HIDE DEF a, v
  <2>1. CASE tuple[j].exists
    <3>1. ~(Nullable(a) /\ buf[at + 1] = 0)
      BY <1>8, <2>1
    <3> QED
      BY Zenon, <1>4, <1>8, <2>1, <3>1
  <2>2. CASE ~tuple[j].exists
    BY Zenon, <1>4, <1>9, <2>2
  <2> QED
    BY Zenon, <2>1, <2>2
<1>11. /\ offset' = offs[j + 1] /\ col' = j + 1 /\ phase' = phase
       /\ Cell(j)' = tuple[j] /\ \A i \in DOMAIN attrs : i # j => Cell(i)' = Cell(i)
  <2> HIDE DEF a, v
  <2>1. ~Shared
    BY <1>5, Zenon DEF Apart
  <2>2. CASE tuple[j].exists
    BY Zenon, <1>1, <1>3, <1>7, <1>8, <1>10, <2>1, <2>2, AssignCell
  <2>3. CASE ~tuple[j].exists
    BY Zenon, <1>1, <1>3, <1>7, <1>9, <1>10, <2>1, <2>3, AssignCell
  <2> QED
    BY <2>2, <2>3, Zenon
<1>12. \A i \in 1 .. col' - 1 : Cell(i)' = tuple'[i]
  <2> SUFFICES ASSUME NEW i \in 1 .. j PROVE Cell(i)' = tuple[i]
    BY <1>1, <1>3, <1>11
  <2>1. CASE i = j
    BY <1>11, <2>1, Zenon
  <2>2. CASE i # j
    <3>1. i \in 1 .. col - 1 /\ i \in DOMAIN attrs
      BY <1>2, <1>3, <2>2
    <3> QED
      BY <1>6, <1>11, <2>2, <3>1, Zenon
  <2> QED
    BY <2>1, <2>2, Zenon
<1>13. Laid(offs, Len(attrs))'
  BY <1>1, <1>6, Zenon DEF Laid, Placed, Stored
<1> QED
  BY <1>1, <1>11, <1>12, <1>13, Zenon DEF DecodeInv

LEMMA DecodeInvStep ==
  ASSUME Shape, EncodeInv, DecodeInv, [Next]_vars
  PROVE  DecodeInv'
<1>1. CASE UNCHANGED vars
  <2> SUFFICES ASSUME phase' = "decode", part' = "encode", Apart'
               PROVE  \E offs : /\ Laid(offs, Len(attrs))' /\ offs[col'] = offset'
                                /\ \A i \in 1 .. col' - 1 : Cell(i)' = tuple'[i]
    BY Zenon DEF DecodeInv
  <2>1. /\ UNCHANGED <<attrs, tuple, part, as, fill, out, buf>>
        /\ UNCHANGED <<phase, col, offset, impls>>
    BY <1>1, Zenon DEF vars, schemaVars, codecVars
  <2>2. PICK offs : /\ Laid(offs, Len(attrs)) /\ offs[col] = offset
                    /\ \A i \in 1 .. col - 1 : Cell(i) = tuple[i]
    BY <2>1, ApartBefore, Zenon DEF DecodeInv
  <2>3. Laid(offs, Len(attrs))'
    BY <2>1, <2>2, Zenon DEF Laid, Placed, Stored
  <2>4. \A i : Cell(i)' = Cell(i)
    BY <2>1, Zenon DEF Cell
  <2> QED
    BY <2>1, <2>2, <2>3, <2>4, Zenon
<1>2. CASE EncodeEnd
  <2> SUFFICES ASSUME phase' = "decode", part' = "encode", Apart'
               PROVE  \E offs : /\ Laid(offs, Len(attrs))' /\ offs[col'] = offset'
                                /\ \A i \in 1 .. col' - 1 : Cell(i)' = tuple'[i]
    BY Zenon DEF DecodeInv
  <2>1. /\ UNCHANGED <<attrs, tuple, part, as, fill, out, buf>>
        /\ phase = "encode" /\ part = "encode" /\ col > Len(attrs)
        /\ col' = 1 /\ offset' = Len(Prefix)
    BY <1>2, Zenon DEF EncodeEnd, job, schemaVars, prefix_length
  <2>2. col - 1 = Len(attrs)
    BY <2>1 DEF Shape
  <2>3. PICK offs : Laid(offs, Len(attrs))
    BY <2>1, <2>2, ApartBefore, Zenon DEF EncodeInv
  <2>4. Laid(offs, Len(attrs))'
    BY <2>1, <2>3, Zenon DEF Laid, Placed, Stored
  <2>5. offs[col'] = offset' /\ 1 .. col' - 1 = {}
    BY <2>1, <2>3 DEF Laid
  <2> QED
    BY <2>4, <2>5, Zenon
<1>3. CASE DecodeNull \/ DecodeColumn \/ DecodeFail
  BY <1>3, DecodeStep, Zenon DEF DecodeInv
<1>4. CASE DeserializeCell
  BY <1>4, Zenon DEF DeserializeCell, DecodeInv, job
<1>5. ASSUME phase' = "decode",
             \/ SchemaNext \/ Begin \/ EncodeColumn \/ EncodeSkip \/ EncodeThrow
             \/ SerializeCell \/ DecodeEnd
      PROVE  FALSE
  BY <1>5, Zenon DEF SchemaNext, ReadName, ReadAttribute, ReadEnd, Begin, EncodeColumn,
     EncodeSkip, EncodeThrow, SerializeCell, DecodeEnd
<1> QED
  BY <1>1, <1>2, <1>3, <1>4, <1>5, Zenon DEF Next, DecodeInv

LEMMA DeserializeStep ==
  ASSUME Shape, SerialInv, DeserializeCell, Apart'
  PROVE  phase' = "decode" /\ col' = 2 /\ Cell(1)' = tuple'[1]
<1>1. /\ phase = "decode" /\ part = "serialize" /\ col = 1
      /\ UNCHANGED <<attrs, tuple, part, as, fill>>
  BY Zenon DEF DeserializeCell, job, schemaVars
<1>2. 1 \in DOMAIN attrs /\ tuple[1] \in Cells
  BY <1>1 DEF Shape
<1>3. \/ /\ buf[1] = 1 /\ ~Runaway(as, 1) /\ Assign(1, TRUE, DecodeValue(as, 1))
         /\ col' = 2 /\ phase' = phase
      \/ buf[1] = 1 /\ Runaway(as, 1) /\ UNCHANGED out
      \/ /\ buf[1] # 1 /\ out' = [out EXCEPT ![1].exists = FALSE]
         /\ col' = 2 /\ phase' = phase
  BY Zenon DEF DeserializeCell
<1>4. out \in [DOMAIN attrs -> [exists : BOOLEAN, impl : DOMAIN attrs]]
  BY <1>1, Zenon DEF Shape
<1>5. DOMAIN out' = DOMAIN out /\ \A i \in DOMAIN out : out'[i].impl = out[i].impl
  <2>1. CASE Assign(1, TRUE, DecodeValue(as, 1))
    BY Zenon, <1>1, <1>2, <2>1, AssignCell
  <2>2. CASE out' = [out EXCEPT ![1].exists = FALSE]
    BY <1>2, <1>4, <2>2
  <2> QED
    BY Zenon, <1>3, <2>1, <2>2
<1>6. Apart
  BY <1>1, <1>5, ApartBefore, Zenon
<1>7. Stored(0, serialize(tuple[1])) /\ (tuple[1].exists => as = tuple[1].value.val)
  BY Zenon, <1>1, <1>2, <1>6 DEF SerialInv, Apart, Kept
<1>8. CASE tuple[1].exists
  <2>1. /\ buf[1] = 1 /\ ~Runaway(as, 1) /\ tuple[1] = Some(DecodeValue(as, 1))
    BY Zenon, <1>2, <1>7, <1>8, SerialStored
  <2>2. Assign(1, TRUE, DecodeValue(as, 1)) /\ col' = 2 /\ phase' = phase
    BY Zenon, <1>3, <2>1
  <2>3. Cell(1)' = Some(DecodeValue(as, 1))
    BY Zenon, <1>1, <1>2, <2>2, AssignCell
  <2> QED
    BY Zenon, <1>1, <2>1, <2>2, <2>3
<1>9. CASE ~tuple[1].exists
  <2>1. buf[1] # 1 /\ tuple[1] = Null
    BY <1>2, <1>7, <1>9, SerialStored, Zenon
  <2>2. out' = [out EXCEPT ![1].exists = FALSE] /\ col' = 2 /\ phase' = phase
    BY Zenon, <1>3, <2>1
  <2>3. out'[1].exists = FALSE
    BY <1>2, <1>4, <2>2, Zenon
  <2>4. Cell(1)' = Null
    BY <2>3, Zenon DEF Cell
  <2> QED
    BY <1>1, <2>1, <2>2, <2>4, Zenon
<1> QED
  BY <1>8, <1>9, Zenon

LEMMA SerialStep ==
  ASSUME Shape, Fresh, SerialInv, [Next]_vars
  PROVE  SerialInv'
<1> SUFFICES ASSUME part' = "serialize", Apart', phase' \in {"encode", "decode"}
             PROVE  /\ phase' = "encode" /\ col' = 2 => Stored(0, serialize(tuple[1]))'
                    /\ phase' = "decode" /\ col' = 1 => Stored(0, serialize(tuple[1]))'
                    /\ phase' = "decode" /\ col' = 2 => Cell(1)' = tuple'[1]
  BY Zenon DEF SerialInv
<1>1. CASE UNCHANGED vars
  <2>1. /\ UNCHANGED <<attrs, tuple, part, as, fill, out, buf>>
        /\ UNCHANGED <<phase, col, impls>>
    BY <1>1, Zenon DEF vars, schemaVars, codecVars
  <2>2. Apart
    BY <2>1, ApartBefore, Zenon
  <2>3. Stored(0, serialize(tuple[1]))' <=> Stored(0, serialize(tuple[1]))
    BY <2>1, Zenon DEF Stored
  <2>4. Cell(1)' = Cell(1)
    BY <2>1, Zenon DEF Cell
  <2> QED
    BY <2>1, <2>2, <2>3, <2>4, Zenon DEF SerialInv
<1>2. CASE Begin
  BY <1>2 DEF Begin, Shape
<1>3. CASE SerializeCell
  <2>1. /\ offset = 0 /\ Write(serialize(tuple[1])) /\ UNCHANGED tuple /\ phase' = "encode"
    BY <1>3, Zenon DEF SerializeCell, Fresh, job
  <2>2. serialize(tuple[1]) \in Seq(Byte)
    <3>1. tuple[1] \in Cells
      BY <1>3 DEF SerializeCell, Shape
    <3> QED
      BY <3>1, SerialLength, Zenon
  <2> DEFINE b == serialize(tuple[1])
  <2>3. 0 + Len(b) <= Room /\ \A k \in 1 .. Len(b) : buf'[0 + k] = b[k]
    <3> HIDE DEF b
    <3>1. b \in Seq(Byte) /\ Write(b) /\ Room \in Nat
      BY <2>1, <2>2, CodecAssumption, Zenon DEF b
    <3>2. ASSUME NEW k \in 1 .. Len(b) PROVE buf'[0 + k] = b[k]
      <4>1. k \in 1 .. Room /\ k \in offset + 1 .. offset + Len(b) /\ k - offset = k /\ 0 + k = k
        BY <2>1, <3>1 DEF Write
      <4> QED
        BY <3>1, <4>1, Zenon DEF Write
    <3>3. 0 + Len(b) <= Room
      BY <2>1, <3>1, Zenon DEF Write
    <3> QED
      BY <3>2, <3>3, Zenon
  <2>4. Stored(0, serialize(tuple[1]))'
    BY <2>1, <2>3, Zenon DEF Stored
  <2> QED
    BY <2>1, <2>4, Zenon
<1>4. CASE EncodeEnd
  <2>1. /\ UNCHANGED <<attrs, tuple, part, as, fill, out, buf>>
        /\ phase = "encode" /\ col > Len(attrs) /\ col' = 1 /\ phase' = "decode"
    BY <1>4, Zenon DEF EncodeEnd, job, schemaVars
  <2>2. Apart /\ col = 2
    <3>1. Apart
      BY <2>1, ApartBefore, Zenon
    <3>2. Len(attrs) = 1 /\ col \in 1 .. Len(attrs) + 1
      BY <2>1, Zenon DEF Shape
    <3> QED
      BY <2>1, <3>1, <3>2
  <2>3. Stored(0, serialize(tuple[1]))
    BY <2>1, <2>2, Zenon DEF SerialInv
  <2>4. Stored(0, serialize(tuple[1]))'
    BY <2>1, <2>3, Zenon DEF Stored
  <2> QED
    BY <2>1, <2>4
<1>5. CASE DeserializeCell
  BY <1>5, DeserializeStep
<1>6. CASE EncodeColumn
  BY <1>6, Selects, Zenon DEF EncodeColumn, job
<1>7. CASE EncodeSkip
  BY <1>7, Zenon DEF EncodeSkip, job
<1>8. CASE SchemaNext \/ EncodeThrow \/ DecodeEnd
  BY <1>8, Zenon DEF SchemaNext, ReadName, ReadAttribute, ReadEnd, EncodeThrow, DecodeEnd
<1>9. CASE DecodeNull \/ DecodeColumn \/ DecodeFail
  BY Zenon, <1>9 DEF DecodeNull, DecodeColumn, DecodeFail, Decodes, job
<1> QED
  BY <1>1, <1>2, <1>3, <1>4, <1>5, <1>6, <1>7, <1>8, <1>9, Zenon DEF Next

LEMMA RoundTripStep ==
  ASSUME Shape, DecodeInv, SerialInv, RoundTrip, [Next]_vars
  PROVE  RoundTrip'
<1> SUFFICES ASSUME phase' \in {"decoded", "undefined"}, Apart'
             PROVE  phase' = "decoded" /\ \A i \in DOMAIN attrs' : Cell(i)' = tuple'[i]
  BY Zenon DEF RoundTrip, Apart
<1>1. CASE UNCHANGED vars
  <2>1. UNCHANGED <<attrs, tuple, part, as, fill, out>> /\ UNCHANGED <<phase, impls>>
    BY <1>1, Zenon DEF vars, schemaVars, codecVars
  <2>2. Apart
    BY <2>1, ApartBefore, Zenon
  <2>3. \A i : Cell(i)' = Cell(i)
    BY <2>1, Zenon DEF Cell
  <2> QED
    BY <2>1, <2>2, <2>3, Zenon DEF RoundTrip, Apart
<1>2. CASE DecodeEnd
  <2>1. /\ UNCHANGED <<attrs, tuple, part, as, fill, out>> /\ UNCHANGED impls
        /\ phase = "decode" /\ phase' = "decoded" /\ col > Len(attrs)
    BY <1>2, Zenon DEF DecodeEnd, job, schemaVars
  <2>2. Apart
    BY <2>1, ApartBefore, Zenon
  <2>3. \A i : Cell(i)' = Cell(i)
    BY <2>1, Zenon DEF Cell
  <2>4. /\ part \in {"encode", "serialize"} /\ (part = "serialize" => Len(attrs) = 1)
        /\ col = Len(attrs) + 1 /\ Len(attrs) \in Nat /\ DOMAIN attrs = 1 .. Len(attrs)
    BY <2>1 DEF Shape
  <2>5. CASE part = "encode"
    <3>1. \A i \in 1 .. col - 1 : Cell(i) = tuple[i]
      BY <2>1, <2>2, <2>5, Zenon DEF DecodeInv
    <3> QED
      BY <2>1, <2>3, <2>4, <3>1
  <2>6. CASE part = "serialize"
    <3>1. PICK l : l = Len(attrs)
      BY Zenon
    <3>2. l = 1 /\ col = l + 1 /\ DOMAIN attrs = 1 .. l
      BY <2>4, <2>6, <3>1, Zenon
    <3>3. col = 2 /\ DOMAIN attrs = {1}
      BY ONLY <3>2
    <3>4. Cell(1) = tuple[1]
      BY <2>1, <2>2, <2>6, <3>3, Zenon DEF SerialInv
    <3> QED
      BY <2>1, <2>3, <3>3, <3>4, Zenon
  <2> QED
    BY <2>4, <2>5, <2>6, Zenon
<1>3. CASE DecodeNull \/ DecodeColumn \/ DecodeFail
  BY <1>3, DecodeStep, Zenon
<1>4. CASE DeserializeCell
  BY <1>4, DeserializeStep, Zenon
<1>5. ASSUME \/ SchemaNext \/ Begin \/ EncodeColumn \/ EncodeSkip \/ EncodeThrow
             \/ SerializeCell \/ EncodeEnd
      PROVE  FALSE
  BY <1>5, Zenon DEF SchemaNext, ReadName, ReadAttribute, ReadEnd, Begin, EncodeColumn,
     EncodeSkip, EncodeThrow, SerializeCell, EncodeEnd
<1> QED
  BY <1>1, <1>2, <1>3, <1>4, <1>5, Zenon DEF Next

-----------------------------------------------------------------------------
(* Theorems *)

CodecInv ==
  /\ Shape /\ Fresh /\ EncodeInv /\ DecodeInv /\ SerialInv
  /\ WithinLength /\ RoundTrip

LEMMA CodecInvariant == Spec => []CodecInv
<1>1. Init => CodecInv
  BY DEF Init, SchemaInit, CodecInv, Shape, Fresh, EncodeInv, DecodeInv, SerialInv,
     WithinLength, RoundTrip
<1>2. CodecInv /\ [Next]_vars => CodecInv'
  BY ShapeStep, FreshStep, EncodeInvStep, DecodeInvStep, SerialStep, WithinStep,
     RoundTripStep, Zenon DEF CodecInv
<1> QED
  BY <1>1, <1>2, PTL DEF Spec

\* For every schema, tuple and buffer, Schema::encode, encode_key, encode_value
\* and MaybeValue::serialize write no byte past the length that
\* encoded_length or serialized_length counted for the columns so far, but for
\* the size_t in front of one string.
THEOREM EncodesWithinLength == Spec => []WithinLength
  BY CodecInvariant, PTL DEF CodecInv

\* For every schema, tuple and buffer that meet its conditions, Schema::decode
\* gives back the tuple that Schema::encode was given, and
\* MaybeValue::deserialize the cell that was serialized; neither reads past
\* what was written.
THEOREM DecodesWhatWasEncoded == Spec => []RoundTrip
  BY CodecInvariant, PTL DEF CodecInv

-----------------------------------------------------------------------------
(* Reading a schema back *)

\* Every schema can be found in its text.
TextsRead == \A s \in Schemas : \E g : ReadAs(s, SchemaText(s), g)

\* Names that are free of the characters that end them.
Plain(s) ==
  /\ ":" \notin Items(s.name)
  /\ \A i \in 1 .. Len(s.attrs) : Blank \notin Items(s.attrs[i].name)

\* The first k attributes have been read.
Progress(s, t, p, as_) ==
  \E g : ReadAs(s, t, g) /\ \E k \in 0 .. Len(s.attrs) :
           p = g[k] + 1 /\ as_ = SubSeq(s.attrs, 1, k)

NamesCut(as_) == \A i \in 1 .. Len(as_) : Blank \notin Items(as_[i].name)

\* While the text is read; what has been read has the names that end it cut.
Reading ==
  /\ source \in Schemas /\ text = SchemaText(source) /\ pos \in Nat
  /\ \E S : attrs \in Seq(S)
  /\ phase = "read_name" => pos = 1 /\ attrs = << >>
  /\ phase # "read_name" => ":" \notin Items(name)
  /\ NamesCut(attrs)
  /\ Plain(source) /\ phase = "read" =>
       name = source.name /\ Progress(source, text, pos, attrs)
  /\ Plain(source) /\ phase \notin {"read_name", "read"} =>
       name = source.name /\ attrs = source.attrs

LEMMA ReadingInit ==
  ASSUME SchemaInit
  PROVE  Reading
<1>1. /\ source \in Schemas /\ text = SchemaText(source) /\ pos = 1 /\ attrs = << >>
      /\ phase = "read_name"
  BY Zenon DEF SchemaInit
<1>2. attrs \in Seq({}) /\ pos \in Nat /\ 1 .. Len(attrs) = {}
  BY ONLY <1>1
<1>3. NamesCut(attrs)
  BY <1>2, Zenon DEF NamesCut
<1>4. phase \notin {"read"} /\ phase = "read_name"
  BY ONLY <1>1, Zenon
<1> QED BY <1>1, <1>2, <1>3, <1>4, Zenon DEF Reading

LEMMA NameRead ==
  ASSUME TextsRead, Reading, ReadName
  PROVE  Reading'
<1>1. /\ source \in Schemas /\ text = SchemaText(source) /\ phase = "read_name"
      /\ source' = source /\ text' = text /\ attrs' = attrs /\ phase' = "read"
  BY Zenon DEF Reading, ReadName
<1>2. pos = 1 /\ attrs = << >> /\ NamesCut(attrs) /\ \E S : attrs \in Seq(S)
  BY <1>1, Zenon DEF Reading
<1>3. PICK g : ReadAs(source, text, g)
  BY <1>1, Zenon DEF TextsRead
<1>4. PICK colon : colon = FindIn(text, {":"}, 1)
  BY Zenon
<1>5. name' = SubSeq(text, 1, colon - 1) /\ pos' = colon + 1
  BY <1>2, <1>4, Zenon DEF ReadName
<1>6. colon \in Nat /\ ":" \notin Items(name')
  BY <1>3, <1>4, <1>5, Zenon DEF ReadAs
<1>7. pos' \in Nat
  BY ONLY <1>5, <1>6
<1>8. ASSUME Plain(source)
      PROVE  name' = source.name /\ Progress(source, text, pos', attrs)
  <2>1. colon = g[0] /\ SubSeq(text, 1, g[0] - 1) = source.name
    BY <1>3, <1>4, <1>8, Zenon DEF ReadAs, Plain
  <2>2. Len(source.attrs) \in Nat
    BY <1>3, Zenon DEF ReadAs
  <2>3. PICK z, n : z = source.attrs /\ n = Len(z) /\ n \in Nat
    BY <2>2, Zenon
  <2>4. 0 \in 0 .. n
    BY ONLY <2>3
  <2>5. SubSeq(z, 1, 0) = << >>
    OBVIOUS
  <2>6. attrs = SubSeq(source.attrs, 1, 0)
    BY <1>2, <2>3, <2>5, Zenon
  <2>7. pos' = g[0] + 1 /\ name' = source.name
    BY <1>5, <2>1, Zenon
  <2> QED BY <1>3, <2>3, <2>4, <2>6, <2>7, Zenon DEF Progress
<1>9. phase' # "read_name" /\ phase' \in {"read_name", "read"}
  BY ONLY <1>1, Zenon
<1> QED BY <1>1, <1>2, <1>6, <1>7, <1>8, <1>9, Zenon DEF Reading

LEMMA OneMore ==
  ASSUME NEW S, NEW z \in Seq(S), NEW k \in Nat, k + 1 <= Len(z)
  PROVE  Append(SubSeq(z, 1, k), z[k + 1]) = SubSeq(z, 1, k + 1)
<1>1. PICK u, v, w, e : /\ u = SubSeq(z, 1, k) /\ e = z[k + 1] /\ v = Append(u, e)
                        /\ w = SubSeq(z, 1, k + 1)
  BY Zenon
<1>2. e \in S /\ Len(z) \in Nat /\ k <= Len(z)
  BY <1>1
<1>3. u \in Seq(S) /\ Len(u) = k /\ \A i \in 1 .. k : u[i] = z[i]
  BY <1>1, <1>2
<1>4. v \in Seq(S) /\ Len(v) = k + 1 /\ v[k + 1] = e /\ \A i \in 1 .. k : v[i] = u[i]
  BY <1>1, <1>2, <1>3
<1>5. w \in Seq(S) /\ Len(w) = k + 1 /\ \A i \in 1 .. k + 1 : w[i] = z[i]
  BY <1>1, <1>2
<1>6. ASSUME NEW i \in 1 .. k + 1 PROVE v[i] = w[i]
  BY <1>1, <1>3, <1>4, <1>5
<1> QED BY <1>1, <1>4, <1>5, <1>6

LEMMA AttributeRead ==
  ASSUME TextsRead, Reading, ReadAttribute
  PROVE  Reading'
<1>1. /\ source \in Schemas /\ text = SchemaText(source) /\ pos \in Nat
      /\ phase = "read" /\ pos <= Len(text) /\ NamesCut(attrs)
      /\ source' = source /\ text' = text /\ name' = name
  BY Zenon DEF Reading, ReadAttribute
<1>2. phase # "read_name" /\ phase \in {"read_name", "read"}
  BY ONLY <1>1, Zenon
<1>3. ":" \notin Items(name)
  BY <1>2, Zenon DEF Reading
<1>4. PICK f, a : f = Fields(text, pos) /\ a = AttributeOf(f)
  BY Zenon
<1>5. f.close \in Nat /\ Blank \notin Items(f.name)
  <2>1. PICK h : ReadAs(source, text, h)
    BY <1>1, Zenon DEF TextsRead
  <2> QED BY <1>1, <1>4, <2>1, Zenon DEF ReadAs
<1>6. pos' = f.close + 1
  BY <1>4, Zenon DEF ReadAttribute
<1>7. pos' \in Nat
  BY ONLY <1>5, <1>6
<1>8. PICK S : attrs \in Seq(S)
  BY Zenon DEF Reading
<1>9. \/ Readable(text, f) /\ attrs' = Append(attrs, a) /\ phase' = "read"
      \/ ~Readable(text, f) /\ attrs' = attrs /\ phase' = "error"
  BY <1>1, <1>4, Zenon DEF ReadAttribute
<1>10. (\E R : attrs' \in Seq(R)) /\ NamesCut(attrs')
  <2>1. CASE attrs' = attrs
    BY <1>1, <1>8, <2>1, Zenon
  <2>2. CASE attrs' = Append(attrs, a)
    <3>1. PICK x, y, l : x = attrs /\ y = Append(x, a) /\ l = Len(x)
      BY Zenon
    <3>2. PICK R : x \in Seq(R) /\ a \in R
      <4>1. x \in Seq(S)
        BY <1>8, <3>1, Zenon
      <4>2. x \in Seq(S \cup {a}) /\ a \in S \cup {a}
        BY ONLY <4>1
      <4> QED BY <4>2, Zenon
    <3>3. /\ y \in Seq(R) /\ Len(y) = l + 1 /\ l \in Nat /\ y[l + 1] = a
          /\ \A i \in 1 .. l : y[i] = x[i]
      BY ONLY <3>1, <3>2
    <3>4. a.name = f.name
      BY <1>4, Zenon DEF AttributeOf
    <3>5. ASSUME NEW i \in 1 .. Len(y) PROVE Blank \notin Items(y[i].name)
      <4>1. CASE i = l + 1
        BY <1>5, <3>3, <3>4, <4>1, Zenon
      <4>2. CASE i # l + 1
        <5>1. i \in 1 .. l + 1
          BY <3>3, <3>5, Zenon
        <5>2. i \in 1 .. l
          BY ONLY <3>3, <4>2, <5>1
        <5> QED BY <1>1, <3>1, <3>3, <5>2, Zenon DEF NamesCut
      <4> QED BY <4>1, <4>2, Zenon
    <3> QED BY <2>2, <3>1, <3>3, <3>5, Zenon DEF NamesCut
  <2> QED BY <1>9, <2>1, <2>2, Zenon
<1>11. ASSUME Plain(source)
       PROVE  /\ name = source.name /\ phase' = "read"
              /\ Progress(source, text, pos', attrs')
  <2>1. name = source.name /\ Progress(source, text, pos, attrs)
    BY <1>1, <1>11, Zenon DEF Reading
  <2>2. PICK g : ReadAs(source, text, g) /\ \E k \in 0 .. Len(source.attrs) :
          pos = g[k] + 1 /\ attrs = SubSeq(source.attrs, 1, k)
    BY <2>1, Zenon DEF Progress
  <2>3. PICK z, n, l : z = source.attrs /\ n = Len(z) /\ l = Len(text)
    BY Zenon
  <2>4. PICK k \in 0 .. n : pos = g[k] + 1 /\ attrs = SubSeq(z, 1, k)
    BY <2>2, <2>3, Zenon
  <2>5. n \in Nat /\ l \in Nat /\ g \in [0 .. n -> Nat] /\ g[n] = l
    BY <2>2, <2>3, Zenon DEF ReadAs
  <2>6. g[k] \in Nat /\ pos <= l
    BY <1>1, <2>3, <2>4, <2>5, Zenon
  <2>7. k < n
    BY ONLY <2>4, <2>5, <2>6
  <2>8. k \in Nat /\ k + 1 \in 1 .. n /\ k + 1 \in 0 .. n /\ (k + 1) - 1 = k /\ k + 1 <= n
    BY ONLY k \in 0 .. n, <2>5, <2>7
  <2>9. PICK c : c = z[k + 1]
    BY Zenon
  <2>10. AttributeAt(text, g[k] + 1, c, g[k + 1])
    <3>1. Blank \notin Items(z[k + 1].name)
      BY <1>11, <2>3, <2>8, Zenon DEF Plain
    <3>2. AttributeAt(text, g[(k + 1) - 1] + 1, z[k + 1], g[k + 1])
      BY <2>2, <2>3, <2>8, <3>1, Zenon DEF ReadAs
    <3> QED BY <2>8, <2>9, <3>2, Zenon
  <2>11. Readable(text, f) /\ a = c /\ f.close = g[k + 1]
    BY <1>4, <2>4, <2>10, Zenon DEF AttributeAt
  <2>12. attrs' = Append(attrs, c) /\ phase' = "read" /\ pos' = g[k + 1] + 1
    BY <1>6, <1>9, <2>11, Zenon
  <2>13. z \in Seq(Attribute)
    BY <1>1, <2>3, SchemaAssumption, Zenon
  <2>14. Append(SubSeq(z, 1, k), z[k + 1]) = SubSeq(z, 1, k + 1)
    BY ONLY <2>3, <2>8, <2>13, OneMore, Zenon
  <2>15. attrs' = SubSeq(source.attrs, 1, k + 1) /\ k + 1 \in 0 .. Len(source.attrs)
    BY <2>3, <2>4, <2>8, <2>9, <2>12, <2>14, Zenon
  <2> QED BY <2>1, <2>2, <2>12, <2>15, Zenon DEF Progress
<1>12. phase' # "read_name" /\ (Plain(source) => phase' \in {"read_name", "read"})
  <2>1. phase' = "read" \/ phase' = "error"
    BY <1>9, Zenon
  <2>2. phase' # "read_name"
    BY ONLY <2>1, Zenon
  <2> QED BY <1>11, <2>2, Zenon
<1>13. Plain(source') => Plain(source)
  BY <1>1, Zenon
<1> QED BY <1>1, <1>3, <1>7, <1>10, <1>11, <1>12, <1>13, Zenon DEF Reading

LEMMA ReadingEnds ==
  ASSUME Reading, ReadEnd
  PROVE  Reading'
<1>1. /\ source \in Schemas /\ text = SchemaText(source) /\ pos \in Nat
      /\ phase = "read" /\ pos > Len(text) /\ phase' = "schema"
      /\ source' = source /\ text' = text /\ pos' = pos /\ name' = name /\ attrs' = attrs
      /\ NamesCut(attrs) /\ \E S : attrs \in Seq(S)
  BY Zenon DEF Reading, ReadEnd, schemaVars
<1>2. phase # "read_name" /\ phase' # "read_name" /\ phase' # "read"
  BY ONLY <1>1, Zenon
<1>3. ":" \notin Items(name)
  BY <1>2, Zenon DEF Reading
<1>4. ASSUME Plain(source)
      PROVE  name = source.name /\ attrs = source.attrs
  <2>1. name = source.name /\ Progress(source, text, pos, attrs)
    BY <1>1, <1>4, Zenon DEF Reading
  <2>2. PICK g : ReadAs(source, text, g) /\ \E k \in 0 .. Len(source.attrs) :
          pos = g[k] + 1 /\ attrs = SubSeq(source.attrs, 1, k)
    BY <2>1, Zenon DEF Progress
  <2>3. PICK z, n, l : z = source.attrs /\ n = Len(z) /\ l = Len(text)
    BY Zenon
  <2>4. PICK k \in 0 .. n : pos = g[k] + 1 /\ attrs = SubSeq(z, 1, k)
    BY <2>2, <2>3, Zenon
  <2>5. n \in Nat /\ l \in Nat /\ g \in [0 .. n -> Nat]
    BY <2>2, <2>3, Zenon DEF ReadAs
  <2>6. CASE k = n
    <3>1. z \in Seq(Attribute)
      BY <1>1, <2>3, SchemaAssumption, Zenon
    <3>2. SubSeq(z, 1, n) = z
      BY ONLY <2>3, <3>1
    <3> QED BY <2>1, <2>3, <2>4, <2>6, <3>2, Zenon
  <2>7. CASE k # n
    <3>1. k + 1 \in 1 .. n /\ k + 1 \in 0 .. n /\ (k + 1) - 1 = k
      BY ONLY k \in 0 .. n, <2>5, <2>7
    <3>2. PICK p, q : p = g[k] /\ q = g[k + 1]
      BY Zenon
    <3>3. Blank \notin Items(z[k + 1].name)
      BY <1>4, <2>3, <3>1, Zenon DEF Plain
    <3>4. p < q /\ AttributeAt(text, p + 1, z[k + 1], q)
      BY <2>2, <2>3, <3>1, <3>2, <3>3, Zenon DEF ReadAs
    <3>5. q <= l
      BY <2>3, <3>4, Zenon DEF AttributeAt, Readable
    <3>6. p \in Nat /\ q \in Nat /\ pos = p + 1 /\ pos > l
      BY <1>1, <2>3, <2>4, <2>5, <3>1, <3>2, Zenon
    <3> QED BY ONLY <2>5, <3>4, <3>5, <3>6
  <2> QED BY <2>6, <2>7, Zenon
<1>5. Plain(source') => Plain(source)
  BY <1>1, Zenon
<1> QED BY <1>1, <1>2, <1>3, <1>4, <1>5, Zenon DEF Reading

\* What has been read of a schema with such names is that schema; and what has
\* been read has such names.
LEMMA ReadsBackWhenRead ==
  ASSUME Reading
  PROVE  SchemaReadsBack
<1> SUFFICES ASSUME phase \notin {"read_name", "read"}
             PROVE  name = source.name /\ attrs = source.attrs
                      <=> /\ ":" \notin Items(source.name)
                          /\ \A i \in DOMAIN source.attrs :
                               Blank \notin Items(source.attrs[i].name)
  BY Zenon DEF SchemaReadsBack
<1>1. source.attrs \in Seq(Attribute)
  BY SchemaAssumption, Zenon DEF Reading
<1>2. DOMAIN source.attrs = 1 .. Len(source.attrs)
  BY ONLY <1>1
<1>3. ASSUME name = source.name, attrs = source.attrs PROVE Plain(source)
  BY <1>3, Zenon DEF Reading, NamesCut, Plain
<1>4. ASSUME Plain(source) PROVE name = source.name /\ attrs = source.attrs
  BY <1>4, Zenon DEF Reading
<1>5. Plain(source) <=> /\ ":" \notin Items(source.name)
                        /\ \A i \in DOMAIN source.attrs :
                             Blank \notin Items(source.attrs[i].name)
  BY <1>2, Zenon DEF Plain
<1> QED BY <1>3, <1>4, <1>5, Zenon

LEMMA ReadingStep ==
  ASSUME TextsRead, Reading, [Next]_vars
  PROVE  Reading'
<1>1. CASE ReadName
  BY <1>1, NameRead, Zenon
<1>2. CASE ReadAttribute
  BY <1>2, AttributeRead, Zenon
<1>3. CASE ReadEnd
  BY <1>3, ReadingEnds, Zenon
<1>4. CASE UNCHANGED vars
  BY <1>4, Zenon DEF vars, schemaVars, Reading
<1>5. CASE \/ Begin \/ EncodeColumn \/ EncodeSkip \/ EncodeThrow \/ SerializeCell
           \/ EncodeEnd \/ DecodeNull \/ DecodeColumn \/ DecodeFail \/ DeserializeCell
           \/ DecodeEnd
  <2>1. /\ UNCHANGED <<source, text, pos, name, attrs>>
        /\ phase \notin {"read_name", "read"} /\ phase' \notin {"read_name", "read"}
    BY <1>5, Zenon DEF Begin, EncodeColumn, EncodeSkip, EncodeThrow, SerializeCell, EncodeEnd,
       DecodeNull, DecodeColumn, DecodeFail, Decodes, DeserializeCell, DecodeEnd, job,
       schemaVars
  <2> QED BY <2>1, Zenon DEF Reading
<1> QED
  BY <1>1, <1>2, <1>3, <1>4, <1>5, Zenon DEF Next, SchemaNext

LEMMA ReadingFirst == Init => Reading
  BY ReadingInit, Zenon DEF Init

-----------------------------------------------------------------------------
(* The facts about texts, for the names of this module *)

R == INSTANCE DataProofs

LEMMA TextsRight == TextsRead
<1>1. R!Words
  BY SchemaAssumption, Zenon DEF R!Words, R!Items, Items
<1>2. \A s : R!SchemaText(s) = SchemaText(s)
  BY Zenon DEF R!SchemaText, SchemaText, R!Concat, Concat, R!AttributeText, AttributeText,
     R!AttrTypeText, AttrTypeText, R!Digits, Digits, R!Digit, Digit, R!Blank, Blank,
     R!TypeNumber, TypeNumber, R!AttrTypes, AttrTypes, R!PropertyNumber, PropertyNumber,
     R!Bit, Bit
<1>3. R!Attribute = Attribute
  BY Zenon DEF R!Attribute, Attribute, R!Items, Items, R!AttrTypes, AttrTypes
<1>4. \A t, p : R!Fields(t, p) = Fields(t, p)
  <2>1. \A u, C, i : R!FindIn(u, C, i) = FindIn(u, C, i)
    BY Zenon DEF R!FindIn, FindIn, R!Lowest, Lowest
  <2>2. R!Blank = Blank
    BY Zenon DEF R!Blank, Blank
  <2>3. ASSUME NEW t, NEW p PROVE R!Fields(t, p) = Fields(t, p)
    <3>1. PICK o, b, c, d, e, f :
            /\ o = FindIn(t, {"("}, p) /\ b = FindIn(t, {Blank}, o + 1)
            /\ c = FindIn(t, {"("}, b + 1) /\ d = FindIn(t, {Blank}, c + 1)
            /\ e = FindIn(t, {")"}, d + 1) /\ f = FindIn(t, {")"}, e + 1)
      BY Zenon
    <3>2. Fields(t, p) =
            [name |-> SubSeq(t, o + 1, b - 1), type |-> SubSeq(t, c + 1, d - 1),
             param |-> SubSeq(t, d + 1, e - 1), property |-> SubSeq(t, e + 1, f - 1),
             close |-> f]
      BY <3>1, Zenon DEF Fields
    <3>3. /\ o = R!FindIn(t, {"("}, p) /\ b = R!FindIn(t, {R!Blank}, o + 1)
          /\ c = R!FindIn(t, {"("}, b + 1) /\ d = R!FindIn(t, {R!Blank}, c + 1)
          /\ e = R!FindIn(t, {")"}, d + 1) /\ f = R!FindIn(t, {")"}, e + 1)
      BY <2>1, <2>2, <3>1, Zenon
    <3>4. R!Fields(t, p) =
            [name |-> SubSeq(t, o + 1, b - 1), type |-> SubSeq(t, c + 1, d - 1),
             param |-> SubSeq(t, d + 1, e - 1), property |-> SubSeq(t, e + 1, f - 1),
             close |-> f]
      BY <3>3, Zenon DEF R!Fields
    <3> QED BY <3>2, <3>4, Zenon
  <2> QED BY <2>3, Zenon
<1>5. \A f : R!AttributeOf(f) = AttributeOf(f)
  <2>1. \A u : R!Number(u) = Number(u)
    BY Zenon DEF R!Number, Number, R!Numeral, Numeral, R!FindIn, FindIn, R!Lowest, Lowest,
       R!Items, Items, R!Digit, Digit, R!Blank, Blank
  <2>2. R!AttrTypes = AttrTypes
    BY Zenon DEF R!AttrTypes, AttrTypes
  <2>3. \A n : R!PropertyOf(n) = PropertyOf(n)
    BY Zenon DEF R!PropertyOf, PropertyOf, R!Bit, Bit
  <2> QED BY <2>1, <2>2, <2>3, Zenon DEF R!AttributeOf, AttributeOf
<1>6. \A t, f : R!Readable(t, f) = Readable(t, f)
  BY Zenon DEF R!Readable, Readable, R!Numeral, Numeral, R!FindIn, FindIn,
     R!Lowest, Lowest, R!Items, Items, R!Digit, Digit, R!Blank, Blank
<1>7. ASSUME NEW s, NEW t, NEW g, R!ReadAs(s, t, g) PROVE ReadAs(s, t, g)
  <2>1. \A u, p, a, e : R!AttributeAt(u, p, a, e) = AttributeAt(u, p, a, e)
    BY <1>4, <1>5, <1>6, Zenon DEF R!AttributeAt, AttributeAt
  <2>2. \A u, C, i : R!FindIn(u, C, i) = FindIn(u, C, i)
    BY Zenon DEF R!FindIn, FindIn, R!Lowest, Lowest
  <2>3. (\A u : R!Items(u) = Items(u)) /\ R!Blank = Blank
    BY Zenon DEF R!Items, Items, R!Blank, Blank
  <2> QED BY <1>4, <1>7, <2>1, <2>2, <2>3, Zenon DEF R!ReadAs, ReadAs
<1>8. ASSUME NEW s \in Schemas PROVE \E g : ReadAs(s, SchemaText(s), g)
  <2>1. s.name \in Names /\ s.attrs \in Seq(R!Attribute)
    BY <1>3, SchemaAssumption, Zenon
  <2>2. \E g : R!ReadAs(s, R!SchemaText(s), g)
    BY <1>1, <2>1, R!TextRead, Zenon
  <2> QED BY <1>2, <1>7, <2>2, Zenon
<1> QED BY <1>8, Zenon DEF TextsRead

\* For every set of names and schemas, of any number of columns, what
\* Schema::deserialize reads from the text that Schema::serialize wrote is that
\* schema exactly when no name in it has the character that ends it.
THEOREM SchemasReadBack == Spec => []SchemaReadsBack
<1>1. Init => Reading
  BY ReadingFirst, Zenon
<1>2. Reading /\ [Next]_vars => Reading'
  BY ReadingStep, TextsRight, Zenon
<1>3. Reading => SchemaReadsBack
  BY ReadsBackWhenRead, Zenon
<1> QED
  BY <1>1, <1>2, <1>3, PTL DEF Spec
=============================================================================
