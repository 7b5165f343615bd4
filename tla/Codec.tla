------------------------------- MODULE Codec -------------------------------
(***************************************************************************)
(* The codec of Schema, Attribute and AttrType: a tuple of MaybeValues is  *)
(* encoded column by column into a buffer (encode, encode_key and          *)
(* encode_value of Schema) and decoded from it (decode).  Every column     *)
(* advances the offset by its encoded_length, which the caller has also    *)
(* used to size the buffer.                                                *)
(*                                                                         *)
(* A Value is a handle: copies of it share one ValueImpl, and assigning to *)
(* any of them assigns to that, so the tuple decoded into may hold several *)
(* MaybeValues with one implementation.                                    *)
(*                                                                         *)
(* The schema is one that get_schema has read back from its text.  The     *)
(* operation "serialize" is that of MaybeValue and Value, which write a    *)
(* single cell without a schema.                                           *)
(*                                                                         *)
(* An integer is its 8 bytes.  A string is shorter than 256 bytes.         *)
(***************************************************************************)
EXTENDS SchemaText

CONSTANTS
  Ints,      \* integer values, as 8 bytes each
  Strings,   \* string values, as sequences of bytes
  Stale,     \* what the bytes of the buffer may be beforehand
  Prefix,    \* the table's name and ':'
  Room       \* bound: the bytes of the buffer, which what is encoded fits

Byte == 0 .. 255
SizeT == 8
Word == [1 .. SizeT -> Byte]

ASSUME CodecAssumption ==
  /\ Ints \subseteq Word
  /\ \A s \in Strings : s \in Seq(Byte) /\ Len(s) < 256
  /\ Stale \subseteq Byte
  /\ Prefix \in Seq(Byte)
  /\ Room \in Nat

IntValue(w) == [val |-> "INT", data |-> w]
Varchar(s) == [val |-> "VARCHAR", data |-> s]

\* A Value without a value: type UNKNOWN.
Unknown == [val |-> "UNKNOWN", data |-> << >>]

Null == [exists |-> FALSE, value |-> Unknown]
Some(v) == [exists |-> TRUE, value |-> v]

ValTypes == {"INT", "VARCHAR"}
Values == {IntValue(w) : w \in Ints} \cup {Varchar(s) : s \in Strings}
Cells == {Null} \cup {Some(v) : v \in Values}

VARIABLES
  tuple,     \* the tuple to encode
  part,      \* the operation
  as,        \* the type that a serialized cell is read as
  col,       \* the loop's i, counted from 1
  offset,    \* the loop's offset into the buffer
  extent,    \* the bytes up to the last one that was written
  fill,      \* what the buffer held beforehand
  buf,       \* the buffer
  impls,     \* the ValueImpls of the tuple decoded into
  out        \* that tuple: exists_, and which ValueImpl pimpl_ points to

job == <<schemaVars, tuple, part, as, fill>>
codecVars == <<tuple, part, as, fill, col, offset, extent, buf, impls, out>>
vars == <<schemaVars, phase, codecVars>>

Parts == {"encode", "encode_key", "encode_value", "serialize"}

-----------------------------------------------------------------------------
(* AttrType and Attribute *)

WordOf(n) == [k \in 1 .. SizeT |-> IF k = 1 THEN n ELSE 0]

is_key(a) == "KEY" \in a.property

\* The codec tests property_ == NULLABLE.
Nullable(a) == a.property = {"NULLABLE"}

\* The values of a column; there is no codec for the other types.
ValType(a) ==
  CASE a.type = "INTEGER" -> "INT" [] a.type = "STRING" -> "VARCHAR"
    [] OTHER -> "UNKNOWN"

\* A null in a column that is not nullable, or a value of another type.
Throws(a, c) == IF c.exists THEN c.value.val # ValType(a) ELSE ~Nullable(a)

\* Mutant: the length of a nullable value leaves out its flag.
encoded_lengthBare(a, c) ==
  CASE ~c.exists -> 1
    [] c.exists -> IF a.type = "INTEGER" THEN SizeT ELSE Len(c.value.data)

\* The length of a string does not count the size_t in front of it.
encoded_length(a, c) ==
  LET flag == IF Nullable(a) THEN 1 ELSE 0
  IN  CASE ~c.exists -> flag
        [] c.exists -> flag + (IF a.type = "INTEGER" THEN SizeT
                               ELSE Len(c.value.data))

\* The bytes that encode writes: none at all for a null.
encode(a, c) ==
  LET flag == IF Nullable(a) THEN <<1>> ELSE << >>
      data == c.value.data
  IN  CASE ~c.exists -> << >>
        [] c.exists /\ a.type = "INTEGER" -> flag \o data
        [] c.exists /\ a.type = "STRING" -> flag \o WordOf(Len(data)) \o data

\* MaybeValue::serialized_length and MaybeValue::serialize.
serialized_length(c) ==
  IF c.exists THEN 1 + Len(c.value.data) ELSE 1

serialize(c) ==
  CASE ~c.exists -> <<0>>
    [] c.exists /\ c.value.val = "INT" -> <<1>> \o c.value.data
    [] c.exists /\ c.value.val = "VARCHAR" ->
         <<1>> \o WordOf(Len(c.value.data)) \o c.value.data

Read(at, n) == [k \in 1 .. n |-> buf[at + k]]

\* A value whose length word is not that of a string within the buffer.
Runaway(val, at) ==
  /\ val = "VARCHAR"
  /\ \/ \E k \in 2 .. SizeT : buf[at + k] # 0
     \/ at + SizeT + buf[at + 1] > Room

\* AttrType::decode, Value::deserialize
DecodeValue(val, at) ==
  IF val = "INT" THEN IntValue(Read(at, SizeT))
  ELSE Varchar(Read(at + SizeT, buf[at + 1]))

-----------------------------------------------------------------------------
(* Schema *)

Selected(i) ==
  CASE part = "encode" -> TRUE
    [] part = "encode_key" -> is_key(attrs[i])
    [] part = "encode_value" -> ~is_key(attrs[i])
    [] part = "serialize" -> FALSE

prefix_length(p) == IF p \in {"encode", "encode_key"} THEN Len(Prefix) ELSE 0

Init ==
  /\ SchemaInit
  /\ tuple = << >> /\ part = "none" /\ as = "INT" /\ fill = 0
  /\ col = 1 /\ offset = 0 /\ extent = 0
  /\ buf = << >> /\ impls = << >> /\ out = << >>

\* With the schema that was read, a tuple is given, and the one to decode into
\* is either made of separate values or of copies of one.
Begin ==
  /\ phase = "schema" /\ phase' = "encode"
  /\ tuple' \in [DOMAIN attrs -> Cells]
  /\ part' \in IF Len(attrs) = 1 THEN Parts ELSE Parts \ {"serialize"}
  /\ as' \in IF part' = "serialize" THEN ValTypes ELSE {"INT"}
  /\ fill' \in Stale
  /\ offset' = prefix_length(part') /\ extent' = prefix_length(part')
  /\ buf' = [k \in 1 .. Room |->
               IF k <= prefix_length(part') THEN Prefix[k] ELSE fill']
  /\ impls' = [k \in DOMAIN attrs |-> Unknown]
  /\ \E share \in BOOLEAN :
       out' = [k \in DOMAIN attrs |->
                 [exists |-> FALSE, impl |-> IF share THEN 1 ELSE k]]
  /\ UNCHANGED <<schemaVars, col>>

Write(bytes) ==
  /\ offset + Len(bytes) <= Room
  /\ buf' = [k \in 1 .. Room |->
               IF k \in offset + 1 .. offset + Len(bytes)
               THEN bytes[k - offset] ELSE buf[k]]
  /\ extent' = IF bytes = << >> \/ offset + Len(bytes) < extent THEN extent
               ELSE offset + Len(bytes)

EncodeColumn ==
  /\ phase = "encode" /\ col <= Len(attrs) /\ Selected(col)
  /\ ~Throws(attrs[col], tuple[col])
  /\ Write(encode(attrs[col], tuple[col]))
  /\ offset' = offset + encoded_length(attrs[col], tuple[col]) /\ offset' <= Room
  /\ col' = col + 1
  /\ UNCHANGED <<job, phase, impls, out>>

EncodeSkip ==
  /\ phase = "encode" /\ col <= Len(attrs) /\ ~Selected(col)
  /\ part # "serialize"
  /\ col' = col + 1
  /\ UNCHANGED <<job, phase, offset, extent, buf, impls, out>>

\* The flag is written before the value is looked at.
EncodeThrow ==
  /\ phase = "encode" /\ col <= Len(attrs) /\ Selected(col)
  /\ Throws(attrs[col], tuple[col])
  /\ IF Nullable(attrs[col]) THEN Write(<<1>>) ELSE UNCHANGED <<extent, buf>>
  /\ phase' = "error"
  /\ UNCHANGED <<job, col, offset, impls, out>>

SerializeCell ==
  /\ phase = "encode" /\ part = "serialize" /\ col = 1
  /\ Write(serialize(tuple[1]))
  /\ offset' = serialized_length(tuple[1])
  /\ col' = 2
  /\ UNCHANGED <<job, phase, impls, out>>

\* What encode_key and encode_value wrote is not decoded.  decode does not
\* know of the prefix: the caller passes what follows it.
EncodeEnd ==
  /\ phase = "encode" /\ col > Len(attrs)
  /\ IF part \in {"encode", "serialize"}
     THEN phase' = "decode" /\ col' = 1 /\ offset' = prefix_length(part)
     ELSE phase' = "encoded" /\ UNCHANGED <<col, offset>>
  /\ UNCHANGED <<job, extent, buf, impls, out>>

\* MaybeValue's assignment and make_null, both of which assign to the
\* ValueImpl that the cell shares with its copies.
Assign(i, e, v) ==
  /\ out' = [out EXCEPT ![i] = [exists |-> e, impl |-> out[i].impl]]
  /\ impls' = [impls EXCEPT ![out[i].impl] = v]

\* What a cell of the tuple holds now.
Cell(i) == IF out[i].exists THEN Some(impls[out[i].impl]) ELSE Null

\* Whether AttrType::decode is called for the column, and from where.
Decodes ==
  /\ phase = "decode" /\ part = "encode" /\ col <= Len(attrs)
  /\ ~(Nullable(attrs[col]) /\ buf[offset + 1] = 0)

ValueOffset == IF Nullable(attrs[col]) THEN offset + 1 ELSE offset

DecodeNull ==
  /\ phase = "decode" /\ part = "encode" /\ col <= Len(attrs)
  /\ Nullable(attrs[col]) /\ buf[offset + 1] = 0
  /\ Assign(col, FALSE, Unknown)
  /\ offset' = offset + 1
  /\ col' = col + 1
  /\ UNCHANGED <<job, phase, extent, buf>>

\* Mutant: a nullable value is read from its flag on.
DecodeColumnFlag ==
  LET a == attrs[col]
      v == DecodeValue(ValType(a), offset)
  IN  /\ Decodes /\ ValType(a) \in ValTypes /\ ~Runaway(ValType(a), offset)
      /\ Assign(col, TRUE, v)
      /\ offset' = offset + encoded_length(a, Some(v))
      /\ col' = col + 1
      /\ UNCHANGED <<job, phase, extent, buf>>

DecodeColumn ==
  LET a == attrs[col]
      v == DecodeValue(ValType(a), ValueOffset)
  IN  /\ Decodes /\ ValType(a) \in ValTypes /\ ~Runaway(ValType(a), ValueOffset)
      /\ Assign(col, TRUE, v)
      /\ offset' = offset + encoded_length(a, Some(v))
      /\ col' = col + 1
      /\ UNCHANGED <<job, phase, extent, buf>>

\* The type has no codec; or the length read is not one that was written, and
\* the read leaves the buffer.
DecodeFail ==
  /\ Decodes
  /\ \/ ValType(attrs[col]) \notin ValTypes /\ phase' = "error"
     \/ Runaway(ValType(attrs[col]), ValueOffset) /\ phase' = "undefined"
  /\ UNCHANGED <<job, col, offset, extent, buf, impls, out>>

\* MaybeValue::deserialize: a null leaves the value as it is.
DeserializeCell ==
  /\ phase = "decode" /\ part = "serialize" /\ col = 1
  /\ \/ /\ buf[1] = 1 /\ ~Runaway(as, 1)
        /\ Assign(1, TRUE, DecodeValue(as, 1))
        /\ col' = 2 /\ phase' = phase
     \/ /\ buf[1] = 1 /\ Runaway(as, 1)
        /\ phase' = "undefined" /\ UNCHANGED <<col, impls, out>>
     \/ /\ buf[1] # 1
        /\ out' = [out EXCEPT ![1].exists = FALSE]
        /\ col' = 2 /\ UNCHANGED <<phase, impls>>
  /\ UNCHANGED <<job, offset, extent, buf>>

DecodeEnd ==
  /\ phase = "decode" /\ col > Len(attrs)
  /\ phase' = "decoded"
  /\ UNCHANGED <<job, col, offset, extent, buf, impls, out>>

Next ==
  \/ SchemaNext /\ UNCHANGED codecVars
  \/ Begin
  \/ EncodeColumn \/ EncodeSkip \/ EncodeThrow \/ SerializeCell \/ EncodeEnd
  \/ DecodeNull \/ DecodeColumn \/ DecodeFail \/ DeserializeCell \/ DecodeEnd

Spec == Init /\ [][Next]_vars

-----------------------------------------------------------------------------
(* Properties *)

HasString ==
  \E i \in DOMAIN attrs :
    \/ Selected(i) /\ attrs[i].type = "STRING"
    \/ part = "serialize" /\ tuple[i].value.val = "VARCHAR"

\* What is written for the cells so far stays within the bytes that
\* encoded_length (and with it key_length and value_length) or
\* serialized_length has counted for them, unless a string is among them; then
\* they overrun it by at most the size_t of a string's length
\* (AttrType::encoded_length, AttrType::encode, ValueImpl::serialized_length).
WithinLength ==
  phase = "encode" => extent <= offset + (IF HasString THEN SizeT ELSE 0)

Shared == \E i, j \in DOMAIN out : i # j /\ out[i].impl = out[j].impl

\* The cells that encode keeps apart: a string is the last column, and a null
\* is encoded over a byte that is 0 already; and a serialized cell that is
\* read as what it is.
Kept(i) ==
  IF part = "serialize"
  THEN tuple[i].exists => as = tuple[i].value.val
  ELSE /\ attrs[i].type = "STRING" /\ tuple[i].exists => i = Len(attrs)
       /\ ~tuple[i].exists => fill = 0

\* Decoding what was encoded gives the tuple back, when each cell of the
\* target has a value of its own, no column follows a string, and the buffer
\* was cleared if there are nulls; a serialized cell comes back whatever the
\* buffer held (Schema::encode, Schema::decode, MaybeValue::deserialize).
RoundTrip ==
  phase \in {"decoded", "undefined"} /\ ~Shared /\ (\A i \in DOMAIN attrs : Kept(i)) =>
    /\ phase = "decoded"
    /\ \A i \in DOMAIN attrs : Cell(i) = tuple[i]
=============================================================================
