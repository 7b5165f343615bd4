-------------------------------- MODULE Rows --------------------------------
(***************************************************************************)
(* The bytes of a row.  Define::alloca_stack makes the schema of a table   *)
(* of its columns; Insert::codegen moves the elements of a literal from    *)
(* tuple_stack_ to the key and the value of the stored row; Scan::codegen  *)
(* moves the columns from there to its row.  A byte is the number of the   *)
(* byte of tuple_stack_ it comes from; the key prefix is left out.         *)
(***************************************************************************)
EXTENDS Sums

Storable == {"INTEGER", "DOUBLE", "STRING"}

\* Mutant: the key columns come first.
SchemaOfKeysFirst(cols) ==
  SelectSeq(cols, LAMBDA c : c.id \in Storable /\ c.key)
    \o SelectSeq(cols, LAMBDA c : c.id \in Storable /\ ~c.key)

\* Define::alloca_stack: a column of any other type is left out.
SchemaOf(cols) ==
  Concat(Len(cols), [i \in 1 .. Len(cols) |->
                       IF cols[i].id \in Storable THEN <<cols[i]>> ELSE << >>])

W == 8  \* bytes of an int64_t

Bytes(first, n) == [b \in 1 .. n |-> first + b - 1]

\* Attribute::default_size; the parameter of a string is 0.
default_size(c) ==
  (IF c.id = "STRING" THEN 0 ELSE W) + (IF c.nullable THEN 1 ELSE 0)

\* The size of the first n columns, of those that are of the key or not.
SizeOf(schema, n, keys) ==
  Total(n, [i \in 1 .. n |->
              IF schema[i].key \in keys THEN default_size(schema[i]) ELSE 0])

\* Where Insert::codegen takes element i from.
InsertOffset(schema, i) == SizeOf(schema, i - 1, BOOLEAN)

\* The bytes of the key, or of the value, of a literal with n elements.
InsertBytes(schema, n, key) ==
  Concat(n, [i \in 1 .. n |->
               IF schema[i].key = key
               THEN Bytes(InsertOffset(schema, i), default_size(schema[i]))
               ELSE << >>])

\* Mutant: the columns of the key and of the value are not counted apart.
ScanOffsetAll(schema, i) == W * (i - 1)

\* Where Scan::codegen finds column i in the key or the value.
ScanOffset(schema, i) ==
  W * Total(i - 1, [j \in 1 .. i - 1 |->
                      IF schema[j].key = schema[i].key THEN 1 ELSE 0])

\* The bytes that a scan reads from a row as its column i, Stale where the row
\* is too short to set them.
Stale == -1
ScanBytes(schema, row, i) ==
  LET bytes == IF schema[i].key THEN row.key ELSE row.value
      at(b) == ScanOffset(schema, i) + b
  IN  [b \in 1 .. W |-> IF at(b) <= Len(bytes) THEN bytes[at(b)] ELSE Stale]

\* Mutant: the byte of a nullable column is not counted.
RoomBare(schema, key) == W * Len(SelectSeq(schema, LAMBDA c : c.key = key))

\* get_fixed_key_length, without the prefix and the byte after it, and
\* get_fixed_value_length.
Room(schema, key) == SizeOf(schema, Len(schema), {key})

\* Columns that a scan takes.
Integers64(schema) ==
  /\ Len(schema) \in Nat
  /\ \A j \in 1 .. Len(schema) :
       /\ schema[j].id = "INTEGER"
       /\ schema[j].key \in BOOLEAN /\ schema[j].nullable \in BOOLEAN

\* None of the first n columns is of the key when a nullable one above it is
\* not, or the other way round.
InStep(schema, n) ==
  \A j, l \in 1 .. n :
    j < l /\ schema[j].nullable => schema[j].key = schema[l].key
=============================================================================
