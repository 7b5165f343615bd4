----------------------------- MODULE TableStore -----------------------------
(***************************************************************************)
(* How tables are laid out in the one Masstree that holds them all.        *)
(*                                                                         *)
(* Insert::codegen splits a row of 64-bit integers into a key (the table's *)
(* name, ':', the key columns) and a value (the other columns);            *)
(* Scan::codegen opens a cursor over the keys from the table's prefix to   *)
(* the prefix with the last character of the name incremented, and loads   *)
(* every column back at a stride of 8 bytes.                               *)
(*                                                                         *)
(* Bytes are 0..255, and a value is the 8 bytes the generated code stores  *)
(* for it: no code between insert and scan interprets them.  Transactions  *)
(* and the cursor's progress are in Session; here an insert or a scan is   *)
(* one step.  A row literal longer than the schema indexes attrs_ beyond   *)
(* its end and is left out.                                                *)
(***************************************************************************)
EXTENDS Naturals, Sequences, FiniteSets

CONSTANTS
  Names,      \* table names, as sequences of character codes
  Attrs,      \* name -> the column lists it may be defined with
  Words,      \* values of columns
  Garbage,    \* what a read beyond a buffer's contents may return
  MaxTables,  \* bound: tables defined
  MaxRows     \* bound: records in the store

Byte == 0 .. 255
Colon == 58
IntSize == 8
Word == [1 .. IntSize -> Byte]
Column == [key : BOOLEAN, nullable : BOOLEAN]

\* A name is an identifier token: not empty and without ':', which the
\* tokenizer splits off; its last character can be incremented.
Identifier ==
  {n \in Seq(Byte) : /\ n # << >>
                     /\ \A i \in DOMAIN n : n[i] # Colon
                     /\ n[Len(n)] < 255}

ASSUME TableAssumption ==
  /\ \A n \in Names : n \in Identifier
  /\ \A n \in Names : \A a \in Attrs[n] : a \in Seq(Column)
  /\ Words \subseteq Word
  /\ Garbage \subseteq Byte
  /\ MaxTables \in Nat /\ MaxRows \in Nat

VARIABLES
  schemas,  \* the tables defined: name -> column list
  store,    \* records in the engine, each with the row it was made from
  scanned   \* the last scan: its table and the rows its body received

vars == <<schemas, store, scanned>>

-----------------------------------------------------------------------------
(* Schema *)

is_key(a, i) == a[i].key

\* Attribute::default_size of an integer column, as get_tuple_length.
get_tuple_length(a, i) == IF a[i].nullable THEN IntSize + 1 ELSE IntSize

get_key_prefix(n) == Append(n, Colon)

\* Mutant: the end of the range increments the first character.
key_prefix_endFirst(n) == [get_key_prefix(n) EXCEPT ![1] = @ + 1]

\* Mutant: the end of the range is the table's own prefix.
key_prefix_endSame(n) == get_key_prefix(n)

\* key_prefix_end[size - 2]++
key_prefix_end(n) == [get_key_prefix(n) EXCEPT ![Len(n)] = @ + 1]

-----------------------------------------------------------------------------
(* Keys in the engine, which compares them as strings of bytes *)

Less(s, t) ==
  \E m \in 0 .. Len(s) :
     /\ m < Len(t)
     /\ \A i \in 1 .. m : s[i] = t[i]
     /\ m = Len(s) \/ s[m + 1] < t[m + 1]

\* The cursor's range: its begin key inclusive, its end key exclusive.
InRange(n, k) ==
  ~Less(k, get_key_prefix(n)) /\ Less(k, key_prefix_end(n))

-----------------------------------------------------------------------------
(* Insert: the row as the bytes of tuple_stack_, copied column by column *)

\* The offset that get_tuple_length adds up to over the columns of S.
SizeOf(a, S) ==
  IntSize * Cardinality(S) + Cardinality({i \in S : a[i].nullable})

Before(i) == 1 .. (i - 1)
KeysOf(a, S) == {i \in S : is_key(a, i)}
ValuesOf(a, S) == {i \in S : ~is_key(a, i)}

\* A byte of tuple_stack_, which holds IntSize bytes per element.
Load(row, g, p) ==
  IF p \in 1 .. IntSize * Len(row)
    THEN row[((p - 1) \div IntSize) + 1][((p - 1) % IntSize) + 1]
    ELSE g

\* The columns of C copied one after the other.
Copy(a, row, g, C) ==
  [p \in 1 .. SizeOf(a, C) |->
    LET start(i) == SizeOf(a, C \cap Before(i))
        i == CHOOSE j \in C : p \in start(j) + 1 .. start(j) + get_tuple_length(a, j)
    IN  Load(row, g, SizeOf(a, Before(i)) + p - start(i))]

\* Mutant: the key is copied before the row is stored to tuple_stack_.
KeyBytesEarly(n, a, row, g) ==
  get_key_prefix(n) \o [p \in 1 .. SizeOf(a, KeysOf(a, DOMAIN row)) |-> g]

KeyBytes(n, a, row, g) ==
  get_key_prefix(n) \o Copy(a, row, g, KeysOf(a, DOMAIN row))

ValueBytes(a, row, g) == Copy(a, row, g, ValuesOf(a, DOMAIN row))

-----------------------------------------------------------------------------
(* Scan: a column loaded from the buffers the record was copied to *)

LoadWord(buf, offset, g) ==
  [k \in 1 .. IntSize |-> IF offset + k \in DOMAIN buf THEN buf[offset + k] ELSE g]

\* Mutant: the offset of a value column counts every column before it.
DecodeStride(n, a, r, g) ==
  [i \in DOMAIN a |->
    IF is_key(a, i)
      THEN LoadWord(r.key, Len(get_key_prefix(n))
                             + IntSize * Cardinality(KeysOf(a, Before(i))), g)
      ELSE LoadWord(r.value, IntSize * Cardinality(Before(i)), g)]

Decode(n, a, r, g) ==
  [i \in DOMAIN a |->
    IF is_key(a, i)
      THEN LoadWord(r.key, Len(get_key_prefix(n))
                             + IntSize * Cardinality(KeysOf(a, Before(i))), g)
      ELSE LoadWord(r.value, IntSize * Cardinality(ValuesOf(a, Before(i))), g)]

-----------------------------------------------------------------------------
NoScan == [table |-> << >>, rows |-> {}]

TypeOK ==
  /\ DOMAIN schemas \subseteq Names
  /\ \A n \in DOMAIN schemas : schemas[n] \in Attrs[n]
  /\ \A r \in store :
       /\ r.key \in Seq(Byte) /\ r.value \in Seq(Byte)
       /\ r.table \in Names /\ r.attrs \in Attrs[r.table]
       /\ r.row \in Seq(Words)
  /\ scanned.table \in Names \cup {<< >>}
  /\ \A row \in scanned.rows : row \in Seq(Word)

Init ==
  /\ schemas = << >>
  /\ store = {}
  /\ scanned = NoScan

\* A program that defines the table, anew or again, starts.
Define(n, a) ==
  /\ n \in DOMAIN schemas \/ Cardinality(DOMAIN schemas) < MaxTables
  /\ schemas' = [m \in DOMAIN schemas \cup {n} |-> IF m = n THEN a ELSE schemas[m]]
  /\ scanned' = NoScan
  /\ UNCHANGED store

\* foedus_insert refuses a key that is there already, and nobody looks.
Insert(n, row, g) ==
  LET a == schemas[n]
      r == [key |-> KeyBytes(n, a, row, g), value |-> ValueBytes(a, row, g),
            table |-> n, attrs |-> a, row |-> row]
  IN  /\ n \in DOMAIN schemas
      /\ Len(row) <= Len(a)
      /\ Cardinality(store) < MaxRows
      /\ store' = IF \E s \in store : s.key = r.key
                    THEN store ELSE store \cup {r}
      /\ scanned' = NoScan
      /\ UNCHANGED schemas

Scan(n, g) ==
  /\ n \in DOMAIN schemas
  /\ scanned' = [table |-> n,
                 rows |-> {Decode(n, schemas[n], r, g) :
                             r \in {s \in store : InRange(n, s.key)}}]
  /\ UNCHANGED <<schemas, store>>

\* Rows of a table with the columns a, literals shorter than it included.
Literals(a) == UNION {[1 .. m -> Words] : m \in 0 .. Len(a)}

Next ==
  \/ \E n \in Names : \E a \in Attrs[n] : Define(n, a)
  \/ \E n \in DOMAIN schemas, g \in Garbage :
       \E row \in Literals(schemas[n]) : Insert(n, row, g)
  \/ \E n \in DOMAIN schemas, g \in Garbage : Scan(n, g)

Spec == Init /\ [][Next]_vars

-----------------------------------------------------------------------------
(* Properties *)

\* The keys of u may lie in the range of a scan of n: u continues n with a
\* character above ':', or the end of n's range with one below it, or n is
\* u followed by '9', whose successor is ':'.
Overlaps(n, u) ==
  \/ /\ Len(u) > Len(n)
     /\ \A i \in 1 .. Len(n) : u[i] = n[i]
     /\ u[Len(n) + 1] > Colon
  \/ /\ Len(u) > Len(n)
     /\ \A i \in 1 .. Len(n) - 1 : u[i] = n[i]
     /\ u[Len(n)] = n[Len(n)] + 1
     /\ u[Len(n) + 1] < Colon
  \/ /\ Len(n) = Len(u) + 1
     /\ \A i \in 1 .. Len(u) : u[i] = n[i]
     /\ n[Len(n)] + 1 = Colon

\* Column offsets agree between Insert, which advances by
\* get_tuple_length, and the 8-byte strides of the tuple and of Scan: only
\* the last column may be nullable, and not if it is a key.
Aligned(a) ==
  \A i \in DOMAIN a : a[i].nullable => i = Len(a) /\ ~is_key(a, i)

KeyColumns(a, row) ==
  [i \in KeysOf(a, DOMAIN row) |-> row[i]]

RowsOf(n) == {r \in store : r.table = n}

\* Records of n that its present schema describes in full.
Regular(n) ==
  \A r \in RowsOf(n) :
    r.attrs = schemas[n] /\ Aligned(r.attrs) /\ Len(r.row) = Len(r.attrs)

\* No record of a table is outside the range that a scan of the table
\* opens, whatever bytes its key columns hold
\* (Scan::codegen, key_prefix_end).
ScanCovers == \A r \in store : InRange(r.table, r.key)

\* A record in the range of a scan belongs to the table scanned or to a
\* table whose name overlaps it: the range that Scan::codegen computes by
\* incrementing the last character of the name is wider than the table.
ScanIsolated ==
  \A n \in Names : \A r \in store :
    InRange(n, r.key) => r.table = n \/ Overlaps(n, r.table)

\* A scan whose table's records were all inserted in full under its present
\* schema returns exactly the rows inserted, as long as no table with an
\* overlapping name has records: the offsets of Insert::codegen and those of
\* Scan::codegen agree.
ScanExact ==
  LET n == scanned.table
  IN  n # << >> /\ Regular(n) /\ (\A r \in store : ~Overlaps(n, r.table))
        => scanned.rows = {r.row : r \in RowsOf(n)}

\* foedus_insert refuses a row only when its own table has a row with the
\* same key columns: keys of different tables, and different keys of one
\* table, are different byte strings (Insert::codegen, get_key_prefix).
RefusedOnlyDuplicates ==
  \A n \in DOMAIN schemas : Aligned(schemas[n]) =>
    \A row \in Literals(schemas[n]), g \in Garbage :
      LET key == KeyBytes(n, schemas[n], row, g)
      IN  \A r \in store :
            r.key = key /\ (r.table = n => r.attrs = schemas[n]) =>
              /\ r.table = n
              /\ KeyColumns(r.attrs, r.row) = KeyColumns(schemas[n], row)

\* Inductive strengthening of the two range properties: a record's key is
\* its table's prefix followed by bytes (Insert::codegen copies prefix_ first).
KeyInv ==
  \A r \in store : \E s \in Seq(Byte) : r.key = get_key_prefix(r.table) \o s

\* A scan returns rows of the scanned table only: the language's document
\* presents scan as a "full scan of table".
ScanOwnRowsOnly ==
  LET n == scanned.table
  IN  n # << >> /\ Regular(n) => scanned.rows = {r.row : r \in RowsOf(n)}
=============================================================================
