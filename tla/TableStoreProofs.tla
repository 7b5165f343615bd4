-------------------------- MODULE TableStoreProofs --------------------------
(***************************************************************************)
(* What the key range of a scan contains, for every set of table names,    *)
(* column lists and values.                                                *)
(***************************************************************************)
EXTENDS TableStore, FiniteSetTheorems, TLAPS

-----------------------------------------------------------------------------
(* Keys *)

\* The elements of a sequence of bytes are bytes.
LEMMA Bytes ==
  ASSUME NEW s \in Seq(Byte)
  PROVE  Len(s) \in Nat /\ \A i \in 1 .. Len(s) : s[i] \in Byte
  OBVIOUS

\* Two byte strings are equal if their bytes are.
LEMMA SameBytes ==
  ASSUME NEW s \in Seq(Byte), NEW t \in Seq(Byte), Len(s) = Len(t),
         \A i \in 1 .. Len(t) : s[i] = t[i]
  PROVE  s = t
  OBVIOUS

\* How bytes compare.
LEMMA ByteOrder ==
  \A x, y \in 0 .. 255 : /\ ~(x < x)
                         /\ x < y + 1 => x <= y
                         /\ x <= y /\ x # y => x < y
                         /\ x # y /\ ~(x < y) => x > y
  OBVIOUS

\* A byte is less than its successor.
LEMMA ByteSuccessor == \A x \in 0 .. 255 : x < x + 1
  OBVIOUS

\* A name is a sequence of bytes.
LEMMA NameChars ==
  ASSUME NEW n \in Identifier
  PROVE  /\ n \in Seq(Byte)
         /\ Len(n) \in Nat \ {0}
         /\ \A i \in 1 .. Len(n) : n[i] \in 0 .. 255 /\ n[i] # Colon
<1>1. n \in Seq(Byte)
  BY DEF Identifier
<1>2. Len(n) \in Nat \ {0} /\ \A i \in 1 .. Len(n) : n[i] # Colon
  BY <1>1 DEF Identifier
<1>3. \A i \in 1 .. Len(n) : n[i] \in Byte
  BY <1>1, Bytes
<1> QED
  BY <1>1, <1>2, <1>3 DEF Byte

\* The parts of a key: name, ':', bytes of the key columns.
LEMMA KeyParts ==
  ASSUME NEW n \in Identifier, NEW s \in Seq(Byte)
  PROVE  LET k == get_key_prefix(n) \o s
         IN  /\ k \in Seq(Byte)
             /\ Len(k) = Len(n) + 1 + Len(s)
             /\ \A i \in 1 .. Len(n) : k[i] = n[i]
             /\ k[Len(n) + 1] = Colon
  BY DEF Identifier, get_key_prefix, Colon, Byte

\* The end of the range of a scan, character by character.
LEMMA EndParts ==
  ASSUME NEW n \in Identifier
  PROVE  LET e == key_prefix_end(n)
         IN  /\ Len(n) \in Nat \ {0}
             /\ Len(e) = Len(n) + 1
             /\ \A i \in 1 .. Len(n) - 1 : e[i] = n[i]
             /\ e[Len(n)] = n[Len(n)] + 1
             /\ e[Len(n) + 1] = Colon
<1>1. get_key_prefix(n) \in Seq(Byte) /\ Len(get_key_prefix(n)) = Len(n) + 1
      /\ (\A i \in 1 .. Len(n) : get_key_prefix(n)[i] = n[i])
      /\ get_key_prefix(n)[Len(n) + 1] = Colon
  BY DEF Identifier, get_key_prefix, Colon, Byte
<1>2. Len(n) \in Nat \ {0}
  BY DEF Identifier
<1> QED
  BY <1>1, <1>2 DEF key_prefix_end

\* Every key of a table is in the range that a scan of the table opens.
LEMMA OwnKeys ==
  ASSUME NEW n \in Identifier, NEW s \in Seq(Byte)
  PROVE  InRange(n, get_key_prefix(n) \o s)
<1> DEFINE k == get_key_prefix(n) \o s
<1> HIDE DEF k
<1>1. /\ k \in Seq(Byte) /\ Len(k) = Len(n) + 1 + Len(s) /\ Len(s) \in Nat
      /\ \A i \in 1 .. Len(n) : k[i] = n[i]
      /\ k[Len(n) + 1] = Colon
  <2>1. Len(s) \in Nat
    BY Bytes
  <2> QED
    BY <2>1, KeyParts, Zenon DEF k
<1>2. /\ get_key_prefix(n) \in Seq(Byte) /\ Len(get_key_prefix(n)) = Len(n) + 1
      /\ \A i \in 1 .. Len(n) : get_key_prefix(n)[i] = n[i]
      /\ get_key_prefix(n)[Len(n) + 1] = Colon
  BY DEF Identifier, get_key_prefix, Colon, Byte
<1>3. \A i \in 1 .. Len(n) : n[i] \in 0 .. 255
  BY NameChars
<1>4. \A i \in 1 .. Len(n) + 1 : k[i] = get_key_prefix(n)[i] /\ k[i] \in 0 .. 255
  <2> SUFFICES ASSUME NEW i \in 1 .. Len(n) + 1
               PROVE  k[i] = get_key_prefix(n)[i] /\ k[i] \in 0 .. 255
    OBVIOUS
  <2>1. CASE i \in 1 .. Len(n)
    BY Zenon, <2>1, <1>1, <1>2, <1>3
  <2>2. CASE i = Len(n) + 1
    BY <2>2, <1>1, <1>2 DEF Colon
  <2>3. Len(n) \in Nat
    BY NameChars, Zenon
  <2>4. i \in 1 .. Len(n) \/ i = Len(n) + 1
    BY <2>3
  <2> QED
    BY <2>1, <2>2, <2>4, Zenon
<1>5. ~Less(k, get_key_prefix(n))
  <2> SUFFICES ASSUME NEW m \in 0 .. Len(k), m < Len(get_key_prefix(n)),
                      m = Len(k) \/ k[m + 1] < get_key_prefix(n)[m + 1]
               PROVE  FALSE
    BY DEF Less
  <2>1. m # Len(k) /\ m + 1 \in 1 .. Len(n) + 1
    BY <1>1, <1>2, NameChars
  <2>2. k[m + 1] = get_key_prefix(n)[m + 1] /\ k[m + 1] \in 0 .. 255
    BY <2>1, <1>4
  <2> QED
    BY <2>1, <2>2, ByteOrder, Zenon
<1>6. Less(k, key_prefix_end(n))
  <2>1. Len(n) - 1 \in 0 .. Len(k) /\ Len(n) - 1 < Len(key_prefix_end(n))
    BY <1>1, EndParts
  <2>2. \A i \in 1 .. Len(n) - 1 : k[i] = key_prefix_end(n)[i]
    BY <1>1, EndParts
  <2>3. k[Len(n) - 1 + 1] < key_prefix_end(n)[Len(n) - 1 + 1]
    <3>1. Len(n) - 1 + 1 = Len(n) /\ Len(n) \in 1 .. Len(n)
      BY NameChars
    <3>2. k[Len(n)] = n[Len(n)] /\ n[Len(n)] \in 0 .. 255
      BY SMTT(30), <3>1, <1>1, <1>3
    <3>3. key_prefix_end(n)[Len(n)] = n[Len(n)] + 1
      BY EndParts
    <3>4. n[Len(n)] < n[Len(n)] + 1
      BY <3>2, ByteSuccessor, Zenon
    <3> QED
      BY <3>1, <3>2, <3>3, <3>4, Zenon
  <2> QED
    BY SMTT(30), <2>1, <2>2, <2>3 DEF Less
<1> QED
  BY <1>5, <1>6 DEF InRange, k

\* A key in the range of a scan of n belongs to n or to a table whose name
\* overlaps n.
LEMMA ForeignKeys ==
  ASSUME NEW n \in Identifier, NEW u \in Identifier, NEW s \in Seq(Byte),
         InRange(n, get_key_prefix(u) \o s), u # n
  PROVE  Overlaps(n, u)
<1> DEFINE k == get_key_prefix(u) \o s
           b == get_key_prefix(n)
           e == key_prefix_end(n)
<1>1. /\ k \in Seq(Byte) /\ Len(k) = Len(u) + 1 + Len(s) /\ Len(s) \in Nat
      /\ \A i \in 1 .. Len(u) : k[i] = u[i]
      /\ k[Len(u) + 1] = Colon
  BY KeyParts, Bytes, Zenon
<1>2. /\ b \in Seq(Byte) /\ Len(b) = Len(n) + 1
      /\ \A i \in 1 .. Len(n) : b[i] = n[i]
      /\ b[Len(n) + 1] = Colon
  BY DEF Identifier, get_key_prefix, Colon, Byte
<1>3. /\ Len(n) \in Nat \ {0} /\ Len(u) \in Nat \ {0}
      /\ \A i \in 1 .. Len(n) : n[i] \in 0 .. 255 /\ n[i] # Colon
      /\ \A i \in 1 .. Len(u) : u[i] \in 0 .. 255 /\ u[i] # Colon
      /\ \A i \in 1 .. Len(k) : k[i] \in 0 .. 255
  <2>1. \A i \in 1 .. Len(k) : k[i] \in Byte
    BY <1>1, Bytes
  <2>2. \A i \in 1 .. Len(k) : k[i] \in 0 .. 255
    BY SMTT(30), <2>1 DEF Byte
  <2>3. /\ Len(n) \in Nat \ {0}
        /\ \A i \in 1 .. Len(n) : n[i] \in 0 .. 255 /\ n[i] # Colon
    BY NameChars, Zenon
  <2>4. /\ Len(u) \in Nat \ {0}
        /\ \A i \in 1 .. Len(u) : u[i] \in 0 .. 255 /\ u[i] # Colon
    BY NameChars, Zenon
  <2> QED
    BY <2>2, <2>3, <2>4, Zenon
<1>4. /\ Len(e) = Len(n) + 1
      /\ \A i \in 1 .. Len(n) - 1 : e[i] = n[i]
      /\ e[Len(n)] = n[Len(n)] + 1
      /\ e[Len(n) + 1] = Colon
  BY EndParts
<1>5. ~Less(k, b) /\ Less(k, e)
  BY DEF InRange
<1> HIDE DEF k, b, e
<1>6. PICK m \in 0 .. Len(k) :
        /\ m < Len(e)
        /\ \A i \in 1 .. m : k[i] = e[i]
        /\ m = Len(k) \/ k[m + 1] < e[m + 1]
  BY <1>5 DEF Less
<1>7. m \in Nat /\ m <= Len(n) /\ m <= Len(k)
  BY <1>1, <1>3, <1>4, <1>6
\* The key agrees with the name up to its last character.
<1>8. m >= Len(n) - 1
  <2> SUFFICES ASSUME m < Len(n) - 1 PROVE FALSE
    BY <1>3, <1>7
  <2>1. \A i \in 1 .. m + 1 : i \in 1 .. Len(n) - 1 /\ i \in 1 .. Len(n)
    BY <1>3, <1>7
  <2>2. \A i \in 1 .. m + 1 : e[i] = b[i]
    BY <2>1, <1>2, <1>4, Zenon
  <2>3. m + 1 \in 1 .. m + 1 /\ \A i \in 1 .. m : i \in 1 .. m + 1
    BY <1>7
  <2>4. m \in 0 .. Len(k) /\ m < Len(b) /\ \A i \in 1 .. m : k[i] = b[i]
    <3>1. m < Len(b)
      BY <1>2, <1>4, <1>6
    <3> QED
      BY <3>1, <2>2, <2>3, <1>6, Zenon
  <2>5. m = Len(k) \/ k[m + 1] < b[m + 1]
    BY <2>2, <2>3, <1>6, Zenon
  <2> QED
    BY <2>4, <2>5, <1>5 DEF Less
<1>9. \A i \in 1 .. Len(n) - 1 : k[i] = n[i]
  BY <1>3, <1>4, <1>6, <1>7, <1>8
\* So the name of u is not much shorter than n.
<1>10. Len(u) >= Len(n) - 1
  <2> SUFFICES ASSUME Len(u) < Len(n) - 1 PROVE FALSE
    BY <1>3
  <2>1. Len(u) + 1 \in 1 .. Len(n) - 1 /\ Len(u) + 1 \in 1 .. Len(n)
    BY <1>3
  <2>2. k[Len(u) + 1] = n[Len(u) + 1] /\ n[Len(u) + 1] # Colon
    BY <2>1, <1>3, <1>9
  <2> QED
    BY <2>2, <1>1
<1>11. \A i \in 1 .. Len(n) - 1 : u[i] = n[i]
  BY <1>1, <1>3, <1>9, <1>10
<1>12. Len(k) >= Len(n)
  BY <1>1, <1>3, <1>10
<1>13. CASE m = Len(n)
  <2>1. k[Len(n)] = n[Len(n)] + 1
    BY <1>3, <1>4, <1>6, <1>13
  <2>2. CASE Len(u) = Len(n) - 1
    BY <2>1, <2>2, <1>1, <1>3, <1>11 DEF Overlaps
  <2>3. CASE Len(u) >= Len(n)
    <3>1. u[Len(n)] = n[Len(n)] + 1
      BY <2>1, <2>3, <1>1, <1>3
    <3>2. m # Len(k) /\ k[Len(n) + 1] < Colon
      BY <1>1, <1>3, <1>4, <1>6, <1>13, <2>3
    <3>3. Len(u) # Len(n)
      BY <3>2, <1>1, <1>3 DEF Colon
    <3>4. Len(u) > Len(n) /\ u[Len(n) + 1] < Colon
      BY <3>2, <3>3, <2>3, <1>1, <1>3
    <3> QED
      BY <3>1, <3>4, <1>11 DEF Overlaps
  <2> QED
    BY <2>2, <2>3, <1>3, <1>10
<1>14. CASE m = Len(n) - 1
  <2>0. k[Len(n)] \in 0 .. 255 /\ n[Len(n)] \in 0 .. 255
    <3>1. Len(n) \in 1 .. Len(n) /\ Len(n) \in 1 .. Len(k)
      BY <1>1, <1>3, <1>12
    <3> QED
      BY SMTT(30), <3>1, <1>3
  <2>1. k[Len(n)] <= n[Len(n)]
    <3>1. m # Len(k) /\ m + 1 = Len(n)
      BY <1>1, <1>3, <1>12, <1>14
    <3>2. k[Len(n)] < n[Len(n)] + 1
      BY <3>1, <1>4, <1>6
    <3> QED
      BY <3>2, <2>0, ByteOrder, Zenon
  <2>2. k[Len(n)] = n[Len(n)]
    <3> SUFFICES ASSUME k[Len(n)] < n[Len(n)] PROVE FALSE
      BY <2>0, <2>1, ByteOrder, Zenon
    <3>1. m \in 0 .. Len(k) /\ m < Len(b) /\ (\A i \in 1 .. m : k[i] = b[i])
          /\ k[m + 1] < b[m + 1]
      BY <1>2, <1>3, <1>7, <1>9, <1>14
    <3> QED
      BY <3>1, <1>5 DEF Less
  <2>3. Len(u) >= Len(n)
    <3> SUFFICES ASSUME Len(u) = Len(n) - 1 PROVE FALSE
      BY <1>3, <1>10
    <3> QED
      BY <2>2, <1>1, <1>3
  <2>4. \A i \in 1 .. Len(n) : u[i] = n[i]
    BY <2>2, <2>3, <1>1, <1>3, <1>11
  <2>5. Len(u) # Len(n)
    <3>1. n \in Seq(Byte) /\ u \in Seq(Byte)
      BY NameChars, Zenon
    <3> QED
      BY <2>4, <3>1, SameBytes, Zenon
  <2>6. Len(u) > Len(n) /\ k[Len(n) + 1] = u[Len(n) + 1] /\ u[Len(n) + 1] # Colon
    BY <2>3, <2>5, <1>1, <1>3
  <2>7. ~(u[Len(n) + 1] < Colon)
    <3> SUFFICES ASSUME u[Len(n) + 1] < Colon PROVE FALSE
      OBVIOUS
    <3>1. \A i \in 1 .. Len(n) : i \in 1 .. Len(u)
      BY <2>3, <1>3
    <3>2. \A i \in 1 .. Len(n) : k[i] = b[i]
      BY <3>1, <1>1, <1>2, <2>4, Zenon
    <3>3. k[Len(n) + 1] < b[Len(n) + 1]
      BY <1>2, <2>6, Zenon
    <3>4. Len(n) \in 0 .. Len(k) /\ Len(n) < Len(b)
      BY <1>1, <1>2, <1>3, <1>12
    <3>5. Len(n) \in 0 .. Len(k) /\ Len(n) < Len(b)
          /\ (\A i \in 1 .. Len(n) : k[i] = b[i])
          /\ k[Len(n) + 1] < b[Len(n) + 1]
      BY <3>2, <3>3, <3>4
    <3> QED
      BY <3>5, <1>5 DEF Less
  <2>8. u[Len(n) + 1] > Colon
    <3>1. Len(n) + 1 \in 1 .. Len(u)
      BY <2>6, <1>3
    <3>2. u[Len(n) + 1] \in 0 .. 255
      BY <3>1, <1>3
    <3>3. Colon \in 0 .. 255
      BY DEF Colon
    <3> QED
      BY <3>2, <3>3, <2>6, <2>7, ByteOrder, Zenon
  <2> QED
    BY <2>4, <2>6, <2>8 DEF Overlaps
<1> QED
  BY <1>3, <1>7, <1>8, <1>13, <1>14
-----------------------------------------------------------------------------
(* Bytes copied and loaded *)

\* The bytes of a tuple, and what lies beyond them, are bytes.
LEMMA LoadType ==
  ASSUME NEW row \in Seq(Word), NEW g \in Byte, NEW p
  PROVE  Load(row, g, p) \in Byte
<1> SUFFICES ASSUME p \in 1 .. IntSize * Len(row) PROVE Load(row, g, p) \in Byte
  BY DEF Load
<1>1. /\ Len(row) \in Nat
      /\ ((p - 1) \div IntSize) + 1 \in 1 .. Len(row)
      /\ ((p - 1) % IntSize) + 1 \in 1 .. IntSize
  BY DEF IntSize
<1>2. row[((p - 1) \div IntSize) + 1] \in Word
  BY <1>1
<1> QED
  BY Zenon, <1>1, <1>2 DEF Load, Word

\* Copying columns of a tuple gives a string of bytes.
LEMMA CopyType ==
  ASSUME NEW a, NEW row \in Seq(Word), NEW g \in Byte,
         NEW C \in SUBSET (DOMAIN row)
  PROVE  Copy(a, row, g, C) \in Seq(Byte)
<1>1. IsFiniteSet(C)
  BY FS_Interval, FS_Subset
<1>2. IsFiniteSet({i \in C : a[i].nullable})
  BY <1>1, FS_Subset
<1>3. SizeOf(a, C) \in Nat
  BY <1>1, <1>2, FS_CardinalityType DEF SizeOf, IntSize
<1> DEFINE start(i) == SizeOf(a, C \cap Before(i))
           col(p) == CHOOSE j \in C :
                       p \in start(j) + 1 .. start(j) + get_tuple_length(a, j)
           pos(p) == SizeOf(a, Before(col(p))) + p - start(col(p))
<1>4. Copy(a, row, g, C) = [p \in 1 .. SizeOf(a, C) |-> Load(row, g, pos(p))]
  BY DEF Copy
<1> HIDE DEF pos
<1>5. \A p : Load(row, g, pos(p)) \in Byte
  BY LoadType
<1>6. [p \in 1 .. SizeOf(a, C) |-> Load(row, g, pos(p))] \in [1 .. SizeOf(a, C) -> Byte]
  BY <1>5
<1> QED
  BY <1>3, <1>4, <1>6

\* Loading every column of a record gives a row of words.
LEMMA DecodeType ==
  ASSUME NEW n, NEW a \in Seq(Column), NEW r, NEW g \in Byte,
         r.key \in Seq(Byte), r.value \in Seq(Byte)
  PROVE  Decode(n, a, r, g) \in Seq(Word)
<1>1. \A buf \in Seq(Byte) : \A offset : LoadWord(buf, offset, g) \in Word
  BY DEF LoadWord, Word
<1>2. Decode(n, a, r, g) \in [DOMAIN a -> Word]
  BY <1>1 DEF Decode
<1> QED
  BY <1>2
-----------------------------------------------------------------------------
(* The invariants *)

\* A row literal is a sequence of values.
LEMMA LiteralType ==
  ASSUME NEW a \in Seq(Column), NEW row \in Literals(a)
  PROVE  row \in Seq(Words) /\ row \in Seq(Word)
<1>1. PICK m \in 0 .. Len(a) : row \in [1 .. m -> Words]
  BY DEF Literals
<1>2. row \in [1 .. m -> Word] /\ m \in Nat
  BY <1>1, TableAssumption
<1> QED
  BY <1>1, <1>2

\* What Insert adds to the store: nothing, or a record whose key is the
\* table's prefix and bytes.
LEMMA InsertAdds ==
  ASSUME TypeOK, NEW n \in DOMAIN schemas, NEW g \in Garbage,
         NEW row \in Literals(schemas[n]), Insert(n, row, g)
  PROVE  \/ store' = store
         \/ \E r : /\ store' = store \cup {r}
                  /\ r.table = n /\ r.attrs = schemas[n] /\ r.row = row
                  /\ r.key \in Seq(Byte) /\ r.value \in Seq(Byte)
                  /\ \E s \in Seq(Byte) : r.key = get_key_prefix(n) \o s
<1> DEFINE a == schemas[n]
           k == Copy(a, row, g, KeysOf(a, DOMAIN row))
           v == Copy(a, row, g, ValuesOf(a, DOMAIN row))
           r == [key |-> get_key_prefix(n) \o k, value |-> v,
                 table |-> n, attrs |-> a, row |-> row]
<1>1. n \in Identifier /\ a \in Seq(Column) /\ g \in Byte
  BY TableAssumption DEF TypeOK
<1>2. row \in Seq(Word)
  BY <1>1, LiteralType
<1>3. k \in Seq(Byte) /\ v \in Seq(Byte)
  BY <1>1, <1>2, CopyType DEF KeysOf, ValuesOf
<1>4. store' = store \/ store' = store \cup {r}
  BY Zenon DEF Insert, KeyBytes, ValueBytes
<1> HIDE DEF k, v
<1>5. r.key = get_key_prefix(n) \o k /\ r.value = v
      /\ r.table = n /\ r.attrs = a /\ r.row = row
  OBVIOUS
<1>6. r.key \in Seq(Byte)
  BY <1>1, <1>3, <1>5, KeyParts
<1> QED
  BY Zenon, <1>3, <1>4, <1>5, <1>6

\* Every step keeps the types.
LEMMA TableTypeStep == TypeOK /\ [Next]_vars => TypeOK'
<1> SUFFICES ASSUME TypeOK, [Next]_vars PROVE TypeOK'
  OBVIOUS
<1>1. CASE UNCHANGED vars
  BY <1>1 DEF vars, TypeOK
<1>2. ASSUME NEW n \in Names, NEW a \in Attrs[n], Define(n, a) PROVE TypeOK'
  <2>1. DOMAIN schemas' = DOMAIN schemas \cup {n}
        /\ (\A m \in DOMAIN schemas' : schemas'[m] = IF m = n THEN a ELSE schemas[m])
    BY <1>2 DEF Define
  <2>2. scanned'.table = << >> /\ scanned'.rows = {} /\ store' = store
    BY <1>2 DEF Define, NoScan
  <2> QED
    BY <2>1, <2>2 DEF TypeOK
<1>3. ASSUME NEW n \in DOMAIN schemas, NEW g \in Garbage,
             NEW row \in Literals(schemas[n]), Insert(n, row, g)
      PROVE  TypeOK'
  <2>1. scanned'.table = << >> /\ scanned'.rows = {} /\ schemas' = schemas
    BY <1>3 DEF Insert, NoScan
  <2>2. n \in Names /\ schemas[n] \in Attrs[n] /\ schemas[n] \in Seq(Column)
    BY TableAssumption DEF TypeOK
  <2>3. row \in Seq(Words)
    BY <2>2, LiteralType
  <2>4. \A r \in store' : /\ r.key \in Seq(Byte) /\ r.value \in Seq(Byte)
                          /\ r.table \in Names /\ r.attrs \in Attrs[r.table]
                          /\ r.row \in Seq(Words)
    BY <1>3, <2>2, <2>3, InsertAdds DEF TypeOK
  <2> QED
    BY <2>1, <2>4 DEF TypeOK
<1>4. ASSUME NEW n \in DOMAIN schemas, NEW g \in Garbage, Scan(n, g) PROVE TypeOK'
  <2>1. n \in Names /\ schemas[n] \in Seq(Column) /\ g \in Byte
    BY TableAssumption DEF TypeOK
  <2>2. \A r \in store : Decode(n, schemas[n], r, g) \in Seq(Word)
    BY <2>1, DecodeType DEF TypeOK
  <2>3. scanned'.table = n /\ schemas' = schemas /\ store' = store
        /\ scanned'.rows = {Decode(n, schemas[n], r, g) :
                              r \in {s \in store : InRange(n, s.key)}}
    BY <1>4 DEF Scan
  <2>4. \A row \in scanned'.rows : row \in Seq(Word)
    BY <2>2, <2>3
  <2> QED
    BY <2>1, <2>3, <2>4 DEF TypeOK
<1> QED
  BY <1>1, <1>2, <1>3, <1>4 DEF Next

\* Type correctness of the table layout, for every set of names, schemas and
\* values.
THEOREM TableTypeCorrect == Spec => []TypeOK
<1>1. Init => TypeOK
  BY DEF Init, TypeOK, NoScan
<1> QED
  BY <1>1, TableTypeStep, PTL DEF Spec

\* Every record's key is its table's prefix followed by bytes: no step but
\* Insert writes records, and Insert copies the prefix first.
THEOREM KeysArePrefixed == Spec => []KeyInv
<1>1. Init => KeyInv
  BY DEF Init, KeyInv
<1>2. TypeOK /\ KeyInv /\ [Next]_vars => KeyInv'
  <2> SUFFICES ASSUME TypeOK, KeyInv, [Next]_vars PROVE KeyInv'
    OBVIOUS
  <2>1. CASE store' = store
    BY <2>1 DEF KeyInv
  <2>2. ASSUME NEW n \in DOMAIN schemas, NEW g \in Garbage,
               NEW row \in Literals(schemas[n]), Insert(n, row, g)
        PROVE  KeyInv'
    <3>1. CASE \E r : /\ store' = store \cup {r} /\ r.table = n
                      /\ \E s \in Seq(Byte) : r.key = get_key_prefix(n) \o s
      <4>1. PICK r : /\ store' = store \cup {r} /\ r.table = n
                     /\ \E s \in Seq(Byte) : r.key = get_key_prefix(n) \o s
        BY Zenon, <3>1
      <4>2. SUFFICES ASSUME NEW q \in store'
                     PROVE  \E s \in Seq(Byte) : q.key = get_key_prefix(q.table) \o s
        BY DEF KeyInv
      <4>3. q \in store \/ q = r
        BY <4>1
      <4> QED
        BY Zenon, <4>1, <4>3 DEF KeyInv
    <3> QED
      BY <2>1, <2>2, <3>1, InsertAdds
  <2> QED
    BY Zenon, <2>1, <2>2 DEF Next, vars, Define, Scan
<1> QED
  BY <1>1, <1>2, TableTypeCorrect, PTL DEF Spec

\* A scan's range covers every record of its table: no row inserted is out
\* of the reach of Scan::codegen's cursor.
THEOREM ScanCoversTable == Spec => []ScanCovers
<1>1. TypeOK /\ KeyInv => ScanCovers
  <2> SUFFICES ASSUME TypeOK, KeyInv, NEW r \in store
               PROVE  InRange(r.table, r.key)
    BY DEF ScanCovers
  <2>1. r.table \in Identifier
    BY TableAssumption DEF TypeOK
  <2>2. PICK s \in Seq(Byte) : r.key = get_key_prefix(r.table) \o s
    BY DEF KeyInv
  <2> QED
    BY <2>1, <2>2, OwnKeys
<1> QED
  BY <1>1, TableTypeCorrect, KeysArePrefixed, PTL

\* A scan's range holds no record of another table, unless that table's
\* name overlaps the scanned one.
THEOREM ScanIsIsolated == Spec => []ScanIsolated
<1>1. TypeOK /\ KeyInv => ScanIsolated
  <2> SUFFICES ASSUME TypeOK, KeyInv, NEW n \in Names, NEW r \in store,
                      InRange(n, r.key), r.table # n
               PROVE  Overlaps(n, r.table)
    BY DEF ScanIsolated
  <2>1. n \in Identifier /\ r.table \in Identifier
    BY TableAssumption DEF TypeOK
  <2>2. PICK s \in Seq(Byte) : r.key = get_key_prefix(r.table) \o s
    BY DEF KeyInv
  <2> QED
    BY <2>1, <2>2, ForeignKeys
<1> QED
  BY <1>1, TableTypeCorrect, KeysArePrefixed, PTL

-----------------------------------------------------------------------------
(***************************************************************************)
(* The column offsets of Insert::codegen and of Scan::codegen, for every   *)
(* number and order of key and value columns: what is copied to a record   *)
(* is loaded back, and equal keys come from equal key columns.             *)
(***************************************************************************)

(* Offsets *)

\* Columns are finitely many, and there are i - 1 before the i-th.
LEMMA FiniteColumns ==
  /\ \A m \in Nat : \A C \in SUBSET (1 .. m) : IsFiniteSet(C)
  /\ \A i \in Nat \ {0} : IsFiniteSet(Before(i)) /\ Cardinality(Before(i)) = i - 1
<1>1. ASSUME NEW m \in Nat
      PROVE  IsFiniteSet(1 .. m) /\ Cardinality(1 .. m) = m
  <2>1. 1 \in Int /\ m \in Int
    OBVIOUS
  <2>2. IsFiniteSet(1 .. m) /\ Cardinality(1 .. m) = IF 1 > m THEN 0 ELSE m - 1 + 1
    BY <2>1, FS_Interval
  <2> QED
    BY <2>2
<1>2. ASSUME NEW m \in Nat, NEW C \in SUBSET (1 .. m) PROVE IsFiniteSet(C)
  BY Zenon, <1>1, FS_Subset
<1>3. ASSUME NEW i \in Nat \ {0}
      PROVE  IsFiniteSet(Before(i)) /\ Cardinality(Before(i)) = i - 1
  <2>1. i - 1 \in Nat
    OBVIOUS
  <2> QED
    BY <1>1, <2>1 DEF Before
<1> QED
  BY <1>2, <1>3

\* The columns of a set, and the nullable ones among them, are counted.
LEMMA Counted ==
  ASSUME NEW a, NEW S, IsFiniteSet(S)
  PROVE  /\ Cardinality(S) \in Nat
         /\ IsFiniteSet({i \in S : a[i].nullable})
         /\ Cardinality({i \in S : a[i].nullable}) \in Nat
         /\ SizeOf(a, S) \in Nat
<1>1. IsFiniteSet({i \in S : a[i].nullable})
  BY FS_Subset
<1> QED
  BY <1>1, FS_CardinalityType DEF SizeOf, IntSize

\* One more column adds its get_tuple_length.
LEMMA SizeAdd ==
  ASSUME NEW a, NEW S, IsFiniteSet(S), NEW i, i \notin S
  PROVE  SizeOf(a, S \cup {i}) = SizeOf(a, S) + get_tuple_length(a, i)
<1> DEFINE N == {j \in S : a[j].nullable}
           M == {j \in S \cup {i} : a[j].nullable}
<1>1. Cardinality(S \cup {i}) = Cardinality(S) + 1 /\ Cardinality(S) \in Nat
  BY FS_AddElement, FS_CardinalityType
<1>2. IsFiniteSet(N) /\ Cardinality(N) \in Nat
  BY Counted
<1>3. CASE a[i].nullable
  <2>1. M = N \cup {i} /\ i \notin N
    BY <1>3
  <2>2. Cardinality(M) = Cardinality(N) + 1
    BY Zenon, <1>2, <2>1, FS_AddElement
  <2> HIDE DEF N, M
  <2>3. 8 * (Cardinality(S) + 1) + (Cardinality(N) + 1)
          = (8 * Cardinality(S) + Cardinality(N)) + (8 + 1)
    BY <1>1, <1>2
  <2> QED
    BY <1>1, <1>3, <2>2, <2>3 DEF SizeOf, get_tuple_length, IntSize, N, M
<1>4. CASE ~ a[i].nullable
  <2>1. M = N
    BY <1>4
  <2> HIDE DEF N, M
  <2>2. 8 * (Cardinality(S) + 1) + Cardinality(N)
          = (8 * Cardinality(S) + Cardinality(N)) + 8
    BY <1>1, <1>2
  <2> QED
    BY Zenon, <1>1, <1>4, <2>1, <2>2 DEF SizeOf, get_tuple_length, IntSize, N, M
<1> QED
  BY <1>3, <1>4

\* More columns take no fewer bytes.
LEMMA SizeMono ==
  ASSUME NEW a, NEW T, IsFiniteSet(T), NEW S \in SUBSET T
  PROVE  SizeOf(a, S) <= SizeOf(a, T)
<1> DEFINE N == {j \in S : a[j].nullable}
           M == {j \in T : a[j].nullable}
<1>1. Cardinality(S) <= Cardinality(T) /\ IsFiniteSet(S)
  BY FS_Subset
<1>2. IsFiniteSet(M) /\ N \subseteq M
  BY Counted
<1>3. Cardinality(N) <= Cardinality(M)
  BY <1>2, FS_Subset
<1>4. Cardinality(S) \in Nat /\ Cardinality(T) \in Nat
      /\ Cardinality(N) \in Nat /\ Cardinality(M) \in Nat
  BY Zenon, <1>1, Counted
<1> HIDE DEF N, M
<1>5. 8 * Cardinality(S) + Cardinality(N) <= 8 * Cardinality(T) + Cardinality(M)
  BY <1>1, <1>3, <1>4
<1> QED
  BY <1>5 DEF SizeOf, IntSize, N, M

\* The columns of C, where the copy of each of them starts, and that they do
\* not overlap.
LEMMA Segments ==
  ASSUME NEW a, NEW m \in Nat, NEW C \in SUBSET (1 .. m), NEW i \in C
  PROVE  /\ SizeOf(a, C \cap Before(i)) \in Nat
         /\ get_tuple_length(a, i) \in {8, 9}
         /\ SizeOf(a, C \cap Before(i)) + get_tuple_length(a, i) <= SizeOf(a, C)
         /\ \A j \in C : i < j =>
              SizeOf(a, C \cap Before(i)) + get_tuple_length(a, i)
                <= SizeOf(a, C \cap Before(j))
<1> DEFINE B == C \cap Before(i)
<1>1. IsFiniteSet(C)
  BY FiniteColumns, Zenon
<1>2. IsFiniteSet(B) /\ i \notin B
  <2>1. IsFiniteSet(B)
    BY <1>1, FS_Subset
  <2>2. i \notin Before(i)
    BY DEF Before
  <2> QED
    BY <2>1, <2>2
<1>3. SizeOf(a, B \cup {i}) = SizeOf(a, B) + get_tuple_length(a, i)
      /\ SizeOf(a, B) \in Nat
  BY Zenon, <1>2, SizeAdd, Counted
<1>4. get_tuple_length(a, i) \in {8, 9}
  BY DEF get_tuple_length, IntSize
<1>5. SizeOf(a, B \cup {i}) <= SizeOf(a, C)
  BY <1>1, SizeMono
<1>6. ASSUME NEW j \in C, i < j
      PROVE  SizeOf(a, B \cup {i}) <= SizeOf(a, C \cap Before(j))
  <2>1. IsFiniteSet(C \cap Before(j))
    BY <1>1, FS_Subset
  <2>2. B \cup {i} \subseteq C \cap Before(j)
    BY <1>6 DEF Before
  <2> QED
    BY <2>1, <2>2, SizeMono
<1> QED
  BY <1>3, <1>4, <1>5, <1>6

\* Two segments, one of them below the other, have no byte in common.
LEMMA Apart ==
  ASSUME NEW s \in Nat, NEW t \in Nat, NEW x \in {8, 9}, NEW y \in {8, 9},
         NEW k \in 1 .. 8, t + 1 <= s + k, s + k <= t + y
  PROVE  ~ (t + y <= s) /\ ~ (s + x <= t)
  OBVIOUS

\* The element and the byte in it, of a position in an array of 8-byte words.
LEMMA WordOf ==
  ASSUME NEW j \in Nat, NEW l \in 0 .. 7
  PROVE  (8 * j + l) \div 8 = j /\ (8 * j + l) % 8 = l
  OBVIOUS

\* The k-th byte of a column is in the copy of the columns of C, behind those
\* of the columns before it.
Copied(a, row, g, C, i, k) ==
  /\ SizeOf(a, C \cap Before(i)) + k \in DOMAIN Copy(a, row, g, C)
  /\ Copy(a, row, g, C)[SizeOf(a, C \cap Before(i)) + k]
       = Load(row, g, SizeOf(a, Before(i)) + k)

\* The column is found in the copy at a multiple of eight bytes.
FoundAt(a, row, g, C, i, offset) ==
  /\ offset \in Nat
  /\ \A k \in 1 .. IntSize : offset + k \in DOMAIN Copy(a, row, g, C)
  /\ \A h : LoadWord(Copy(a, row, g, C), offset, h) = row[i]

\* A byte of a column is copied to the column's place among those of C.
LEMMA CopyByte ==
  ASSUME NEW a, NEW row \in Seq(Word), NEW g, NEW C \in SUBSET (DOMAIN row),
         NEW i \in C, NEW k \in 1 .. IntSize
  PROVE  Copied(a, row, g, C, i, k)
<1> DEFINE start(j) == SizeOf(a, C \cap Before(j))
           len(j) == get_tuple_length(a, j)
           p == start(i) + k
           holds(j) == p \in start(j) + 1 .. start(j) + len(j)
           c == CHOOSE j \in C : holds(j)
<1>0. Len(row) \in Nat /\ C \in SUBSET (1 .. Len(row))
  OBVIOUS
<1>1. /\ \A j \in C : start(j) \in Nat /\ len(j) \in {8, 9} /\ j \in Nat
      /\ \A j \in C : start(j) + len(j) <= SizeOf(a, C)
      /\ \A j, l \in C : j < l => start(j) + len(j) <= start(l)
  <2>1. \A j \in C : j \in Nat
    OBVIOUS
  <2>2. ASSUME NEW j \in C
        PROVE  /\ start(j) \in Nat /\ len(j) \in {8, 9}
               /\ start(j) + len(j) <= SizeOf(a, C)
               /\ \A l \in C : j < l => start(j) + len(j) <= start(l)
    BY Zenon, <1>0, Segments
  <2> QED
    BY <2>1, <2>2, Zenon
<1>2. k \in 1 .. 8
  BY DEF IntSize
<1>3. SizeOf(a, C) \in Nat
  <2>1. IsFiniteSet(C)
    BY Zenon, <1>0, FiniteColumns
  <2> QED
    BY Zenon, <2>1, Counted
<1>4. Copy(a, row, g, C) =
        [q \in 1 .. SizeOf(a, C) |->
          LET d == CHOOSE j \in C : q \in start(j) + 1 .. start(j) + len(j)
          IN  Load(row, g, SizeOf(a, Before(d)) + q - start(d))]
  BY DEF Copy
<1>5. SizeOf(a, Before(i)) \in Nat
  <2>1. i \in Nat \ {0}
    OBVIOUS
  <2> QED
    BY Zenon, <2>1, FiniteColumns, Counted
<1> HIDE DEF start, len
<1>6. p \in 1 .. SizeOf(a, C) /\ holds(i)
  BY SMTT(30), <1>1, <1>2, <1>3
<1>7. ASSUME NEW j \in C, holds(j) PROVE j = i
  <2>1. /\ start(i) \in Nat /\ start(j) \in Nat /\ i \in Nat /\ j \in Nat
        /\ len(i) \in {8, 9} /\ len(j) \in {8, 9}
        /\ j < i => start(j) + len(j) <= start(i)
        /\ i < j => start(i) + len(i) <= start(j)
    BY <1>1, Zenon
  <2>2. start(j) + 1 <= start(i) + k /\ start(i) + k <= start(j) + len(j)
    BY <1>2, <1>7, <2>1
  <2> HIDE DEF start, len
  <2>3. ~ (j < i) /\ ~ (i < j)
    BY SMTT(30), <1>2, <2>1, <2>2, Apart
  <2> QED
    BY <2>1, <2>3
<1>8. c = i
  BY <1>6, <1>7
<1>9. Copy(a, row, g, C)[p] = Load(row, g, SizeOf(a, Before(c)) + p - start(c))
  BY <1>4, <1>6
<1>10. SizeOf(a, Before(c)) + p - start(c) = SizeOf(a, Before(i)) + k
  <2>1. start(i) \in Nat
    BY <1>1
  <2>2. SizeOf(a, Before(i)) + (start(i) + k) - start(i) = SizeOf(a, Before(i)) + k
    BY <1>2, <1>5, <2>1
  <2> QED
    BY Zenon, <1>8, <2>2
<1> QED
  BY <1>4, <1>6, <1>9, <1>10 DEF start, Copied

\* No column before one of an aligned table is nullable.
LEMMA AlignedSize ==
  ASSUME NEW a \in Seq(Column), Aligned(a), NEW i \in DOMAIN a,
         NEW S \in SUBSET Before(i)
  PROVE  SizeOf(a, S) = IntSize * Cardinality(S) /\ Cardinality(S) \in Nat
<1>1. Len(a) \in Nat /\ DOMAIN a = 1 .. Len(a) /\ i \in Nat \ {0}
  OBVIOUS
<1>2. IsFiniteSet(S)
  BY <1>1, FiniteColumns, FS_Subset
<1>3. \A j \in S : j \in DOMAIN a /\ j # Len(a)
  <2>1. \A j \in S : j \in 1 .. (i - 1)
    BY DEF Before
  <2> QED
    BY <1>1, <2>1
<1>4. {j \in S : a[j].nullable} = {}
  BY <1>3 DEF Aligned
<1>5. Cardinality({j \in S : a[j].nullable}) = 0
  BY Zenon, <1>4, FS_EmptySet
<1> QED
  BY <1>2, <1>5, FS_CardinalityType DEF SizeOf, IntSize

\* The bytes of tuple_stack_ are those of its elements.
LEMMA LoadElement ==
  ASSUME NEW row \in Seq(Word), NEW g, NEW i \in DOMAIN row, NEW k \in 1 .. IntSize
  PROVE  Load(row, g, IntSize * (i - 1) + k) = row[i][k]
<1> DEFINE p == IntSize * (i - 1) + k
<1>1. Len(row) \in Nat /\ i \in 1 .. Len(row) /\ k \in 1 .. 8
  BY DEF IntSize
<1>2. p \in 1 .. IntSize * Len(row)
  BY <1>1 DEF IntSize
<1>3. (p - 1) \div IntSize = i - 1 /\ (p - 1) % IntSize = k - 1
  <2>1. i - 1 \in Nat /\ k - 1 \in 0 .. 7 /\ p - 1 = 8 * (i - 1) + (k - 1)
    BY <1>1 DEF IntSize
  <2>2. /\ (8 * (i - 1) + (k - 1)) \div 8 = i - 1
        /\ (8 * (i - 1) + (k - 1)) % 8 = k - 1
    BY Zenon, <2>1, WordOf
  <2> HIDE DEF p
  <2> QED
    BY <2>1, <2>2, Zenon DEF IntSize
<1>4. (i - 1) + 1 = i /\ (k - 1) + 1 = k
  BY <1>1
<1> QED
  BY <1>2, <1>3, <1>4 DEF Load

\* A column that Insert::codegen copied is found where Scan::codegen loads it.
LEMMA CopyColumn ==
  ASSUME NEW a \in Seq(Column), Aligned(a), NEW row \in Seq(Word),
         Len(row) <= Len(a), NEW g, NEW C \in SUBSET (DOMAIN row), NEW i \in C
  PROVE  FoundAt(a, row, g, C, i, IntSize * Cardinality(C \cap Before(i)))
<1> DEFINE offset == IntSize * Cardinality(C \cap Before(i))
<1>1. /\ Len(row) \in Nat /\ Len(a) \in Nat
      /\ C \in SUBSET (1 .. Len(row)) /\ i \in DOMAIN row /\ i \in DOMAIN a
  OBVIOUS
<1>2. SizeOf(a, C \cap Before(i)) = offset /\ offset \in Nat
  BY <1>1, AlignedSize DEF IntSize
<1>3. SizeOf(a, Before(i)) = IntSize * (i - 1)
  <2>1. SizeOf(a, Before(i)) = IntSize * Cardinality(Before(i))
    BY <1>1, AlignedSize
  <2>2. Cardinality(Before(i)) = i - 1
    BY <1>1, FiniteColumns
  <2> QED
    BY <2>1, <2>2
<1>4. ASSUME NEW k \in 1 .. IntSize
      PROVE  /\ offset + k \in DOMAIN Copy(a, row, g, C)
             /\ Copy(a, row, g, C)[offset + k] = row[i][k]
  <2>1. Copied(a, row, g, C, i, k)
    BY CopyByte
  <2>2. Load(row, g, IntSize * (i - 1) + k) = row[i][k]
    <3>1. i \in DOMAIN row
      OBVIOUS
    <3> HIDE DEF offset
    <3> QED
      BY <3>1, LoadElement, Zenon
  <2> QED
    BY <1>2, <1>3, <2>1, <2>2, Zenon DEF Copied
<1>5. row[i] \in [1 .. IntSize -> Byte]
  BY <1>1 DEF Word
<1> HIDE DEF offset
<1>6. ASSUME NEW h
      PROVE  LoadWord(Copy(a, row, g, C), offset, h) = [k \in 1 .. IntSize |-> row[i][k]]
  BY <1>4 DEF LoadWord
<1>7. FoundAt(a, row, g, C, i, offset)
  BY Zenon, <1>2, <1>4, <1>5, <1>6 DEF FoundAt
<1> QED
  BY <1>7 DEF offset

-----------------------------------------------------------------------------
(* Records *)

\* A row of a table's columns has no more elements than columns.
LEMMA LiteralRow ==
  ASSUME NEW a \in Seq(Column), NEW row \in Literals(a)
  PROVE  row \in Seq(Word) /\ Len(row) \in Nat /\ Len(row) <= Len(a)
         /\ DOMAIN row = 1 .. Len(row)
<1>1. row \in Seq(Word)
  BY LiteralType
<1>2. PICK m \in 0 .. Len(a) : row \in [1 .. m -> Words]
  BY DEF Literals
<1>3. Len(row) = m
  BY <1>1, <1>2
<1> QED
  BY <1>1, <1>2, <1>3

\* Loading behind a key's prefix.
LEMMA LoadBehind ==
  ASSUME NEW q \in Seq(Byte), NEW s \in Seq(Byte), NEW offset \in Nat, NEW h,
         \A k \in 1 .. IntSize : offset + k \in DOMAIN s
  PROVE  LoadWord(q \o s, Len(q) + offset, h) = LoadWord(s, offset, h)
<1>1. ASSUME NEW k \in 1 .. IntSize
      PROVE  /\ Len(q) + offset + k \in DOMAIN (q \o s)
             /\ (q \o s)[Len(q) + offset + k] = s[offset + k]
  <2>1. offset + k \in 1 .. Len(s) /\ Len(q) \in Nat /\ Len(s) \in Nat /\ k \in Nat
    <3>1. DOMAIN s = 1 .. Len(s) /\ Len(q) \in Nat /\ Len(s) \in Nat
      OBVIOUS
    <3>2. offset + k \in DOMAIN s
      OBVIOUS
    <3>3. k \in Nat
      OBVIOUS
    <3> QED
      BY <3>1, <3>2, <3>3, Zenon
  <2>2. /\ Len(q) + offset + k \in 1 .. Len(q) + Len(s)
        /\ Len(q) + offset + k > Len(q)
        /\ Len(q) + offset + k - Len(q) = offset + k
    BY <2>1
  <2> QED
    BY <2>1, <2>2
<1> QED
  BY <1>1 DEF LoadWord

\* The record of a whole row is loaded back as the row.
LEMMA DecodeRow ==
  ASSUME NEW n \in Identifier, NEW a \in Seq(Column), Aligned(a),
         NEW row \in Literals(a), Len(row) = Len(a), NEW g \in Byte, NEW h, NEW r,
         r.key = KeyBytes(n, a, row, g), r.value = ValueBytes(a, row, g)
  PROVE  Decode(n, a, r, h) = row
<1>1. /\ row \in Seq(Word) /\ Len(row) \in Nat /\ Len(row) <= Len(a)
      /\ DOMAIN row = 1 .. Len(row) /\ DOMAIN a = DOMAIN row
  BY LiteralRow
<1> DEFINE K == KeysOf(a, DOMAIN row)
           V == ValuesOf(a, DOMAIN row)
<1>2. K \in SUBSET (DOMAIN row) /\ V \in SUBSET (DOMAIN row)
  BY DEF KeysOf, ValuesOf
<1>3. Copy(a, row, g, K) \in Seq(Byte) /\ get_key_prefix(n) \in Seq(Byte)
  <2>1. get_key_prefix(n) \in Seq(Byte)
    BY DEF get_key_prefix, Identifier, Colon, Byte
  <2> HIDE DEF K
  <2>2. Copy(a, row, g, K) \in Seq(Byte)
    BY <1>1, <1>2, CopyType
  <2> QED
    BY <2>1, <2>2
<1>4. \A i \in DOMAIN a : Before(i) \subseteq DOMAIN row
  BY <1>1 DEF Before
<1>5. ASSUME NEW i \in DOMAIN a, is_key(a, i)
      PROVE  LoadWord(r.key, Len(get_key_prefix(n))
                      + IntSize * Cardinality(KeysOf(a, Before(i))), h) = row[i]
  <2>1. i \in K /\ K \cap Before(i) = KeysOf(a, Before(i))
    BY <1>1, <1>4, <1>5 DEF KeysOf
  <2> DEFINE offset == IntSize * Cardinality(K \cap Before(i))
  <2>2. r.key = get_key_prefix(n) \o Copy(a, row, g, K)
    BY DEF KeyBytes
  <2> HIDE DEF K
  <2>3. /\ offset \in Nat
        /\ \A k \in 1 .. IntSize : offset + k \in DOMAIN Copy(a, row, g, K)
        /\ LoadWord(Copy(a, row, g, K), offset, h) = row[i]
    <3>1. FoundAt(a, row, g, K, i, offset)
      BY <1>1, <1>2, <2>1, CopyColumn
    <3> QED
      BY <3>1, Zenon DEF FoundAt
  <2> HIDE DEF offset
  <2>4. LoadWord(r.key, Len(get_key_prefix(n)) + offset, h) = row[i]
    BY <1>3, <2>2, <2>3, LoadBehind
  <2> QED
    BY Zenon, <2>1, <2>4 DEF offset
<1>6. ASSUME NEW i \in DOMAIN a, ~ is_key(a, i)
      PROVE  LoadWord(r.value, IntSize * Cardinality(ValuesOf(a, Before(i))), h)
               = row[i]
  <2>1. i \in V /\ V \cap Before(i) = ValuesOf(a, Before(i))
    BY <1>1, <1>4, <1>6 DEF ValuesOf
  <2>2. r.value = Copy(a, row, g, V)
    BY DEF ValueBytes
  <2> HIDE DEF V
  <2>3. LoadWord(Copy(a, row, g, V), IntSize * Cardinality(V \cap Before(i)), h)
          = row[i]
    <3>1. FoundAt(a, row, g, V, i, IntSize * Cardinality(V \cap Before(i)))
      BY <1>1, <1>2, <2>1, CopyColumn
    <3> QED
      BY <3>1, Zenon DEF FoundAt
  <2> QED
    BY Zenon, <2>1, <2>2, <2>3
<1>7. Decode(n, a, r, h) = [i \in DOMAIN a |-> row[i]]
  BY <1>5, <1>6 DEF Decode
<1> QED
  BY <1>1, <1>7

\* Equal keys have equal tables and equal bytes behind the prefix.
SplitsAlike(n, s, u, t) ==
  get_key_prefix(n) \o s = get_key_prefix(u) \o t => n = u /\ s = t

\* A key tells where its table's name ends: names have no ':'.
LEMMA KeySplits ==
  ASSUME NEW n \in Identifier, NEW u \in Identifier,
         NEW s \in Seq(Byte), NEW t \in Seq(Byte)
  PROVE  SplitsAlike(n, s, u, t)
<1> SUFFICES ASSUME get_key_prefix(n) \o s = get_key_prefix(u) \o t
             PROVE  n = u /\ s = t
  BY DEF SplitsAlike
<1> DEFINE k == get_key_prefix(n) \o s
<1>1. /\ Len(k) = Len(n) + 1 + Len(s) /\ Len(k) = Len(u) + 1 + Len(t)
      /\ \A i \in 1 .. Len(n) : k[i] = n[i]
      /\ \A i \in 1 .. Len(u) : k[i] = u[i]
      /\ k[Len(n) + 1] = Colon /\ k[Len(u) + 1] = Colon
  <2>1. /\ Len(k) = Len(n) + 1 + Len(s) /\ k[Len(n) + 1] = Colon
        /\ \A i \in 1 .. Len(n) : k[i] = n[i]
    BY Zenon, KeyParts
  <2> DEFINE l == get_key_prefix(u) \o t
  <2>2. /\ Len(l) = Len(u) + 1 + Len(t) /\ l[Len(u) + 1] = Colon
        /\ \A i \in 1 .. Len(u) : l[i] = u[i]
    BY Zenon, KeyParts
  <2>3. k = l
    OBVIOUS
  <2> HIDE DEF k, l
  <2> QED
    BY <2>1, <2>2, <2>3, Zenon
<1>2. /\ n \in Seq(Byte) /\ u \in Seq(Byte)
      /\ Len(n) \in Nat /\ Len(u) \in Nat /\ Len(s) \in Nat /\ Len(t) \in Nat
      /\ \A i \in 1 .. Len(n) : n[i] # Colon
      /\ \A i \in 1 .. Len(u) : u[i] # Colon
  <2>1. Len(s) \in Nat /\ Len(t) \in Nat
    BY Bytes
  <2> QED
    BY <2>1, NameChars
<1> HIDE DEF k
<1>3. ~ (Len(n) < Len(u))
  <2> SUFFICES ASSUME Len(n) < Len(u) PROVE FALSE
    OBVIOUS
  <2>1. Len(n) + 1 \in 1 .. Len(u)
    BY <1>2
  <2> QED
    BY Zenon, <1>1, <1>2, <2>1
<1>4. ~ (Len(u) < Len(n))
  <2> SUFFICES ASSUME Len(u) < Len(n) PROVE FALSE
    OBVIOUS
  <2>1. Len(u) + 1 \in 1 .. Len(n)
    BY <1>2
  <2> QED
    BY Zenon, <1>1, <1>2, <2>1
<1>5. Len(n) = Len(u)
  BY <1>2, <1>3, <1>4
<1>6. n = u
  BY <1>1, <1>2, <1>5, SameBytes
<1>7. s = t
  <2>1. Len(s) = Len(t)
    BY <1>1, <1>2, <1>5
  <2>2. get_key_prefix(n) \in Seq(Byte) /\ get_key_prefix(u) = get_key_prefix(n)
    BY <1>6 DEF get_key_prefix, Identifier, Colon, Byte
  <2> DEFINE q == get_key_prefix(n)
  <2> HIDE DEF q
  <2>3. \A j \in 1 .. Len(s) : s[j] = (q \o s)[Len(q) + j] /\ t[j] = (q \o t)[Len(q) + j]
    BY <2>1, <2>2 DEF q
  <2>4. q \o s = q \o t
    BY <2>2 DEF q
  <2>5. \A j \in 1 .. Len(t) : s[j] = t[j]
    BY SMTT(30), <2>1, <2>3, <2>4
  <2> QED
    BY <2>1, <2>5, SameBytes
<1> QED
  BY <1>6, <1>7

\* Equal bytes of key columns come from equal key columns, though the rows may
\* have different lengths.
LEMMA KeyColumnsFollow ==
  ASSUME NEW a \in Seq(Column), Aligned(a), NEW row \in Literals(a),
         NEW old \in Literals(a), NEW g, NEW h,
         Copy(a, row, g, KeysOf(a, DOMAIN row))
           = Copy(a, old, h, KeysOf(a, DOMAIN old))
  PROVE  KeyColumns(a, row) = KeyColumns(a, old)
<1> DEFINE K == KeysOf(a, DOMAIN row)
           L == KeysOf(a, DOMAIN old)
<1>1. /\ row \in Seq(Word) /\ Len(row) \in Nat /\ Len(row) <= Len(a)
      /\ old \in Seq(Word) /\ Len(old) \in Nat /\ Len(old) <= Len(a)
      /\ DOMAIN row = 1 .. Len(row) /\ DOMAIN old = 1 .. Len(old)
  BY LiteralRow
<1>2. K \in SUBSET (DOMAIN row) /\ L \in SUBSET (DOMAIN old)
  BY DEF KeysOf
<1>3. IsFiniteSet(K) /\ IsFiniteSet(L)
  BY Zenon, <1>1, <1>2, FiniteColumns
<1>4. K \subseteq L \/ L \subseteq K
  <2>1. DOMAIN row \subseteq DOMAIN old \/ DOMAIN old \subseteq DOMAIN row
    BY <1>1
  <2> QED
    BY <2>1 DEF KeysOf
<1>5. SizeOf(a, K) = SizeOf(a, L)
  <2>1. SizeOf(a, K) \in Nat /\ SizeOf(a, L) \in Nat
    BY Zenon, <1>3, Counted
  <2>2. /\ DOMAIN Copy(a, row, g, K) = 1 .. SizeOf(a, K)
        /\ DOMAIN Copy(a, old, h, L) = 1 .. SizeOf(a, L)
    BY DEF Copy
  <2> HIDE DEF K, L
  <2>3. 1 .. SizeOf(a, K) = 1 .. SizeOf(a, L)
    BY <2>2 DEF K, L
  <2> QED
    BY <2>1, <2>3
<1>6. ASSUME NEW S, NEW T, IsFiniteSet(T), S \subseteq T,
             SizeOf(a, S) = SizeOf(a, T)
      PROVE  S = T
  <2> SUFFICES ASSUME NEW i \in T, i \notin S PROVE FALSE
    BY Zenon, <1>6
  <2>1. IsFiniteSet(S) /\ S \cup {i} \in SUBSET T
    BY <1>6, FS_Subset
  <2>2. SizeOf(a, S \cup {i}) = SizeOf(a, S) + get_tuple_length(a, i)
    BY <2>1, SizeAdd
  <2>3. SizeOf(a, S \cup {i}) <= SizeOf(a, T) /\ SizeOf(a, S) \in Nat
    BY Zenon, <1>6, <2>1, SizeMono, Counted
  <2>4. get_tuple_length(a, i) \in {8, 9}
    BY DEF get_tuple_length, IntSize
  <2> QED
    BY <1>6, <2>2, <2>3, <2>4
<1> HIDE DEF K, L
<1>7. K = L
  BY <1>3, <1>4, <1>5, <1>6
<1>8. ASSUME NEW i \in K PROVE row[i] = old[i]
  <2> DEFINE offset == IntSize * Cardinality(K \cap Before(i))
  <2>1. FoundAt(a, row, g, K, i, offset)
    BY <1>1, <1>2, CopyColumn
  <2>2. FoundAt(a, old, h, K, i, offset)
    BY <1>1, <1>2, <1>7, CopyColumn
  <2>3. Copy(a, row, g, K) = Copy(a, old, h, K)
    BY <1>7 DEF K, L
  <2> HIDE DEF offset
  <2> QED
    BY <2>1, <2>2, <2>3, Zenon DEF FoundAt
<1> QED
  BY <1>7, <1>8 DEF KeyColumns, K, L

-----------------------------------------------------------------------------
(* The invariants *)

\* A record has the bytes that Insert::codegen copied from its row.
RecordInv ==
  \A r \in store : \E g \in Garbage :
    /\ r.row \in Literals(r.attrs)
    /\ r.key = KeyBytes(r.table, r.attrs, r.row, g)
    /\ r.value = ValueBytes(r.attrs, r.row, g)

\* The rows of the last scan are the records in its range, as loaded.
ScannedInv ==
  LET n == scanned.table
  IN  n # << >> =>
        /\ n \in DOMAIN schemas
        /\ \E g \in Garbage :
             scanned.rows = {Decode(n, schemas[n], r, g) :
                               r \in {s \in store : InRange(n, s.key)}}

\* Only Insert adds a record, and it copies the row it has.
THEOREM RecordsHoldRows == Spec => []RecordInv
<1>1. Init => RecordInv
  BY DEF Init, RecordInv
<1>2. RecordInv /\ [Next]_vars => RecordInv'
  <2> SUFFICES ASSUME RecordInv, [Next]_vars PROVE RecordInv'
    OBVIOUS
  <2>1. CASE store' = store
    BY <2>1 DEF RecordInv
  <2>2. ASSUME NEW n \in DOMAIN schemas, NEW g \in Garbage,
               NEW row \in Literals(schemas[n]), Insert(n, row, g)
        PROVE  RecordInv'
    <3> DEFINE r == [key |-> KeyBytes(n, schemas[n], row, g),
                     value |-> ValueBytes(schemas[n], row, g),
                     table |-> n, attrs |-> schemas[n], row |-> row]
    <3>1. store' = store \/ store' = store \cup {r}
      BY <2>2 DEF Insert
    <3>2. /\ r.row \in Literals(r.attrs)
          /\ r.key = KeyBytes(r.table, r.attrs, r.row, g)
          /\ r.value = ValueBytes(r.attrs, r.row, g)
      OBVIOUS
    <3> HIDE DEF r
    <3> QED
      BY <2>1, <3>1, <3>2 DEF RecordInv
  <2> QED
    BY Zenon, <2>1, <2>2 DEF Next, vars, Define, Scan
<1> QED
  BY <1>1, <1>2, PTL DEF Spec

\* Every program starts without a scan's rows, and an insert drops them.
LEMMA ScannedStep == ScannedInv /\ [Next]_vars => ScannedInv'
<1> SUFFICES ASSUME ScannedInv, [Next]_vars PROVE ScannedInv'
  OBVIOUS
<1>1. CASE scanned' = NoScan
  BY <1>1 DEF ScannedInv, NoScan
<1>2. CASE UNCHANGED vars
  BY SMTT(30), <1>2 DEF vars, ScannedInv
<1>3. ASSUME NEW n \in DOMAIN schemas, NEW g \in Garbage, Scan(n, g)
      PROVE  ScannedInv'
  <2>1. /\ scanned'.table = n /\ schemas' = schemas /\ store' = store
        /\ scanned'.rows = {Decode(n, schemas[n], r, g) :
                              r \in {s \in store : InRange(n, s.key)}}
    BY <1>3 DEF Scan
  <2> QED
    BY <2>1 DEF ScannedInv
<1> QED
  BY Zenon, <1>1, <1>2, <1>3 DEF Next, Define, Insert

\* A scan returns the rows inserted, for every list of columns of which only the
\* last one, and no key, may be nullable.
THEOREM ScansAreExact == Spec => []ScanExact
<1>1. Init => ScannedInv
  BY DEF Init, ScannedInv, NoScan
<1>2. TypeOK /\ RecordInv /\ ScannedInv /\ ScanCovers /\ ScanIsolated => ScanExact
  <2> DEFINE n == scanned.table
  <2>1. SUFFICES ASSUME TypeOK, RecordInv, ScannedInv, ScanCovers, ScanIsolated,
                        n # << >>, Regular(n), \A r \in store : ~Overlaps(n, r.table)
                 PROVE  scanned.rows = {r.row : r \in RowsOf(n)}
    BY DEF ScanExact
  <2>2. n \in DOMAIN schemas /\ n \in Names /\ schemas[n] \in Seq(Column)
        /\ n \in Identifier
    BY <2>1, TableAssumption DEF ScannedInv, TypeOK
  <2>3. PICK g \in Garbage :
          scanned.rows = {Decode(n, schemas[n], r, g) :
                            r \in {s \in store : InRange(n, s.key)}}
    BY <2>1 DEF ScannedInv
  <2>4. {s \in store : InRange(n, s.key)} = RowsOf(n)
    BY <2>1, <2>2 DEF ScanCovers, ScanIsolated, RowsOf
  <2>5. ASSUME NEW r \in RowsOf(n) PROVE Decode(n, schemas[n], r, g) = r.row
    <3>1. /\ r \in store /\ r.table = n /\ r.attrs = schemas[n]
          /\ Aligned(schemas[n]) /\ Len(r.row) = Len(schemas[n])
      BY <2>1 DEF RowsOf, Regular
    <3>2. PICK h \in Garbage : /\ r.row \in Literals(schemas[n])
                               /\ r.key = KeyBytes(n, schemas[n], r.row, h)
                               /\ r.value = ValueBytes(schemas[n], r.row, h)
      BY <2>1, <3>1 DEF RecordInv
    <3>3. h \in Byte
      BY TableAssumption
    <3> HIDE DEF n
    <3> QED
      BY <2>2, <3>1, <3>2, <3>3, DecodeRow
  <2> HIDE DEF n
  <2> QED
    BY <2>3, <2>4, <2>5
<1> QED
  BY <1>1, <1>2, ScannedStep, TableTypeCorrect, RecordsHoldRows,
     ScanCoversTable, ScanIsIsolated, PTL DEF Spec

\* foedus_insert refuses a row only for a row of its table with the same key
\* columns, for every set of names and every such list of columns.
THEOREM OnlyDuplicatesRefused == Spec => []RefusedOnlyDuplicates
<1>1. TypeOK /\ RecordInv => RefusedOnlyDuplicates
  <2>1. SUFFICES ASSUME TypeOK, RecordInv, NEW n \in DOMAIN schemas,
                        Aligned(schemas[n]), NEW row \in Literals(schemas[n]),
                        NEW g \in Garbage, NEW r \in store,
                        r.key = KeyBytes(n, schemas[n], row, g),
                        r.table = n => r.attrs = schemas[n]
                 PROVE  /\ r.table = n
                        /\ KeyColumns(r.attrs, r.row) = KeyColumns(schemas[n], row)
    BY DEF RefusedOnlyDuplicates
  <2>2. PICK h \in Garbage : /\ r.row \in Literals(r.attrs)
                             /\ r.key = KeyBytes(r.table, r.attrs, r.row, h)
    BY <2>1 DEF RecordInv
  <2>3. /\ n \in Identifier /\ r.table \in Identifier
        /\ schemas[n] \in Seq(Column) /\ r.attrs \in Seq(Column)
        /\ g \in Byte /\ h \in Byte
    BY <2>1, TableAssumption DEF TypeOK
  <2> DEFINE s == Copy(schemas[n], row, g, KeysOf(schemas[n], DOMAIN row))
             t == Copy(r.attrs, r.row, h, KeysOf(r.attrs, DOMAIN r.row))
  <2>4. get_key_prefix(n) \o s = get_key_prefix(r.table) \o t
    BY Zenon, <2>1, <2>2 DEF KeyBytes
  <2>5. s \in Seq(Byte) /\ t \in Seq(Byte)
    <3>1. row \in Seq(Word) /\ r.row \in Seq(Word)
      BY <2>1, <2>2, <2>3, LiteralRow
    <3>2. KeysOf(schemas[n], DOMAIN row) \in SUBSET (DOMAIN row)
          /\ KeysOf(r.attrs, DOMAIN r.row) \in SUBSET (DOMAIN r.row)
      BY DEF KeysOf
    <3> QED
      BY <2>3, <3>1, <3>2, CopyType
  <2> HIDE DEF s, t
  <2>6. n = r.table /\ s = t
    <3>1. SplitsAlike(n, s, r.table, t)
      BY <2>3, <2>5, KeySplits
    <3> QED
      BY <2>4, <3>1 DEF SplitsAlike
  <2>7. r.attrs = schemas[n]
    BY <2>1, <2>6
  <2> QED
    BY <2>1, <2>2, <2>3, <2>6, <2>7, KeyColumnsFollow DEF s, t
<1> QED
  BY <1>1, TableTypeCorrect, RecordsHoldRows, PTL
=============================================================================
