----------------------------- MODULE DataProofs -----------------------------
(***************************************************************************)
(* The bytes of rows and the text of schemas, for any number of columns:   *)
(* what an insert writes for a row and a scan reads of it, and what        *)
(* Schema::serialize writes and Schema::deserialize finds in it.           *)
(***************************************************************************)
EXTENDS Rows, Texts, WellFoundedInduction, TLAPS

-----------------------------------------------------------------------------
(* Induction, and functions defined by recursion *)

\* A set of numbers has a least one.
LEMMA Least ==
  ASSUME NEW T, T \subseteq Nat, T # {}
  PROVE  \E n \in T : \A m \in T : n <= m
<1>1. PICK n \in T : \A m \in T : ~(<<m, n>> \in OpToRel(<, Nat))
  BY Zenon, NatLessThanWellFounded, WFMin
<1>2. OpToRel(<, Nat) = {ss \in Nat \X Nat : ss[1] < ss[2]}
  BY Zenon DEF OpToRel
<1>3. \A m \in T : ~(m < n)
  <2>1. \A m \in T : <<m, n>> \in Nat \X Nat
    BY <1>1, Zenon
  <2> QED BY Zenon, <1>1, <1>2, <2>1
<1>4. \A m \in T : n <= m
  <2>1. n \in Nat /\ \A m \in T : m \in Nat
    BY <1>1, Zenon
  <2> QED BY <1>3, <2>1
<1> QED BY <1>1, <1>4, Zenon

\* What holds of 0 and with n of n + 1 holds of every number.
LEMMA Induction ==
  ASSUME NEW T, 0 \in T, \A n \in Nat : n \in T => n + 1 \in T
  PROVE  \A n \in Nat : n \in T
<1> SUFFICES ASSUME Nat \ T # {} PROVE FALSE
  BY Zenon
<1>1. PICK n \in Nat \ T : \A m \in Nat \ T : n <= m
  BY Least, Zenon
<1>2. n - 1 \in Nat /\ n - 1 \in T
  BY <1>1
<1> QED BY <1>1, <1>2

\* g begins with a, and every further value comes of the one before.
Follows(N, a, step, g) ==
  g[0] = a /\ \A i \in 1 .. N : g[i] = step[i][g[i - 1]]

\* There is such a function.
LEMMA Recursion ==
  ASSUME NEW N \in Nat, NEW S, NEW a \in S, NEW step \in [1 .. N -> [S -> S]]
  PROVE  \E g : g \in [0 .. N -> S] /\ Follows(N, a, step, g)
<1> USE DEF Follows
<1> DEFINE Good(n, g) == g \in [0 .. n -> S] /\ Follows(n, a, step, g)
           T == {n \in Nat : n <= N => \E g : Good(n, g)}
<1>1. 0 \in T
  <2>1. Good(0, [i \in 0 .. 0 |-> a])
    OBVIOUS
  <2> QED BY <2>1, Zenon
<1>2. ASSUME NEW n \in Nat, n \in T PROVE n + 1 \in T
  <2> SUFFICES ASSUME n + 1 <= N PROVE \E g : Good(n + 1, g)
    OBVIOUS
  <2>1. PICK g : Good(n, g)
    BY <1>2
  <2> DEFINE h == [i \in 0 .. n + 1 |->
                     IF i <= n THEN g[i] ELSE step[n + 1][g[n]]]
  <2>2. n + 1 \in 1 .. N /\ g[n] \in S
    BY <2>1
  <2>3. step[n + 1] \in [S -> S]
    BY <2>2, Zenon
  <2>4. step[n + 1][g[n]] \in S
    BY <2>2, <2>3, Zenon
  <2>5. h \in [0 .. n + 1 -> S]
    BY <2>1, <2>4
  <2>6. h[0] = a
    BY <2>1
  <2>7. ASSUME NEW i \in 1 .. n + 1 PROVE h[i] = step[i][h[i - 1]]
    <3>1. i - 1 \in 0 .. n /\ h[i - 1] = g[i - 1]
      OBVIOUS
    <3>2. CASE i <= n
      BY <2>1, <3>1, <3>2
    <3>3. CASE i = n + 1
      BY <3>1, <3>3
    <3> QED BY <3>2, <3>3
  <2> HIDE DEF h
  <2> QED BY <2>5, <2>6, <2>7, Zenon
<1> HIDE DEF T
<1>3. N \in T
  BY <1>1, <1>2, Induction, Zenon
<1> QED BY <1>3 DEF T

\* f adds up the numbers of x.
AddSteps(n, x, f) ==
  f[0] = 0 /\ \A i \in 1 .. n : f[i] = f[i - 1] + x[i]
AddsUp(n, x, f) == f \in [0 .. n -> Nat] /\ AddSteps(n, x, f)

LEMMA AddsSame ==
  ASSUME NEW n \in Nat, NEW x, NEW f, NEW g, AddSteps(n, x, f), AddSteps(n, x, g)
  PROVE  f[n] = g[n]
<1> USE DEF AddSteps
<1> DEFINE T == {i \in Nat : i <= n => f[i] = g[i]}
<1>1. 0 \in T
  BY Zenon
<1>2. ASSUME NEW i \in Nat, i \in T PROVE i + 1 \in T
  <2> SUFFICES ASSUME i + 1 <= n PROVE f[i + 1] = g[i + 1]
    OBVIOUS
  <2>1. f[i] = g[i] /\ i + 1 \in 1 .. n /\ (i + 1) - 1 = i
    BY <1>2
  <2>2. f[i + 1] = f[i] + x[i + 1] /\ g[i + 1] = g[i] + x[i + 1]
    BY <2>1, Zenon
  <2> QED BY <2>1, <2>2, Zenon
<1> HIDE DEF T
<1>3. \A i \in Nat : i \in T
  BY <1>1, <1>2, Induction, Zenon
<1> QED BY <1>3 DEF T

LEMMA AddsExist ==
  ASSUME NEW n \in Nat, NEW x \in [1 .. n -> Nat]
  PROVE  \E f : AddsUp(n, x, f)
<1> DEFINE step == [i \in 1 .. n |-> [q \in Nat |-> q + x[i]]]
<1>1. step \in [1 .. n -> [Nat -> Nat]]
  OBVIOUS
<1>2. \A i \in 1 .. n : \A q \in Nat : step[i][q] = q + x[i]
  BY Zenon
<1> HIDE DEF step
<1>3. PICK g : g \in [0 .. n -> Nat] /\ Follows(n, 0, step, g)
  <2>1. 0 \in Nat
    BY Zenon
  <2> QED BY <1>1, <2>1, Recursion, Zenon
<1>4. \A i \in 1 .. n : g[i - 1] \in Nat
  BY <1>3
<1>5. g[0] = 0 /\ \A i \in 1 .. n : g[i] = g[i - 1] + x[i]
  BY <1>2, <1>3, <1>4, Zenon DEF Follows
<1> QED BY <1>3, <1>5, Zenon DEF AddsUp, AddSteps

LEMMA TotalFunction ==
  ASSUME NEW n \in Nat, NEW x \in [1 .. n -> Nat]
  PROVE  \E f : AddsUp(n, x, f) /\ Total(n, x) = f[n]
<1> DEFINE Eq(f) == f = [i \in 0 .. n |-> IF i = 0 THEN 0 ELSE f[i - 1] + x[i]]
           f == CHOOSE upto : Eq(upto)
<1>1. PICK g : AddsUp(n, x, g)
  BY AddsExist, Zenon
<1>2. Eq(g)
  <2>1. PICK h : h = [i \in 0 .. n |-> IF i = 0 THEN 0 ELSE g[i - 1] + x[i]]
    BY Zenon
  <2>2. \A i \in 0 .. n : g[i] = h[i]
    BY <1>1, <2>1 DEF AddsUp, AddSteps
  <2> QED BY <1>1, <2>1, <2>2, Zenon DEF AddsUp
<1>3. Eq(f)
  BY <1>2, Zenon
<1>4. Total(n, x) = f[n]
  BY Zenon DEF Total
<1> HIDE DEF f
<1>5. AddSteps(n, x, f)
  BY <1>3 DEF AddSteps
<1>6. f[n] = g[n]
  BY <1>1, <1>5, AddsSame, Zenon DEF AddsUp
<1> QED BY <1>1, <1>4, <1>6, Zenon

\* The sum of one number more.
LEMMA TotalSteps ==
  ASSUME NEW n \in Nat, NEW x \in [1 .. n -> Nat], NEW y \in [1 .. n + 1 -> Nat],
         \A i \in 1 .. n : y[i] = x[i]
  PROVE  Total(n, x) \in Nat /\ Total(n + 1, y) = Total(n, x) + y[n + 1]
<1>1. PICK f : AddsUp(n, x, f) /\ Total(n, x) = f[n]
  BY TotalFunction, Zenon
<1>2. PICK g : AddsUp(n + 1, y, g) /\ Total(n + 1, y) = g[n + 1]
  BY TotalFunction
<1>3. n \in 0 .. n /\ n + 1 \in 1 .. n + 1 /\ (n + 1) - 1 = n
  OBVIOUS
<1>4. AddSteps(n, x, g)
  BY <1>2 DEF AddsUp, AddSteps
<1>5. f[n] = g[n]
  BY <1>1, <1>4, AddsSame, Zenon DEF AddsUp
<1>6. g[n + 1] = g[n] + y[n + 1]
  BY <1>2, <1>3, Zenon DEF AddsUp, AddSteps
<1>7. f[n] \in Nat
  BY <1>1, <1>3, Zenon DEF AddsUp
<1> QED BY <1>1, <1>2, <1>5, <1>6, <1>7, Zenon

LEMMA TotalNone == ASSUME NEW x \in [1 .. 0 -> Nat] PROVE Total(0, x) = 0
<1>1. 0 \in Nat
  BY Zenon
<1>2. PICK f : AddsUp(0, x, f) /\ Total(0, x) = f[0]
  BY <1>1, TotalFunction, Zenon
<1> QED BY <1>2, Zenon DEF AddsUp, AddSteps

\* f joins the pieces of x.
JoinSteps(n, x, f) ==
  f[0] = << >> /\ \A i \in 1 .. n : f[i] = f[i - 1] \o x[i]
Joins(S, n, x, f) == f \in [0 .. n -> Seq(S)] /\ JoinSteps(n, x, f)

LEMMA JoinsSame ==
  ASSUME NEW n \in Nat, NEW x, NEW f, NEW g, JoinSteps(n, x, f), JoinSteps(n, x, g)
  PROVE  f[n] = g[n]
<1> USE DEF JoinSteps
<1> DEFINE T == {i \in Nat : i <= n => f[i] = g[i]}
<1>1. 0 \in T
  BY Zenon
<1>2. ASSUME NEW i \in Nat, i \in T PROVE i + 1 \in T
  <2> SUFFICES ASSUME i + 1 <= n PROVE f[i + 1] = g[i + 1]
    OBVIOUS
  <2>1. f[i] = g[i] /\ i + 1 \in 1 .. n /\ (i + 1) - 1 = i
    BY <1>2
  <2>2. f[i + 1] = f[i] \o x[i + 1] /\ g[i + 1] = g[i] \o x[i + 1]
    BY <2>1, Zenon
  <2> QED BY <2>1, <2>2, Zenon
<1> HIDE DEF T
<1>3. \A i \in Nat : i \in T
  BY <1>1, <1>2, Induction, Zenon
<1> QED BY <1>3 DEF T

LEMMA JoinsExist ==
  ASSUME NEW S, NEW n \in Nat, NEW x \in [1 .. n -> Seq(S)]
  PROVE  \E f : Joins(S, n, x, f)
<1> DEFINE step == [i \in 1 .. n |-> [q \in Seq(S) |-> q \o x[i]]]
<1>1. step \in [1 .. n -> [Seq(S) -> Seq(S)]]
  <2>1. \A i \in 1 .. n : \A q \in Seq(S) : q \o x[i] \in Seq(S)
    OBVIOUS
  <2>2. \A i \in 1 .. n : [q \in Seq(S) |-> q \o x[i]] \in [Seq(S) -> Seq(S)]
    BY <2>1, Zenon
  <2> QED BY <2>2, Zenon
<1>2. \A i \in 1 .. n : \A q \in Seq(S) : step[i][q] = q \o x[i]
  BY Zenon
<1> HIDE DEF step
<1>3. PICK g : g \in [0 .. n -> Seq(S)] /\ Follows(n, << >>, step, g)
  <2>1. << >> \in Seq(S)
    OBVIOUS
  <2> QED BY <1>1, <2>1, Recursion, Zenon
<1>4. \A i \in 1 .. n : g[i - 1] \in Seq(S)
  BY <1>3
<1>5. g[0] = << >> /\ \A i \in 1 .. n : g[i] = g[i - 1] \o x[i]
  BY <1>2, <1>3, <1>4, Zenon DEF Follows
<1> QED BY <1>3, <1>5, Zenon DEF Joins, JoinSteps

LEMMA ConcatFunction ==
  ASSUME NEW S, NEW n \in Nat, NEW x \in [1 .. n -> Seq(S)]
  PROVE  \E f : Joins(S, n, x, f) /\ Concat(n, x) = f[n]
<1> DEFINE Eq(f) == f = [i \in 0 .. n |-> IF i = 0 THEN << >> ELSE f[i - 1] \o x[i]]
           f == CHOOSE upto : Eq(upto)
<1>1. PICK g : Joins(S, n, x, g)
  BY JoinsExist, Zenon
<1>2. Eq(g)
  <2>1. PICK h : h = [i \in 0 .. n |-> IF i = 0 THEN << >> ELSE g[i - 1] \o x[i]]
    BY Zenon
  <2>2. \A i \in 0 .. n : g[i] = h[i]
    <3>1. 0 \in 0 .. n /\ \A i \in 1 .. n : i \in 0 .. n /\ i # 0
      OBVIOUS
    <3>2. \A i \in 0 .. n : i = 0 \/ i \in 1 .. n
      OBVIOUS
    <3>3. h[0] = << >> /\ \A i \in 1 .. n : h[i] = g[i - 1] \o x[i]
      BY <2>1, <3>1, Zenon
    <3> QED BY <1>1, <3>2, <3>3, Zenon DEF Joins, JoinSteps
  <2> QED BY <1>1, <2>1, <2>2, Zenon DEF Joins
<1>3. Eq(f)
  BY <1>2, Zenon
<1>4. Concat(n, x) = f[n]
  BY Zenon DEF Concat
<1> HIDE DEF f
<1>5. JoinSteps(n, x, f)
  <2>1. PICK h : h = [i \in 0 .. n |-> IF i = 0 THEN << >> ELSE f[i - 1] \o x[i]]
    BY Zenon
  <2>2. 0 \in 0 .. n /\ \A i \in 1 .. n : i \in 0 .. n /\ i # 0
    OBVIOUS
  <2>3. h[0] = << >> /\ \A i \in 1 .. n : h[i] = f[i - 1] \o x[i]
    BY <2>1, <2>2, Zenon
  <2> QED BY <1>3, <2>1, <2>3, Zenon DEF JoinSteps
<1>6. f[n] = g[n]
  BY <1>1, <1>5, JoinsSame, Zenon DEF Joins
<1> QED BY <1>1, <1>4, <1>6, Zenon

-----------------------------------------------------------------------------
(* The sizes and the bytes of rows *)

\* What column i adds to the size.
Adds(s, i, keys) == IF s[i].key \in keys THEN default_size(s[i]) ELSE 0

LEMMA AddsNat == \A s, i, keys : default_size(s[i]) \in Nat /\ Adds(s, i, keys) \in Nat
  BY DEF Adds, default_size, W

LEMMA SizeSteps ==
  ASSUME NEW s, NEW keys
  PROVE  /\ SizeOf(s, 0, keys) = 0
         /\ \A n \in Nat : SizeOf(s, n, keys) \in Nat
         /\ \A n \in Nat :
              SizeOf(s, n + 1, keys) = SizeOf(s, n, keys) + Adds(s, n + 1, keys)
<1> DEFINE x(n) == [i \in 1 .. n |-> Adds(s, i, keys)]
<1>1. \A n : SizeOf(s, n, keys) = Total(n, x(n))
  BY Zenon DEF SizeOf, Adds
<1>2. \A n : x(n) \in [1 .. n -> Nat]
  BY AddsNat, Zenon
<1>3. ASSUME NEW n \in Nat
      PROVE  x(n + 1)[n + 1] = Adds(s, n + 1, keys) /\ \A i \in 1 .. n : x(n + 1)[i] = x(n)[i]
  OBVIOUS
<1> HIDE DEF x
<1>4. ASSUME NEW n \in Nat
      PROVE  /\ SizeOf(s, n, keys) \in Nat
             /\ SizeOf(s, n + 1, keys) = SizeOf(s, n, keys) + Adds(s, n + 1, keys)
  <2>1. Total(n, x(n)) \in Nat /\ Total(n + 1, x(n + 1)) = Total(n, x(n)) + x(n + 1)[n + 1]
    BY <1>2, <1>3, TotalSteps, Zenon
  <2> QED BY <1>1, <1>3, <2>1, Zenon
<1> QED BY <1>1, <1>2, <1>4, TotalNone, Zenon

\* The bytes that element i adds to the key or the value.
Piece(s, i, key) ==
  IF s[i].key = key THEN Bytes(InsertOffset(s, i), default_size(s[i])) ELSE << >>

LEMMA PieceSeq ==
  ASSUME NEW s, NEW i \in Nat \ {0}, NEW key
  PROVE  /\ Piece(s, i, key) \in Seq(Nat)
         /\ Len(Piece(s, i, key)) = Adds(s, i, {key})
         /\ s[i].key = key => \A b \in 1 .. default_size(s[i]) :
              Piece(s, i, key)[b] = InsertOffset(s, i) + b - 1
<1>1. PICK m, d : m = InsertOffset(s, i) /\ d = default_size(s[i])
  BY Zenon
<1>2. m \in Nat /\ d \in Nat
  <2>1. i - 1 \in Nat
    OBVIOUS
  <2>2. SizeOf(s, i - 1, BOOLEAN) \in Nat
    BY <2>1, SizeSteps, Zenon
  <2> QED BY <1>1, <2>2, AddsNat, Zenon DEF InsertOffset
<1>3. /\ Bytes(m, d) \in Seq(Nat) /\ Len(Bytes(m, d)) = d
      /\ \A b \in 1 .. d : Bytes(m, d)[b] = m + b - 1
  BY <1>2 DEF Bytes
<1>4. CASE s[i].key = key
  <2>1. Piece(s, i, key) = Bytes(m, d) /\ Adds(s, i, {key}) = d
    BY <1>1, <1>4, Zenon DEF Piece, Adds
  <2> QED BY <1>1, <1>3, <2>1, Zenon
<1>5. CASE s[i].key # key
  <2>1. Piece(s, i, key) = << >> /\ Adds(s, i, {key}) = 0
    BY <1>5, Zenon DEF Piece, Adds
  <2> QED BY <1>5, <2>1
<1> QED BY <1>4, <1>5, Zenon

LEMMA BytesSteps ==
  ASSUME NEW s, NEW key
  PROVE  /\ InsertBytes(s, 0, key) = << >>
         /\ \A n \in Nat : InsertBytes(s, n, key) \in Seq(Nat)
         /\ \A n \in Nat : InsertBytes(s, n + 1, key)
                             = InsertBytes(s, n, key) \o Piece(s, n + 1, key)
<1> DEFINE x(n) == [i \in 1 .. n |-> Piece(s, i, key)]
<1>1. \A n : InsertBytes(s, n, key) = Concat(n, x(n))
  BY Zenon DEF InsertBytes, Piece
<1>2. ASSUME NEW n \in Nat PROVE x(n) \in [1 .. n -> Seq(Nat)]
  <2>1. ASSUME NEW i \in 1 .. n PROVE Piece(s, i, key) \in Seq(Nat)
    <3>1. i \in Nat \ {0}
      OBVIOUS
    <3> QED BY <3>1, PieceSeq, Zenon
  <2> QED BY <2>1, Zenon
<1>3. ASSUME NEW n \in Nat
      PROVE  x(n + 1)[n + 1] = Piece(s, n + 1, key) /\ \A i \in 1 .. n : x(n + 1)[i] = x(n)[i]
  OBVIOUS
<1> HIDE DEF x
<1>4. ASSUME NEW n \in Nat
      PROVE  \E f : /\ Joins(Nat, n, x(n), f) /\ InsertBytes(s, n, key) = f[n]
                    /\ f[0] = << >> /\ f[n] \in Seq(Nat)
  <2>1. PICK f : Joins(Nat, n, x(n), f) /\ Concat(n, x(n)) = f[n]
    BY <1>2, ConcatFunction, Zenon
  <2>2. n \in 0 .. n
    OBVIOUS
  <2> QED BY <1>1, <2>1, <2>2, Zenon DEF Joins, JoinSteps
<1>5. ASSUME NEW n \in Nat
      PROVE  InsertBytes(s, n + 1, key)
               = InsertBytes(s, n, key) \o Piece(s, n + 1, key)
  <2>1. PICK f : Joins(Nat, n, x(n), f) /\ InsertBytes(s, n, key) = f[n]
    BY <1>4, Zenon
  <2>2. n + 1 \in Nat /\ n + 1 \in 1 .. n + 1 /\ (n + 1) - 1 = n
    OBVIOUS
  <2>3. PICK g : Joins(Nat, n + 1, x(n + 1), g) /\ InsertBytes(s, n + 1, key) = g[n + 1]
    BY <1>4, <2>2, Zenon
  <2>4. JoinSteps(n, x(n), g)
    <3>1. \A i \in 1 .. n : i \in 1 .. n + 1
      OBVIOUS
    <3> QED BY <1>3, <2>3, <3>1, Zenon DEF Joins, JoinSteps
  <2>5. f[n] = g[n]
    BY <2>1, <2>4, JoinsSame, Zenon DEF Joins
  <2>6. g[n + 1] = g[n] \o Piece(s, n + 1, key)
    BY <1>3, <2>2, <2>3, Zenon DEF Joins, JoinSteps
  <2> QED BY <2>1, <2>3, <2>5, <2>6, Zenon
<1>6. 0 \in Nat
  BY Zenon
<1> QED BY <1>4, <1>5, <1>6, Zenon

\* The key and the value are as long as their columns together.
LEMMA BytesLength ==
  ASSUME NEW s, NEW key
  PROVE  \A n \in Nat : Len(InsertBytes(s, n, key)) = SizeOf(s, n, {key})
<1> DEFINE T == {n \in Nat : Len(InsertBytes(s, n, key)) = SizeOf(s, n, {key})}
<1>1. 0 \in T
  BY BytesSteps, SizeSteps
<1>2. ASSUME NEW n \in Nat, n \in T PROVE n + 1 \in T
  <2>1. /\ InsertBytes(s, n, key) \in Seq(Nat)
        /\ InsertBytes(s, n + 1, key) = InsertBytes(s, n, key) \o Piece(s, n + 1, key)
    BY BytesSteps, Zenon
  <2>2. n + 1 \in Nat \ {0}
    OBVIOUS
  <2>3. /\ Piece(s, n + 1, key) \in Seq(Nat)
        /\ Len(Piece(s, n + 1, key)) = Adds(s, n + 1, {key})
    BY <2>2, PieceSeq, Zenon
  <2>4. SizeOf(s, n + 1, {key}) = SizeOf(s, n, {key}) + Adds(s, n + 1, {key})
    BY SizeSteps, Zenon
  <2>5. Len(InsertBytes(s, n + 1, key))
          = Len(InsertBytes(s, n, key)) + Len(Piece(s, n + 1, key))
    BY <2>1, <2>3
  <2> QED BY <1>2, <2>3, <2>4, <2>5
<1> HIDE DEF T
<1>3. \A n \in Nat : n \in T
  BY <1>1, <1>2, Induction, Zenon
<1> QED BY <1>3, Zenon DEF T

\* What the first m elements make stays when more follow.
LEMMA BytesPrefix ==
  ASSUME NEW s, NEW key, NEW m \in Nat, NEW n \in Nat, m <= n
  PROVE  /\ Len(InsertBytes(s, m, key)) <= Len(InsertBytes(s, n, key))
         /\ \A b \in 1 .. Len(InsertBytes(s, m, key)) :
              InsertBytes(s, n, key)[b] = InsertBytes(s, m, key)[b]
<1>1. PICK q : q = InsertBytes(s, m, key)
  BY Zenon
<1> DEFINE Has(r) == Len(q) <= Len(r) /\ \A b \in 1 .. Len(q) : r[b] = q[b]
           T == {k \in Nat : Has(InsertBytes(s, m + k, key))}
<1>2. q \in Seq(Nat)
  BY <1>1, BytesSteps, Zenon
<1>3. 0 \in T
  BY <1>1, <1>2
<1>4. ASSUME NEW k \in Nat, k \in T PROVE k + 1 \in T
  <2>1. PICK r, p : r = InsertBytes(s, m + k, key) /\ p = Piece(s, (m + k) + 1, key)
    BY Zenon
  <2>2. m + k \in Nat /\ (m + k) + 1 \in Nat \ {0} /\ m + (k + 1) = (m + k) + 1
    OBVIOUS
  <2>3. r \in Seq(Nat) /\ p \in Seq(Nat)
    BY <2>1, <2>2, BytesSteps, PieceSeq, Zenon
  <2>4. InsertBytes(s, (m + k) + 1, key) = r \o p
    BY <2>1, <2>2, BytesSteps, Zenon
  <2>5. Has(r)
    BY <1>4, <2>1, Zenon
  <2>6. /\ Len(r) \in Nat /\ Len(p) \in Nat /\ Len(q) \in Nat
        /\ Len(r \o p) = Len(r) + Len(p)
        /\ \A b \in 1 .. Len(r) : (r \o p)[b] = r[b]
    BY <1>2, <2>3
  <2>7. Len(q) <= Len(r \o p)
    BY <2>5, <2>6
  <2>8. ASSUME NEW b \in 1 .. Len(q) PROVE (r \o p)[b] = q[b]
    <3>1. b \in 1 .. Len(r)
      BY <2>5, <2>6
    <3> QED BY <2>5, <2>6, <3>1, Zenon
  <2>9. Has(InsertBytes(s, m + (k + 1), key))
    BY <2>2, <2>4, <2>7, <2>8, Zenon
  <2> QED BY <2>9
<1> HIDE DEF T
<1>5. \A k \in Nat : k \in T
  BY <1>3, <1>4, Induction, Zenon
<1>6. n - m \in Nat /\ m + (n - m) = n
  OBVIOUS
<1>7. Has(InsertBytes(s, n, key))
  BY <1>5, <1>6, Zenon DEF T
<1> QED BY <1>1, <1>7, Zenon

\* A literal with no more elements than the schema fits the room it has.
LEMMA BytesFit ==
  ASSUME NEW s, Len(s) \in Nat, NEW n \in 0 .. Len(s), NEW key
  PROVE  Len(InsertBytes(s, n, key)) <= Room(s, key)
<1>1. Len(InsertBytes(s, n, key)) <= Len(InsertBytes(s, Len(s), key))
  BY BytesPrefix
<1>2. Len(InsertBytes(s, Len(s), key)) = SizeOf(s, Len(s), {key})
  BY BytesLength, Zenon
<1> QED BY <1>1, <1>2, Zenon DEF Room

-----------------------------------------------------------------------------
(* What a scan reads back *)

\* How many of the first n columns are of the key, or not.
Count(s, n, c) == Total(n, [j \in 1 .. n |-> IF s[j].key = c THEN 1 ELSE 0])

LEMMA CountSteps ==
  ASSUME NEW s, NEW c
  PROVE  /\ Count(s, 0, c) = 0
         /\ \A n \in Nat : Count(s, n, c) \in Nat
         /\ \A n \in Nat :
              s[n + 1].key = c => Count(s, n + 1, c) = Count(s, n, c) + 1
         /\ \A n \in Nat :
              s[n + 1].key # c => Count(s, n + 1, c) = Count(s, n, c)
<1> DEFINE x(n) == [j \in 1 .. n |-> IF s[j].key = c THEN 1 ELSE 0]
<1>1. \A n : Count(s, n, c) = Total(n, x(n))
  BY Zenon DEF Count
<1>2. \A n : x(n) \in [1 .. n -> Nat]
  BY Zenon
<1>3. ASSUME NEW n \in Nat
      PROVE  /\ x(n + 1)[n + 1] = IF s[n + 1].key = c THEN 1 ELSE 0
             /\ \A i \in 1 .. n : x(n + 1)[i] = x(n)[i]
  OBVIOUS
<1> HIDE DEF x
<1>4. ASSUME NEW n \in Nat
      PROVE  /\ Count(s, n, c) \in Nat
             /\ Count(s, n + 1, c) = Count(s, n, c) + x(n + 1)[n + 1]
  <2>1. Total(n, x(n)) \in Nat /\ Total(n + 1, x(n + 1)) = Total(n, x(n)) + x(n + 1)[n + 1]
    BY <1>2, <1>3, TotalSteps, Zenon
  <2> QED BY <1>1, <2>1, Zenon
<1>5. ASSUME NEW n \in Nat, s[n + 1].key = c PROVE Count(s, n + 1, c) = Count(s, n, c) + 1
  <2>1. x(n + 1)[n + 1] = 1
    BY <1>3, <1>5, Zenon
  <2> QED BY <1>4, <2>1, Zenon
<1>6. ASSUME NEW n \in Nat, s[n + 1].key # c PROVE Count(s, n + 1, c) = Count(s, n, c)
  <2>1. x(n + 1)[n + 1] = 0
    BY <1>3, <1>6, Zenon
  <2>2. Count(s, n, c) + 0 = Count(s, n, c)
    BY <1>4
  <2> QED BY <1>4, <2>1, <2>2, Zenon
<1> QED BY <1>1, <1>2, <1>4, <1>5, <1>6, TotalNone, Zenon

Extra(s, j) == IF s[j].nullable THEN 1 ELSE 0

LEMMA SizeStep ==
  ASSUME NEW s, Integers64(s), NEW n \in Nat, n < Len(s)
  PROVE  /\ default_size(s[n + 1]) = 8 + Extra(s, n + 1) /\ Extra(s, n + 1) \in {0, 1}
         /\ SizeOf(s, n, BOOLEAN) \in Nat /\ SizeOf(s, n + 1, BOOLEAN) \in Nat
         /\ SizeOf(s, n + 1, BOOLEAN) = SizeOf(s, n, BOOLEAN) + 8 + Extra(s, n + 1)
<1>1. n + 1 \in 1 .. Len(s) /\ n + 1 \in Nat
  BY DEF Integers64
<1>2. default_size(s[n + 1]) = 8 + Extra(s, n + 1) /\ Extra(s, n + 1) \in {0, 1}
  BY <1>1, Zenon DEF Integers64, default_size, Extra, W
<1>3. Adds(s, n + 1, BOOLEAN) = 8 + Extra(s, n + 1)
  BY <1>1, <1>2, Zenon DEF Adds, Integers64
<1>4. /\ SizeOf(s, n, BOOLEAN) \in Nat /\ SizeOf(s, n + 1, BOOLEAN) \in Nat
      /\ SizeOf(s, n + 1, BOOLEAN) = SizeOf(s, n, BOOLEAN) + Adds(s, n + 1, BOOLEAN)
  BY <1>1, SizeSteps, Zenon
<1> QED BY <1>2, <1>3, <1>4

LEMMA OtherStep ==
  ASSUME NEW s, NEW n \in Nat, NEW c, s[n + 1].key # c
  PROVE  /\ Count(s, n, c) \in Nat /\ Count(s, n + 1, c) = Count(s, n, c)
         /\ InsertBytes(s, n + 1, c) = InsertBytes(s, n, c)
<1>1. Count(s, n, c) \in Nat /\ Count(s, n + 1, c) = Count(s, n, c)
  BY CountSteps, Zenon
<1>2. PICK q, p : q = InsertBytes(s, n, c) /\ p = Piece(s, n + 1, c)
  BY Zenon
<1>3. q \in Seq(Nat) /\ InsertBytes(s, n + 1, c) = q \o p
  BY <1>2, BytesSteps, Zenon
<1>4. p = << >>
  BY <1>2, Zenon DEF Piece
<1>5. q \o p = q
  BY <1>3, <1>4
<1> QED BY <1>1, <1>2, <1>3, <1>5, Zenon

\* r is q and the e more than eight bytes that element n + 1 adds.
Longer(s, n, c, q, r, e) ==
  /\ Count(s, n, c) \in Nat /\ Count(s, n + 1, c) = Count(s, n, c) + 1
  /\ Len(q) \in Nat /\ Len(r) = Len(q) + 8 + e
  /\ \A b \in 1 .. Len(q) : r[b] = q[b]
  /\ \A b \in 1 .. 8 + e : r[Len(q) + b] = SizeOf(s, n, BOOLEAN) + b - 1

LEMMA OwnStep ==
  ASSUME NEW s, Integers64(s), NEW n \in Nat, n < Len(s)
  PROVE  Longer(s, n, s[n + 1].key, InsertBytes(s, n, s[n + 1].key),
                InsertBytes(s, n + 1, s[n + 1].key), Extra(s, n + 1))
<1>0. PICK c, q, r, e : /\ c = s[n + 1].key /\ e = Extra(s, n + 1)
                        /\ q = InsertBytes(s, n, c) /\ r = InsertBytes(s, n + 1, c)
  BY Zenon
<1>1. Count(s, n, c) \in Nat /\ Count(s, n + 1, c) = Count(s, n, c) + 1
  BY <1>0, CountSteps, Zenon
<1>2. PICK p : p = Piece(s, n + 1, c)
  BY Zenon
<1>3. q \in Seq(Nat) /\ r = q \o p
  BY <1>0, <1>2, BytesSteps, Zenon
<1>4. default_size(s[n + 1]) = 8 + e /\ e \in {0, 1}
  BY <1>0, SizeStep, Zenon
<1>5. n + 1 \in Nat \ {0} /\ (n + 1) - 1 = n
  OBVIOUS
<1>6. /\ p \in Seq(Nat) /\ Len(p) = Adds(s, n + 1, {c})
      /\ \A b \in 1 .. default_size(s[n + 1]) : p[b] = InsertOffset(s, n + 1) + b - 1
  BY <1>0, <1>2, <1>5, PieceSeq, Zenon
<1>7. Adds(s, n + 1, {c}) = default_size(s[n + 1])
  BY <1>0, Zenon DEF Adds
<1>8. InsertOffset(s, n + 1) = SizeOf(s, n, BOOLEAN)
  BY <1>5, Zenon DEF InsertOffset
<1>9. Len(p) = 8 + e /\ \A b \in 1 .. 8 + e : p[b] = SizeOf(s, n, BOOLEAN) + b - 1
  BY <1>4, <1>6, <1>7, <1>8, Zenon
<1>10. /\ Len(q \o p) = Len(q) + 8 + e /\ Len(q) \in Nat
       /\ \A b \in 1 .. Len(q) : (q \o p)[b] = q[b]
       /\ \A b \in 1 .. 8 + e : (q \o p)[Len(q) + b] = p[b]
  <2>1. /\ Len(q) \in Nat /\ Len(q \o p) = Len(q) + Len(p)
        /\ \A b \in 1 .. Len(q) : (q \o p)[b] = q[b]
        /\ \A b \in 1 .. Len(p) : (q \o p)[Len(q) + b] = p[b]
    <3>1. q \in Seq(Nat) /\ p \in Seq(Nat)
      BY <1>3, <1>6, Zenon
    <3> QED BY ONLY <3>1
  <2>2. Len(q) + (8 + e) = Len(q) + 8 + e
    BY <2>1, <1>4
  <2> QED BY <1>9, <2>1, <2>2, Zenon
<1>11. Longer(s, n, c, q, r, e)
  BY <1>1, <1>3, <1>9, <1>10, Zenon DEF Longer
<1> QED BY <1>0, <1>11, Zenon

\* Without nullable columns the bytes are in step.
LEMMA Even ==
  ASSUME NEW s, Integers64(s), NEW n \in 0 .. Len(s), NEW c,
         \A j \in 1 .. n : ~s[j].nullable
  PROVE  /\ SizeOf(s, n, BOOLEAN) = 8 * n
         /\ Len(InsertBytes(s, n, c)) = 8 * Count(s, n, c)
<1> DEFINE P(m) == /\ SizeOf(s, m, BOOLEAN) = 8 * m
                   /\ Len(InsertBytes(s, m, c)) = 8 * Count(s, m, c)
           T == {m \in Nat : m <= n => P(m)}
<1>1. 0 \in T
  BY SizeSteps, BytesSteps, CountSteps
<1>2. ASSUME NEW m \in Nat, m \in T PROVE m + 1 \in T
  <2> SUFFICES ASSUME m + 1 <= n PROVE P(m + 1)
    OBVIOUS
  <2>1. m < Len(s) /\ P(m)
    BY <1>2 DEF Integers64
  <2>2. Extra(s, m + 1) = 0
    BY DEF Extra
  <2>3. SizeOf(s, m + 1, BOOLEAN) = SizeOf(s, m, BOOLEAN) + 8
    BY <2>1, <2>2, SizeStep
  <2>4. CASE s[m + 1].key = c
    <3>1. PICK q, r, e : /\ q = InsertBytes(s, m, c) /\ r = InsertBytes(s, m + 1, c)
                         /\ e = Extra(s, m + 1)
      BY Zenon
    <3>2. Longer(s, m, c, q, r, e)
      BY <2>1, <2>4, <3>1, OwnStep, Zenon
    <3>3. /\ Count(s, m, c) \in Nat /\ Count(s, m + 1, c) = Count(s, m, c) + 1
          /\ Len(q) \in Nat /\ Len(r) = Len(q) + 8 + e
      BY <3>2, Zenon DEF Longer
    <3>4. PICK k, l, lq, lr : /\ k = Count(s, m, c) /\ l = Count(s, m + 1, c)
                              /\ lq = Len(q) /\ lr = Len(r)
      BY Zenon
    <3>5. k \in Nat /\ l = k + 1 /\ lq \in Nat /\ lr = lq + 8 + e /\ e = 0 /\ lq = 8 * k
      BY <2>1, <2>2, <3>1, <3>3, <3>4, Zenon
    <3>6. lr = 8 * l
      BY ONLY <3>5
    <3>7. SizeOf(s, m + 1, BOOLEAN) = 8 * (m + 1)
      BY <2>1, <2>3
    <3> QED BY <3>1, <3>4, <3>6, <3>7, Zenon
  <2>5. CASE s[m + 1].key # c
    <3>1. /\ Count(s, m + 1, c) = Count(s, m, c)
          /\ InsertBytes(s, m + 1, c) = InsertBytes(s, m, c)
      BY <2>5, OtherStep, Zenon
    <3> QED BY <2>1, <2>3, <3>1
  <2> QED BY <2>4, <2>5, Zenon
<1> HIDE DEF T
<1>3. n \in T
  BY <1>1, <1>2, Induction
<1> QED BY <1>3 DEF T

\* A nullable column takes a byte more than a scan counts.
LEMMA Uneven ==
  ASSUME NEW s, Integers64(s), NEW n \in 0 .. Len(s)
  PROVE  /\ SizeOf(s, n, BOOLEAN) \in Nat /\ SizeOf(s, n, BOOLEAN) >= 8 * n
         /\ (\E j \in 1 .. n : s[j].nullable) => SizeOf(s, n, BOOLEAN) >= 8 * n + 1
<1> DEFINE P(m) == /\ SizeOf(s, m, BOOLEAN) \in Nat /\ SizeOf(s, m, BOOLEAN) >= 8 * m
                   /\ (\E j \in 1 .. m : s[j].nullable) =>
                        SizeOf(s, m, BOOLEAN) >= 8 * m + 1
           T == {m \in Nat : m <= Len(s) => P(m)}
<1>1. 0 \in T
  BY SizeSteps
<1>2. ASSUME NEW m \in Nat, m \in T PROVE m + 1 \in T
  <2> SUFFICES ASSUME m + 1 <= Len(s) PROVE P(m + 1)
    OBVIOUS
  <2>1. m < Len(s) /\ P(m)
    BY <1>2 DEF Integers64
  <2>2. /\ Extra(s, m + 1) \in {0, 1} /\ SizeOf(s, m, BOOLEAN) \in Nat
        /\ SizeOf(s, m + 1, BOOLEAN) = SizeOf(s, m, BOOLEAN) + 8 + Extra(s, m + 1)
    BY <2>1, SizeStep, Zenon
  <2>3. s[m + 1].nullable => Extra(s, m + 1) = 1
    BY Zenon DEF Extra
  <2>4. ASSUME NEW j \in 1 .. m + 1, s[j].nullable
        PROVE  j \in 1 .. m \/ Extra(s, m + 1) = 1
    BY <2>3, <2>4
  <2>5. PICK a, b, e : /\ a = SizeOf(s, m, BOOLEAN) /\ b = SizeOf(s, m + 1, BOOLEAN)
                       /\ e = Extra(s, m + 1)
    BY Zenon
  <2>6. a \in Nat /\ a >= 8 * m /\ e \in {0, 1} /\ b = a + 8 + e
    BY <2>1, <2>2, <2>5, Zenon
  <2>7. b \in Nat /\ b >= 8 * (m + 1)
    BY ONLY <2>6, m \in Nat
  <2>8. ASSUME NEW j \in 1 .. m + 1, s[j].nullable PROVE b >= 8 * (m + 1) + 1
    <3>1. a >= 8 * m + 1 \/ e = 1
      BY <2>1, <2>4, <2>5, <2>8, Zenon
    <3> QED BY ONLY <2>6, <3>1, m \in Nat
  <2> QED BY <2>5, <2>7, <2>8, Zenon
<1> HIDE DEF T
<1>3. n \in T
  BY <1>1, <1>2, Induction
<1> QED BY <1>3 DEF T, Integers64

\* Column n + 1 and those below it up to n + k, all of the key or all not, lie
\* one after the other in tuple_stack_ and in the bytes q.
InRow(s, n, k, c, q) ==
  /\ Count(s, n + k, c) = Count(s, n, c) + k
  /\ Len(q) = 8 * Count(s, n, c) + SizeOf(s, n + k, BOOLEAN) - 8 * n
  /\ \A x \in 1 .. Len(q) :
       x > 8 * Count(s, n, c) => q[x] = 8 * n + x - 8 * Count(s, n, c) - 1

LEMMA InRowStep ==
  ASSUME NEW s, Integers64(s), NEW n \in Nat, NEW k \in Nat, n + k < Len(s),
         NEW q, NEW r, NEW c, c = s[(n + k) + 1].key, InRow(s, n, k, c, q),
         q = InsertBytes(s, n + k, c), r = InsertBytes(s, (n + k) + 1, c)
  PROVE  InRow(s, n, k + 1, c, r)
<1>1. n + k \in Nat /\ n + (k + 1) = (n + k) + 1
  OBVIOUS
<1>2. PICK e, z, C : /\ e = Extra(s, (n + k) + 1) /\ z = SizeOf(s, n + k, BOOLEAN)
                     /\ C = Count(s, n, c)
  BY Zenon
<1>3. Longer(s, n + k, c, q, r, e)
  BY <1>1, <1>2, OwnStep, Zenon
<1>4. /\ e \in {0, 1} /\ z \in Nat /\ SizeOf(s, (n + k) + 1, BOOLEAN) = z + 8 + e
  BY <1>1, <1>2, SizeStep, Zenon
<1>5. C \in Nat
  BY <1>2, CountSteps, Zenon
<1>6. /\ Len(q) = 8 * C + z - 8 * n /\ Len(q) \in Nat /\ Len(r) = Len(q) + 8 + e
      /\ Count(s, (n + k) + 1, c) = C + k + 1
  BY <1>1, <1>2, <1>3, <1>5, Zenon DEF InRow, Longer
<1>7. ASSUME NEW x \in 1 .. Len(r), x > 8 * C PROVE r[x] = 8 * n + x - 8 * C - 1
  <2>1. CASE x <= Len(q)
    <3>1. x \in 1 .. Len(q)
      BY <2>1, <1>6
    <3>2. r[x] = q[x]
      BY <3>1, <1>3, Zenon DEF Longer
    <3>3. q[x] = 8 * n + x - 8 * C - 1
      BY <3>1, <1>7, <1>2, Zenon DEF InRow
    <3> QED BY <3>2, <3>3, Zenon
  <2>2. CASE x > Len(q)
    <3>1. PICK b : b = x - Len(q)
      BY Zenon
    <3>2. b \in 1 .. 8 + e /\ Len(q) + b = x
      BY <3>1, <2>2, <1>4, <1>6
    <3>3. r[Len(q) + b] = z + b - 1
      BY <3>2, <1>2, <1>3, Zenon DEF Longer
    <3>4. z + b - 1 = 8 * n + x - 8 * C - 1
      BY ONLY <3>1, <3>2, <1>4, <1>5, <1>6, n \in Nat
    <3> QED BY <3>2, <3>3, <3>4, Zenon
  <2> QED BY <2>1, <2>2, <1>6
<1>8. Len(r) = 8 * C + SizeOf(s, (n + k) + 1, BOOLEAN) - 8 * n
  <2>1. PICK y : y = SizeOf(s, (n + k) + 1, BOOLEAN)
    BY Zenon
  <2>2. y = z + 8 + e
    BY <2>1, <1>4, Zenon
  <2>3. Len(r) = 8 * C + y - 8 * n
    BY ONLY <2>2, <1>4, <1>5, <1>6, n \in Nat
  <2> QED BY <2>1, <2>3, Zenon
<1>9. Count(s, (n + k) + 1, c) = C + (k + 1)
  BY <1>5, <1>6
<1> QED BY <1>1, <1>2, <1>7, <1>8, <1>9, Zenon DEF InRow

LEMMA Contiguous ==
  ASSUME NEW s, Integers64(s), NEW n \in Nat, NEW k \in Nat, n + k <= Len(s), NEW c,
         \A j \in 1 .. n : ~s[j].nullable,
         \A j \in n + 1 .. n + k : s[j].key = c
  PROVE  InRow(s, n, k, c, InsertBytes(s, n + k, c))
<1> DEFINE T == {m \in Nat : m <= k => InRow(s, n, m, c, InsertBytes(s, n + m, c))}
<1>1. 0 \in T
  <2>1. n \in 0 .. Len(s) /\ n + 0 = n
    BY DEF Integers64
  <2>2. SizeOf(s, n, BOOLEAN) = 8 * n /\ Len(InsertBytes(s, n, c)) = 8 * Count(s, n, c)
    BY <2>1, Even, Zenon
  <2>3. Count(s, n, c) \in Nat
    BY CountSteps, Zenon
  <2>4. InRow(s, n, 0, c, InsertBytes(s, n, c))
    BY <2>1, <2>2, <2>3 DEF InRow
  <2> QED BY <2>1, <2>4, Zenon
<1>2. ASSUME NEW m \in Nat, m \in T PROVE m + 1 \in T
  <2> SUFFICES ASSUME m + 1 <= k
               PROVE  InRow(s, n, m + 1, c, InsertBytes(s, n + (m + 1), c))
    OBVIOUS
  <2>1. /\ n + m < Len(s) /\ (n + m) + 1 \in n + 1 .. n + k
        /\ n + (m + 1) = (n + m) + 1
    BY DEF Integers64
  <2>2. PICK q, r : q = InsertBytes(s, n + m, c) /\ r = InsertBytes(s, (n + m) + 1, c)
    BY Zenon
  <2>3. InRow(s, n, m, c, q)
    BY <1>2, <2>2
  <2>4. c = s[(n + m) + 1].key
    BY <2>1, Zenon
  <2>5. InRow(s, n, m + 1, c, r)
    BY <2>1, <2>2, <2>3, <2>4, InRowStep, Zenon
  <2> QED BY <2>1, <2>2, <2>5, Zenon
<1> HIDE DEF T
<1>3. k \in T
  BY <1>1, <1>2, Induction, Zenon
<1> QED BY <1>3 DEF T

\* Columns of the other kind leave the bytes and their number as they are.
Alike(s, n, m, c) ==
  /\ Count(s, m, c) = Count(s, n, c)
  /\ InsertBytes(s, m, c) = InsertBytes(s, n, c)

LEMMA Others ==
  ASSUME NEW s, NEW n \in Nat, NEW k \in Nat, NEW c,
         \A j \in n + 1 .. n + k : s[j].key # c
  PROVE  Alike(s, n, n + k, c)
<1> USE DEF Alike
<1> DEFINE P(m) == Alike(s, n, n + m, c)
           T == {m \in Nat : m <= k => P(m)}
<1>1. 0 \in T
  BY n + 0 = n, Zenon
<1>2. ASSUME NEW m \in Nat, m \in T PROVE m + 1 \in T
  <2> SUFFICES ASSUME m + 1 <= k PROVE P(m + 1)
    OBVIOUS
  <2>1. n + m \in Nat /\ (n + m) + 1 \in n + 1 .. n + k /\ n + (m + 1) = (n + m) + 1
    OBVIOUS
  <2>2. s[(n + m) + 1].key # c
    BY <2>1, Zenon
  <2>3. /\ Count(s, (n + m) + 1, c) = Count(s, n + m, c)
        /\ InsertBytes(s, (n + m) + 1, c) = InsertBytes(s, n + m, c)
    BY <2>1, <2>2, OtherStep, Zenon
  <2>4. P(m)
    BY <1>2
  <2> QED BY <2>1, <2>3, <2>4, Zenon
<1> HIDE DEF T
<1>3. k \in T
  BY <1>1, <1>2, Induction, Zenon
<1> QED BY <1>3 DEF T

\* The bytes that a scan takes for column i from the q of its kind.
Taken(s, q, i) ==
  [b \in 1 .. W |-> IF ScanOffset(s, i) + b <= Len(q)
                    THEN q[ScanOffset(s, i) + b] ELSE Stale]

\* Column i is read back when column n + 1 and those down to it are all of the
\* key or all not, and none above them is nullable.
LEMMA ReadRight ==
  ASSUME NEW s, Integers64(s), NEW m \in 0 .. Len(s), NEW i \in 1 .. m,
         NEW n \in 0 .. i - 1, NEW c, NEW q, q = InsertBytes(s, m, c),
         \A j \in 1 .. n : ~s[j].nullable,
         \A j \in n + 1 .. i : s[j].key = c
  PROVE  Taken(s, q, i) = Bytes(W * (i - 1), W)
<1>1. PICK k : k = i - n
  BY Zenon
<1>2. /\ k \in Nat /\ k - 1 \in Nat /\ n \in Nat /\ n + k = i /\ n + (k - 1) = i - 1
      /\ i \in Nat /\ m \in Nat /\ i <= m /\ i <= Len(s) /\ Len(s) \in Nat
  BY <1>1 DEF Integers64
<1>3. PICK C, z, p : /\ C = Count(s, n, c) /\ z = SizeOf(s, i, BOOLEAN)
                     /\ p = InsertBytes(s, i, c)
  BY Zenon
<1>4. InRow(s, n, k, c, p)
  BY <1>2, <1>3, Contiguous, Zenon
<1>5. InRow(s, n, k - 1, c, InsertBytes(s, n + (k - 1), c))
  <2>1. \A j \in n + 1 .. n + (k - 1) : s[j].key = c
    BY <1>2
  <2>2. n + (k - 1) <= Len(s)
    BY <1>2
  <2> QED BY <1>2, <2>1, <2>2, Contiguous, Zenon
<1>6. ScanOffset(s, i) = 8 * (C + (k - 1))
  <2>1. Count(s, i - 1, c) = C + (k - 1)
    BY <1>2, <1>3, <1>5, Zenon DEF InRow
  <2>2. s[i].key = c
    BY <1>2
  <2> QED BY <2>1, <2>2, Zenon DEF ScanOffset, Count, W
<1>7. z \in Nat /\ z >= 8 * i /\ C \in Nat
  <2>1. i \in 0 .. Len(s)
    BY <1>2
  <2>2. SizeOf(s, i, BOOLEAN) \in Nat /\ SizeOf(s, i, BOOLEAN) >= 8 * i
    BY <2>1, Uneven, Zenon
  <2>3. Count(s, n, c) \in Nat
    BY <1>2, CountSteps, Zenon
  <2> QED BY <1>3, <2>2, <2>3, Zenon
<1>8. Len(p) = 8 * C + z - 8 * n
  BY <1>2, <1>3, <1>4, Zenon DEF InRow
<1>9. /\ Len(p) <= Len(q) /\ \A b \in 1 .. Len(p) : q[b] = p[b]
  BY <1>2, <1>3, BytesPrefix
<1>10. Len(q) \in Nat
  BY <1>2, BytesSteps
<1>11. ASSUME NEW b \in 1 .. 8
       PROVE  /\ ScanOffset(s, i) + b <= Len(q)
              /\ q[ScanOffset(s, i) + b] = 8 * (i - 1) + b - 1
  <2>1. PICK x : x = 8 * (C + (k - 1)) + b
    BY Zenon
  <2>2. x \in 1 .. Len(p) /\ x > 8 * C /\ 8 * n + x - 8 * C - 1 = 8 * (i - 1) + b - 1
    BY ONLY <2>1, <1>1, <1>2, <1>7, <1>8, b \in 1 .. 8
  <2>3. p[x] = 8 * n + x - 8 * C - 1
    BY <2>2, <1>3, <1>4, Zenon DEF InRow
  <2>4. q[x] = p[x] /\ x <= Len(q)
    BY <2>2, <1>8, <1>9, <1>10, <1>7, <1>2
  <2>5. ScanOffset(s, i) + b = x
    BY <2>1, <1>6, Zenon
  <2> QED BY <2>2, <2>3, <2>4, <2>5, Zenon
<1> QED BY <1>11, Zenon DEF Taken, Bytes, W

\* Column i is not read back when those between a nullable one and it are of the
\* other kind.
LEMMA ReadWrong ==
  ASSUME NEW s, Integers64(s), NEW m \in 0 .. Len(s), NEW i \in 1 .. m,
         NEW f \in 1 .. i - 1, NEW c, NEW q, q = InsertBytes(s, m, c),
         \A j \in 1 .. f - 1 : ~s[j].nullable, s[f].nullable,
         \A j \in f .. i - 1 : s[j].key # c, s[i].key = c
  PROVE  Taken(s, q, i) # Bytes(W * (i - 1), W)
<1>1. PICK n, k : n = f - 1 /\ k = i - f
  BY Zenon
<1>2. /\ n \in Nat /\ k \in Nat /\ n + k = i - 1 /\ i - 1 \in Nat /\ (i - 1) + 1 = i
      /\ n + 1 = f /\ n \in 0 .. Len(s) /\ i - 1 \in 0 .. Len(s) /\ i - 1 < Len(s)
      /\ i \in Nat /\ m \in Nat /\ i <= m /\ Len(s) \in Nat
  <2>1. Len(s) \in Nat
    BY Zenon DEF Integers64
  <2> QED BY ONLY <1>1, <2>1, m \in 0 .. Len(s), i \in 1 .. m, f \in 1 .. i - 1
<1>3. PICK C, z, p, r : /\ C = Count(s, n, c) /\ z = SizeOf(s, i - 1, BOOLEAN)
                        /\ p = InsertBytes(s, i - 1, c) /\ r = InsertBytes(s, i, c)
  BY Zenon
<1>4. Count(s, i - 1, c) = C /\ p = InsertBytes(s, n, c)
  <2>1. \A j \in n + 1 .. n + k : s[j].key # c
    BY <1>2, Zenon
  <2>2. Alike(s, n, n + k, c)
    BY <1>2, <2>1, Others, Zenon
  <2> QED BY <1>2, <1>3, <2>2, Zenon DEF Alike
<1>5. Len(p) = 8 * C /\ C \in Nat
  <2>1. \A j \in 1 .. n : ~s[j].nullable
    BY <1>1, Zenon
  <2>2. Len(InsertBytes(s, n, c)) = 8 * Count(s, n, c)
    BY <1>2, <2>1, Even, Zenon
  <2>3. Count(s, n, c) \in Nat
    BY <1>2, CountSteps, Zenon
  <2> QED BY <1>3, <1>4, <2>2, <2>3, Zenon
<1>6. z \in Nat /\ z >= 8 * (i - 1) + 1
  BY <1>2, <1>3, Uneven, Zenon
<1>7. PICK e : e = Extra(s, i)
  BY Zenon
<1>8. Longer(s, i - 1, c, p, r, e)
  <2>1. s[(i - 1) + 1].key = c
    BY <1>2, Zenon
  <2>2. Longer(s, i - 1, c, InsertBytes(s, i - 1, c), InsertBytes(s, (i - 1) + 1, c),
               Extra(s, (i - 1) + 1))
    BY <1>2, <2>1, OwnStep, Zenon
  <2> QED BY <1>2, <1>3, <1>7, <2>2, Zenon
<1>9. e \in {0, 1}
  BY <1>7, Zenon DEF Extra
<1>10. r[8 * C + 1] = z /\ Len(r) = 8 * C + 8 + e
  <2>1. 1 \in 1 .. 8 + e
    BY <1>9
  <2>2. r[Len(p) + 1] = SizeOf(s, i - 1, BOOLEAN) + 1 - 1
    BY <1>8, <2>1, Zenon DEF Longer
  <2>3. Len(r) = Len(p) + 8 + e
    BY <1>8, Zenon DEF Longer
  <2> QED BY <1>3, <1>5, <1>6, <2>2, <2>3
<1>11. /\ Len(r) <= Len(q) /\ \A b \in 1 .. Len(r) : q[b] = r[b]
  <2>1. i \in Nat /\ m \in Nat /\ i <= m
    BY <1>2, Zenon
  <2>2. /\ Len(InsertBytes(s, i, c)) <= Len(InsertBytes(s, m, c))
        /\ \A b \in 1 .. Len(InsertBytes(s, i, c)) :
             InsertBytes(s, m, c)[b] = InsertBytes(s, i, c)[b]
    BY ONLY <2>1, BytesPrefix
  <2> QED BY <1>3, <2>2, Zenon
<1>12. 8 * C + 1 <= Len(q) /\ q[8 * C + 1] = z
  <2>1. Len(q) \in Nat
    BY <1>2, BytesSteps
  <2>2. 8 * C + 1 \in 1 .. Len(r)
    BY <1>5, <1>9, <1>10
  <2> QED BY SMTT(30), <1>5, <1>10, <1>11, <2>1, <2>2
<1>13. ScanOffset(s, i) = 8 * C
  BY <1>4, Zenon DEF ScanOffset, Count, W
<1>14. Taken(s, q, i)[1] = z
  BY <1>12, <1>13 DEF Taken, W
<1>15. Bytes(W * (i - 1), W)[1] = 8 * (i - 1)
  BY <1>2 DEF Bytes, W
<1> QED BY <1>2, <1>6, <1>14, <1>15

\* A scan reads a column back exactly when no column above it is nullable that is
\* of the key and it not, or the other way round.
LEMMA ReadsBack ==
  ASSUME NEW s, Integers64(s), NEW m \in 0 .. Len(s), NEW i \in 1 .. m,
         InStep(s, i - 1), NEW row,
         row.key = InsertBytes(s, m, TRUE), row.value = InsertBytes(s, m, FALSE)
  PROVE  ScanBytes(s, row, i) = Bytes(W * (i - 1), W) <=> InStep(s, i)
<1>1. PICK c, q : c = s[i].key /\ q = InsertBytes(s, m, c)
  BY Zenon
<1>2. /\ i \in Nat \ {0} /\ i \in 1 .. Len(s) /\ Len(s) \in Nat
      /\ \A j \in 1 .. i : s[j].key \in BOOLEAN /\ s[j].nullable \in BOOLEAN
  BY DEF Integers64
<1>3. ScanBytes(s, row, i) = Taken(s, q, i)
  <2>1. i \in 1 .. i
    BY <1>2
  <2>2. s[i].key \in BOOLEAN
    BY <1>2, <2>1, Zenon
  <2>3. CASE s[i].key = TRUE
    BY <1>1, <2>3, Zenon DEF ScanBytes, Taken
  <2>4. CASE s[i].key = FALSE
    BY <1>1, <2>4, Zenon DEF ScanBytes, Taken
  <2> QED BY <2>2, <2>3, <2>4, Zenon
<1>4. CASE \A j \in 1 .. i - 1 : ~s[j].nullable
  <2>1. InStep(s, i)
    BY <1>2, <1>4 DEF InStep
  <2>2. i - 1 \in 0 .. i - 1 /\ \A j \in (i - 1) + 1 .. i : s[j].key = c
    BY <1>1, <1>2
  <2>3. Taken(s, q, i) = Bytes(W * (i - 1), W)
    BY <1>1, <1>4, <2>2, ReadRight, Zenon
  <2> QED BY <1>3, <2>1, <2>3, Zenon
<1>5. CASE \E j \in 1 .. i - 1 : s[j].nullable
  <2>1. PICK f \in 1 .. i - 1 :
               s[f].nullable /\ \A j \in 1 .. i - 1 : s[j].nullable => f <= j
    <3> DEFINE N == {j \in 1 .. i - 1 : s[j].nullable}
    <3>1. N \subseteq Nat /\ N # {}
      BY <1>5
    <3> QED BY <3>1, Least, Zenon
  <2>2. \A j \in 1 .. f - 1 : ~s[j].nullable
    BY <1>2, <2>1
  <2>3. \A j \in f .. i - 1 : s[j].key = s[f].key
    BY <1>2, <2>1 DEF InStep
  <2>4. CASE s[f].key = c
    <3>1. InStep(s, i)
      <4> SUFFICES ASSUME NEW j \in 1 .. i, NEW l \in 1 .. i, j < l, s[j].nullable
                   PROVE  s[j].key = s[l].key
        BY Zenon DEF InStep
      <4>1. j \in 1 .. i - 1
        BY <1>2
      <4>2. j \in f .. i - 1
        BY <2>1, <4>1
      <4>3. s[j].key = c
        BY <2>3, <2>4, <4>2, Zenon
      <4>4. l \in f .. i - 1 \/ l = i
        BY <1>2, <4>2
      <4>5. s[l].key = c
        BY <1>1, <2>3, <2>4, <4>4, Zenon
      <4> QED BY <4>3, <4>5, Zenon
    <3>2. f - 1 \in 0 .. i - 1 /\ \A j \in (f - 1) + 1 .. i : s[j].key = c
      <4>1. \A j \in f .. i : j \in f .. i - 1 \/ j = i
        BY <1>2
      <4>2. \A j \in f .. i : s[j].key = c
        BY <1>1, <2>3, <2>4, <4>1, Zenon
      <4>3. (f - 1) + 1 = f /\ f - 1 \in 0 .. i - 1
        BY <1>2
      <4> QED BY <4>2, <4>3, Zenon
    <3>3. Taken(s, q, i) = Bytes(W * (i - 1), W)
      BY <1>1, <2>2, <3>2, ReadRight, Zenon
    <3> QED BY <1>3, <3>1, <3>3, Zenon
  <2>5. CASE s[f].key # c
    <3>1. ~InStep(s, i)
      <4>1. f \in 1 .. i /\ i \in 1 .. i /\ f < i
        BY <1>2
      <4> QED BY <1>1, <2>1, <2>5, <4>1, Zenon DEF InStep
    <3>2. \A j \in f .. i - 1 : s[j].key # c
      BY <2>3, <2>5, Zenon
    <3>3. Taken(s, q, i) # Bytes(W * (i - 1), W)
      BY <1>1, <2>1, <2>2, <3>2, ReadWrong, Zenon
    <3> QED BY <1>3, <3>1, <3>3, Zenon
  <2> QED BY <2>4, <2>5, Zenon
<1> QED BY <1>4, <1>5, Zenon

-----------------------------------------------------------------------------
(* What Define::alloca_stack keeps of the columns *)

Kept(cols, i) == IF cols[i].id \in Storable THEN <<cols[i]>> ELSE << >>

LEMMA SchemaFunction ==
  ASSUME NEW S, NEW cols \in Seq(S), NEW n, n = Len(cols),
         NEW x, x = [i \in 1 .. n |-> Kept(cols, i)]
  PROVE  n \in Nat /\ \E f : Joins(S, n, x, f) /\ SchemaOf(cols) = f[n]
<1>1. n \in Nat
  OBVIOUS
<1>2. SchemaOf(cols) = Concat(n, x)
  BY Zenon DEF SchemaOf, Kept
<1>3. x \in [1 .. n -> Seq(S)]
  <2>1. ASSUME NEW i \in 1 .. n PROVE Kept(cols, i) \in Seq(S)
    <3>1. cols[i] \in S
      OBVIOUS
    <3>2. <<cols[i]>> \in Seq(S) /\ << >> \in Seq(S)
      BY ONLY <3>1
    <3> QED BY <3>2, Zenon DEF Kept
  <2> QED BY <2>1, Zenon
<1>4. \E f : Joins(S, n, x, f) /\ Concat(n, x) = f[n]
  BY ONLY <1>1, <1>3, ConcatFunction, Zenon
<1> QED BY ONLY <1>1, <1>2, <1>4, Zenon

\* A schema has columns of the table only.
LEMMA SchemaColumns ==
  ASSUME NEW S, NEW cols \in Seq(S)
  PROVE  SchemaOf(cols) \in Seq(S)
<1>1. PICK n, x : n = Len(cols) /\ x = [i \in 1 .. n |-> Kept(cols, i)]
  BY Zenon
<1>2. n \in Nat /\ \E f : Joins(S, n, x, f) /\ SchemaOf(cols) = f[n]
  BY <1>1, SchemaFunction, Zenon
<1>3. n \in 0 .. n
  BY <1>2
<1> QED BY <1>2, <1>3, Zenon DEF Joins

\* A schema has all the columns, in their order, if they are all stored.
LEMMA SchemaWhole ==
  ASSUME NEW S, NEW cols \in Seq(S), \A i \in DOMAIN cols : cols[i].id \in Storable
  PROVE  SchemaOf(cols) = cols
<1>0. PICK n, x : n = Len(cols) /\ x = [i \in 1 .. n |-> Kept(cols, i)]
  BY Zenon
<1>1. PICK f : Joins(S, n, x, f) /\ SchemaOf(cols) = f[n]
  BY <1>0, SchemaFunction, Zenon
<1>2. n \in Nat /\ \A i \in 1 .. n : x[i] = <<cols[i]>> /\ cols[i] \in S
  BY <1>0 DEF Kept
<1> DEFINE P(q, i) == Len(q) = i /\ \A j \in 1 .. i : q[j] = cols[j]
           T == {i \in Nat : i <= n => P(f[i], i)}
<1>3. 0 \in T
  BY <1>1 DEF Joins, JoinSteps
<1>4. ASSUME NEW i \in Nat, i \in T PROVE i + 1 \in T
  <2> SUFFICES ASSUME i + 1 <= n PROVE P(f[i + 1], i + 1)
    OBVIOUS
  <2>1. PICK q, r, e : q = f[i] /\ r = f[i + 1] /\ e = cols[i + 1]
    BY Zenon
  <2>2. i + 1 \in 1 .. n /\ (i + 1) - 1 = i /\ i \in 0 .. n
    BY <1>2
  <2>3. q \in Seq(S) /\ e \in S
    BY <1>1, <1>2, <2>1, <2>2, Zenon DEF Joins
  <2>4. r = q \o <<e>>
    BY <1>1, <1>2, <2>1, <2>2, Zenon DEF Joins, JoinSteps
  <2>5. P(q, i)
    BY <1>2, <1>4, <2>1, <2>2
  <2>6. /\ Len(q \o <<e>>) = Len(q) + 1 /\ (q \o <<e>>)[Len(q) + 1] = e
        /\ \A j \in 1 .. Len(q) : (q \o <<e>>)[j] = q[j]
    BY ONLY <2>3
  <2>7. ASSUME NEW j \in 1 .. i + 1 PROVE r[j] = cols[j]
    <3>1. j \in 1 .. i \/ j = i + 1
      OBVIOUS
    <3> QED BY <2>1, <2>4, <2>5, <2>6, <3>1, Zenon
  <2>8. Len(r) = i + 1
    BY <2>4, <2>5, <2>6, Zenon
  <2> QED BY <2>1, <2>7, <2>8, Zenon
<1> HIDE DEF T
<1>5. n \in T
  BY <1>2, <1>3, <1>4, Induction, Zenon
<1>6. P(f[n], n) /\ f[n] \in Seq(S)
  BY <1>1, <1>2, <1>5 DEF T, Joins
<1>7. PICK w : w = f[n]
  BY Zenon
<1>8. w \in Seq(S) /\ Len(w) = Len(cols) /\ \A j \in 1 .. Len(cols) : w[j] = cols[j]
  BY <1>0, <1>6, <1>7, Zenon
<1>9. w = cols
  BY ONLY <1>8, cols \in Seq(S)
<1> QED BY <1>1, <1>7, <1>9, Zenon

-----------------------------------------------------------------------------
(* Searching in a text *)

\* FindIn passes over no character of C.
LEMMA Finds ==
  ASSUME NEW s, NEW C, NEW i \in Nat, Len(s) \in Nat
  PROVE  /\ FindIn(s, C, i) \in Nat /\ FindIn(s, C, i) <= Len(s) + 1
         /\ i >= 1 => FindIn(s, C, i) >= 1
         /\ \A j \in i .. FindIn(s, C, i) - 1 : s[j] \notin C
<1>1. PICK there : there = {k \in i .. Len(s) : s[k] \in C}
  BY Zenon
<1>2. CASE there = {}
  <2>1. FindIn(s, C, i) = Len(s) + 1
    BY <1>1, <1>2, Zenon DEF FindIn
  <2>2. (Len(s) + 1) - 1 = Len(s)
    OBVIOUS
  <2> QED BY <1>1, <1>2, <2>1, <2>2
<1>3. CASE there # {}
  <2>1. PICK m : m = Lowest(there)
    BY Zenon
  <2>2. FindIn(s, C, i) = m
    BY <1>1, <1>3, <2>1, Zenon DEF FindIn
  <2>3. there \subseteq Nat
    BY <1>1
  <2>4. m \in there /\ \A y \in there : m <= y
    BY <1>3, <2>1, <2>3, Least, Zenon DEF Lowest
  <2>5. m \in Nat /\ m <= Len(s) /\ i <= m
    BY <1>1, <2>4
  <2>6. ASSUME NEW j \in i .. m - 1 PROVE s[j] \notin C
    BY <1>1, <2>4, <2>5
  <2> QED BY <2>2, <2>5, <2>6
<1> QED BY <1>2, <1>3, Zenon

\* It stops at the first one.
LEMMA FindsAt ==
  ASSUME NEW s, NEW C, NEW i \in Nat, NEW k \in Nat, Len(s) \in Nat,
         i <= k, k <= Len(s), s[k] \in C, \A j \in i .. k - 1 : s[j] \notin C
  PROVE  FindIn(s, C, i) = k
<1>1. PICK there : there = {j \in i .. Len(s) : s[j] \in C}
  BY Zenon
<1>2. PICK m : m = Lowest(there)
  BY Zenon
<1>3. k \in there /\ there \subseteq Nat
  BY <1>1
<1>4. m \in there /\ \A y \in there : m <= y
  BY <1>2, <1>3, Least, Zenon DEF Lowest
<1>5. m = k
  <2>1. m \in i .. Len(s) /\ s[m] \in C /\ m <= k
    BY <1>1, <1>3, <1>4, Zenon
  <2> QED BY <2>1
<1> QED BY <1>1, <1>2, <1>3, <1>5, Zenon DEF FindIn

LEMMA FindsNone ==
  ASSUME NEW s, NEW C, NEW i \in Nat, Len(s) \in Nat,
         \A j \in i .. Len(s) : s[j] \notin C
  PROVE  FindIn(s, C, i) = Len(s) + 1
<1>1. {j \in i .. Len(s) : s[j] \in C} = {}
  BY Zenon
<1> QED BY <1>1, Zenon DEF FindIn

-----------------------------------------------------------------------------
(* Numbers *)

\* The characters of a text.
Char ==
  (UNION {Items(n) : n \in Names}) \cup Items(Digit) \cup {Blank, "(", ")", ":"}

IsDigits(w) ==
  /\ w \in Seq(Char) /\ Len(w) \in 1 .. 2
  /\ \A k \in 1 .. Len(w) : w[k] \in Items(Digit)

LEMMA CharsIn ==
  /\ \A c \in Items(Digit) : c \in Char
  /\ \A n \in Names : Items(n) \subseteq Char
  /\ Blank \in Char /\ "(" \in Char /\ ")" \in Char /\ ":" \in Char
  BY Zenon DEF Char

LEMMA DigitRange ==
  /\ Items(Digit) = {"0", "1", "2", "3", "4", "5", "6", "7", "8", "9"}
  /\ \A d \in 0 .. 9 : /\ Digit[d + 1] \in Items(Digit) /\ Digit[d + 1] \in Char
                       /\ \A e \in 0 .. 9 : Digit[d + 1] = Digit[e + 1] => d = e
<1>1. DOMAIN Digit = 1 .. 10
  BY DEF Digit
<1>2. /\ Digit[1] = "0" /\ Digit[2] = "1" /\ Digit[3] = "2" /\ Digit[4] = "3"
      /\ Digit[5] = "4" /\ Digit[6] = "5" /\ Digit[7] = "6" /\ Digit[8] = "7"
      /\ Digit[9] = "8" /\ Digit[10] = "9"
  BY Zenon DEF Digit
<1>3. Items(Digit) = {"0", "1", "2", "3", "4", "5", "6", "7", "8", "9"}
  <2>1. 1 .. 10 = {1, 2, 3, 4, 5, 6, 7, 8, 9, 10}
    OBVIOUS
  <2>2. Items(Digit) = {Digit[k] : k \in {1, 2, 3, 4, 5, 6, 7, 8, 9, 10}}
    BY <1>1, <2>1, Zenon DEF Items
  <2> QED BY <1>2, <2>2
<1>4. \A d \in 0 .. 9 : d + 1 \in 1 .. 10
  OBVIOUS
<1>5. \A d \in 0 .. 9 : Digit[d + 1] \in Items(Digit)
  BY <1>1, <1>4, Zenon DEF Items
<1>6. \A d \in 0 .. 9 : Digit[d + 1] \in Char
  BY <1>5, CharsIn, Zenon
<1>7. \A d, e \in 0 .. 9 : Digit[d + 1] = Digit[e + 1] => d = e
  <2>1. 0 .. 9 = {0, 1, 2, 3, 4, 5, 6, 7, 8, 9}
    OBVIOUS
  <2> QED BY <1>2, <2>1
<1> QED BY <1>3, <1>5, <1>6, <1>7, Zenon

LEMMA BlankApart ==
  Blank \notin Items(Digit) /\ Blank # "(" /\ Blank # ")" /\ Blank # ":"
<1>1. Blank \notin {"0", "1", "2", "3", "4", "5", "6", "7", "8", "9"}
  BY Zenon DEF Blank
<1>2. Blank # "(" /\ Blank # ")" /\ Blank # ":"
  BY Zenon DEF Blank
<1> QED BY <1>1, <1>2, DigitRange, Zenon

\* The digits of a number.
LEMMA DigitsOf ==
  ASSUME NEW n \in 0 .. 99
  PROVE  /\ IsDigits(Digits(n))
         /\ n < 10 => Digits(n) = << Digit[n + 1] >>
         /\ n >= 10 =>
              /\ Digits(n) = <<Digit[(n \div 10) + 1], Digit[(n % 10) + 1]>>
              /\ n \div 10 \in 0 .. 9 /\ n % 10 \in 0 .. 9
              /\ n = 10 * (n \div 10) + (n % 10)
<1>1. CASE n < 10
  <2>1. Digits(n) = << Digit[n + 1] >> /\ n \in 0 .. 9
    BY <1>1 DEF Digits
  <2>2. PICK d : d = Digit[n + 1]
    BY Zenon
  <2>3. d \in Items(Digit) /\ d \in Char
    BY <2>1, <2>2, DigitRange, Zenon
  <2>4. IsDigits(<<d>>)
    BY <2>3 DEF IsDigits
  <2> QED BY <1>1, <2>1, <2>2, <2>4
<1>2. CASE n >= 10
  <2>1. PICK q, r : q = n \div 10 /\ r = n % 10
    BY Zenon
  <2>2. q \in 0 .. 9 /\ r \in 0 .. 9 /\ n = 10 * q + r
    BY <1>2, <2>1
  <2>3. PICK d, e : d = Digit[q + 1] /\ e = Digit[r + 1]
    BY Zenon
  <2>4. Digits(n) = <<d, e>>
    BY <1>2, <2>1, <2>3 DEF Digits
  <2>5. d \in Items(Digit) /\ d \in Char /\ e \in Items(Digit) /\ e \in Char
    BY <2>2, <2>3, DigitRange, Zenon
  <2>6. IsDigits(<<d, e>>)
    BY <2>5 DEF IsDigits
  <2>7. ~(n < 10)
    BY <1>2
  <2> QED BY <2>1, <2>2, <2>3, <2>4, <2>6, <2>7, Zenon
<1> QED BY <1>1, <1>2

\* stoll reads them, after a space or none.
LEMMA NumeralOf ==
  ASSUME NEW w, IsDigits(w)
  PROVE  Numeral(w) = w /\ Numeral(<<Blank>> \o w) = w
<1>1. /\ w \in Seq(Char) /\ Len(w) \in 1 .. 2 /\ Len(w) \in Nat
      /\ \A k \in 1 .. Len(w) : w[k] \in Items(Digit) /\ w[k] # Blank
  BY BlankApart DEF IsDigits
<1>2. ASSUME NEW s \in Seq(Char), NEW p \in 0 .. 1, Len(s) = p + Len(w),
             p = 1 => s[1] = Blank, \A k \in 1 .. Len(w) : s[p + k] = w[k]
      PROVE  Numeral(s) = w
  <2>1. Len(s) \in Nat /\ p + 1 \in Nat /\ DOMAIN s = 1 .. Len(s) /\ 1 \in 1 .. Len(w)
    <3>1. Len(s) \in Nat /\ DOMAIN s = 1 .. Len(s)
      BY <1>2
    <3>2. PICK m : m = Len(w) /\ m \in 1 .. 2
      BY <1>1, Zenon
    <3>3. 1 \in 1 .. m
      BY <3>2
    <3>4. p + 1 \in Nat
      OBVIOUS
    <3> QED BY <3>1, <3>2, <3>3, <3>4, Zenon
  <2>2. FindIn(s, Items(s) \ {Blank}, 1) = p + 1
    <3>1. s[p + 1] = w[1] /\ p + 1 \in 1 .. Len(s)
      BY <1>1, <1>2, <2>1
    <3>2. s[p + 1] \in Items(s) \ {Blank}
      BY <1>1, <2>1, <3>1, Zenon DEF Items
    <3>3. \A j \in 1 .. (p + 1) - 1 : s[j] \notin Items(s) \ {Blank}
      BY <1>2
    <3> QED BY <2>1, <3>1, <3>2, <3>3, FindsAt
  <2>3. FindIn(s, Items(s) \ Items(Digit), p + 1) = Len(s) + 1
    <3>1. ASSUME NEW j \in p + 1 .. Len(s) PROVE s[j] \in Items(Digit)
      <4>1. j - p \in 1 .. Len(w) /\ p + (j - p) = j
        BY <1>1, <1>2
      <4> QED BY <1>1, <1>2, <4>1, Zenon
    <3> QED BY <2>1, <3>1, FindsNone, Zenon
  <2>4. Numeral(s) = SubSeq(s, p + 1, (Len(s) + 1) - 1)
    BY <2>2, <2>3, Zenon DEF Numeral
  <2>5. SubSeq(s, p + 1, Len(s)) = w
    <3>1. PICK x : x = SubSeq(s, p + 1, Len(s))
      BY Zenon
    <3>2. x \in Seq(Char) /\ Len(x) = Len(w) /\ \A k \in 1 .. Len(w) : x[k] = s[p + k]
      BY <1>1, <1>2, <2>1, <3>1
    <3> QED BY <1>1, <1>2, <3>1, <3>2
  <2> QED BY <2>1, <2>4, <2>5
<1>3. Numeral(w) = w
  BY <1>1, <1>2
<1>4. Numeral(<<Blank>> \o w) = w
  <2>1. PICK s : s = <<Blank>> \o w
    BY Zenon
  <2>2. <<Blank>> \in Seq(Char) /\ Len(<<Blank>>) = 1
    BY CharsIn
  <2>3. /\ s \in Seq(Char) /\ Len(s) = 1 + Len(w) /\ s[1] = Blank
        /\ \A k \in 1 .. Len(w) : s[1 + k] = w[k]
    BY <1>1, <2>1, <2>2
  <2>4. 1 \in 0 .. 1
    OBVIOUS
  <2> QED BY <1>2, <2>1, <2>3, <2>4, Zenon
<1> QED BY <1>3, <1>4, Zenon

\* What stoll makes of digits.
ValueOf(w) ==
  LET DigitOf(c) == CHOOSE d \in 0 .. 9 : Digit[d + 1] = c
      value[n \in 0 .. Len(w)] ==
        IF n = 0 THEN 0 ELSE 10 * value[n - 1] + DigitOf(w[n])
  IN  value[Len(w)]

LEMMA NumberByNumeral ==
  ASSUME NEW s
  PROVE  Number(s) = ValueOf(Numeral(s))
  BY Zenon DEF Number, ValueOf

\* The N digits of w are those of the numbers c.
Spells(w, N, c) ==
  /\ N = Len(w) /\ N \in 1 .. 2 /\ c \in [1 .. N -> 0 .. 9]
  /\ \A k \in 1 .. N : w[k] = Digit[c[k] + 1]

LEMMA Valuation ==
  ASSUME NEW w, NEW N, NEW c, Spells(w, N, c)
  PROVE  /\ N = 1 => ValueOf(w) = c[1]
         /\ N = 2 => ValueOf(w) = 10 * c[1] + c[2]
<1> DEFINE DigitOf(x) == CHOOSE d \in 0 .. 9 : Digit[d + 1] = x
           Eq(f) == f = [n \in 0 .. Len(w) |->
                           IF n = 0 THEN 0 ELSE 10 * f[n - 1] + DigitOf(w[n])]
           f == CHOOSE value : Eq(value)
           g == [n \in 0 .. N |-> IF n = 0 THEN 0
                                  ELSE IF n = 1 THEN c[1] ELSE 10 * c[1] + c[2]]
<1>0. /\ N = Len(w) /\ N \in 1 .. 2 /\ c \in [1 .. N -> 0 .. 9]
      /\ \A k \in 1 .. N : w[k] = Digit[c[k] + 1]
  BY Zenon DEF Spells
<1>1. ASSUME NEW k \in 1 .. N PROVE DigitOf(w[k]) = c[k]
  <2>1. c[k] \in 0 .. 9 /\ Digit[c[k] + 1] = w[k]
    BY <1>0, Zenon
  <2>2. PICK d : d = DigitOf(w[k])
    BY Zenon
  <2>3. d \in 0 .. 9 /\ Digit[d + 1] = w[k]
    BY <2>1, <2>2, Zenon
  <2> QED BY <2>1, <2>2, <2>3, DigitRange
<1> HIDE DEF DigitOf
<1>2. Eq(g)
  <2> DEFINE h == [n \in 0 .. N |->
                     IF n = 0 THEN 0 ELSE 10 * g[n - 1] + DigitOf(w[n])]
  <2>1. ASSUME NEW n \in 0 .. N PROVE g[n] = h[n]
    <3>1. CASE n = 0
      BY <1>0, <3>1, Zenon
    <3>2. CASE n = 1
      BY <1>0, <1>1, <3>2
    <3>3. CASE n = 2
      <4>1. N = 2 /\ 2 \in 1 .. N /\ 1 \in 1 .. N /\ n - 1 = 1 /\ 1 \in 0 .. N
        BY <1>0, <3>3
      <4>2. DigitOf(w[2]) = c[2]
        BY <1>1, <4>1, Zenon
      <4>3. g[2] = 10 * c[1] + c[2] /\ g[1] = c[1]
        BY <1>0, <4>1
      <4>4. h[2] = 10 * g[1] + DigitOf(w[2])
        BY <3>3, <4>1
      <4> QED BY <1>0, <3>3, <4>2, <4>3, <4>4, Zenon
    <3> QED BY <1>0, <3>1, <3>2, <3>3
  <2>2. g = h
    BY <2>1, Zenon
  <2> QED BY <1>0, <2>2, Zenon
<1>3. Eq(f)
  BY <1>2, Zenon
<1>4. ValueOf(w) = f[N]
  BY <1>0, Zenon DEF ValueOf, DigitOf
<1> HIDE DEF f, g
<1>5. \A n \in 0 .. N : f[n] = IF n = 0 THEN 0 ELSE 10 * f[n - 1] + DigitOf(w[n])
  <2>1. PICK h : h = [n \in 0 .. N |->
                        IF n = 0 THEN 0 ELSE 10 * f[n - 1] + DigitOf(w[n])]
    BY Zenon
  <2>2. f = h
    BY <1>0, <1>3, <2>1, Zenon
  <2>3. \A n \in 0 .. N : h[n] = IF n = 0 THEN 0 ELSE 10 * f[n - 1] + DigitOf(w[n])
    BY <2>1, Zenon
  <2> QED BY <2>2, <2>3, Zenon
<1>6. f[0] = 0 /\ f[1] = 10 * f[0] + DigitOf(w[1]) /\ 1 \in 1 .. N
  <2>1. 0 \in 0 .. N /\ 1 \in 0 .. N /\ 1 - 1 = 0 /\ 1 # 0 /\ 1 \in 1 .. N
    BY <1>0
  <2> QED BY <1>5, <2>1, Zenon
<1>7. f[1] = c[1]
  BY <1>0, <1>1, <1>6
<1>8. CASE N = 1
  BY <1>4, <1>7, <1>8
<1>9. CASE N = 2
  <2>1. 2 \in 0 .. N /\ 2 \in 1 .. N /\ 2 - 1 = 1 /\ 2 # 0
    BY <1>0, <1>9
  <2>2. f[2] = 10 * f[1] + DigitOf(w[2])
    BY <1>5, <2>1, Zenon
  <2>3. DigitOf(w[2]) = c[2]
    BY <1>1, <2>1, Zenon
  <2> QED BY <1>0, <1>4, <1>7, <1>9, <2>2, <2>3, Zenon
<1> QED BY <1>0, <1>8, <1>9, Zenon

\* A number comes back from its digits.
LEMMA NumberOf ==
  ASSUME NEW n \in 0 .. 99
  PROVE  /\ Number(Digits(n)) = n /\ Number(<<Blank>> \o Digits(n)) = n
         /\ Numeral(Digits(n)) # << >> /\ Numeral(<<Blank>> \o Digits(n)) # << >>
<1>1. PICK w : w = Digits(n)
  BY Zenon
<1>2. IsDigits(w)
  BY <1>1, DigitsOf, Zenon
<1>3. Numeral(w) = w /\ Numeral(<<Blank>> \o w) = w
  BY <1>2, NumeralOf, Zenon
<1>4. ValueOf(w) = n
  <2>1. CASE n < 10
    <3>1. w = << Digit[n + 1] >>
      BY <1>1, <2>1, DigitsOf, Zenon
    <3>2. PICK d : d = Digit[n + 1]
      BY Zenon
    <3>3. Len(w) = 1 /\ w[1] = d
      BY <3>1, <3>2, Zenon
    <3> DEFINE c == [k \in 1 .. 1 |-> n]
    <3>4. c \in [1 .. 1 -> 0 .. 9] /\ c[1] = n
      BY <2>1
    <3>5. \A k \in 1 .. 1 : w[k] = Digit[c[k] + 1]
      BY <3>2, <3>3, <3>4
    <3> HIDE DEF c
    <3>6. Spells(w, 1, c)
      BY <3>3, <3>4, <3>5 DEF Spells
    <3> QED BY <3>4, <3>6, Valuation, Zenon
  <2>2. CASE n >= 10
    <3>1. PICK q, r : q = n \div 10 /\ r = n % 10
      BY Zenon
    <3>2. /\ w = <<Digit[q + 1], Digit[r + 1]>>
          /\ q \in 0 .. 9 /\ r \in 0 .. 9 /\ n = 10 * q + r
      BY <1>1, <2>2, <3>1, DigitsOf, Zenon
    <3>3. PICK d, e : d = Digit[q + 1] /\ e = Digit[r + 1]
      BY Zenon
    <3>4. Len(w) = 2 /\ w[1] = d /\ w[2] = e
      BY <3>2, <3>3, Zenon
    <3> DEFINE c == [k \in 1 .. 2 |-> IF k = 1 THEN q ELSE r]
    <3>5. c \in [1 .. 2 -> 0 .. 9] /\ c[1] = q /\ c[2] = r
      BY <3>2
    <3>6. \A k \in 1 .. 2 : w[k] = Digit[c[k] + 1]
      <4>1. \A k \in 1 .. 2 : k = 1 \/ k = 2
        OBVIOUS
      <4> QED BY <3>3, <3>4, <3>5, <4>1, Zenon
    <3> HIDE DEF c
    <3>7. Spells(w, 2, c)
      BY <3>4, <3>5, <3>6 DEF Spells
    <3>8. ValueOf(w) = 10 * c[1] + c[2]
      BY <3>7, Valuation, Zenon
    <3> QED BY <3>2, <3>5, <3>8, Zenon
  <2> QED BY <2>1, <2>2
<1>5. w # << >>
  BY <1>2 DEF IsDigits
<1> QED BY <1>1, <1>3, <1>4, <1>5, NumberByNumeral, Zenon

-----------------------------------------------------------------------------
(* The numbers of types and properties *)

LEMMA TypeNumbers ==
  ASSUME NEW type \in Items(AttrTypes)
  PROVE  /\ TypeNumber(type) \in 0 .. 2
         /\ AttrTypes[TypeNumber(type) + 1] = type
<1>1. PICK k : k = CHOOSE m \in DOMAIN AttrTypes : AttrTypes[m] = type
  BY Zenon
<1>2. \E m \in DOMAIN AttrTypes : AttrTypes[m] = type
  BY Zenon DEF Items
<1>3. k \in DOMAIN AttrTypes /\ AttrTypes[k] = type
  BY <1>1, <1>2, Zenon
<1>4. DOMAIN AttrTypes = 1 .. 3
  BY DEF AttrTypes
<1>5. TypeNumber(type) = k - 1
  BY <1>1, Zenon DEF TypeNumber
<1>6. k - 1 \in 0 .. 2 /\ (k - 1) + 1 = k
  BY <1>3, <1>4
<1> QED BY <1>3, <1>5, <1>6, Zenon

LEMMA Bits == Bit("NULLABLE") = 1 /\ Bit("KEY") = 2 /\ Bit("UNIQUE") = 4
<1>1. "NULLABLE" # "KEY" /\ "NULLABLE" # "UNIQUE" /\ "KEY" # "UNIQUE"
  BY Zenon
<1> QED BY <1>1, Zenon DEF Bit

LEMMA PropertyNumbers ==
  ASSUME NEW P \in SUBSET {"NULLABLE", "KEY", "UNIQUE"}, NEW n, n = PropertyNumber(P)
  PROVE  /\ n \in 0 .. 99
         /\ {p \in {"NULLABLE", "KEY", "UNIQUE"} : (n \div Bit(p)) % 2 = 1} = P
<1>1. PICK a, b, c : /\ a = IF "NULLABLE" \in P THEN 1 ELSE 0
                     /\ b = IF "KEY" \in P THEN 2 ELSE 0
                     /\ c = IF "UNIQUE" \in P THEN 4 ELSE 0
  BY Zenon
<1>2. n = a + b + c
  BY <1>1, Bits, Zenon DEF PropertyNumber
<1>3. /\ n \in 0 .. 99
      /\ ((n \div 1) % 2 = 1) <=> a = 1
      /\ ((n \div 2) % 2 = 1) <=> b = 2
      /\ ((n \div 4) % 2 = 1) <=> c = 4
  <2>1. a \in {0, 1} /\ b \in {0, 2} /\ c \in {0, 4}
    BY <1>1, Zenon
  <2>2. n \in 0 .. 7
    BY <1>2, <2>1
  <2>3. CASE a = 0
    BY <1>2, <2>1, <2>3
  <2>4. CASE a = 1
    BY <1>2, <2>1, <2>4
  <2> QED BY <2>1, <2>3, <2>4, Zenon
<1>4. /\ ((n \div Bit("NULLABLE")) % 2 = 1) <=> "NULLABLE" \in P
      /\ ((n \div Bit("KEY")) % 2 = 1) <=> "KEY" \in P
      /\ ((n \div Bit("UNIQUE")) % 2 = 1) <=> "UNIQUE" \in P
  BY <1>1, <1>3, Bits
<1>5. \A p \in {"NULLABLE", "KEY", "UNIQUE"} : ((n \div Bit(p)) % 2 = 1) <=> p \in P
  BY <1>4, Zenon
<1> QED BY <1>3, <1>5, Zenon

-----------------------------------------------------------------------------
(* The text of an attribute *)

\* w is in t, after the first p characters.
Holds(t, p, w) == p + Len(w) <= Len(t) /\ \A k \in 1 .. Len(w) : t[p + k] = w[k]

LEMMA HoldsConcat ==
  ASSUME NEW t \in Seq(Char), NEW p \in Nat, NEW u \in Seq(Char), NEW v \in Seq(Char),
         Holds(t, p, u \o v)
  PROVE  Holds(t, p, u) /\ Holds(t, p + Len(u), v)
<1>1. /\ Len(u \o v) = Len(u) + Len(v)
      /\ \A k \in 1 .. Len(u) : (u \o v)[k] = u[k]
      /\ \A k \in 1 .. Len(v) : (u \o v)[Len(u) + k] = v[k]
  OBVIOUS
<1>2. Len(t) \in Nat /\ Len(u) \in Nat /\ Len(v) \in Nat
  OBVIOUS
<1>3. /\ p + (Len(u) + Len(v)) <= Len(t)
      /\ \A k \in 1 .. Len(u) + Len(v) : t[p + k] = (u \o v)[k]
  BY <1>1, Zenon DEF Holds
<1>4. Holds(t, p, u)
  <2>1. p + Len(u) <= Len(t)
    BY <1>2, <1>3
  <2>2. \A k \in 1 .. Len(u) : k \in 1 .. Len(u) + Len(v)
    BY <1>2
  <2> QED BY <1>1, <1>3, <2>1, <2>2, Zenon DEF Holds
<1>5. ASSUME NEW k \in 1 .. Len(v) PROVE t[(p + Len(u)) + k] = v[k]
  <2>1. Len(u) + k \in 1 .. Len(u) + Len(v) /\ (p + Len(u)) + k = p + (Len(u) + k)
    BY <1>2
  <2> QED BY <1>1, <1>3, <2>1, Zenon
<1>6. (p + Len(u)) + Len(v) <= Len(t)
  BY <1>2, <1>3
<1> QED BY <1>4, <1>5, <1>6, Zenon DEF Holds

Cat(r, u, v) ==
  r = u \o v

LEMMA Joined ==
  ASSUME NEW u \in Seq(Char), NEW v \in Seq(Char), NEW r, Cat(r, u, v)
  PROVE  /\ r \in Seq(Char) /\ Len(r) = Len(u) + Len(v)
         /\ \A k \in 1 .. Len(u) : r[k] = u[k]
         /\ \A k \in 1 .. Len(v) : r[Len(u) + k] = v[k]
  BY DEF Cat

LEMMA CatLen ==
  ASSUME NEW u \in Seq(Char), NEW v \in Seq(Char), NEW r, Cat(r, u, v)
  PROVE  r \in Seq(Char) /\ Len(r) = Len(u) + Len(v)
  BY DEF Cat

LEMMA Concats ==
  /\ \A u, v \in Seq(Char) : u \o v \in Seq(Char) /\ Len(u \o v) = Len(u) + Len(v)
  /\ \A u \in Seq(Char) : Len(u) \in Nat
  /\ \A c \in Char : <<c>> \in Seq(Char) /\ Len(<<c>>) = 1 /\ (<<c>>)[1] = c
  OBVIOUS

\* A single character.
LEMMA HoldsChar ==
  ASSUME NEW t \in Seq(Char), NEW p \in Nat, NEW c \in Char, Holds(t, p, <<c>>)
  PROVE  t[p + 1] = c /\ p + 1 <= Len(t)
<1>1. Len(<<c>>) = 1 /\ (<<c>>)[1] = c /\ 1 \in 1 .. 1
  OBVIOUS
<1> QED BY <1>1, Zenon DEF Holds

\* What is cut out of t where it holds w is w.
LEMMA HoldsCut ==
  ASSUME NEW t \in Seq(Char), NEW p \in Nat, NEW w \in Seq(Char), Holds(t, p, w)
  PROVE  SubSeq(t, p + 1, p + Len(w)) = w
<1>1. PICK x : x = SubSeq(t, p + 1, p + Len(w))
  BY Zenon
<1>2. Len(w) \in Nat /\ Len(t) \in Nat
  OBVIOUS
<1>3. p + Len(w) <= Len(t) /\ \A k \in 1 .. Len(w) : t[p + k] = w[k]
  BY Zenon DEF Holds
<1>4. x \in Seq(Char) /\ Len(x) = Len(w) /\ \A k \in 1 .. Len(w) : x[k] = t[p + k]
  BY <1>1, <1>2, <1>3
<1> QED BY <1>1, <1>3, <1>4

Bare(w, c) ==
  \A k \in 1 .. Len(w) : w[k] # c

\* A search for a character that w does not have, and that follows w.
LEMMA FindAfter ==
  ASSUME NEW t \in Seq(Char), NEW p \in Nat, NEW w \in Seq(Char), NEW c \in Char,
         Holds(t, p, w), Holds(t, p + Len(w), <<c>>), Bare(w, c)
  PROVE  FindIn(t, {c}, p + 1) = p + Len(w) + 1
<1>1. PICK k : k = p + Len(w) + 1
  BY Zenon
<1>2. Len(w) \in Nat /\ Len(t) \in Nat
  OBVIOUS
<1>3. k \in Nat /\ p + 1 \in Nat /\ p + 1 <= k /\ p + Len(w) \in Nat /\ k = (p + Len(w)) + 1
  BY <1>1, <1>2
<1>4. t[k] = c /\ k <= Len(t)
  BY <1>3, HoldsChar, Zenon
<1>5. ASSUME NEW j \in p + 1 .. k - 1 PROVE t[j] \notin {c}
  <2>1. j - p \in 1 .. Len(w) /\ p + (j - p) = j
    BY <1>2, <1>3
  <2>2. t[p + (j - p)] = w[j - p]
    BY <2>1, Zenon DEF Holds
  <2> QED BY <2>1, <2>2, Zenon DEF Bare
<1>6. t[k] \in {c}
  BY <1>4, Zenon
<1>7. FindIn(t, {c}, p + 1) = k
  BY <1>2, <1>3, <1>4, <1>5, <1>6, FindsAt, Zenon
<1> QED BY <1>1, <1>7, Zenon

Ahead(t, p, w, c) ==
  /\ p \in Nat /\ w \in Seq(Char) /\ c \in Char
  /\ Holds(t, p, w) /\ Holds(t, p + Len(w), <<c>>) /\ Bare(w, c)

LEMMA FindAhead ==
  ASSUME NEW t \in Seq(Char), NEW p \in Nat, NEW w, NEW c, Ahead(t, p, w, c)
  PROVE  FindIn(t, {c}, p + 1) = p + Len(w) + 1
  BY FindAfter, Zenon DEF Ahead

\* The same with nothing in between.
LEMMA FindHere ==
  ASSUME NEW t \in Seq(Char), NEW p \in Nat, NEW c \in Char, Holds(t, p, <<c>>)
  PROVE  FindIn(t, {c}, p + 1) = p + 1
<1>1. t[p + 1] \in {c} /\ p + 1 <= Len(t)
  BY HoldsChar, Zenon
<1>2. Len(t) \in Nat /\ p + 1 \in Nat /\ p + 1 <= p + 1
  OBVIOUS
<1>3. \A j \in p + 1 .. (p + 1) - 1 : t[j] \notin {c}
  OBVIOUS
<1> QED BY <1>1, <1>2, <1>3, FindsAt, Zenon

\* The parts of the text of an attribute: its name, and the digits of its type,
\* its parameter and its property.
Parts4(a, n, x, y, z) ==
  /\ n = a.name /\ x = Digits(TypeNumber(a.type)) /\ y = Digits(a.param)
  /\ z = Digits(PropertyNumber(a.property))

\* w is made of them.
Assembled(w, n, x, y, z) ==
  w = <<"(">> \o n \o <<Blank>> \o (<<"(">> \o x \o <<Blank>> \o y \o <<")">>)
        \o <<Blank>> \o z \o <<")">>

\* Names are sequences of characters.
Words == \A n \in Names : n \in Seq(Items(n))

LEMMA Parted ==
  ASSUME Words, NEW a \in Attribute, NEW n, NEW x, NEW y, NEW z, Parts4(a, n, x, y, z)
  PROVE  /\ n \in Seq(Char) /\ IsDigits(x) /\ IsDigits(y) /\ IsDigits(z)
         /\ Assembled(AttributeText(a), n, x, y, z)
<1>1. /\ a.name \in Names /\ a.type \in Items(AttrTypes) /\ a.param \in 0 .. 99
      /\ a.property \in SUBSET {"NULLABLE", "KEY", "UNIQUE"}
  BY Zenon DEF Attribute
<1>2. n \in Seq(Char)
  <2>1. n \in Seq(Items(n)) /\ Items(n) \subseteq Char
    BY <1>1, CharsIn, Zenon DEF Parts4, Words
  <2> QED BY <2>1
<1>3. TypeNumber(a.type) \in 0 .. 99
  <2>1. TypeNumber(a.type) \in 0 .. 2
    BY <1>1, TypeNumbers, Zenon
  <2> QED BY <2>1
<1>4. PropertyNumber(a.property) \in 0 .. 99
  BY <1>1, PropertyNumbers, Zenon
<1>5. IsDigits(x) /\ IsDigits(y) /\ IsDigits(z)
  BY <1>1, <1>3, <1>4, DigitsOf, Zenon DEF Parts4
<1>6. Assembled(AttributeText(a), n, x, y, z)
  BY Zenon DEF Parts4, AttributeText, AttrTypeText, Assembled
<1> QED BY <1>2, <1>5, <1>6, Zenon

\* Where the text t holds these parts, after its first p characters.
PartsHeld(t, p, n, x, y, z) ==
  LET p1 == p + 1
      p2 == p1 + Len(n)
      p3 == p2 + 1
      p4 == p3 + 1
      p5 == p4 + Len(x)
      p6 == p5 + 1
      p7 == p6 + Len(y)
      p8 == p7 + 1
      p9 == (p8 + 1) + Len(z)
  IN  /\ Holds(t, p, <<"(">>) /\ Holds(t, p1, n) /\ Holds(t, p2, <<Blank>>)
      /\ Holds(t, p3, <<"(">>) /\ Holds(t, p4, x) /\ Holds(t, p5, <<Blank>>)
      /\ Holds(t, p6, y) /\ Holds(t, p7, <<")">>)
      /\ Holds(t, p8, <<Blank>> \o z) /\ Holds(t, p9, <<")">>)

LEMMA AttributeHeld ==
  ASSUME NEW t \in Seq(Char), NEW p \in Nat, NEW n \in Seq(Char), NEW x \in Seq(Char),
         NEW y \in Seq(Char), NEW z \in Seq(Char), NEW w,
         Assembled(w, n, x, y, z)
  PROVE  /\ Holds(t, p, w) => PartsHeld(t, p, n, x, y, z)
         /\ w \in Seq(Char) /\ Len(w) = Len(n) + Len(x) + Len(y) + Len(z) + 7
<1>1. PICK o, c, b : o = <<"(">> /\ c = <<")">> /\ b = <<Blank>>
  BY Zenon
<1>2. /\ o \in Seq(Char) /\ c \in Seq(Char) /\ b \in Seq(Char)
      /\ Len(o) = 1 /\ Len(c) = 1 /\ Len(b) = 1
  BY <1>1, CharsIn, Concats, Zenon
<1>3. PICK v1, v2, v3, v4 :
        Cat(v1, o, x) /\ Cat(v2, v1, b) /\ Cat(v3, v2, y) /\ Cat(v4, v3, c)
  BY Zenon DEF Cat
<1>4. PICK u1, u2, u3, u4, u5 :
        /\ Cat(u1, o, n) /\ Cat(u2, u1, b) /\ Cat(u3, u2, v4) /\ Cat(u4, u3, b)
        /\ Cat(u5, u4, z)
  BY Zenon DEF Cat
<1>5. Cat(w, u5, c)
  BY <1>1, <1>3, <1>4, Zenon DEF Assembled, Cat
<1>6. PICK ln, lx, ly, lz :
        /\ ln = Len(n) /\ lx = Len(x) /\ ly = Len(y) /\ lz = Len(z)
        /\ ln \in Nat /\ lx \in Nat /\ ly \in Nat /\ lz \in Nat
  BY Concats, Zenon
<1>7. /\ v1 \in Seq(Char) /\ Len(v1) = 1 + lx
      /\ v2 \in Seq(Char) /\ Len(v2) = 2 + lx
      /\ v3 \in Seq(Char) /\ Len(v3) = 2 + lx + ly
      /\ v4 \in Seq(Char) /\ Len(v4) = 3 + lx + ly
  <2>1. v1 \in Seq(Char) /\ Len(v1) = Len(o) + Len(x)
    <3>1. Cat(v1, o, x)
      BY <1>3, Zenon
    <3>2. o \in Seq(Char)
      BY <1>2, Zenon
    <3> QED BY <3>1, <3>2, CatLen, Zenon
  <2>2. v2 \in Seq(Char) /\ Len(v2) = Len(v1) + Len(b)
    <3>1. Cat(v2, v1, b)
      BY <1>3, Zenon
    <3>2. v1 \in Seq(Char) /\ b \in Seq(Char)
      BY <1>2, <2>1, Zenon
    <3> QED BY ONLY <3>1, <3>2, CatLen, Zenon
  <2>3. v3 \in Seq(Char) /\ Len(v3) = Len(v2) + Len(y)
    <3>1. Cat(v3, v2, y)
      BY <1>3, Zenon
    <3>2. v2 \in Seq(Char) /\ y \in Seq(Char)
      BY <2>2, Zenon
    <3> QED BY ONLY <3>1, <3>2, CatLen, Zenon
  <2>4. v4 \in Seq(Char) /\ Len(v4) = Len(v3) + Len(c)
    <3>1. Cat(v4, v3, c)
      BY <1>3, Zenon
    <3>2. v3 \in Seq(Char) /\ c \in Seq(Char)
      BY <1>2, <2>3, Zenon
    <3> QED BY ONLY <3>1, <3>2, CatLen, Zenon
  <2>5. Len(v1) = 1 + lx /\ Len(v2) = 2 + lx
    BY <1>2, <1>6, <2>1, <2>2
  <2>6. Len(v3) = 2 + lx + ly
    BY <1>6, <2>3, <2>5, Zenon
  <2>7. Len(v4) = 3 + lx + ly
    BY <1>2, <1>6, <2>4, <2>6
  <2> QED BY <2>1, <2>2, <2>3, <2>4, <2>5, <2>6, <2>7, Zenon
<1>8. /\ u1 \in Seq(Char) /\ Len(u1) = 1 + ln
      /\ u2 \in Seq(Char) /\ Len(u2) = 2 + ln
      /\ u3 \in Seq(Char) /\ Len(u3) = 5 + ln + lx + ly
      /\ u4 \in Seq(Char) /\ Len(u4) = 6 + ln + lx + ly
      /\ u5 \in Seq(Char) /\ Len(u5) = 6 + ln + lx + ly + lz
  <2>1. u1 \in Seq(Char) /\ Len(u1) = Len(o) + Len(n)
    <3>1. Cat(u1, o, n)
      BY <1>4, Zenon
    <3>2. o \in Seq(Char)
      BY <1>2, Zenon
    <3> QED BY <3>1, <3>2, CatLen, Zenon
  <2>2. u2 \in Seq(Char) /\ Len(u2) = Len(u1) + Len(b)
    <3>1. Cat(u2, u1, b)
      BY <1>4, Zenon
    <3>2. u1 \in Seq(Char) /\ b \in Seq(Char)
      BY <1>2, <2>1, Zenon
    <3> QED BY ONLY <3>1, <3>2, CatLen, Zenon
  <2>3. u3 \in Seq(Char) /\ Len(u3) = Len(u2) + Len(v4)
    <3>1. Cat(u3, u2, v4)
      BY <1>4, Zenon
    <3>2. u2 \in Seq(Char) /\ v4 \in Seq(Char)
      BY <1>7, <2>2, Zenon
    <3> QED BY ONLY <3>1, <3>2, CatLen, Zenon
  <2>4. u4 \in Seq(Char) /\ Len(u4) = Len(u3) + Len(b)
    <3>1. Cat(u4, u3, b)
      BY <1>4, Zenon
    <3>2. u3 \in Seq(Char) /\ b \in Seq(Char)
      BY <1>2, <2>3, Zenon
    <3> QED BY ONLY <3>1, <3>2, CatLen, Zenon
  <2>5. u5 \in Seq(Char) /\ Len(u5) = Len(u4) + Len(z)
    <3>1. Cat(u5, u4, z)
      BY <1>4, Zenon
    <3>2. u4 \in Seq(Char) /\ z \in Seq(Char)
      BY <2>4, Zenon
    <3> QED BY ONLY <3>1, <3>2, CatLen, Zenon
  <2>6. Len(u1) = 1 + ln /\ Len(u2) = 2 + ln
    BY <1>2, <1>6, <2>1, <2>2
  <2>7. Len(u3) = 5 + ln + lx + ly
    BY <1>6, <1>7, <2>3, <2>6
  <2>8. Len(u4) = 6 + ln + lx + ly
    BY <1>2, <1>6, <2>4, <2>7
  <2>9. Len(u5) = 6 + ln + lx + ly + lz
    BY <1>6, <2>5, <2>8, Zenon
  <2> QED BY <2>1, <2>2, <2>3, <2>4, <2>5, <2>6, <2>7, <2>8, <2>9, Zenon
<1>9. w \in Seq(Char) /\ Len(w) = ln + lx + ly + lz + 7
  <2>1. w \in Seq(Char) /\ Len(w) = Len(u5) + Len(c)
    <3>1. Cat(w, u5, c)
      BY <1>5, Zenon
    <3>2. u5 \in Seq(Char) /\ c \in Seq(Char)
      BY <1>2, <1>8, Zenon
    <3> QED BY <3>1, <3>2, CatLen, Zenon
  <2> QED BY <1>2, <1>6, <1>8, <2>1
<1> SUFFICES ASSUME Holds(t, p, w) PROVE PartsHeld(t, p, n, x, y, z)
  BY <1>6, <1>9, Zenon
<1>10. Holds(t, p, u5) /\ Holds(t, p + Len(u5), c)
  BY <1>2, <1>5, <1>8, HoldsConcat, Zenon DEF Cat
<1>11. Holds(t, p, u4) /\ Holds(t, p + Len(u4), z)
  BY <1>4, <1>8, <1>10, HoldsConcat, Zenon DEF Cat
<1>12. Holds(t, p, u3) /\ Holds(t, p + Len(u3), b)
  BY <1>2, <1>4, <1>8, <1>11, HoldsConcat, Zenon DEF Cat
<1>13. Holds(t, p, u2) /\ Holds(t, p + Len(u2), v4)
  BY <1>4, <1>7, <1>8, <1>12, HoldsConcat, Zenon DEF Cat
<1>14. Holds(t, p, u1) /\ Holds(t, p + Len(u1), b)
  BY <1>2, <1>4, <1>8, <1>13, HoldsConcat, Zenon DEF Cat
<1>15. Holds(t, p, o) /\ Holds(t, p + 1, n)
  BY <1>2, <1>4, <1>14, HoldsConcat, Zenon DEF Cat
<1>16. PICK q : q = p + Len(u2) /\ q \in Nat
  <2>1. p + Len(u2) \in Nat
    BY <1>6, <1>8
  <2> QED BY <2>1, Zenon
<1>17. Holds(t, q, v3) /\ Holds(t, q + Len(v3), c)
  BY <1>2, <1>3, <1>7, <1>13, <1>16, HoldsConcat, Zenon DEF Cat
<1>18. Holds(t, q, v2) /\ Holds(t, q + Len(v2), y)
  BY <1>3, <1>7, <1>17, <1>16, HoldsConcat, Zenon DEF Cat
<1>19. Holds(t, q, v1) /\ Holds(t, q + Len(v1), b)
  BY <1>2, <1>3, <1>7, <1>18, <1>16, HoldsConcat, Zenon DEF Cat
<1>20. Holds(t, q, o) /\ Holds(t, q + 1, x)
  BY <1>2, <1>3, <1>19, <1>16, HoldsConcat, Zenon DEF Cat
<1>21. Holds(t, p + Len(u3), b \o z)
  <2>1. p + Len(u3) \in Nat
    BY <1>6, <1>8
  <2>2. PICK m : m = p + Len(u3) /\ m \in Nat
    BY <2>1, Zenon
  <2>3. p + Len(u4) = m + 1
    BY <1>6, <1>8, <2>2
  <2>4. PICK bz : Cat(bz, b, z)
    BY Zenon DEF Cat
  <2>5. /\ Len(bz) = 1 + lz /\ \A k \in 1 .. 1 : bz[k] = b[k]
        /\ \A k \in 1 .. lz : bz[1 + k] = z[k]
    <3>1. /\ Len(bz) = Len(b) + Len(z) /\ \A k \in 1 .. Len(b) : bz[k] = b[k]
          /\ \A k \in 1 .. Len(z) : bz[Len(b) + k] = z[k]
      <4>1. Cat(bz, b, z) /\ b \in Seq(Char)
        BY <1>2, <2>4, Zenon
      <4> QED BY <4>1 DEF Cat
    <3> QED BY <1>2, <1>6, <3>1, Zenon
  <2>6. /\ m + 1 + lz <= Len(t) /\ t[m + 1] = b[1]
        /\ \A k \in 1 .. lz : t[(m + 1) + k] = z[k]
    <3>1. Holds(t, m, b) /\ Holds(t, m + 1, z)
      BY <1>11, <1>12, <2>2, <2>3, Zenon
    <3> QED BY <1>2, <1>6, <3>1 DEF Holds
  <2>7. ASSUME NEW k \in 1 .. 1 + lz PROVE t[m + k] = bz[k]
    <3>1. CASE k = 1
      BY <2>5, <2>6, <3>1
    <3>2. CASE k # 1
      <4>1. k - 1 \in 1 .. lz /\ (m + 1) + (k - 1) = m + k /\ 1 + (k - 1) = k
        BY <1>6, <2>2, <3>2
      <4>2. t[(m + 1) + (k - 1)] = z[k - 1] /\ bz[1 + (k - 1)] = z[k - 1]
        BY <2>5, <2>6, <4>1, Zenon
      <4> QED BY <4>1, <4>2, Zenon
    <3> QED BY <3>1, <3>2, Zenon
  <2>8. m + (1 + lz) <= Len(t)
    BY <1>6, <2>2, <2>6
  <2>9. Holds(t, m, bz)
    BY <2>5, <2>7, <2>8, Zenon DEF Holds
  <2> QED BY <2>2, <2>4, <2>9, Zenon DEF Cat
<1>22. /\ p + Len(u1) = (p + 1) + ln
       /\ q = ((p + 1) + ln) + 1
       /\ q + Len(v1) = (q + 1) + lx
       /\ q + Len(v2) = ((q + 1) + lx) + 1
       /\ q + Len(v3) = (((q + 1) + lx) + 1) + ly
       /\ p + Len(u3) = ((((q + 1) + lx) + 1) + ly) + 1
       /\ p + Len(u5) = ((p + Len(u3)) + 1) + lz
  BY <1>6, <1>7, <1>8, <1>16
<1>23. PartsHeld(t, p, n, x, y, z)
  BY <1>1, <1>6, <1>10, <1>14, <1>15, <1>17, <1>18, <1>19, <1>20, <1>21, <1>22, Zenon
  DEF PartsHeld
<1> QED BY <1>23, Zenon

\* The characters the reader looks for are not digits, and not in plain names.
LEMMA DigitsApart ==
  ASSUME NEW w, IsDigits(w)
  PROVE  \A k \in 1 .. Len(w) : w[k] # Blank /\ w[k] # "(" /\ w[k] # ")"
<1>1. \A d \in Items(Digit) : d # Blank /\ d # "(" /\ d # ")"
  <2>1. /\ "(" \notin {"0", "1", "2", "3", "4", "5", "6", "7", "8", "9"}
        /\ ")" \notin {"0", "1", "2", "3", "4", "5", "6", "7", "8", "9"}
    BY Zenon
  <2>2. "(" \notin Items(Digit) /\ ")" \notin Items(Digit)
    BY <2>1, DigitRange, Zenon
  <2> QED BY <2>2, BlankApart, Zenon
<1> QED BY <1>1, Zenon DEF IsDigits

\* What Attribute::deserialize finds where the text holds the parts.
\* f has the parts n, x, y and z of an attribute that ends with character e.
Cut(f, n, x, y, z, e) ==
  f = [name |-> n, type |-> x, param |-> y, property |-> <<Blank>> \o z, close |-> e]

LEMMA FieldsRight ==
  ASSUME NEW t \in Seq(Char), NEW p \in Nat, NEW n \in Seq(Char),
         NEW x, NEW y, NEW z, IsDigits(x), IsDigits(y), IsDigits(z),
         PartsHeld(t, p, n, x, y, z), Bare(n, Blank)
  PROVE  Cut(Fields(t, p + 1), n, x, y, z, p + (Len(n) + Len(x) + Len(y) + Len(z) + 7))
<1>1. /\ x \in Seq(Char) /\ y \in Seq(Char) /\ z \in Seq(Char)
      /\ Blank \in Char /\ "(" \in Char /\ ")" \in Char
  BY CharsIn, Zenon DEF IsDigits
<1>2. PICK ln, lx, ly, lz :
        /\ ln = Len(n) /\ lx = Len(x) /\ ly = Len(y) /\ lz = Len(z)
        /\ ln \in Nat /\ lx \in Nat /\ ly \in Nat /\ lz \in Nat
  BY <1>1, Concats, Zenon
<1>3. PICK bz : Cat(bz, <<Blank>>, z)
  BY Zenon DEF Cat
<1>4. /\ bz \in Seq(Char) /\ Len(bz) = 1 + lz
      /\ Bare(bz, ")")
  <2>1. PICK b : b = <<Blank>>
    BY Zenon
  <2>2. b \in Seq(Char) /\ Len(b) = 1 /\ b[1] = Blank
    BY <1>1, <2>1, Concats, Zenon
  <2>3. /\ bz \in Seq(Char) /\ Len(bz) = Len(b) + Len(z)
        /\ \A k \in 1 .. Len(b) : bz[k] = b[k]
        /\ \A k \in 1 .. Len(z) : bz[Len(b) + k] = z[k]
    BY <1>1, <1>3, <2>1, <2>2 DEF Cat
  <2>4. ASSUME NEW k \in 1 .. 1 + lz PROVE bz[k] # ")"
    <3>1. CASE k = 1
      <4>1. bz[1] = Blank
        BY <2>2, <2>3
      <4> QED BY <3>1, <4>1, BlankApart, Zenon
    <3>2. CASE k # 1
      <4>1. k - 1 \in 1 .. lz /\ 1 + (k - 1) = k
        BY <1>2, <3>2
      <4>2. bz[1 + (k - 1)] = z[k - 1] /\ z[k - 1] # ")"
        BY <1>2, <2>2, <2>3, <4>1, DigitsApart, Zenon
      <4> QED BY <4>1, <4>2, Zenon
    <3> QED BY <3>1, <3>2, Zenon
  <2> QED BY <1>2, <2>2, <2>3, <2>4, Zenon DEF Bare
<1>a1. PICK p1 \in Nat : p1 = p + 1
  BY <1>2
<1>a2. PICK p2 \in Nat : p2 = p1 + ln
  BY <1>2
<1>a3. PICK p3 \in Nat : p3 = p2 + 1
  BY <1>2
<1>a4. PICK p4 \in Nat : p4 = p3 + 1
  BY <1>2
<1>a5. PICK p5 \in Nat : p5 = p4 + lx
  BY <1>2
<1>a6. PICK p6 \in Nat : p6 = p5 + 1
  BY <1>2
<1>a7. PICK p7 \in Nat : p7 = p6 + ly
  BY <1>2
<1>a8. PICK p8 \in Nat : p8 = p7 + 1
  BY <1>2
<1>a9. PICK p9 \in Nat : p9 = (p8 + 1) + lz
  BY <1>2
<1>5. /\ p1 = p + 1 /\ p2 = p1 + ln /\ p3 = p2 + 1 /\ p4 = p3 + 1 /\ p5 = p4 + lx
      /\ p6 = p5 + 1 /\ p7 = p6 + ly /\ p8 = p7 + 1 /\ p9 = (p8 + 1) + lz
  BY <1>a1, <1>a2, <1>a3, <1>a4, <1>a5, <1>a6, <1>a7, <1>a8, <1>a9, Zenon
<1>7. /\ Holds(t, p, <<"(">>) /\ Holds(t, p1, n) /\ Holds(t, p2, <<Blank>>)
      /\ Holds(t, p3, <<"(">>) /\ Holds(t, p4, x) /\ Holds(t, p5, <<Blank>>)
      /\ Holds(t, p6, y) /\ Holds(t, p7, <<")">>)
      /\ Holds(t, p8, bz) /\ Holds(t, p9, <<")">>)
  BY <1>2, <1>3, <1>5, Zenon DEF PartsHeld, Cat
<1>8. PICK open, space, topen, tspace, tclose, close :
        /\ open = FindIn(t, {"("}, p + 1) /\ space = FindIn(t, {Blank}, open + 1)
        /\ topen = FindIn(t, {"("}, space + 1) /\ tspace = FindIn(t, {Blank}, topen + 1)
        /\ tclose = FindIn(t, {")"}, tspace + 1) /\ close = FindIn(t, {")"}, tclose + 1)
  BY Zenon
<1>9. open = p1
  BY <1>1, <1>5, <1>7, <1>8, FindHere, Zenon
<1>10. space = p3
  <2>1. FindIn(t, {Blank}, p1 + 1) = p1 + Len(n) + 1
    <3>1. Holds(t, p1 + Len(n), <<Blank>>)
      BY <1>2, <1>5, <1>7, Zenon
    <3>2. Holds(t, p1, n) /\ p1 \in Nat /\ Blank \in Char
      BY <1>1, <1>7, Zenon
    <3>4. Ahead(t, p1, n, Blank)
      BY <3>1, <3>2, Zenon DEF Ahead
    <3> QED BY <3>4, FindAhead
  <2> QED BY <1>2, <1>5, <1>8, <1>9, <2>1, Zenon
<1>11. topen = p4
  <2>1. FindIn(t, {"("}, p3 + 1) = p3 + 1
    BY <1>1, <1>7, FindHere, Zenon
  <2> QED BY <1>5, <1>8, <1>10, <2>1, Zenon
<1>12. tspace = p6
  <2>1. FindIn(t, {Blank}, p4 + 1) = p4 + Len(x) + 1
    <3>1. Holds(t, p4 + Len(x), <<Blank>>)
      BY <1>2, <1>5, <1>7, Zenon
    <3>2. Bare(x, Blank)
      BY DigitsApart, Zenon DEF Bare
    <3>3. Holds(t, p4, x) /\ p4 \in Nat /\ Blank \in Char /\ x \in Seq(Char)
      BY <1>1, <1>7, Zenon
    <3>4. Ahead(t, p4, x, Blank)
      BY <3>1, <3>2, <3>3, Zenon DEF Ahead
    <3> QED BY <3>4, FindAhead
  <2> QED BY <1>2, <1>5, <1>8, <1>11, <2>1, Zenon
<1>13. tclose = p8
  <2>1. FindIn(t, {")"}, p6 + 1) = p6 + Len(y) + 1
    <3>1. Holds(t, p6 + Len(y), <<")">>)
      BY <1>2, <1>5, <1>7, Zenon
    <3>2. Bare(y, ")")
      BY DigitsApart, Zenon DEF Bare
    <3>3. Holds(t, p6, y) /\ p6 \in Nat /\ ")" \in Char /\ y \in Seq(Char)
      BY <1>1, <1>7, Zenon
    <3>4. Ahead(t, p6, y, ")")
      BY <3>1, <3>2, <3>3, Zenon DEF Ahead
    <3> QED BY <3>4, FindAhead
  <2> QED BY <1>2, <1>5, <1>8, <1>12, <2>1, Zenon
<1>14. close = p9 + 1
  <2>1. FindIn(t, {")"}, p8 + 1) = p8 + Len(bz) + 1
    <3>1. p8 + Len(bz) = p9
      BY <1>2, <1>4, <1>5
    <3>2. Holds(t, p8 + Len(bz), <<")">>)
      BY <1>7, <3>1, Zenon
    <3>3. Holds(t, p8, bz) /\ p8 \in Nat /\ ")" \in Char
      BY <1>1, <1>7, Zenon
    <3>4. Ahead(t, p8, bz, ")")
      BY <1>4, <3>2, <3>3, Zenon DEF Ahead
    <3> QED BY <3>4, FindAhead
  <2> QED BY <1>2, <1>4, <1>5, <1>8, <1>13, <2>1
<1>15. SubSeq(t, open + 1, space - 1) = n
  <2>1. open + 1 = p1 + 1 /\ space - 1 = p1 + Len(n)
    BY <1>2, <1>5, <1>9, <1>10
  <2>2. Holds(t, p1, n) /\ p1 \in Nat /\ n \in Seq(Char)
    BY <1>1, <1>4, <1>7, Zenon
  <2>3. SubSeq(t, p1 + 1, p1 + Len(n)) = n
    BY <2>2, HoldsCut, Zenon
  <2> QED BY <2>1, <2>3, Zenon
<1>16. SubSeq(t, topen + 1, tspace - 1) = x
  <2>1. topen + 1 = p4 + 1 /\ tspace - 1 = p4 + Len(x)
    BY <1>2, <1>5, <1>11, <1>12
  <2>2. Holds(t, p4, x) /\ p4 \in Nat /\ x \in Seq(Char)
    BY <1>1, <1>4, <1>7, Zenon
  <2>3. SubSeq(t, p4 + 1, p4 + Len(x)) = x
    BY <2>2, HoldsCut, Zenon
  <2> QED BY <2>1, <2>3, Zenon
<1>17. SubSeq(t, tspace + 1, tclose - 1) = y
  <2>1. tspace + 1 = p6 + 1 /\ tclose - 1 = p6 + Len(y)
    BY <1>2, <1>5, <1>12, <1>13
  <2>2. Holds(t, p6, y) /\ p6 \in Nat /\ y \in Seq(Char)
    BY <1>1, <1>4, <1>7, Zenon
  <2>3. SubSeq(t, p6 + 1, p6 + Len(y)) = y
    BY <2>2, HoldsCut, Zenon
  <2> QED BY <2>1, <2>3, Zenon
<1>18. SubSeq(t, tclose + 1, close - 1) = bz
  <2>1. tclose + 1 = p8 + 1 /\ close - 1 = p8 + Len(bz)
    BY <1>2, <1>4, <1>5, <1>13, <1>14
  <2>2. Holds(t, p8, bz) /\ p8 \in Nat /\ bz \in Seq(Char)
    BY <1>1, <1>4, <1>7, Zenon
  <2>3. SubSeq(t, p8 + 1, p8 + Len(bz)) = bz
    BY <2>2, HoldsCut, Zenon
  <2> QED BY <2>1, <2>3, Zenon
<1>19. close = p + (Len(n) + Len(x) + Len(y) + Len(z) + 7)
  BY <1>2, <1>5, <1>14
<1> QED BY <1>3, <1>8, <1>15, <1>16, <1>17, <1>18, <1>19, ZenonT(30) DEF Fields, Cat, Cut

LEMMA AssembledLen ==
  ASSUME NEW n \in Seq(Char), NEW x \in Seq(Char), NEW y \in Seq(Char),
         NEW z \in Seq(Char), NEW w, Assembled(w, n, x, y, z)
  PROVE  w \in Seq(Char) /\ Len(w) = Len(n) + Len(x) + Len(y) + Len(z) + 7
<1>1. << >> \in Seq(Char) /\ 0 \in Nat
  OBVIOUS
<1> QED BY <1>1, AttributeHeld

LEMMA HeldParts ==
  ASSUME NEW t \in Seq(Char), NEW p \in Nat, NEW n \in Seq(Char), NEW x \in Seq(Char),
         NEW y \in Seq(Char), NEW z \in Seq(Char), NEW w,
         Assembled(w, n, x, y, z), Holds(t, p, w)
  PROVE  PartsHeld(t, p, n, x, y, z)
  BY AttributeHeld, Zenon

LEMMA AttributeTyped ==
  ASSUME Words, NEW a \in Attribute
  PROVE  AttributeText(a) \in Seq(Char) /\ Len(AttributeText(a)) \in Nat \ {0}
<1>1. PICK n, x, y, z, w : Parts4(a, n, x, y, z) /\ w = AttributeText(a)
  BY Zenon DEF Parts4
<1>2. n \in Seq(Char) /\ IsDigits(x) /\ IsDigits(y) /\ IsDigits(z) /\ Assembled(w, n, x, y, z)
  BY <1>1, Parted, Zenon
<1>3. x \in Seq(Char) /\ y \in Seq(Char) /\ z \in Seq(Char)
  BY <1>2, Zenon DEF IsDigits
<1>5. w \in Seq(Char) /\ Len(w) = Len(n) + Len(x) + Len(y) + Len(z) + 7
  BY <1>2, <1>3, AssembledLen
<1>6. Len(w) \in Nat \ {0}
  BY <1>2, <1>3, <1>5
<1> QED BY <1>1, <1>5, <1>6, Zenon

\* Where the text holds that of an attribute with a plain name, the attribute
\* is read, up to the end of its text.
LEMMA AttributeRight ==
  ASSUME NEW t \in Seq(Char), NEW p \in Nat, Words, NEW a \in Attribute,
         Holds(t, p, AttributeText(a)), Bare(a.name, Blank)
  PROVE  /\ Readable(t, Fields(t, p + 1)) /\ AttributeOf(Fields(t, p + 1)) = a
         /\ Fields(t, p + 1).close = p + Len(AttributeText(a))
<1>1. PICK n, x, y, z, w : Parts4(a, n, x, y, z) /\ w = AttributeText(a)
  BY Zenon DEF Parts4
<1>2. n \in Seq(Char) /\ IsDigits(x) /\ IsDigits(y) /\ IsDigits(z) /\ Assembled(w, n, x, y, z)
  BY <1>1, Parted, Zenon
<1>3. x \in Seq(Char) /\ y \in Seq(Char) /\ z \in Seq(Char)
  BY <1>2, Zenon DEF IsDigits
<1>4. /\ PartsHeld(t, p, n, x, y, z)
      /\ Len(w) = Len(n) + Len(x) + Len(y) + Len(z) + 7
  <2>1. Holds(t, p, w)
    BY <1>1, Zenon
  <2>2. Assembled(w, n, x, y, z) /\ n \in Seq(Char)
    BY <1>2, Zenon
  <2>3. Len(w) = Len(n) + Len(x) + Len(y) + Len(z) + 7
    BY <1>3, <2>2, AssembledLen
  <2>4. PartsHeld(t, p, n, x, y, z)
    BY <1>3, <2>1, <2>2, HeldParts, Zenon
  <2> QED BY <2>3, <2>4, Zenon
<1>5. Bare(n, Blank)
  BY <1>1, Zenon DEF Parts4
<1>6. PICK f : f = Fields(t, p + 1)
  BY Zenon
<1>7. f = [name |-> n, type |-> x, param |-> y, property |-> <<Blank>> \o z,
           close |-> p + Len(w)]
  <2>1. Cut(Fields(t, p + 1), n, x, y, z, p + (Len(n) + Len(x) + Len(y) + Len(z) + 7))
    BY <1>2, <1>4, <1>5, FieldsRight, Zenon
  <2> QED BY <1>4, <1>6, <2>1, Zenon DEF Cut
<1>8. /\ f.name = n /\ f.type = x /\ f.param = y /\ f.property = <<Blank>> \o z
      /\ f.close = p + Len(w)
  BY <1>7, Zenon
<1>9. PICK i, j, P : i = TypeNumber(a.type) /\ j = a.param /\ P = a.property
  BY Zenon
<1>10. PICK k : k = PropertyNumber(P)
  BY Zenon
<1>11. /\ a.type \in Items(AttrTypes) /\ j \in 0 .. 99
       /\ P \in SUBSET {"NULLABLE", "KEY", "UNIQUE"}
       /\ a = [name |-> a.name, type |-> a.type, param |-> j, property |-> P]
  BY <1>9, Zenon DEF Attribute
<1>12. i \in 0 .. 99 /\ AttrTypes[i + 1] = a.type
  <2>1. i \in 0 .. 2 /\ AttrTypes[i + 1] = a.type
    BY <1>9, <1>11, TypeNumbers, Zenon
  <2> QED BY <2>1
<1>13. k \in 0 .. 99 /\ {q \in {"NULLABLE", "KEY", "UNIQUE"} : (k \div Bit(q)) % 2 = 1} = P
  BY <1>10, <1>11, PropertyNumbers, Zenon
<1>14. n = a.name /\ x = Digits(i) /\ y = Digits(j) /\ z = Digits(k)
  BY <1>1, <1>9, <1>10, Zenon DEF Parts4
<1>15. /\ Number(f.type) = i /\ Number(f.param) = j /\ Number(f.property) = k
       /\ Numeral(f.type) # << >> /\ Numeral(f.param) # << >> /\ Numeral(f.property) # << >>
  BY <1>8, <1>11, <1>12, <1>13, <1>14, NumberOf, Zenon
<1>16. AttributeOf(f) = a
  BY <1>8, <1>11, <1>12, <1>13, <1>14, <1>15, Zenon DEF AttributeOf, PropertyOf
<1>17. f.close <= Len(t)
  <2>1. p + Len(w) <= Len(t)
    BY <1>1, Zenon DEF Holds
  <2> QED BY <1>8, <2>1, Zenon
<1>18. Readable(t, f)
  BY <1>15, <1>17, Zenon DEF Readable
<1> QED BY <1>1, <1>6, <1>8, <1>16, <1>18, Zenon

-----------------------------------------------------------------------------
(* The text of a schema *)

\* A text holds w still when more is written behind it, or in front of it.
LEMMA HoldsMore ==
  ASSUME NEW u \in Seq(Char), NEW v \in Seq(Char), NEW r, Cat(r, u, v),
         NEW p \in Nat, NEW w \in Seq(Char)
  PROVE  /\ Holds(u, p, w) => Holds(r, p, w)
         /\ Holds(v, p, w) => Holds(r, Len(u) + p, w)
         /\ Holds(r, Len(u), v) /\ Holds(r, 0, u)
<1>1. /\ r \in Seq(Char) /\ Len(r) = Len(u) + Len(v)
      /\ \A k \in 1 .. Len(u) : r[k] = u[k]
      /\ \A k \in 1 .. Len(v) : r[Len(u) + k] = v[k]
  BY Joined
<1>2. Len(u) \in Nat /\ Len(v) \in Nat /\ Len(w) \in Nat
  OBVIOUS
<1>3. ASSUME Holds(u, p, w) PROVE Holds(r, p, w)
  <2>1. ASSUME NEW k \in 1 .. Len(w) PROVE r[p + k] = w[k]
    <3>1. p + k \in 1 .. Len(u) /\ u[p + k] = w[k]
      BY <1>2, <1>3 DEF Holds
    <3> QED BY <1>1, <3>1, Zenon
  <2> QED BY <1>1, <1>2, <1>3, <2>1 DEF Holds
<1>4. ASSUME Holds(v, p, w) PROVE Holds(r, Len(u) + p, w)
  <2>1. ASSUME NEW k \in 1 .. Len(w) PROVE r[(Len(u) + p) + k] = w[k]
    <3>1. /\ p + k \in 1 .. Len(v) /\ v[p + k] = w[k]
          /\ (Len(u) + p) + k = Len(u) + (p + k)
      <4>1. p + Len(w) <= Len(v) /\ v[p + k] = w[k]
        BY <1>4, Zenon DEF Holds
      <4>2. PICK lu, lv, lw : lu = Len(u) /\ lv = Len(v) /\ lw = Len(w)
        BY Zenon
      <4>3. lu \in Nat /\ lv \in Nat /\ lw \in Nat /\ p + lw <= lv /\ k \in 1 .. lw
        BY <1>2, <4>1, <4>2, Zenon
      <4>4. p + k \in 1 .. lv /\ (lu + p) + k = lu + (p + k)
        BY ONLY <4>3, p \in Nat
      <4> QED BY <4>1, <4>2, <4>4, Zenon
    <3> QED BY <1>1, <3>1, Zenon
  <2> QED BY <1>1, <1>2, <1>4, <2>1 DEF Holds
<1>5. Holds(r, Len(u), v)
  BY <1>1, <1>2 DEF Holds
<1>6. Holds(r, 0, u)
  BY <1>1, <1>2 DEF Holds
<1> QED BY <1>3, <1>4, <1>5, <1>6, Zenon

LEMMA JoinsHold ==
  ASSUME NEW n \in Nat, NEW x \in [1 .. n -> Seq(Char)], NEW f, Joins(Char, n, x, f)
  PROVE  \A i \in 1 .. n : Holds(f[n], Len(f[i - 1]), x[i])
<1>1. /\ \A i \in 0 .. n : f[i] \in Seq(Char) /\ Len(f[i]) \in Nat
      /\ \A i \in 1 .. n : Cat(f[i], f[i - 1], x[i])
  <2>1. \A i \in 0 .. n : f[i] \in Seq(Char)
    BY Zenon DEF Joins
  <2>2. \A i \in 0 .. n : Len(f[i]) \in Nat
    BY <2>1
  <2>3. \A i \in 1 .. n : Cat(f[i], f[i - 1], x[i])
    BY Zenon DEF Joins, JoinSteps, Cat
  <2> QED BY <2>1, <2>2, <2>3, Zenon
<1> DEFINE T == {m \in Nat : m <= n => \A i \in 1 .. m : Holds(f[m], Len(f[i - 1]), x[i])}
<1>2. 0 \in T
  OBVIOUS
<1>3. ASSUME NEW m \in Nat, m \in T PROVE m + 1 \in T
  <2> SUFFICES ASSUME m + 1 <= n, NEW i \in 1 .. m + 1
               PROVE  Holds(f[m + 1], Len(f[i - 1]), x[i])
    OBVIOUS
  <2>1. m \in 0 .. n /\ m + 1 \in 1 .. n /\ m + 1 \in 0 .. n /\ (m + 1) - 1 = m
    OBVIOUS
  <2>2. PICK u, v, r : u = f[m] /\ v = x[m + 1] /\ r = f[m + 1]
    BY Zenon
  <2>3. u \in Seq(Char) /\ v \in Seq(Char) /\ Cat(r, u, v)
    <3>1. Cat(f[m + 1], f[m], x[m + 1])
      BY <1>1, <2>1, Zenon
    <3>2. f[m] \in Seq(Char) /\ x[m + 1] \in Seq(Char)
      BY <1>1, <2>1, Zenon
    <3> QED BY <2>2, <3>1, <3>2, Zenon
  <2>4. CASE i = m + 1
    <3>1. Holds(r, Len(u), v)
      BY <2>3, HoldsMore, Zenon
    <3> QED BY <2>1, <2>2, <2>4, <3>1, Zenon
  <2>5. CASE i # m + 1
    <3>1. i \in 1 .. m /\ i \in 1 .. n /\ i - 1 \in 0 .. n
      BY <2>5
    <3>2. Holds(u, Len(f[i - 1]), x[i])
      BY <1>3, <2>1, <2>2, <3>1
    <3>3. Len(f[i - 1]) \in Nat /\ x[i] \in Seq(Char)
      BY <1>1, <3>1, Zenon
    <3>4. Holds(r, Len(f[i - 1]), x[i])
      BY <2>3, <3>2, <3>3, HoldsMore, Zenon
    <3> QED BY <2>2, <3>4, Zenon
  <2> QED BY <2>4, <2>5, Zenon
<1> HIDE DEF T
<1>4. n \in T
  BY <1>2, <1>3, Induction, Zenon
<1> QED BY <1>4 DEF T

\* Where in the text t of the schema s its parts are: the attribute k ends
\* after g[k] characters.
Layout(s, t, g) ==
  /\ t \in Seq(Char) /\ s.name \in Seq(Char) /\ s.attrs \in Seq(Attribute)
  /\ g \in [0 .. Len(s.attrs) -> Nat]
  /\ g[0] = Len(s.name) + 1 /\ g[Len(s.attrs)] = Len(t)
  /\ Holds(t, 0, s.name) /\ Holds(t, Len(s.name), <<":">>)
  /\ \A i \in 1 .. Len(s.attrs) :
       /\ g[i] = g[i - 1] + Len(AttributeText(s.attrs[i]))
       /\ Holds(t, g[i - 1], AttributeText(s.attrs[i]))

LEMMA LayoutExists ==
  ASSUME Words, NEW s, s.name \in Names, s.attrs \in Seq(Attribute)
  PROVE  \E g : Layout(s, SchemaText(s), g)
<1>1. PICK n, b, e : n = Len(s.attrs) /\ b = s.name /\ e = <<":">>
  BY Zenon
<1>2. n \in Nat /\ s.attrs \in Seq(Attribute) /\ DOMAIN s.attrs = 1 .. n
  BY <1>1
<1>3. b \in Seq(Char) /\ e \in Seq(Char) /\ Len(e) = 1 /\ Len(b) \in Nat
  <2>1. b \in Names
    BY <1>1, Zenon
  <2>2. b \in Seq(Items(b)) /\ Items(b) \subseteq Char
    BY <2>1, CharsIn, Zenon DEF Words
  <2>3. b \in Seq(Char)
    BY <2>2
  <2> QED BY <1>1, <2>3, CharsIn, Concats, Zenon
<1>4. PICK x : x = [i \in 1 .. n |-> AttributeText(s.attrs[i])]
  BY Zenon
<1>5. \A i \in 1 .. n : x[i] = AttributeText(s.attrs[i])
  BY <1>4, Zenon
<1>6. \A i \in 1 .. n : x[i] \in Seq(Char)
  BY <1>2, <1>5, AttributeTyped
<1>7. x \in [1 .. n -> Seq(Char)]
  BY <1>4, <1>5, <1>6, Zenon
<1>8. PICK f : Joins(Char, n, x, f) /\ SchemaText(s) = s.name \o <<":">> \o f[n]
  <2>1. SchemaText(s) = s.name \o <<":">> \o Concat(n, x)
    BY <1>1, <1>4, Zenon DEF SchemaText
  <2>2. PICK f : Joins(Char, n, x, f) /\ Concat(n, x) = f[n]
    BY <1>2, <1>7, ConcatFunction, Zenon
  <2> QED BY <2>1, <2>2, Zenon
<1>9. \A i \in 0 .. n : f[i] \in Seq(Char) /\ Len(f[i]) \in Nat
  <2>1. \A i \in 0 .. n : f[i] \in Seq(Char)
    BY <1>8, Zenon DEF Joins
  <2> QED BY <2>1
<1>10. /\ f[0] = << >>
       /\ \A i \in 1 .. n : Len(f[i]) = Len(f[i - 1]) + Len(x[i])
  <2>1. ASSUME NEW i \in 1 .. n PROVE Len(f[i]) = Len(f[i - 1]) + Len(x[i])
    <3>1. i - 1 \in 0 .. n
      BY <1>2
    <3>2. Cat(f[i], f[i - 1], x[i])
      BY <1>8, Zenon DEF Joins, JoinSteps, Cat
    <3>3. f[i - 1] \in Seq(Char) /\ x[i] \in Seq(Char)
      BY <1>6, <1>9, <3>1, Zenon
    <3> QED BY <3>2, <3>3, CatLen, Zenon
  <2>2. f[0] = << >>
    BY <1>8, Zenon DEF Joins, JoinSteps
  <2> QED BY <2>1, <2>2, Zenon
<1>11. PICK h, v, t : Cat(h, b, e) /\ v = f[n] /\ Cat(t, h, v)
  BY Zenon DEF Cat
<1>12. t = SchemaText(s)
  BY <1>1, <1>8, <1>11, Zenon DEF Cat
<1>13. h \in Seq(Char) /\ Len(h) = Len(b) + 1
  <2>1. h \in Seq(Char) /\ Len(h) = Len(b) + Len(e)
    BY <1>3, <1>11, CatLen, Zenon
  <2> QED BY <1>3, <2>1, Zenon
<1>14. v \in Seq(Char) /\ n \in 0 .. n
  BY <1>2, <1>9, <1>11
<1>15. t \in Seq(Char) /\ Len(t) = Len(h) + Len(v)
  BY <1>11, <1>13, <1>14, CatLen, Zenon
<1>16. Holds(t, 0, b) /\ Holds(t, Len(b), e)
  <2>1. Holds(h, 0, b) /\ Holds(h, Len(b), e)
    BY <1>3, <1>11, HoldsMore, Zenon
  <2> QED BY <1>3, <1>11, <1>13, <1>14, <2>1, HoldsMore, Zenon
<1>17. PICK g : g = [i \in 0 .. n |-> Len(h) + Len(f[i])]
  BY Zenon
<1>18. Len(h) \in Nat
  BY <1>13
<1>19. g \in [0 .. n -> Nat] /\ \A i \in 0 .. n : g[i] = Len(h) + Len(f[i])
  BY <1>9, <1>17, <1>18
<1>20. g[0] = Len(b) + 1 /\ g[n] = Len(t)
  <2>1. 0 \in 0 .. n /\ Len(f[0]) = 0
    BY <1>2, <1>10
  <2>2. g[0] = Len(h) + Len(f[0]) /\ g[n] = Len(h) + Len(f[n])
    BY <1>14, <1>19, <2>1, Zenon
  <2>3. g[0] = Len(h)
    BY <1>18, <2>1, <2>2
  <2> QED BY <1>11, <1>13, <1>15, <2>2, <2>3, Zenon
<1>21. ASSUME NEW i \in 1 .. n
       PROVE  g[i] = g[i - 1] + Len(x[i]) /\ Holds(t, g[i - 1], x[i])
  <2>1. i \in 0 .. n /\ i - 1 \in 0 .. n
    BY <1>2
  <2>2. g[i] = Len(h) + Len(f[i]) /\ g[i - 1] = Len(h) + Len(f[i - 1])
    BY <1>19, <2>1, Zenon
  <2>3. Len(f[i - 1]) \in Nat /\ Len(x[i]) \in Nat /\ x[i] \in Seq(Char)
    BY <1>6, <1>9, <2>1
  <2>4. g[i] = g[i - 1] + Len(x[i])
    <3>1. Len(f[i]) = Len(f[i - 1]) + Len(x[i])
      BY <1>10, Zenon
    <3>2. PICK lh, lf, lx, l : lh = Len(h) /\ lf = Len(f[i - 1]) /\ lx = Len(x[i]) /\ l = Len(f[i])
      BY Zenon
    <3>3. lh \in Nat /\ lf \in Nat /\ lx \in Nat /\ l = lf + lx
      BY <1>18, <2>3, <3>1, <3>2, Zenon
    <3>4. lh + l = (lh + lf) + lx
      BY <3>3
    <3> QED BY <2>2, <3>2, <3>4, Zenon
  <2>5. Holds(v, Len(f[i - 1]), x[i])
    BY <1>2, <1>7, <1>8, <1>11, JoinsHold, Zenon
  <2>6. Holds(t, Len(h) + Len(f[i - 1]), x[i])
    BY <1>11, <1>13, <1>14, <2>3, <2>5, HoldsMore, Zenon
  <2> QED BY <2>2, <2>4, <2>6, Zenon
<1>22. Layout(s, t, g)
  BY <1>1, <1>2, <1>3, <1>5, <1>15, <1>16, <1>19, <1>20, <1>21, Zenon DEF Layout
<1> QED BY <1>12, <1>22, Zenon

-----------------------------------------------------------------------------
(* What is found in a text *)

LEMMA BareItems ==
  ASSUME NEW w, NEW c, DOMAIN w = 1 .. Len(w)
  PROVE  Bare(w, c) <=> c \notin Items(w)
  BY Zenon DEF Bare, Items

\* What is cut out up to the first c has none.
LEMMA CutBare ==
  ASSUME NEW t \in Seq(Char), NEW c, NEW m \in Nat \ {0}, NEW e, e = FindIn(t, {c}, m)
  PROVE  e \in Nat /\ c \notin Items(SubSeq(t, m, e - 1))
<1>1. Len(t) \in Nat
  OBVIOUS
<1>2. e \in Nat /\ \A j \in m .. e - 1 : t[j] # c
  BY <1>1, Finds
<1>3. PICK w : w = SubSeq(t, m, e - 1)
  BY Zenon
<1>4. /\ \A k \in DOMAIN w : k \in 1 .. (e - 1) - m + 1
      /\ \A k \in DOMAIN w : w[k] = t[m + k - 1]
  <2>1. PICK d : d = e - 1
    BY Zenon
  <2>2. d \in Int /\ w = SubSeq(t, m, d)
    BY <1>2, <1>3, <2>1
  <2>3. w = [k \in 1 .. (1 + d) - m |-> t[(k + m) - 1]]
    BY <2>2 DEF SubSeq
  <2>4. /\ DOMAIN w = 1 .. (1 + d) - m
        /\ \A k \in 1 .. (1 + d) - m : w[k] = t[(k + m) - 1]
    BY <2>3, Zenon
  <2>5. (1 + d) - m = (e - 1) - m + 1
    BY <1>2, <2>1
  <2>6. \A k \in 1 .. (1 + d) - m : (k + m) - 1 = m + k - 1
    <3>1. d \in Int
      BY <2>2, Zenon
    <3> QED BY ONLY <3>1, m \in Nat \ {0}
  <2> QED BY <2>4, <2>5, <2>6, Zenon
<1>5. ASSUME NEW k \in DOMAIN w PROVE w[k] # c
  <2>1. k \in 1 .. (e - 1) - m + 1 /\ w[k] = t[m + k - 1]
    BY <1>4, Zenon
  <2>2. m + k - 1 \in m .. e - 1
    <3>1. k \in 1 .. (e - 1) - m + 1 /\ e \in Nat
      BY <1>2, <2>1, Zenon
    <3> QED BY ONLY <3>1, m \in Nat \ {0}
  <2> QED BY <1>2, <2>1, <2>2, Zenon
<1> QED BY <1>2, <1>3, <1>5, Zenon DEF Items

\* Whatever the text, an attribute's name is cut before the first space.
LEMMA FieldsCut ==
  ASSUME NEW t \in Seq(Char), NEW p \in Nat
  PROVE  Fields(t, p).close \in Nat /\ Blank \notin Items(Fields(t, p).name)
<1>1. Len(t) \in Nat
  OBVIOUS
<1>2. \A c, i : i \in Nat => FindIn(t, {c}, i) \in Nat
  BY <1>1, Finds, Zenon
<1>3. PICK open, space, topen, tspace, tclose, close :
        /\ open = FindIn(t, {"("}, p) /\ space = FindIn(t, {Blank}, open + 1)
        /\ topen = FindIn(t, {"("}, space + 1) /\ tspace = FindIn(t, {Blank}, topen + 1)
        /\ tclose = FindIn(t, {")"}, tspace + 1) /\ close = FindIn(t, {")"}, tclose + 1)
  BY Zenon
<1>4. Fields(t, p).name = SubSeq(t, open + 1, space - 1) /\ Fields(t, p).close = close
  BY <1>3, Zenon DEF Fields
<1>5. \A i \in Nat : i + 1 \in Nat /\ i + 1 \in Nat \ {0}
  OBVIOUS
<1>6. open \in Nat /\ close \in Nat
  BY <1>2, <1>3, <1>5, Zenon
<1>7. Blank \notin Items(SubSeq(t, open + 1, space - 1))
  BY <1>3, <1>5, <1>6, CutBare, Zenon
<1> QED BY <1>4, <1>6, <1>7, Zenon

LEMMA NameFound ==
  ASSUME NEW s, NEW t, NEW g, Layout(s, t, g), ":" \notin Items(s.name)
  PROVE  FindIn(t, {":"}, 1) = g[0] /\ SubSeq(t, 1, g[0] - 1) = s.name
<1>1. PICK w, l : w = s.name /\ l = Len(w)
  BY Zenon
<1>2. /\ t \in Seq(Char) /\ w \in Seq(Char) /\ g[0] = l + 1
      /\ Holds(t, 0, w) /\ Holds(t, l, <<":">>)
  BY <1>1, Zenon DEF Layout
<1>3. l \in Nat /\ DOMAIN w = 1 .. Len(w) /\ 0 \in Nat
  BY <1>1, <1>2
<1>4. PICK p \in Nat : p = 0 /\ p + Len(w) = l /\ p + 1 = 1
  BY <1>1, <1>3
<1>5. Ahead(t, p, w, ":")
  <2>1. Bare(w, ":")
    BY <1>1, <1>3, BareItems, Zenon
  <2>2. Holds(t, p, w) /\ Holds(t, p + Len(w), <<":">>)
    BY <1>2, <1>4, Zenon
  <2> QED BY <1>2, <1>4, <2>1, <2>2, CharsIn, Zenon DEF Ahead
<1>6. FindIn(t, {":"}, p + 1) = p + Len(w) + 1
  <2>1. t \in Seq(Char)
    BY <1>2, Zenon
  <2> QED BY ONLY <1>5, <2>1, p \in Nat, FindAhead, Zenon
<1>7. SubSeq(t, p + 1, p + Len(w)) = w
  BY <1>2, <1>4, HoldsCut, Zenon
<1>8. g[0] - 1 = l
  BY <1>2, <1>3
<1> QED BY <1>1, <1>2, <1>4, <1>6, <1>7, <1>8, Zenon

LEMMA AttributeFound ==
  ASSUME Words, NEW s, NEW t, NEW g, Layout(s, t, g), NEW i \in 1 .. Len(s.attrs)
  PROVE  /\ g[i - 1] < g[i]
         /\ Blank \notin Items(s.attrs[i].name) =>
              AttributeAt(t, g[i - 1] + 1, s.attrs[i], g[i])
<1>1. PICK n, a, p : n = Len(s.attrs) /\ a = s.attrs[i] /\ p = g[i - 1]
  BY Zenon
<1>2. /\ t \in Seq(Char) /\ s.attrs \in Seq(Attribute) /\ g \in [0 .. n -> Nat]
      /\ g[i] = p + Len(AttributeText(a)) /\ Holds(t, p, AttributeText(a))
  BY <1>1, Zenon DEF Layout
<1>3. i - 1 \in 0 .. n
  BY <1>1, <1>2
<1>4. p \in Nat
  BY <1>1, <1>2, <1>3, Zenon
<1>5. a \in Attribute
  BY <1>1, <1>2
<1>6. g[i - 1] < g[i]
  <2>1. PICK l : l = Len(AttributeText(a))
    BY Zenon
  <2>2. l \in Nat \ {0} /\ g[i] = p + l
    BY <1>2, <1>5, <2>1, AttributeTyped, Zenon
  <2> QED BY ONLY <1>1, <1>4, <2>2
<1>7. ASSUME Blank \notin Items(a.name) PROVE AttributeAt(t, p + 1, a, g[i])
  <2>1. a.name \in Names
    BY <1>5 DEF Attribute
  <2>2. a.name \in Seq(Items(a.name))
    BY <2>1, Zenon DEF Words
  <2>3. DOMAIN a.name = 1 .. Len(a.name)
    BY <2>2
  <2>4. Bare(a.name, Blank)
    BY <1>7, <2>3, BareItems, Zenon
  <2> QED BY <1>2, <1>4, <1>5, <2>4, AttributeRight, Zenon DEF AttributeAt
<1> QED BY <1>1, <1>6, <1>7, Zenon

\* Every schema is found in its text.
LEMMA TextRead ==
  ASSUME Words, NEW s, s.name \in Names, s.attrs \in Seq(Attribute)
  PROVE  \E g : ReadAs(s, SchemaText(s), g)
<1>1. PICK t, g : t = SchemaText(s) /\ Layout(s, t, g)
  BY LayoutExists, Zenon
<1>2. /\ t \in Seq(Char) /\ s.attrs \in Seq(Attribute)
      /\ g \in [0 .. Len(s.attrs) -> Nat] /\ g[Len(s.attrs)] = Len(t)
  BY <1>1, Zenon DEF Layout
<1>3. Len(t) \in Nat /\ Len(s.attrs) \in Nat /\ 1 \in Nat \ {0}
  BY <1>2
<1>4. /\ FindIn(t, {":"}, 1) \in Nat
      /\ ":" \notin Items(SubSeq(t, 1, FindIn(t, {":"}, 1) - 1))
  BY <1>2, <1>3, CutBare, Zenon
<1>5. \A p \in Nat : Fields(t, p).close \in Nat /\ Blank \notin Items(Fields(t, p).name)
  BY <1>2, FieldsCut, Zenon
<1>6. \A i \in 1 .. Len(s.attrs) :
        /\ g[i - 1] < g[i]
        /\ Blank \notin Items(s.attrs[i].name) =>
             AttributeAt(t, g[i - 1] + 1, s.attrs[i], g[i])
  BY <1>1, AttributeFound, Zenon
<1>7. ":" \notin Items(s.name) =>
        FindIn(t, {":"}, 1) = g[0] /\ SubSeq(t, 1, g[0] - 1) = s.name
  BY <1>1, NameFound, Zenon
<1> QED BY <1>1, <1>2, <1>3, <1>4, <1>5, <1>6, <1>7, Zenon DEF ReadAs
=============================================================================
