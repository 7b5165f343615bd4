--------------------------- MODULE SessionProofs ---------------------------
(***************************************************************************)
(* Theorems about every program of Session, for every value of its         *)
(* constants.                                                              *)
(***************************************************************************)
EXTENDS Session, FiniteSetTheorems, WellFoundedInduction, TLAPS

\* The frames left by a return or a jump are a prefix of the stack.
LEMMA Prefix ==
  ASSUME NEW S, NEW q \in Seq(S), NEW n \in 0 .. Len(q)
  PROVE  /\ SubSeq(q, 1, n) \in Seq(S)
         /\ Len(SubSeq(q, 1, n)) = n
         /\ DOMAIN SubSeq(q, 1, n) = 1 .. n
         /\ \A i \in 1 .. n : SubSeq(q, 1, n)[i] = q[i]
  OBVIOUS

\* A set of indices has a greatest element.
LEMMA Greatest ==
  ASSUME NEW n \in Nat, NEW A \in SUBSET (1 .. n), A # {}
  PROVE  \E i \in A : \A j \in A : j <= i
<1> DEFINE B == {n - i : i \in A}
<1>1. B \subseteq Nat /\ B # {}
  <2>1. \A i \in A : n - i \in Nat
    OBVIOUS
  <2> QED
    BY Zenon, <2>1
<1>2. \E x \in B : \A y \in B : ~ (<<y, x>> \in OpToRel(<, Nat))
  BY Zenon, <1>1, NatLessThanWellFounded, WFMin
<1>3. PICK x \in B : \A y \in B : ~ (<<y, x>> \in OpToRel(<, Nat))
  BY Zenon, <1>2
<1>4. \A y \in B : x <= y
  <2>1. OpToRel(<, Nat) = {ss \in Nat \X Nat : ss[1] < ss[2]}
    BY DEF OpToRel
  <2>2. ASSUME NEW y \in B PROVE ~ (y < x)
    <3>1. <<y, x>> \in Nat \X Nat
      BY <1>1
    <3> QED
      BY Zenon, <1>3, <2>1, <3>1
  <2>3. ASSUME NEW y \in B PROVE x <= y
    <3>1. x \in Nat /\ y \in Nat
      BY <1>1
    <3> HIDE DEF B
    <3> QED
      BY <2>2, <3>1
  <2> QED
    BY <2>3
<1>5. PICK i \in A : x = n - i
  OBVIOUS
<1>6. ASSUME NEW j \in A PROVE j <= i
  <2>1. n - j \in B
    OBVIOUS
  <2>2. n - i <= n - j
    BY <1>4, <1>5, <2>1
  <2>3. n \in Int /\ i \in Int /\ j \in Int
    OBVIOUS
  <2> HIDE DEF B
  <2> QED
    BY <2>2, <2>3
<1> QED
  BY <1>6

\* The innermost frame of a kind that is on the stack.
LEMMA InnermostIn ==
  ASSUME TypeOK, NEW kind, FramesOf(kind) # {}
  PROVE  /\ Innermost(kind) \in FramesOf(kind)
         /\ Innermost(kind) \in 1 .. Len(frames)
         /\ \A j \in FramesOf(kind) : j <= Innermost(kind)
<1>1. FramesOf(kind) \subseteq 1 .. Len(frames) /\ Len(frames) \in Nat
  BY DEF FramesOf, TypeOK
<1>2. \E i \in FramesOf(kind) : \A j \in FramesOf(kind) : j <= i
  BY Zenon, <1>1, Greatest
<1> QED
  BY <1>1, <1>2 DEF Innermost

\* Entering a statement adds a frame of its kind on top of the stack.
LEMMA PushFrames ==
  ASSUME TypeOK, NEW f \in Frames, Push(f), NEW kind
  PROVE  /\ frames' \in Seq(Frames)
         /\ Len(frames) + 1 \notin FramesOf(kind)
         /\ FramesOf(kind)' = IF f.kind = kind
                                THEN FramesOf(kind) \cup {Len(frames) + 1}
                                ELSE FramesOf(kind)
         /\ \A i \in FramesOf(kind) : frames'[i] = frames[i]
         /\ frames'[Len(frames) + 1] = f
<1>1. /\ frames \in Seq(Frames) /\ frames' \in Seq(Frames)
      /\ DOMAIN frames = 1 .. Len(frames) /\ Len(frames) \in Nat
      /\ DOMAIN frames' = 1 .. (Len(frames) + 1)
      /\ \A i \in 1 .. Len(frames) : frames'[i] = frames[i]
      /\ frames'[Len(frames) + 1] = f
  BY DEF Push, TypeOK
<1> QED
  BY <1>1 DEF FramesOf

\* Leaving statements keeps the frames below.
LEMMA PrefixFrames ==
  ASSUME TypeOK, NEW n \in 0 .. Len(frames),
         frames' = SubSeq(frames, 1, n), NEW kind
  PROVE  /\ frames' \in Seq(Frames)
         /\ FramesOf(kind)' = {i \in FramesOf(kind) : i <= n}
         /\ \A i \in FramesOf(kind)' : frames'[i] = frames[i]
<1>1. /\ frames \in Seq(Frames) /\ frames' \in Seq(Frames)
      /\ DOMAIN frames = 1 .. Len(frames) /\ Len(frames) \in Nat
      /\ DOMAIN frames' = 1 .. n
      /\ \A i \in 1 .. n : frames'[i] = frames[i]
  BY Prefix DEF TypeOK
<1> QED
  BY <1>1 DEF FramesOf

\* Returning from the innermost statement takes its frame off the stack.
LEMMA PopFrames ==
  ASSUME TypeOK, frames # <<>>, Pop, NEW kind
  PROVE  /\ frames' \in Seq(Frames)
         /\ FramesOf(kind)' = FramesOf(kind) \ {Len(frames)}
         /\ Top.kind = kind <=> Len(frames) \in FramesOf(kind)
         /\ \A i \in FramesOf(kind)' : frames'[i] = frames[i]
<1>1. Len(frames) - 1 \in 0 .. Len(frames) /\ Len(frames) \in 1 .. Len(frames)
  BY DEF TypeOK
<1>2. FramesOf(kind) \subseteq 1 .. Len(frames)
  BY DEF FramesOf, TypeOK
<1>3. /\ frames' \in Seq(Frames)
      /\ FramesOf(kind)' = {i \in FramesOf(kind) : i <= Len(frames) - 1}
      /\ \A i \in FramesOf(kind)' : frames'[i] = frames[i]
  BY Zenon, <1>1, PrefixFrames DEF Pop
<1> QED
  BY <1>1, <1>2, <1>3 DEF FramesOf, Top, TypeOK

\* The cursor steps of a scan change its frame's rows only.
LEMMA ScanFrames ==
  ASSUME TypeOK, frames # <<>>, Top.kind = "scan",
         NEW T \in SUBSET Rows, NEW R \in SUBSET Rows,
         Replace(ScanFrame(T, R)), NEW kind
  PROVE  /\ frames' \in Seq(Frames)
         /\ FramesOf(kind)' = FramesOf(kind)
         /\ kind # "scan" => \A i \in FramesOf(kind) : frames'[i] = frames[i]
<1>1. /\ Len(frames) \in 1 .. Len(frames) /\ DOMAIN frames = 1 .. Len(frames)
      /\ Len(frames) \in Nat
      /\ \A i \in 1 .. Len(frames) : frames[i] \in Frames
  BY DEF TypeOK
<1>2. ScanFrame(T, R) \in Frames /\ ScanFrame(T, R).kind = "scan"
  BY SessionAssumption DEF ScanFrame, Frames
<1>3. frames' \in Seq(Frames) /\ DOMAIN frames' = DOMAIN frames
  BY <1>1, <1>2 DEF TypeOK, Replace
<1>4. \A i \in DOMAIN frames :
        /\ frames'[i].kind = frames[i].kind
        /\ frames[i].kind # "scan" => frames'[i] = frames[i]
  BY <1>1, <1>2 DEF Replace, Top
<1> QED
  BY <1>3, <1>4 DEF FramesOf

\* The row of an insert is attributed to a transaction statement, or to none.
LEMMA CurrentTxnType ==
  ASSUME TypeOK
  PROVE  CurrentTxn \in 0 .. MaxTxn
<1>1. CASE FramesOf("txn") = {}
  BY <1>1, SessionAssumption DEF CurrentTxn
<1>2. CASE FramesOf("txn") # {}
  <2>1. Innermost("txn") \in 1 .. Len(frames)
    BY <1>2, InnermostIn
  <2>2. frames[Innermost("txn")] \in Frames
    BY <2>1 DEF TypeOK
  <2> QED
    BY <1>2, <2>2, SessionAssumption DEF CurrentTxn, Frames, TxnIds
<1> QED
  BY <1>1, <1>2

\* A jump leaves every frame above its target for.
LEMMA JumpFrames ==
  ASSUME TypeOK, NEW type \in {"break", "continue"}, Jump(type), NEW kind
  PROVE  \E n \in 0 .. Len(frames) :
           /\ n <= Innermost("for") /\ n >= Innermost("for") - 1
           /\ Innermost("for") \in 1 .. Len(frames)
           /\ Innermost("for") \in FramesOf("for")
           /\ frames' \in Seq(Frames)
           /\ FramesOf(kind)' = {i \in FramesOf(kind) : i <= n}
           /\ \A i \in FramesOf(kind)' : frames'[i] = frames[i]
<1> DEFINE target == Innermost("for")
           n == IF type = "break" THEN target - 1 ELSE target
<1>1. target \in 1 .. Len(frames) /\ target \in FramesOf("for")
  BY InnermostIn DEF Jump
<1>2. n \in 0 .. Len(frames) /\ n <= target /\ n >= target - 1
  BY <1>1 DEF TypeOK
<1>3. frames' = SubSeq(frames, 1, n)
  BY DEF Jump
<1> HIDE DEF n
<1> QED
  BY Zenon, <1>1, <1>2, <1>3, PrefixFrames

\* There are finitely many frames of a kind.
LEMMA FramesFinite ==
  ASSUME TypeOK, NEW kind
  PROVE  /\ IsFiniteSet(FramesOf(kind))
         /\ Cardinality(FramesOf(kind)) \in Nat
<1>1. FramesOf(kind) \in SUBSET (1 .. Len(frames)) /\ Len(frames) \in Int
  BY DEF FramesOf, TypeOK
<1>2. IsFiniteSet(1 .. Len(frames))
  BY <1>1, FS_Interval
<1> QED
  BY <1>1, <1>2, FS_Subset, FS_CardinalityType

-----------------------------------------------------------------------------
\* Every step keeps a well-typed stack: the part of TypeOK that needs the
\* lemmas above.
LEMMA FramesType ==
  ASSUME TypeOK, [Next]_vars
  PROVE  frames' \in Seq(Frames)
<1>1. CASE frames' = frames
  BY <1>1 DEF TypeOK
<1>2. CASE frames' = <<>>
  BY <1>2
<1>3. CASE Transaction
  <2>1. TxnFrame(nextTxn) \in Frames
    BY <1>3, SessionAssumption DEF Transaction, TypeOK, TxnFrame, Frames, TxnIds
  <2> QED
    BY <1>3, <2>1, PushFrames DEF Transaction
<1>4. CASE For
  <2>1. ForFrame \in Frames
    BY SessionAssumption DEF ForFrame, Frames
  <2> QED
    BY <1>4, <2>1, PushFrames DEF For
<1>5. CASE Scan
  <2>1. PICK todo \in {{}, store, store \cup writes} : Push(ScanFrame(todo, {}))
    BY Zenon, <1>5 DEF Scan
  <2>2. ScanFrame(todo, {}) \in Frames
    BY SessionAssumption DEF ScanFrame, Frames, TypeOK
  <2> QED
    BY <2>1, <2>2, PushFrames
<1>6. CASE frames # <<>> /\ Pop
  BY <1>6, PopFrames
<1>7. CASE \E type \in {"break", "continue"} : Jump(type)
  BY <1>7, JumpFrames
<1>8. CASE ScanCopy \/ ScanNext
  <2>1. Top \in Frames
    BY <1>8 DEF ScanCopy, ScanNext, Top, TypeOK
  <2>2. Top.todo \in SUBSET Rows /\ Top.row \in SUBSET Rows
    BY <2>1 DEF Frames
  <2>3. CASE ScanCopy
    <3>1. PICK r \in Top.todo : Replace(ScanFrame(Top.todo, {r}))
      BY Zenon, <2>3 DEF ScanCopy
    <3>2. {r} \in SUBSET Rows
      BY <2>2
    <3> QED
      BY <2>2, <2>3, <3>1, <3>2, ScanFrames DEF ScanCopy
  <2>4. CASE ScanNext
    <3>1. Top.todo \ Top.row \in SUBSET Rows /\ {} \in SUBSET Rows
      BY <2>2
    <3> QED
      BY <2>4, <3>1, ScanFrames DEF ScanNext
  <2> QED
    BY <1>8, <2>3, <2>4
<1> QED
  BY Zenon, <1>1, <1>2, <1>3, <1>4, <1>5, <1>6, <1>7, <1>8
     DEF Next, vars, Start, Exit, Crash, Lose, TransactionEnd, LoggerFlush,
         wait_for_commit, Insert, ForFinish, ScanFinish, Emit

\* How a step changes the number of scans being executed and of live cursors:
\* together, except that a jump out of a scan leaves its cursor behind.
LEMMA CursorStep ==
  ASSUME TypeOK, [Next]_vars
  PROVE  LET scans == Cardinality(FramesOf("scan"))
         IN  \/ scans' = 0 /\ cursors' = 0
             \/ scans' = scans /\ cursors' = cursors
             \/ scans' = scans + 1 /\ cursors' = cursors + 1
             \/ scans >= 1 /\ scans' = scans - 1 /\ cursors' = cursors - 1
             \/ JumpScan /\ scans' <= scans /\ scans' \in Nat /\ cursors' = cursors
<1> DEFINE S == FramesOf("scan")
           scans == Cardinality(S)
<1>0. IsFiniteSet(S) /\ scans \in Nat
  BY FramesFinite
<1>1. CASE frames' = frames /\ cursors' = cursors
  BY <1>1 DEF FramesOf
<1>2. CASE Lose
  <2>1. S' = {}
    BY <1>2 DEF Lose, FramesOf
  <2> QED
    BY Zenon, <1>2, <2>1, FS_EmptySet DEF Lose
<1>3. CASE Transaction
  <2>1. TxnFrame(nextTxn) \in Frames /\ TxnFrame(nextTxn).kind # "scan"
    BY <1>3, SessionAssumption DEF Transaction, TypeOK, TxnFrame, Frames, TxnIds
  <2> QED
    BY <1>3, <2>1, PushFrames DEF Transaction
<1>4. CASE For
  <2>1. ForFrame \in Frames /\ ForFrame.kind # "scan"
    BY SessionAssumption DEF ForFrame, Frames
  <2> QED
    BY <1>4, <2>1, PushFrames DEF For
<1>5. CASE Scan
  <2>1. PICK todo \in {{}, store, store \cup writes} : Push(ScanFrame(todo, {}))
    BY Zenon, <1>5 DEF Scan
  <2>2. ScanFrame(todo, {}) \in Frames /\ ScanFrame(todo, {}).kind = "scan"
    BY SessionAssumption DEF ScanFrame, Frames, TypeOK
  <2>3. S' = S \cup {Len(frames) + 1} /\ Len(frames) + 1 \notin S
    BY <2>1, <2>2, PushFrames
  <2>4. scans' = scans + 1
    BY <1>0, <2>3, FS_AddElement
  <2> QED
    BY <1>5, <2>4 DEF Scan
<1>6. CASE TransactionEnd \/ ForFinish
  <2>1. frames # <<>> /\ Pop /\ Top.kind # "scan" /\ cursors' = cursors
    BY <1>6 DEF TransactionEnd, ForFinish
  <2>2. S' = S \ {Len(frames)} /\ Len(frames) \notin S
    BY <2>1, PopFrames
  <2> QED
    BY <2>1, <2>2
<1>7. CASE ScanFinish
  <2>1. frames # <<>> /\ Pop /\ Top.kind = "scan" /\ cursors' = cursors - 1
    BY <1>7 DEF ScanFinish
  <2>2. S' = S \ {Len(frames)} /\ Len(frames) \in S
    BY <2>1, PopFrames
  <2>3. scans' = scans - 1 /\ scans # 0
    BY Zenon, <1>0, <2>2, FS_RemoveElement, FS_EmptySet
  <2> QED
    BY <1>0, <2>1, <2>3
<1>8. CASE \E type \in {"break", "continue"} : Jump(type)
  <2>1. PICK type \in {"break", "continue"} : Jump(type)
    BY <1>8
  <2>2. PICK n \in 0 .. Len(frames) : n >= Innermost("for") - 1
                                      /\ Innermost("for") \in 1 .. Len(frames)
                                      /\ S' = {i \in S : i <= n}
    BY SMTT(30), <2>1, JumpFrames
  <2>3. cursors' = cursors
    BY <2>1 DEF Jump
  <2>4. CASE JumpScan
    <3>1. S' \in SUBSET S
      BY <2>2
    <3>2. scans' <= scans /\ scans' \in Nat
      BY <1>0, <3>1, FS_Subset, FS_CardinalityType
    <3> QED
      BY <2>3, <2>4, <3>2
  <2>5. CASE ~ JumpScan
    <3>1. \A i \in S : i < Innermost("for") /\ i \in Nat
      BY <2>1, <2>5 DEF Jump, JumpAllowed, FramesOf, TypeOK
    <3>2. S' = S
      BY <2>2, <3>1
    <3> QED
      BY <2>3, <3>2
  <2> QED
    BY <2>4, <2>5
<1>9. CASE ScanCopy \/ ScanNext
  <2>1. Top \in Frames
    BY <1>9 DEF ScanCopy, ScanNext, Top, TypeOK
  <2>2. Top.todo \in SUBSET Rows /\ Top.row \in SUBSET Rows
    BY <2>1 DEF Frames
  <2>3. S' = S
    <3>1. \E T, R \in SUBSET Rows : Replace(ScanFrame(T, R))
      BY Zenon, <1>9, <2>2 DEF ScanCopy, ScanNext
    <3> QED
      BY Zenon, <1>9, <3>1, ScanFrames DEF ScanCopy, ScanNext
  <2> QED
    BY <1>9, <2>3 DEF ScanCopy, ScanNext
<1> QED
  BY Zenon, <1>1, <1>2, <1>3, <1>4, <1>5, <1>6, <1>7, <1>8, <1>9
     DEF Next, vars, Start, Exit, Crash, LoggerFlush, wait_for_commit, Insert,
         Emit

\* TypeOK with CursorBound is inductive.
LEMMA TypeStep ==
  ASSUME TypeOK, CursorBound, [Next]_vars
  PROVE  TypeOK' /\ CursorBound'
<1>1. frames' \in Seq(Frames)
  BY FramesType
<1>2. cursors' \in Nat /\ CursorBound'
  BY CursorStep, FramesFinite DEF CursorBound, TypeOK
<1>3. CASE UNCHANGED vars
  BY <1>1, <1>2, <1>3 DEF TypeOK, vars
<1>4. CASE Start
  BY <1>1, <1>2, <1>4 DEF TypeOK, Start
<1>5. CASE Exit
  <2>1. up' = FALSE /\ xct' = FALSE /\ waiter' = 0 /\ 0 \in 0 .. MaxTxn
    BY <1>5, SessionAssumption DEF Exit, Lose
  <2> QED
    BY Zenon, <1>1, <1>2, <1>5, <2>1 DEF TypeOK, Exit, Lose
<1>6. CASE Crash
  <2>1. up' = FALSE /\ xct' = FALSE /\ waiter' = 0 /\ 0 \in 0 .. MaxTxn
    BY <1>6, SessionAssumption DEF Crash, Lose
  <2> QED
    BY Zenon, <1>1, <1>2, <1>6, <2>1 DEF TypeOK, Crash, Lose
<1>7. CASE Transaction
  <2>1. OpenTxns \subseteq TxnIds /\ nextTxn \in TxnIds
    <3>1. \A i \in FramesOf("txn") : frames[i] \in Frames /\ frames[i].kind = "txn"
      BY DEF FramesOf, TypeOK
    <3> QED
      BY <1>7, <3>1, SessionAssumption
         DEF OpenTxns, Frames, Transaction, TypeOK, TxnIds
  <2> QED
    BY SMTT(30), <1>1, <1>2, <1>7, <2>1, SessionAssumption
       DEF TypeOK, Transaction, begin_xct
<1>8. CASE TransactionEnd
  <2>1. Top \in Frames /\ Top.kind = "txn"
    BY <1>8 DEF TransactionEnd, Top, TypeOK
  <2>2. Top.txn \in TxnIds
    BY <2>1 DEF Frames
  <2>3. /\ xct' = FALSE /\ writes' = {} /\ closed' \subseteq TxnIds
        /\ UNCHANGED <<up, durable, cursors, outputs, acked, mixed, nextTxn>>
    BY <1>8, <2>2 DEF TypeOK, TransactionEnd
  <2>4. /\ store' \subseteq Rows /\ success' \subseteq TxnIds
        /\ finished' \subseteq TxnIds /\ waiter' \in 0 .. MaxTxn
    <3>1. Top.txn \in 0 .. MaxTxn
      BY <2>2, SessionAssumption DEF TxnIds
    <3>2. CASE PrecommitOk
      BY <2>2, <3>1, <3>2 DEF TypeOK, PrecommitOk
    <3>3. CASE PrecommitError
      BY <2>2, <3>3 DEF TypeOK, PrecommitError
    <3> QED
      BY <1>8, <3>2, <3>3 DEF TransactionEnd
  <2> QED
    BY Zenon, <1>1, <1>2, <2>3, <2>4 DEF TypeOK
<1>9. CASE LoggerFlush
  BY <1>1, <1>2, <1>9 DEF TypeOK, LoggerFlush
<1>10. CASE wait_for_commit
  BY SMTT(30), <1>1, <1>2, <1>10, SessionAssumption DEF TypeOK, wait_for_commit, TxnIds
<1>11. CASE \E k \in Keys : Insert(k)
  <2>1. PICK k \in Keys : Insert(k)
    BY <1>11
  <2>2. [key |-> k, txn |-> CurrentTxn] \in Rows
    BY CurrentTxnType DEF Rows
  <2> QED
    BY <1>1, <1>2, <2>1, <2>2
       DEF TypeOK, Insert, InsertOk, InsertError, InsertLost
<1>12. CASE Emit
  <2>1. PICK i \in FramesOf("scan") : outputs' = outputs \cup frames[i].row
    BY <1>12 DEF Emit
  <2>2. frames[i] \in Frames
    BY DEF FramesOf, TypeOK
  <2>3. frames[i].row \in SUBSET Rows
    BY SMTT(30), <2>2 DEF Frames
  <2> QED
    BY <1>1, <1>2, <1>12, <2>1, <2>3 DEF TypeOK, Emit
<1>13. CASE \/ For \/ ForFinish \/ \E type \in {"break", "continue"} : Jump(type)
            \/ Scan \/ ScanCopy \/ ScanNext \/ ScanFinish
  BY <1>1, <1>2, <1>13
     DEF TypeOK, For, ForFinish, Jump, Scan, ScanCopy, ScanNext, ScanFinish
<1> QED
  BY <1>3, <1>4, <1>5, <1>6, <1>7, <1>8, <1>9, <1>10, <1>11, <1>12, <1>13
     DEF Next

\* TypeOK for every program: in particular the worker never destroys a cursor
\* it does not have, whatever jumps cut scans short.
THEOREM TypeCorrect == Spec => []TypeOK
<1>1. Init => TypeOK /\ CursorBound
  <2> SUFFICES ASSUME Init PROVE TypeOK /\ CursorBound
    OBVIOUS
  <2>1. TypeOK
    <3>1. 0 \in 0 .. MaxTxn /\ 1 \in 1 .. (MaxTxn + 1) /\ <<>> \in Seq(Frames)
      BY SessionAssumption
    <3> QED
      BY Zenon, <3>1 DEF Init, TypeOK
  <2>2. FramesOf("scan") = {}
    BY DEF Init, FramesOf
  <2> QED
    BY <2>1, <2>2, FS_EmptySet DEF Init, CursorBound
<1>2. TypeOK /\ CursorBound /\ [Next]_vars => TypeOK' /\ CursorBound'
  BY TypeStep
<1> QED
  BY <1>1, <1>2, PTL DEF Spec

\* Programs that do not jump out of a scan release every cursor they open:
\* the live cursors are those of the scans being executed.
THEOREM CursorsAreReleased ==
  ASSUME ~ JumpScan
  PROVE  Spec => []CursorsReleased
<1>1. Init => CursorsReleased
  <2> SUFFICES ASSUME Init PROVE CursorsReleased
    OBVIOUS
  <2>1. FramesOf("scan") = {}
    BY DEF Init, FramesOf
  <2> QED
    BY <2>1, FS_EmptySet DEF Init, CursorsReleased
<1>2. TypeOK /\ CursorsReleased /\ [Next]_vars => CursorsReleased'
  BY CursorStep, FramesFinite DEF CursorsReleased
<1> QED
  BY <1>1, <1>2, TypeCorrect, PTL DEF Spec

-----------------------------------------------------------------------------
\* LogInv is inductive: only PrecommitOk gets the records ahead of the log, and
\* it blocks the worker until the log has caught up.
LEMMA LogStep ==
  ASSUME LogInv, TypeOK, TypeOK', [Next]_vars
  PROVE  LogInv'
<1>1. CASE UNCHANGED <<up, waiter, store, durable>>
  BY <1>1 DEF LogInv
<1>2. CASE Start
  BY <1>2 DEF Start, LogInv
<1>3. CASE Exit \/ Crash
  BY <1>3 DEF Exit, Crash, Lose, LogInv
<1>4. CASE TransactionEnd
  <2>1. CASE PrecommitOk
    <3>1. Top \in Frames /\ Top.kind = "txn"
      BY <1>4 DEF TransactionEnd, Top, TypeOK
    <3>2. Top.txn # 0
      BY <3>1 DEF Frames, TxnIds
    <3> QED
      BY <1>4, <2>1, <3>2 DEF TransactionEnd, PrecommitOk, LogInv, Running
  <2>2. CASE PrecommitError
    BY <1>4, <2>2 DEF TransactionEnd, PrecommitError, LogInv
  <2> QED
    BY <1>4, <2>1, <2>2 DEF TransactionEnd
<1>5. CASE LoggerFlush
  BY <1>5 DEF LoggerFlush, LogInv
<1>6. CASE wait_for_commit
  BY <1>6 DEF wait_for_commit, LogInv
<1> QED
  BY Zenon, <1>1, <1>2, <1>3, <1>4, <1>5, <1>6
     DEF Next, vars, Transaction, Insert, For, ForFinish, Jump, Scan, ScanCopy,
         ScanNext, ScanFinish, Emit

\* LogInv holds of every program.
THEOREM LogAhead == Spec => []LogInv
<1>1. Init => LogInv
  BY DEF Init, LogInv
<1>2. LogInv /\ TypeOK /\ TypeOK' /\ [Next]_vars => LogInv'
  BY LogStep
<1> QED
  BY <1>1, <1>2, TypeCorrect, PTL DEF Spec

\* ContinueDurable for every program: what a program does after a transaction
\* it does over durable records only.
THEOREM ContinuesOverDurable == Spec => []ContinueDurable
<1>1. LogInv => ContinueDurable
  BY DEF LogInv, ContinueDurable, Running
<1> QED
  BY <1>1, LogAhead, PTL

-----------------------------------------------------------------------------
\* KeysInv is inductive: an insert never adds to the write set a key that is
\* stored, and overwrites the write set's own.
LEMMA KeysStep ==
  ASSUME KeysInv, LogInv, [Next]_vars
  PROVE  KeysInv'
<1>1. CASE UNCHANGED <<writes, store, durable>>
  BY <1>1 DEF KeysInv, KeysUnique
<1>2. CASE Exit \/ Crash
  BY Zenon, <1>2 DEF Exit, Crash, Lose, KeysInv, KeysUnique, LogInv
<1>3. CASE Transaction
  BY <1>3 DEF Transaction, begin_xct, KeysInv, KeysUnique
<1>4. CASE TransactionEnd
  BY <1>4 DEF TransactionEnd, PrecommitOk, PrecommitError, KeysInv, KeysUnique
<1>5. CASE LoggerFlush
  BY SMTT(30), <1>5 DEF LoggerFlush, KeysInv, KeysUnique
<1>6. CASE \E k \in Keys : Insert(k)
  BY <1>6 DEF Insert, InsertOk, InsertError, InsertLost, KeysInv, KeysUnique
<1> QED
  BY Zenon, <1>1, <1>2, <1>3, <1>4, <1>5, <1>6
     DEF Next, vars, Start, wait_for_commit, For, ForFinish, Jump, Scan,
         ScanCopy, ScanNext, ScanFinish, Emit

\* KeysInv holds of every program.
THEOREM KeysHold == Spec => []KeysInv
<1>1. Init => KeysInv
  BY DEF Init, KeysInv, KeysUnique
<1>2. KeysInv /\ LogInv /\ [Next]_vars => KeysInv'
  BY KeysStep
<1> QED
  BY <1>1, <1>2, LogAhead, PTL DEF Spec

\* KeysUnique for every program: nested transactions and write sets left
\* behind by a jump included, no key is ever committed twice.
THEOREM KeysAreUnique == Spec => []KeysUnique
<1>1. KeysInv => KeysUnique
  BY DEF KeysInv
<1> QED
  BY <1>1, KeysHold, PTL


-----------------------------------------------------------------------------
(***************************************************************************)
(* What nested transactions and jumps do not harm.                         *)
(***************************************************************************)

\* No transaction statement is entered; the ones left keep their frames.
Fewer ==
  /\ FramesOf("txn")' \subseteq FramesOf("txn")
  /\ \A i \in FramesOf("txn")' : frames'[i] = frames[i]

\* Only a transaction statement adds a transaction to the stack.
LEMMA FewerTxns ==
  ASSUME TypeOK, [Next]_vars, ~ Transaction
  PROVE  Fewer
<1>1. CASE frames' = frames
  BY <1>1 DEF Fewer, FramesOf
<1>2. CASE Exit \/ Crash
  BY <1>2 DEF Fewer, Exit, Crash, Lose, FramesOf
<1>3. CASE For
  <2>1. ForFrame \in Frames /\ ForFrame.kind # "txn"
    BY SessionAssumption DEF ForFrame, Frames
  <2> QED
    BY <1>3, <2>1, PushFrames DEF For, Fewer
<1>4. CASE Scan
  <2>1. PICK todo \in {{}, store, store \cup writes} : Push(ScanFrame(todo, {}))
    BY Zenon, <1>4 DEF Scan
  <2>2. ScanFrame(todo, {}) \in Frames /\ ScanFrame(todo, {}).kind # "txn"
    BY SessionAssumption DEF ScanFrame, Frames, TypeOK
  <2> QED
    BY <2>1, <2>2, PushFrames DEF Fewer
<1>5. CASE TransactionEnd \/ ForFinish \/ ScanFinish
  <2>1. frames # <<>> /\ Pop
    BY <1>5 DEF TransactionEnd, ForFinish, ScanFinish
  <2> QED
    BY Zenon, <2>1, PopFrames DEF Fewer
<1>6. CASE \E type \in {"break", "continue"} : Jump(type)
  <2>1. PICK type \in {"break", "continue"} : Jump(type)
    BY <1>6
  <2>2. PICK n \in 0 .. Len(frames) :
          /\ FramesOf("txn")' = {i \in FramesOf("txn") : i <= n}
          /\ \A i \in FramesOf("txn")' : frames'[i] = frames[i]
    BY Zenon, <2>1, JumpFrames
  <2> QED
    BY Zenon, <2>2 DEF Fewer
<1>7. CASE ScanCopy \/ ScanNext
  <2>1. Top \in Frames
    BY <1>7 DEF ScanCopy, ScanNext, Top, TypeOK
  <2>2. Top.todo \in SUBSET Rows /\ Top.row \in SUBSET Rows
    BY <2>1 DEF Frames
  <2>3. \E T, R \in SUBSET Rows : Replace(ScanFrame(T, R))
    BY Zenon, <1>7, <2>2 DEF ScanCopy, ScanNext
  <2>4. /\ FramesOf("txn")' = FramesOf("txn")
        /\ \A i \in FramesOf("txn") : frames'[i] = frames[i]
    BY Zenon, <1>7, <2>3, ScanFrames DEF ScanCopy, ScanNext
  <2> QED
    BY Zenon, <2>4 DEF Fewer
<1> QED
  BY Zenon, <1>1, <1>2, <1>3, <1>4, <1>5, <1>6, <1>7
     DEF Next, vars, Start, LoggerFlush, wait_for_commit, Insert, Emit

\* The innermost transaction statement is one of the open ones.
LEMMA CurrentOpen ==
  ASSUME TypeOK
  PROVE  /\ OpenTxns \subseteq TxnIds
         /\ FramesOf("txn") = {} => CurrentTxn = 0
         /\ CurrentTxn # 0 => CurrentTxn \in OpenTxns
         /\ FramesOf("txn") # {} => CurrentTxn = frames[Innermost("txn")].txn
<1>1. \A i \in FramesOf("txn") : frames[i] \in Frames /\ frames[i].kind = "txn"
  BY DEF FramesOf, TypeOK
<1>2. OpenTxns \subseteq TxnIds
  BY <1>1 DEF OpenTxns, Frames
<1>3. CASE FramesOf("txn") = {}
  BY <1>2, <1>3 DEF CurrentTxn
<1>4. CASE FramesOf("txn") # {}
  BY Zenon, <1>2, <1>4, InnermostIn DEF CurrentTxn, OpenTxns
<1> QED
  BY <1>2, <1>3, <1>4

\* In one formula.
LEMMA CurrentIn ==
  ASSUME TypeOK
  PROVE  CurrentTxn \in {0} \cup OpenTxns
BY Zenon, CurrentOpen

\* A statement that is left uncovers a mixed transaction or none.
LEMMA Uncovered ==
  ASSUME TypeOK, TypeOK', MixedInv, Fewer
  PROVE  /\ \A i, j \in FramesOf("txn")' :
              i < j => frames'[i].txn \in mixed /\ frames'[i].txn # frames'[j].txn
         /\ OpenTxns' \subseteq OpenTxns
         /\ CurrentTxn' \in {0, CurrentTxn} \cup mixed
<1>1. \A i, j \in FramesOf("txn")' :
        i < j => frames'[i].txn \in mixed /\ frames'[i].txn # frames'[j].txn
  BY DEF MixedInv, Fewer
<1>2. OpenTxns' \subseteq OpenTxns
  BY DEF Fewer, OpenTxns
<1>3. CASE FramesOf("txn")' = {}
  BY <1>1, <1>2, <1>3 DEF CurrentTxn
<1>4. CASE FramesOf("txn")' # {}
  <2> DEFINE i == Innermost("txn")'
             j == Innermost("txn")
  <2>1. i \in FramesOf("txn")'
    <3>1. FramesOf("txn") \subseteq 1 .. Len(frames) /\ Len(frames) \in Nat
      BY DEF FramesOf, TypeOK
    <3>2. FramesOf("txn")' \in SUBSET (1 .. Len(frames))
      BY Zenon, <3>1 DEF Fewer
    <3>3. \E k \in FramesOf("txn")' : \A l \in FramesOf("txn")' : l <= k
      BY Zenon, <1>4, <3>1, <3>2, Greatest
    <3> QED
      BY Zenon, <3>3 DEF Innermost
  <2>2. i \in FramesOf("txn") /\ FramesOf("txn") # {} /\ frames'[i] = frames[i]
    BY <2>1 DEF Fewer
  <2>3. j \in FramesOf("txn") /\ i <= j
    BY <2>2, InnermostIn
  <2>4. CurrentTxn' = frames[i].txn /\ CurrentTxn = frames[j].txn
    BY <1>4, <2>2 DEF CurrentTxn
  <2>5. i \in Int /\ j \in Int
    BY SMTT(30), <2>2, <2>3 DEF FramesOf, TypeOK
  <2> HIDE DEF i, j
  <2>6. i = j \/ i < j
    BY <2>3, <2>5
  <2>7. i < j => frames[i].txn \in mixed
    BY <2>2, <2>3 DEF MixedInv
  <2> QED
    BY <1>1, <1>2, <2>4, <2>6, <2>7
<1> QED
  BY SMTT(30), <1>3, <1>4

\* The part of MixedInv that the rows of a step can disturb.
MixedRows ==
  /\ \A r \in acked \cup store \cup writes : r.txn < nextTxn
  /\ success \subseteq closed /\ finished \subseteq closed
  /\ \A t \in closed \ (mixed \cup success) : RowsOf(t, store \cup writes) = {}
  /\ waiter # 0 => waiter \in closed
  /\ waiter \notin mixed \cup {0} => RowsOf(waiter, acked) \subseteq store
  /\ \A t \in (finished \cap success) \ mixed : RowsOf(t, acked) \subseteq durable

\* The part that its frames can disturb.
MixedFrames ==
  /\ \A i, j \in FramesOf("txn") :
       i < j => frames[i].txn \in mixed /\ frames[i].txn # frames[j].txn
  /\ OpenTxns \cap closed = {}
  /\ \A t \in OpenTxns \cup closed : t < nextTxn
  /\ CurrentTxn # 0 /\ CurrentTxn \notin mixed =>
       /\ xct
       /\ writes = RowsOf(CurrentTxn, acked)
       /\ RowsOf(CurrentTxn, store) = {}

\* The two parts are the whole.
LEMMA MixedParts == MixedInv <=> MixedRows /\ MixedFrames
BY Zenon DEF MixedInv, MixedRows, MixedFrames

\* A step that leaves statements, and does not touch what an open transaction
\* wrote, keeps the second part.
LEMMA FramesKept ==
  ASSUME TypeOK, TypeOK', MixedInv, Fewer,
         UNCHANGED <<closed, mixed, nextTxn>>,
         \/ CurrentTxn' = 0
         \/ UNCHANGED <<xct, writes, acked, store>>
  PROVE  MixedFrames'
<1>1. /\ \A i, j \in FramesOf("txn")' :
           i < j => frames'[i].txn \in mixed /\ frames'[i].txn # frames'[j].txn
      /\ OpenTxns' \subseteq OpenTxns
      /\ CurrentTxn' \in {0, CurrentTxn} \cup mixed
  BY Uncovered
<1>2. OpenTxns' \cap closed' = {} /\ \A t \in OpenTxns' \cup closed' : t < nextTxn'
  BY Zenon, <1>1 DEF MixedInv
<1>3. CurrentTxn' # 0 /\ CurrentTxn' \notin mixed' =>
        /\ xct'
        /\ writes' = RowsOf(CurrentTxn, acked)'
        /\ RowsOf(CurrentTxn, store)' = {}
  BY <1>1 DEF MixedInv, RowsOf
<1> QED
  BY Zenon, <1>1, <1>2, <1>3 DEF MixedFrames

\* MixedInv is kept when a transaction statement is entered: those around it
\* become mixed, and its own FOEDUS transaction, if it got one, is empty.
LEMMA MixedTransaction ==
  ASSUME TypeOK, TypeOK', MixedInv, Transaction
  PROVE  MixedInv'
<1> DEFINE n == Len(frames) + 1
<1>1. TxnFrame(nextTxn) \in Frames /\ TxnFrame(nextTxn).kind = "txn"
      /\ TxnFrame(nextTxn).txn = nextTxn
  BY SessionAssumption DEF Transaction, TypeOK, TxnFrame, Frames, TxnIds
<1>2. Push(TxnFrame(nextTxn))
  BY DEF Transaction
<1>3. /\ FramesOf("txn")' = FramesOf("txn") \cup {n} /\ n \notin FramesOf("txn")
      /\ \A i \in FramesOf("txn") : frames'[i] = frames[i]
      /\ frames'[n].txn = nextTxn
  BY SMTT(30), <1>1, <1>2, PushFrames
<1>4. \A i \in FramesOf("txn") : i \in Nat /\ n \in Nat /\ i < n
  BY SMTT(30) DEF FramesOf, TypeOK
<1> HIDE DEF n
<1>5. Innermost("txn")' = n
  <2>1. \A j \in FramesOf("txn")' : j <= n
    BY <1>3, <1>4 DEF TypeOK, n
  <2>2. \A i \in FramesOf("txn") : ~ (n <= i)
    BY <1>4
  <2>3. n \in FramesOf("txn")'
    BY Zenon, <1>3
  <2> QED
    BY Zenon, <1>3, <2>1, <2>2, <2>3 DEF Innermost
<1>6. CurrentTxn' = nextTxn /\ OpenTxns' = OpenTxns \cup {nextTxn}
  <2>1. CurrentTxn' = nextTxn
    BY Zenon, <1>3, <1>5 DEF CurrentTxn
  <2>2. OpenTxns' = OpenTxns \cup {nextTxn}
    BY ZenonT(30), <1>3 DEF OpenTxns
  <2> QED
    BY <2>1, <2>2
<1>7. /\ mixed' = mixed \cup OpenTxns \cup (IF xct THEN {nextTxn} ELSE {})
      /\ nextTxn' = nextTxn + 1 /\ xct' = TRUE
      /\ writes' = IF xct THEN writes ELSE {}
      /\ waiter = 0
      /\ UNCHANGED <<waiter, store, durable, acked, success, closed, finished>>
  BY Zenon DEF Transaction, begin_xct, AtStatement, Running
<1>8. /\ \A t \in OpenTxns \cup closed : t \in Nat /\ t < nextTxn
      /\ \A r \in acked \cup store \cup writes : r.txn \in Nat /\ r.txn < nextTxn
      /\ nextTxn \in Nat
  <2>1. OpenTxns \cup closed \subseteq Nat /\ nextTxn \in Nat
    <3>1. TxnIds \subseteq Nat /\ nextTxn \in Nat
      BY SessionAssumption DEF TypeOK, TxnIds
    <3> QED
      BY Zenon, <3>1, CurrentOpen DEF TypeOK
  <2>2. \A r \in acked \cup store \cup writes : r.txn \in Nat
    BY SessionAssumption DEF TypeOK, Rows
  <2> QED
    BY Zenon, <2>1, <2>2 DEF MixedInv
<1>9. MixedRows'
  <2>1. \A r \in acked' \cup store' \cup writes' : r.txn < nextTxn'
    BY SMTT(30), <1>7, <1>8
  <2>2. \A t \in closed' \ (mixed' \cup success') : RowsOf(t, store' \cup writes') = {}
    BY SMTT(30), <1>7 DEF MixedInv, RowsOf
  <2>3. \A t \in (finished' \cap success') \ mixed' : RowsOf(t, acked') \subseteq durable'
    BY <1>7 DEF MixedInv
  <2>4. success' \subseteq closed' /\ finished' \subseteq closed' /\ waiter' = 0
    BY <1>7 DEF MixedInv
  <2> QED
    BY <2>1, <2>2, <2>3, <2>4 DEF MixedRows, RowsOf
<1>10. MixedFrames'
  <2>1. \A i, j \in FramesOf("txn")' :
          i < j => frames'[i].txn \in mixed' /\ frames'[i].txn # frames'[j].txn
    <3> SUFFICES ASSUME NEW i \in FramesOf("txn")', NEW j \in FramesOf("txn")', i < j
                 PROVE  frames'[i].txn \in mixed' /\ frames'[i].txn # frames'[j].txn
      OBVIOUS
    <3>1. i \in FramesOf("txn")
      <4>1. i = n => ~ (i < j)
        BY SMTT(30), <1>3, <1>4 DEF TypeOK, n
      <4> QED
        BY Zenon, <1>3, <4>1
    <3>2. frames'[i].txn \in OpenTxns
      BY Zenon, <1>3, <3>1 DEF OpenTxns
    <3>3. CASE j = n
      BY <1>3, <1>7, <1>8, <3>2, <3>3
    <3>4. CASE j # n
      BY Zenon, <1>3, <1>7, <3>1, <3>4 DEF MixedInv
    <3> QED
      BY <3>3, <3>4
  <2>2. OpenTxns' \cap closed' = {} /\ \A t \in OpenTxns' \cup closed' : t < nextTxn'
    BY <1>6, <1>7, <1>8 DEF MixedInv
  <2>3. RowsOf(nextTxn, acked) = {} /\ RowsOf(nextTxn, store) = {}
    BY <1>8 DEF RowsOf
  <2>4. CurrentTxn' \notin mixed' =>
          /\ xct'
          /\ writes' = RowsOf(CurrentTxn, acked)'
          /\ RowsOf(CurrentTxn, store)' = {}
    BY <1>6, <1>7, <2>3 DEF RowsOf
  <2> QED
    BY Zenon, <2>1, <2>2, <2>4 DEF MixedFrames
<1> QED
  BY <1>9, <1>10, MixedParts, PTL

\* MixedInv is kept when a transaction statement ends: if it was unmixed, the
\* write set that is committed or dropped is its own.
LEMMA MixedEnd ==
  ASSUME TypeOK, TypeOK', LogInv, MixedInv, TransactionEnd, Fewer
  PROVE  MixedInv'
<1> DEFINE t == Top.txn
<1>1. frames # <<>> /\ Pop /\ Top.kind = "txn"
  BY DEF TransactionEnd
<1>2. /\ Len(frames) \in FramesOf("txn")
      /\ FramesOf("txn")' = FramesOf("txn") \ {Len(frames)}
      /\ \A i \in FramesOf("txn")' : frames'[i] = frames[i]
  BY <1>1, PopFrames
<1>3. \A i \in FramesOf("txn") : i <= Len(frames) /\ i \in Nat /\ Len(frames) \in Nat
  BY DEF FramesOf, TypeOK
<1>4. Innermost("txn") = Len(frames)
  <2>1. FramesOf("txn") # {}
    BY <1>2
  <2>2. Innermost("txn") \in FramesOf("txn") /\ Len(frames) <= Innermost("txn")
    BY Zenon, <1>2, <2>1, InnermostIn
  <2> QED
    BY <1>3, <2>2
<1>5. CurrentTxn = t /\ t \in OpenTxns /\ t # 0 /\ t \in TxnIds
  <2>1. CurrentTxn = t
    BY <1>2, <1>4 DEF CurrentTxn, Top
  <2>2. t \in OpenTxns
    BY <1>2 DEF OpenTxns, Top
  <2>3. t \in TxnIds
    BY Zenon, <2>2, CurrentOpen
  <2> QED
    BY <2>1, <2>2, <2>3, SessionAssumption DEF TxnIds
<1>6. /\ t \notin closed /\ t \notin success /\ t \notin finished /\ t < nextTxn
      /\ t \notin mixed => /\ xct
                         /\ writes = RowsOf(t, acked)
                         /\ RowsOf(t, store) = {}
  BY Zenon, <1>5 DEF MixedInv
<1>7. /\ \A i, j \in FramesOf("txn")' :
           i < j => frames'[i].txn \in mixed /\ frames'[i].txn # frames'[j].txn
      /\ OpenTxns' \subseteq OpenTxns
  BY Zenon, Uncovered
<1>8. \A i \in FramesOf("txn")' : frames[i].txn # t /\ frames[i].txn \in mixed
  <2> SUFFICES ASSUME NEW i \in FramesOf("txn")'
               PROVE  frames[i].txn # t /\ frames[i].txn \in mixed
    OBVIOUS
  <2>1. i \in FramesOf("txn") /\ i < Len(frames)
    BY <1>2, <1>3
  <2> QED
    BY Zenon, <1>2, <2>1 DEF MixedInv, Top
<1>9. t \notin OpenTxns' /\ CurrentTxn' \in {0} \cup mixed
  <2>1. \A i \in FramesOf("txn")' : frames'[i].txn # t /\ frames'[i].txn \in mixed
    BY Zenon, <1>2, <1>8
  <2>2. t \notin OpenTxns'
    BY Zenon, <2>1 DEF OpenTxns, t
  <2>3. (CurrentTxn \in {0} \cup OpenTxns)'
    BY CurrentIn, PTL
  <2>4. OpenTxns' \subseteq mixed
    BY Zenon, <2>1 DEF OpenTxns
  <2> QED
    BY Zenon, <2>2, <2>3, <2>4
<1>10. /\ writes' = {} /\ closed' = closed \cup {t} /\ waiter = 0
       /\ UNCHANGED <<durable, acked, mixed, nextTxn>>
  BY Zenon DEF TransactionEnd, Running
<1> HIDE DEF t
<1>11. MixedFrames'
  <2>1. OpenTxns' \cap closed' = {} /\ \A s \in OpenTxns' \cup closed' : s < nextTxn'
    BY Zenon, <1>6, <1>7, <1>9, <1>10 DEF MixedInv
  <2>2. CurrentTxn' = 0 \/ CurrentTxn' \in mixed'
    BY Zenon, <1>9, <1>10
  <2> QED
    BY Zenon, <1>7, <1>10, <2>1, <2>2 DEF MixedFrames
<1>12. CASE PrecommitOk
  <2>1. /\ store' = store \cup writes /\ success' = success \cup {t}
        /\ waiter' = t /\ finished' = finished
    BY Zenon, <1>12 DEF PrecommitOk, t
  <2>2. \A r \in acked' \cup store' \cup writes' : r.txn < nextTxn'
    BY SMTT(30), <1>10, <2>1 DEF MixedInv
  <2>3. \A s \in closed' \ (mixed' \cup success') : RowsOf(s, store' \cup writes') = {}
    BY <1>10, <2>1 DEF MixedInv, RowsOf
  <2>4. \A s \in (finished' \cap success') \ mixed' : RowsOf(s, acked') \subseteq durable'
    BY Zenon, <1>6, <1>10, <2>1 DEF MixedInv
  <2>5. t \notin mixed => RowsOf(t, acked') \subseteq store'
    BY Zenon, <1>6, <1>10, <2>1
  <2>6. success' \subseteq closed' /\ finished' \subseteq closed'
    BY Zenon, <1>10, <2>1 DEF MixedInv
  <2>7. MixedRows'
    BY Zenon, <1>10, <2>1, <2>2, <2>3, <2>4, <2>5, <2>6 DEF MixedRows
  <2> QED
    BY <1>11, <2>7, MixedParts, PTL
<1>13. CASE PrecommitError
  <2>1. finished' = finished \cup {t} /\ UNCHANGED <<store, success, waiter>>
    BY Zenon, <1>13 DEF PrecommitError, t
  <2>2. \A r \in acked' \cup store' \cup writes' : r.txn < nextTxn'
    BY SMTT(30), <1>10, <2>1 DEF MixedInv
  <2>3. \A s \in closed' \ (mixed' \cup success') : RowsOf(s, store' \cup writes') = {}
    BY <1>6, <1>10, <2>1 DEF MixedInv, RowsOf
  <2>4. \A s \in (finished' \cap success') \ mixed' : RowsOf(s, acked') \subseteq durable'
    BY Zenon, <1>6, <1>10, <2>1 DEF MixedInv
  <2>5. success' \subseteq closed' /\ finished' \subseteq closed' /\ waiter' = 0
    BY Zenon, <1>10, <2>1 DEF MixedInv
  <2>6. MixedRows'
    BY Zenon, <2>2, <2>3, <2>4, <2>5 DEF MixedRows
  <2> QED
    BY <1>11, <2>6, MixedParts, PTL
<1> QED
  BY Zenon, <1>12, <1>13 DEF TransactionEnd

\* MixedInv is kept by an insert: the row goes to a transaction that is not
\* closed, and what it overwrites is in the write set.
LEMMA MixedInsert ==
  ASSUME TypeOK, TypeOK', MixedInv, NEW k \in Keys, Insert(k)
  PROVE  MixedInv'
<1> DEFINE r == [key |-> k, txn |-> CurrentTxn]
<1>1. /\ waiter = 0
      /\ UNCHANGED <<waiter, frames, xct, store, durable, success, closed,
                     finished, mixed, nextTxn>>
  BY Zenon DEF Insert, AtStatement, Running
<1>2. /\ FramesOf("txn")' = FramesOf("txn") /\ OpenTxns' = OpenTxns
      /\ CurrentTxn' = CurrentTxn
  BY <1>1 DEF FramesOf, OpenTxns, CurrentTxn, Innermost
<1>3. CurrentTxn \notin closed /\ CurrentTxn < nextTxn
  <2>1. CASE CurrentTxn = 0
    BY <2>1, SessionAssumption DEF TypeOK, TxnIds
  <2>2. CASE CurrentTxn \in OpenTxns
    BY Zenon, <2>2 DEF MixedInv
  <2> QED
    BY Zenon, <2>1, <2>2, CurrentIn
<1>4. r.txn = CurrentTxn
  OBVIOUS
<1>5. CASE InsertOk(r)
  <2> DEFINE O == {w \in writes : w.key = r.key}
  <2>1. /\ writes' = (writes \ O) \cup {r}
        /\ acked' = (acked \ O) \cup {r}
    BY <1>5 DEF InsertOk
  <2> HIDE DEF r, O
  <2>2. \A s \in acked' \cup store' \cup writes' : s.txn < nextTxn'
    BY Zenon, <1>1, <1>3, <1>4, <2>1 DEF MixedInv
  <2>3. \A t \in closed : /\ RowsOf(t, acked') \subseteq RowsOf(t, acked)
                         /\ RowsOf(t, store \cup writes')
                              \subseteq RowsOf(t, store \cup writes)
    BY Zenon, <1>3, <1>4, <2>1 DEF RowsOf
  <2>4. \A t \in closed' \ (mixed' \cup success') : RowsOf(t, store' \cup writes') = {}
    BY Zenon, <1>1, <2>3 DEF MixedInv
  <2>5. \A t \in (finished' \cap success') \ mixed' : RowsOf(t, acked') \subseteq durable'
    BY Zenon, <1>1, <2>3 DEF MixedInv
  <2>6. MixedRows'
    BY Zenon, <1>1, <2>2, <2>4, <2>5 DEF MixedInv, MixedRows
  <2>7. ASSUME CurrentTxn # 0, CurrentTxn \notin mixed
        PROVE  xct /\ writes' = RowsOf(CurrentTxn, acked') /\ RowsOf(CurrentTxn, store) = {}
    <3>1. xct /\ writes = RowsOf(CurrentTxn, acked) /\ RowsOf(CurrentTxn, store) = {}
      BY Zenon, <2>7 DEF MixedInv
    <3>2. \A w \in O : w \in writes
      BY DEF O
    <3> QED
      BY <1>4, <2>1, <3>1, <3>2 DEF RowsOf
  <2>8. MixedFrames'
    BY Zenon, <1>1, <1>2, <2>7 DEF MixedInv, MixedFrames
  <2> QED
    BY <2>6, <2>8, MixedParts, PTL
<1>6. CASE InsertError(r)
  <2>1. UNCHANGED <<writes, acked>>
    BY Zenon, <1>6 DEF InsertError
  <2> QED
    BY Zenon, <1>1, <1>2, <2>1 DEF MixedInv
<1>7. CASE InsertLost(r)
  <2>1. ~ xct /\ acked' = acked \cup {r} /\ writes' = writes
    BY Zenon, <1>7 DEF InsertLost
  <2> HIDE DEF r
  <2>2. CurrentTxn = 0 \/ CurrentTxn \in mixed
    BY Zenon, <2>1 DEF MixedInv
  <2>3. \A s \in acked' \cup store' \cup writes' : s.txn < nextTxn'
    BY Zenon, <1>1, <1>3, <1>4, <2>1 DEF MixedInv
  <2>4. \A t \in closed : RowsOf(t, acked') = RowsOf(t, acked)
    BY <1>3, <1>4, <2>1 DEF RowsOf
  <2>5. \A t \in (finished' \cap success') \ mixed' : RowsOf(t, acked') \subseteq durable'
    BY Zenon, <1>1, <2>4 DEF MixedInv
  <2>6. MixedRows'
    BY Zenon, <1>1, <2>1, <2>3, <2>5 DEF MixedInv, MixedRows
  <2>7. MixedFrames'
    BY Zenon, <1>1, <1>2, <2>2 DEF MixedInv, MixedFrames
  <2> QED
    BY <2>6, <2>7, MixedParts, PTL
<1> QED
  BY Zenon, <1>5, <1>6, <1>7 DEF Insert

\* MixedInv is inductive for every program.
LEMMA MixedStep ==
  ASSUME TypeOK, TypeOK', LogInv, MixedInv, [Next]_vars
  PROVE  MixedInv'
<1>1. CASE Transaction
  BY <1>1, MixedTransaction
<1>2. CASE TransactionEnd
  <2>1. Fewer
    BY Zenon, <1>2, PopFrames DEF TransactionEnd, Fewer
  <2> QED
    BY <1>2, <2>1, MixedEnd
<1>3. CASE \E k \in Keys : Insert(k)
  BY Zenon, <1>3, MixedInsert
<1>4. ASSUME ~ Transaction, ~ TransactionEnd, ~ \E k \in Keys : Insert(k)
      PROVE  MixedInv'
  <2>1. Fewer
    BY <1>4, FewerTxns
  <2>2. CASE Exit \/ Crash
    <3>1. /\ writes' = {} /\ waiter' = 0 /\ frames' = <<>>
          /\ UNCHANGED <<acked, success, closed, finished, mixed, nextTxn>>
      BY Zenon, <2>2 DEF Exit, Crash, Lose
    <3>2. store' \subseteq store /\ durable \subseteq durable'
      BY Zenon, <2>2 DEF Exit, Crash, LogInv
    <3>3. FramesOf("txn")' = {}
      BY <3>1 DEF FramesOf
    <3>4. CurrentTxn' = 0
      BY Zenon, <3>3 DEF CurrentTxn
    <3>5. MixedFrames'
      BY Zenon, <2>1, <3>1, <3>4, FramesKept
    <3>6. \A t \in closed' \ (mixed' \cup success') : RowsOf(t, store' \cup writes') = {}
      BY Zenon, <3>1, <3>2 DEF MixedInv, RowsOf
    <3>7. MixedRows'
      BY Zenon, <3>1, <3>2, <3>6 DEF MixedInv, MixedRows
    <3> QED
      BY <3>5, <3>7, MixedParts, PTL
  <2>3. ASSUME ~ (Exit \/ Crash)
        PROVE  MixedInv'
    <3>1. UNCHANGED <<xct, writes, acked, store, success, closed, mixed, nextTxn>>
      BY Zenon, <1>4, <2>3
         DEF Next, vars, Start, LoggerFlush, wait_for_commit, For, ForFinish, Jump,
             Scan, ScanCopy, ScanNext, ScanFinish, Emit
    <3>2. MixedFrames'
      BY Zenon, <2>1, <3>1, FramesKept
    <3>3. durable \subseteq durable'
      BY Zenon, <1>4, <2>3
         DEF Next, vars, Start, LoggerFlush, wait_for_commit, For, ForFinish, Jump,
             Scan, ScanCopy, ScanNext, ScanFinish, Emit, LogInv
    <3>4. CASE UNCHANGED <<waiter, finished>>
      <4>1. MixedRows'
        BY Zenon, <3>1, <3>3, <3>4 DEF MixedInv, MixedRows
      <4> QED
        BY <3>2, <4>1, MixedParts, PTL
    <3>5. CASE wait_for_commit
      <4>1. /\ waiter # 0 /\ store \subseteq durable /\ waiter' = 0
            /\ finished' = finished \cup {waiter}
        BY Zenon, <3>5 DEF wait_for_commit
      <4>2. \A t \in (finished' \cap success') \ mixed' :
              RowsOf(t, acked') \subseteq durable'
        BY Zenon, <3>1, <3>3, <4>1 DEF MixedInv
      <4>3. MixedRows'
        BY Zenon, <3>1, <4>1, <4>2 DEF MixedInv, MixedRows
      <4> QED
        BY <3>2, <4>3, MixedParts, PTL
    <3> QED
      BY Zenon, <1>4, <2>3, <3>4, <3>5
         DEF Next, vars, Start, LoggerFlush, For, ForFinish, Jump, Scan, ScanCopy,
             ScanNext, ScanFinish, Emit
  <2> QED
    BY <2>2, <2>3
<1> QED
  BY <1>1, <1>2, <1>3, <1>4

\* MixedInv holds of every program.
THEOREM MixedHolds == Spec => []MixedInv
<1>1. Init => MixedInv
  <2> SUFFICES ASSUME Init PROVE MixedInv
    OBVIOUS
  <2>1. FramesOf("txn") = {}
    BY DEF Init, FramesOf
  <2>2. CurrentTxn = 0 /\ OpenTxns = {}
    BY Zenon, <2>1 DEF CurrentTxn, OpenTxns
  <2> QED
    BY Zenon, <2>1, <2>2 DEF Init, MixedInv
<1>2. TypeOK /\ TypeOK' /\ LogInv /\ MixedInv /\ [Next]_vars => MixedInv'
  BY MixedStep
<1> QED
  BY <1>1, <1>2, TypeCorrect, LogAhead, PTL DEF Spec

\* UnmixedAtomic for every program: a transaction that began with no other
\* active and had none inside is all-or-nothing and durable, whatever the
\* transactions and the jumps before and after it did.
THEOREM UnmixedAreAtomic == Spec => []UnmixedAtomic
<1>1. MixedInv => UnmixedAtomic
  BY DEF MixedInv, UnmixedAtomic, RowsOf
<1> QED
  BY <1>1, MixedHolds, PTL


-----------------------------------------------------------------------------
(***************************************************************************)
(* Theorems about flat programs of Session: no transaction statement       *)
(* inside another, no jump out of one.                                     *)
(***************************************************************************)

Flat == ~ NestTxn /\ ~ JumpTxn

\* The frames of transaction statements, and the transaction an insert is
\* attributed to, are the same after a step.
SameTxn ==
  /\ FramesOf("txn")' = FramesOf("txn")
  /\ CurrentTxn' = CurrentTxn

\* It is enough that the frames of transaction statements stay.
LEMMA SameFrames ==
  ASSUME TypeOK, FramesOf("txn")' = FramesOf("txn"),
         \A i \in FramesOf("txn") : frames'[i] = frames[i]
  PROVE  SameTxn
<1>1. Innermost("txn")' = Innermost("txn")
  BY DEF Innermost
<1>2. CASE FramesOf("txn") = {}
  BY <1>2 DEF SameTxn, CurrentTxn
<1>3. CASE FramesOf("txn") # {}
  <2>1. frames'[Innermost("txn")] = frames[Innermost("txn")]
    BY <1>3, InnermostIn
  <2> QED
    BY <1>1, <1>3, <2>1 DEF SameTxn, CurrentTxn
<1> QED
  BY <1>2, <1>3

\* Only a transaction statement, or the end of the process, opens or closes a
\* transaction of a flat program.
LEMMA OtherStatements ==
  ASSUME Flat, TypeOK, [Next]_vars,
         ~ Transaction, ~ TransactionEnd, ~ Exit, ~ Crash
  PROVE  SameTxn
<1>1. CASE frames' = frames
  BY SMTT(30), <1>1, SameFrames DEF FramesOf
<1>2. CASE For
  <2>1. ForFrame \in Frames /\ ForFrame.kind # "txn"
    BY SMTT(30), SessionAssumption DEF ForFrame, Frames
  <2> QED
    BY <1>2, <2>1, PushFrames, SameFrames DEF For
<1>3. CASE Scan
  <2>1. PICK todo \in {{}, store, store \cup writes} : Push(ScanFrame(todo, {}))
    BY Zenon, <1>3 DEF Scan
  <2>2. ScanFrame(todo, {}) \in Frames /\ ScanFrame(todo, {}).kind # "txn"
    BY SessionAssumption DEF ScanFrame, Frames, TypeOK
  <2> QED
    BY <2>1, <2>2, PushFrames, SameFrames
<1>4. CASE ForFinish \/ ScanFinish
  <2>1. frames # <<>> /\ Pop /\ Top.kind # "txn"
    BY <1>4 DEF ForFinish, ScanFinish
  <2>2. /\ FramesOf("txn")' = FramesOf("txn")
        /\ \A i \in FramesOf("txn") : frames'[i] = frames[i]
    BY Zenon, <2>1, PopFrames
  <2> QED
    BY SMTT(30), <2>2, SameFrames
<1>5. CASE \E type \in {"break", "continue"} : Jump(type)
  <2>1. PICK type \in {"break", "continue"} : Jump(type)
    BY <1>5
  <2>2. PICK n \in 0 .. Len(frames) :
          /\ n >= Innermost("for") - 1
          /\ Innermost("for") \in 1 .. Len(frames)
          /\ FramesOf("txn")' = {i \in FramesOf("txn") : i <= n}
          /\ \A i \in FramesOf("txn")' : frames'[i] = frames[i]
    BY Zenon, <2>1, JumpFrames
  <2>3. \A i \in FramesOf("txn") : i < Innermost("for") /\ i \in Nat
    BY <2>1 DEF Flat, Jump, JumpAllowed, FramesOf, TypeOK
  <2>4. FramesOf("txn")' = FramesOf("txn")
    BY SMTT(30), <2>2, <2>3
  <2> QED
    BY <2>2, <2>4, SameFrames
<1>6. CASE ScanCopy \/ ScanNext
  <2>1. Top \in Frames
    BY <1>6 DEF ScanCopy, ScanNext, Top, TypeOK
  <2>2. Top.todo \in SUBSET Rows /\ Top.row \in SUBSET Rows
    BY <2>1 DEF Frames
  <2>3. \E T, R \in SUBSET Rows : Replace(ScanFrame(T, R))
    BY Zenon, <1>6, <2>2 DEF ScanCopy, ScanNext
  <2>4. /\ FramesOf("txn")' = FramesOf("txn")
        /\ \A i \in FramesOf("txn") : frames'[i] = frames[i]
    BY Zenon, <1>6, <2>3, ScanFrames DEF ScanCopy, ScanNext
  <2> QED
    BY <2>4, SameFrames
<1> QED
  BY Zenon, <1>1, <1>2, <1>3, <1>4, <1>5, <1>6
     DEF Next, vars, Start, LoggerFlush, wait_for_commit, Insert, Emit

\* A transaction statement of a flat program opens the only transaction.
LEMMA TransactionOpens ==
  ASSUME Flat, TypeOK, Transaction
  PROVE  /\ FramesOf("txn") = {}
         /\ \E i : FramesOf("txn")' = {i}
         /\ CurrentTxn' = nextTxn
<1>1. FramesOf("txn") = {} /\ Push(TxnFrame(nextTxn))
  BY SMTT(30) DEF Flat, Transaction
<1>2. TxnFrame(nextTxn) \in Frames /\ TxnFrame(nextTxn).kind = "txn"
      /\ TxnFrame(nextTxn).txn = nextTxn
  BY SMTT(30), SessionAssumption DEF Transaction, TypeOK, TxnFrame, Frames, TxnIds
<1>3. FramesOf("txn")' = {Len(frames) + 1}
      /\ frames'[Len(frames) + 1] = TxnFrame(nextTxn)
  BY <1>1, <1>2, PushFrames
<1>4. Innermost("txn")' = Len(frames) + 1
  BY <1>3 DEF Innermost, TypeOK
<1> QED
  BY Zenon, <1>1, <1>2, <1>3, <1>4 DEF CurrentTxn

\* The end of a transaction statement closes the only transaction.
LEMMA TransactionCloses ==
  ASSUME TypeOK, FlatInv, TransactionEnd
  PROVE  /\ FramesOf("txn") # {}
         /\ FramesOf("txn")' = {}
         /\ CurrentTxn = Top.txn
<1>1. frames # <<>> /\ Pop /\ Top.kind = "txn"
  BY DEF TransactionEnd
<1>2. Len(frames) \in FramesOf("txn")
      /\ FramesOf("txn")' = FramesOf("txn") \ {Len(frames)}
  BY <1>1, PopFrames
<1>3. FramesOf("txn") = {Len(frames)}
  BY <1>2 DEF FlatInv
<1>4. Innermost("txn") = Len(frames)
  BY SMTT(30), <1>3, InnermostIn
<1> QED
  BY <1>2, <1>3, <1>4 DEF CurrentTxn, Top

-----------------------------------------------------------------------------
\* FlatInv is preserved by the steps that neither open nor close a transaction
\* nor touch what it relates.
LEMMA FlatOther ==
  ASSUME FlatInv, SameTxn,
         UNCHANGED <<waiter, xct, writes, store, durable, acked, success,
                     closed, finished, nextTxn>>
  PROVE  FlatInv'
BY DEF FlatInv, SameTxn, RowsOf

\* FlatInv is inductive for flat programs.
LEMMA FlatStep ==
  ASSUME Flat, TypeOK, LogInv, FlatInv, [Next]_vars
  PROVE  FlatInv'
<1>1. CASE Exit \/ Crash
  <2>1. FramesOf("txn")' = {}
    BY <1>1 DEF Exit, Crash, Lose, FramesOf
  <2>2. durable \subseteq durable' /\ store' \subseteq store
    BY <1>1 DEF Exit, Crash, LogInv
  <2>3. /\ ~ xct' /\ writes' = {} /\ waiter' = 0
        /\ UNCHANGED <<acked, success, closed, finished, nextTxn>>
    BY SMTT(30), <1>1 DEF Exit, Crash, Lose
  <2> QED
    BY SMTT(30), <2>1, <2>2, <2>3 DEF FlatInv, RowsOf
<1>2. CASE Transaction
  <2>1. /\ FramesOf("txn") = {} /\ \E i : FramesOf("txn")' = {i}
        /\ CurrentTxn' = nextTxn
    BY SMTT(30), <1>2, TransactionOpens
  <2>2. /\ nextTxn \in TxnIds /\ nextTxn' = nextTxn + 1
        /\ nextTxn \in Nat
    BY SMTT(30), <1>2, SessionAssumption DEF Transaction, TypeOK, TxnIds
  <2>3. ~ xct /\ xct' /\ writes' = {} /\ waiter = 0
    BY <1>2, <2>1
       DEF Transaction, begin_xct, FlatInv, AtStatement, Running
  <2>4. UNCHANGED <<waiter, store, durable, acked, success, closed, finished>>
    BY SMTT(30), <1>2 DEF Transaction
  <2>5. /\ \A t \in closed : t \in Nat /\ t < nextTxn
        /\ \A r \in acked : r.txn \in Nat /\ r.txn < nextTxn
    BY SessionAssumption DEF FlatInv, TypeOK, TxnIds, Rows
  <2>6. RowsOf(nextTxn, acked) = {} /\ nextTxn \notin closed
    BY SMTT(30), <2>2, <2>5 DEF RowsOf
  <2>7. /\ \A i, j \in FramesOf("txn")' : i = j
        /\ xct' <=> FramesOf("txn")' # {}
        /\ xct' => /\ writes' = RowsOf(CurrentTxn, acked)'
                   /\ CurrentTxn' \in TxnIds \ closed'
                   /\ CurrentTxn' < nextTxn'
                   /\ waiter' = 0
    BY SMTT(30), <2>1, <2>2, <2>3, <2>4, <2>6 DEF RowsOf
  <2>8. /\ \A t \in closed' : t < nextTxn'
        /\ \A r \in acked' : r.txn < nextTxn'
    BY <2>2, <2>4, <2>5
  <2> QED
    BY <2>3, <2>4, <2>7, <2>8 DEF FlatInv, RowsOf
<1>3. CASE TransactionEnd
  <2> DEFINE t == CurrentTxn
  <2>1. FramesOf("txn") # {} /\ FramesOf("txn")' = {} /\ t = Top.txn
    BY <1>3, TransactionCloses
  <2>2. /\ xct /\ writes = RowsOf(t, acked) /\ t \in TxnIds \ closed
        /\ t < nextTxn /\ waiter = 0
    BY <2>1 DEF FlatInv
  <2>3. /\ ~ xct' /\ writes' = {} /\ closed' = closed \cup {t}
        /\ UNCHANGED <<durable, acked, nextTxn>>
    BY SMTT(30), <1>3, <2>1 DEF TransactionEnd
  <2>4. CASE PrecommitOk
    <3>1. /\ store' = store \cup writes /\ success' = success \cup {t}
          /\ waiter' = t /\ finished' = finished
      BY <2>1, <2>4 DEF PrecommitOk
    <3>2. t \notin finished
      BY SMTT(30), <2>2 DEF FlatInv
    <3> HIDE DEF t
    <3> QED
      BY SMTT(30), <2>1, <2>2, <2>3, <3>1, <3>2 DEF FlatInv, RowsOf
  <2>5. CASE PrecommitError
    <3>1. finished' = finished \cup {t} /\ UNCHANGED <<store, success, waiter>>
      BY <2>1, <2>5 DEF PrecommitError
    <3>2. t \notin success
      BY SMTT(30), <2>2 DEF FlatInv
    <3> HIDE DEF t
    <3> QED
      BY SMTT(30), <2>1, <2>2, <2>3, <3>1, <3>2 DEF FlatInv, RowsOf
  <2> QED
    BY <1>3, <2>4, <2>5 DEF TransactionEnd
<1>4. ASSUME ~ Transaction, ~ TransactionEnd, ~ Exit, ~ Crash
      PROVE  FlatInv'
  <2>1. SameTxn
    BY <1>4, OtherStatements
  <2>2. CASE UNCHANGED <<waiter, xct, writes, store, durable, acked, success,
                         closed, finished, nextTxn>>
    BY SMTT(30), <2>1, <2>2, FlatOther
  <2>3. CASE LoggerFlush
    <3>1. durable \subseteq durable'
      BY <2>3 DEF LoggerFlush, LogInv
    <3>2. UNCHANGED <<waiter, xct, writes, store, acked, success, closed,
                      finished, nextTxn>>
      BY SMTT(30), <2>3 DEF LoggerFlush
    <3> QED
      BY <2>1, <3>1, <3>2 DEF FlatInv, SameTxn, RowsOf
  <2>4. CASE wait_for_commit
    <3>1. /\ waiter # 0 /\ store \subseteq durable /\ waiter' = 0
          /\ finished' = finished \cup {waiter}
          /\ UNCHANGED <<xct, writes, store, durable, acked, success, closed,
                         nextTxn>>
      BY SMTT(30), <2>4 DEF wait_for_commit
    <3> QED
      BY <2>1, <3>1 DEF FlatInv, SameTxn, RowsOf
  <2>5. CASE \E k \in Keys : Insert(k)
    <3>1. PICK k \in Keys : Insert(k)
      BY SMTT(30), <2>5
    <3> DEFINE r == [key |-> k, txn |-> CurrentTxn]
    <3>2. UNCHANGED <<waiter, xct, store, durable, success, closed, finished,
                      nextTxn>>
          /\ waiter = 0
      BY SMTT(30), <3>1 DEF Insert, AtStatement, Running
    <3>3. CASE InsertOk(r)
      <4> DEFINE O == {w \in writes : w.key = r.key}
      <4>1. /\ xct /\ writes' = (writes \ O) \cup {r}
            /\ acked' = (acked \ O) \cup {r}
        BY SMTT(30), <3>3 DEF InsertOk
      <4>2. /\ writes = RowsOf(CurrentTxn, acked) /\ CurrentTxn \notin closed
            /\ CurrentTxn < nextTxn
        BY <4>1 DEF FlatInv
      <4>3. r.txn = CurrentTxn /\ \A w \in O : w.txn = CurrentTxn
        BY <4>2 DEF RowsOf
      <4> HIDE DEF r, O
      <4>4. writes' = RowsOf(CurrentTxn, acked')
        BY <4>1, <4>2, <4>3 DEF RowsOf
      <4>5. \A t \in closed : RowsOf(t, acked') = RowsOf(t, acked)
        BY SMTT(30), <4>1, <4>2, <4>3 DEF RowsOf
      <4>6. \A s \in acked' : s.txn < nextTxn
        BY SMTT(30), <4>1, <4>2, <4>3 DEF FlatInv
      <4>7. \A t \in finished \cap success : RowsOf(t, acked') \subseteq durable
        BY SMTT(30), <4>5 DEF FlatInv
      <4> QED
        BY SMTT(30), <2>1, <3>2, <4>1, <4>4, <4>6, <4>7 DEF FlatInv, SameTxn, RowsOf
    <3>4. CASE InsertError(r)
      BY <2>1, <3>2, <3>4, FlatOther, <3>1 DEF InsertError, Insert
    <3>5. CASE InsertLost(r)
      <4>1. ~ xct /\ acked' = acked \cup {r} /\ writes' = writes
        BY SMTT(30), <3>5 DEF InsertLost
      <4>2. r.txn = 0
        BY <4>1 DEF FlatInv, CurrentTxn
      <4>3. 0 \notin finished /\ 0 < nextTxn
        BY SessionAssumption DEF TypeOK, TxnIds
      <4> HIDE DEF r
      <4>4. \A t \in finished : RowsOf(t, acked') = RowsOf(t, acked)
        BY SMTT(30), <4>1, <4>2, <4>3 DEF RowsOf
      <4>5. \A s \in acked' : s.txn < nextTxn
        BY <4>1, <4>2, <4>3 DEF FlatInv
      <4> QED
        BY Zenon, <2>1, <3>2, <4>1, <4>4, <4>5 DEF FlatInv, SameTxn
    <3> QED
      BY <3>1, <3>3, <3>4, <3>5 DEF Insert
  <2> QED
    BY <1>4, <2>2, <2>3, <2>4, <2>5, Zenon
       DEF Next, vars, Start, For, ForFinish, Jump, Scan, ScanCopy, ScanNext,
           ScanFinish, Emit
<1> QED
  BY SMTT(30), <1>1, <1>2, <1>3, <1>4

\* FlatInv holds of flat programs.
THEOREM FlatPrograms ==
  ASSUME Flat
  PROVE  Spec => []FlatInv
<1>1. Init => FlatInv
  BY DEF Init, FlatInv, FramesOf, RowsOf
<1>2. TypeOK /\ LogInv /\ FlatInv /\ [Next]_vars => FlatInv'
  BY FlatStep
<1> QED
  BY <1>1, <1>2, TypeCorrect, LogAhead, PTL DEF Spec

\* begin_xct and precommit_xct alternate in flat programs: the engine's
\* transaction is active exactly inside a transaction statement.
THEOREM XctFollows ==
  ASSUME Flat
  PROVE  Spec => []XctFollowsTransaction
<1>1. FlatInv => XctFollowsTransaction
  BY DEF FlatInv, XctFollowsTransaction
<1> QED
  BY <1>1, FlatPrograms, PTL

\* A flat program's write set only holds rows of the open transaction.
THEOREM WritesAreOwn ==
  ASSUME Flat
  PROVE  Spec => []NoForeignWrites
<1>1. FlatInv => NoForeignWrites
  <2>1. CASE xct
    BY <2>1, SessionAssumption DEF FlatInv, NoForeignWrites, RowsOf, TxnIds
  <2>2. CASE ~ xct
    BY <2>2 DEF FlatInv, NoForeignWrites
  <2> QED
    BY <2>1, <2>2
<1> QED
  BY <1>1, FlatPrograms, PTL

\* Transactions of flat programs are all-or-nothing and durable when
\* precommit_xct returns, across crashes of the process.
THEOREM FinishedAreAtomic ==
  ASSUME Flat
  PROVE  Spec => []FinishedTransactionsAtomic
<1>1. FlatInv => FinishedTransactionsAtomic
  BY DEF FlatInv, FinishedTransactionsAtomic, RowsOf
<1> QED
  BY <1>1, FlatPrograms, PTL

-----------------------------------------------------------------------------
\* A process that is gone shows nothing.
LEMMA NothingShown ==
  ASSUME Exit \/ Crash
  PROVE  Shown' = {}
<1>1. outputs' = {} /\ frames' = <<>>
  BY DEF Exit, Crash, Lose
<1>2. DOMAIN frames' = {}
  BY <1>1
<1> QED
  BY <1>1, <1>2, Zenon DEF Shown

\* Returns and jumps take rows out of what is shown; only Scan shows more, and
\* its rows are stored or in the write set.
LEMMA ShownGrows ==
  ASSUME TypeOK, [Next]_vars
  PROVE  Shown' \subseteq Shown \cup store \cup writes
<1>1. /\ frames \in Seq(Frames) /\ Len(frames) \in Nat
      /\ DOMAIN frames = 1 .. Len(frames)
  BY DEF TypeOK
<1>2. CASE UNCHANGED <<frames, outputs>>
  BY <1>2 DEF Shown
<1>3. CASE Exit \/ Crash
  BY <1>3, NothingShown
<1>4. ASSUME NEW f, Push(f), UNCHANGED outputs,
             f.todo \cup f.row \subseteq store \cup writes
      PROVE  Shown' \subseteq Shown \cup store \cup writes
  <2>1. /\ DOMAIN frames' = 1 .. (Len(frames) + 1)
        /\ \A i \in 1 .. Len(frames) : frames'[i] = frames[i]
        /\ frames'[Len(frames) + 1] = f
    BY <1>1, <1>4 DEF Push
  <2>2. \A i \in DOMAIN frames' : i \in DOMAIN frames \/ i = Len(frames) + 1
    BY <1>1, <2>1
  <2> QED
    BY <1>1, <1>4, <2>1, <2>2, ZenonT(30) DEF Shown
<1>5. CASE Transaction \/ For
  <2>1. PICK f \in {TxnFrame(nextTxn), ForFrame} : Push(f) /\ UNCHANGED outputs
    BY SMTT(30), <1>5 DEF Transaction, For
  <2>2. f.todo = {} /\ f.row = {}
    BY SMTT(30), <2>1 DEF TxnFrame, ForFrame
  <2> QED
    BY <1>4, <2>1, <2>2
<1>6. CASE Scan
  <2>1. PICK todo \in {{}, store, store \cup writes} :
          Push(ScanFrame(todo, {})) /\ UNCHANGED outputs
    BY Zenon, <1>6 DEF Scan
  <2>2. ScanFrame(todo, {}).todo = todo /\ ScanFrame(todo, {}).row = {}
    BY DEF ScanFrame
  <2> QED
    BY <1>4, <2>1, <2>2
<1>7. ASSUME NEW n \in 0 .. Len(frames), frames' = SubSeq(frames, 1, n),
             UNCHANGED outputs
      PROVE  Shown' \subseteq Shown
  <2>1. DOMAIN frames' = 1 .. n /\ \A i \in 1 .. n : frames'[i] = frames[i]
    BY <1>1, <1>7, Prefix
  <2>2. 1 .. n \subseteq DOMAIN frames
    BY <1>1
  <2> QED
    BY <1>7, <2>1, <2>2 DEF Shown
<1>8. CASE TransactionEnd \/ ForFinish \/ ScanFinish
  <2>1. frames # <<>> /\ Pop /\ UNCHANGED outputs
    BY <1>8 DEF TransactionEnd, ForFinish, ScanFinish
  <2>2. Len(frames) - 1 \in 0 .. Len(frames)
    BY <1>1, <2>1
  <2> QED
    BY SMTT(30), <1>7, <2>1, <2>2 DEF Pop
<1>9. CASE \E type \in {"break", "continue"} : Jump(type)
  <2>1. PICK type \in {"break", "continue"} : Jump(type)
    BY <1>9
  <2>2. Innermost("for") \in 1 .. Len(frames)
    BY <2>1, InnermostIn DEF Jump
  <2> QED
    BY SMTT(30), <1>1, <1>7, <2>1, <2>2 DEF Jump
<1>10. CASE ScanCopy \/ ScanNext
  <2>1. Len(frames) \in DOMAIN frames
    BY <1>1, <1>10 DEF ScanCopy, ScanNext
  <2>2. PICK T \in SUBSET Top.todo, R \in SUBSET Top.todo : Replace(ScanFrame(T, R))
    BY Zenon, <1>10 DEF ScanCopy, ScanNext
  <2>3. ScanFrame(T, R).todo \cup ScanFrame(T, R).row \subseteq Top.todo
    BY SMTT(30), <2>2 DEF ScanFrame
  <2>4. /\ DOMAIN frames' = DOMAIN frames
        /\ \A i \in DOMAIN frames :
             frames'[i].todo \cup frames'[i].row
               \subseteq frames[i].todo \cup frames[i].row
    BY SMTT(30), <1>1, <2>1, <2>2, <2>3 DEF Replace, Top
  <2>5. UNCHANGED outputs
    BY SMTT(30), <1>10 DEF ScanCopy, ScanNext
  <2>6. ASSUME NEW r \in Shown' PROVE r \in Shown
    <3>1. CASE r \in outputs'
      BY <2>5, <3>1, ZenonT(30) DEF Shown
    <3>2. CASE \E i \in DOMAIN frames' : r \in frames'[i].todo \cup frames'[i].row
      <4>1. \E i \in DOMAIN frames : r \in frames[i].todo \cup frames[i].row
        BY <2>4, <3>2, Zenon
      <4> QED
        BY <4>1 DEF Shown
    <3> QED
      BY SMTT(30), <2>6, <3>1, <3>2 DEF Shown
  <2> QED
    BY SMTT(30), <2>6
<1>11. CASE Emit
  <2>1. PICK i \in DOMAIN frames : outputs' = outputs \cup frames[i].row
    BY SMTT(30), <1>11 DEF Emit, FramesOf
  <2>2. frames' = frames
    BY <1>11 DEF Emit
  <2>3. frames[i].row \subseteq Shown
    BY DEF Shown
  <2>4. Shown' = Shown \cup frames[i].row
    BY <2>1, <2>2 DEF Shown
  <2> QED
    BY SMTT(30), <2>3, <2>4
<1> QED
  BY Zenon, <1>2, <1>3, <1>5, <1>6, <1>8, <1>9, <1>10, <1>11
     DEF Next, vars, Start, LoggerFlush, wait_for_commit, Insert

\* What a flat program has been shown stays committed, written or failed.
LEMMA ShownStep ==
  ASSUME Flat, TypeOK, LogInv, FlatInv, ShownInv, [Next]_vars
  PROVE  ShownInv'
<1>1. CASE Exit \/ Crash
  BY <1>1, NothingShown DEF ShownInv
<1>2. ASSUME store \cup writes \subseteq store' \cup writes',
             UNCHANGED <<closed, success>>
      PROVE  ShownInv'
  BY <1>2, ShownGrows DEF ShownInv
<1>3. CASE TransactionEnd
  <2> DEFINE t == CurrentTxn
  <2>1. FramesOf("txn") # {} /\ t = Top.txn
    BY <1>3, TransactionCloses
  <2>2. /\ xct /\ t \notin closed /\ \A r \in writes : r.txn = t
        /\ success \subseteq closed
    BY <2>1 DEF FlatInv, RowsOf
  <2>3. closed' = closed \cup {t}
    BY <1>3, <2>1 DEF TransactionEnd
  <2>4. CASE PrecommitOk
    <3>1. store' = store \cup writes /\ success' = success \cup {t}
      BY <2>1, <2>4 DEF PrecommitOk
    <3> HIDE DEF t
    <3> QED
      BY <2>2, <2>3, <3>1, ShownGrows DEF ShownInv
  <2>5. CASE PrecommitError
    <3>1. UNCHANGED <<store, success>>
      BY SMTT(30), <2>5 DEF PrecommitError
    <3> HIDE DEF t
    <3> QED
      BY <2>2, <2>3, <3>1, ShownGrows DEF ShownInv
  <2> QED
    BY <1>3, <2>4, <2>5 DEF TransactionEnd
<1>4. CASE Transaction
  <2>1. ~ xct
    BY SMTT(30), <1>4, TransactionOpens DEF FlatInv
  <2> QED
    BY SMTT(30), <1>2, <1>4, <2>1 DEF Transaction, FlatInv
<1>5. CASE \E k \in Keys : Insert(k)
  <2>1. PICK k \in Keys : Insert(k)
    BY SMTT(30), <1>5
  <2> DEFINE r == [key |-> k, txn |-> CurrentTxn]
  <2>2. CASE InsertOk(r)
    <3>1. /\ xct
          /\ writes' = (writes \ {w \in writes : w.key = r.key}) \cup {r}
      BY SMTT(30), <2>2 DEF InsertOk
    <3>2. \A w \in writes : w \in Rows /\ w.txn = CurrentTxn
      BY SMTT(30), <3>1 DEF FlatInv, RowsOf, TypeOK
    <3>3. \A w \in writes : w.key = r.key => w = r
      BY <3>2 DEF Rows
    <3>4. writes \subseteq writes'
      BY SMTT(30), <3>1, <3>3
    <3> QED
      BY SMTT(30), <1>2, <2>1, <3>4 DEF Insert
  <2>3. CASE InsertError(r) \/ InsertLost(r)
    BY <1>2, <2>1, <2>3 DEF Insert, InsertError, InsertLost
  <2> QED
    BY <2>1, <2>2, <2>3 DEF Insert
<1> QED
  BY <1>1, <1>2, <1>3, <1>4, <1>5, Zenon
     DEF Next, vars, Start, LoggerFlush, wait_for_commit, For, ForFinish, Jump,
         Scan, ScanCopy, ScanNext, ScanFinish, Emit

\* A flat program's outputs_ only has durable records and rows of transactions
\* that have not committed.
THEOREM OutputsAreJustified ==
  ASSUME Flat
  PROVE  Spec => []OutputsJustified
<1>1. Init => ShownInv
  BY DEF Init, ShownInv, Shown
<1>2. TypeOK /\ LogInv /\ FlatInv /\ ShownInv /\ [Next]_vars => ShownInv'
  BY ShownStep
<1>3. LogInv /\ FlatInv /\ ShownInv => OutputsJustified
  <2>1. SUFFICES ASSUME LogInv, FlatInv, ShownInv, Running, NEW r \in outputs
                 PROVE  r \in durable \/ r.txn \notin success
    BY DEF OutputsJustified
  <2>2. store = durable
    BY <2>1 DEF LogInv, Running
  <2>3. ASSUME r \in writes PROVE r.txn \notin success
    <3>1. xct /\ r \in RowsOf(CurrentTxn, acked)
      BY SMTT(30), <2>1, <2>3 DEF FlatInv
    <3>2. CurrentTxn \notin closed /\ success \subseteq closed
      BY SMTT(30), <2>1, <3>1 DEF FlatInv
    <3> QED
      BY SMTT(30), <3>1, <3>2 DEF RowsOf
  <2>4. r \in Shown
    BY DEF Shown
  <2> QED
    BY <2>1, <2>2, <2>3, <2>4 DEF ShownInv
<1> QED
  BY <1>1, <1>2, <1>3, TypeCorrect, LogAhead, FlatPrograms, PTL DEF Spec

-----------------------------------------------------------------------------
\* Every step of a flat program is a step of AtomicStore, or leaves its
\* variables alone: a successful precommit_xct commits the open transaction's
\* rows, a failed one aborts it.
LEMMA AbstractStep ==
  ASSUME Flat, TypeOK, LogInv, KeysInv, FlatInv, [Next]_vars
  PROVE  [Abstract!Next]_(Abstract!vars)
<1>1. CASE UNCHANGED <<store, durable, closed>>
  BY <1>1 DEF Abstract!vars
<1>2. CASE Exit
  <2>1. UNCHANGED <<store, durable, closed>>
    BY <1>2 DEF Exit, Lose, Running, LogInv
  <2> QED
    BY <2>1 DEF Abstract!vars
<1>3. CASE Crash
  BY <1>3 DEF Crash, Lose, Abstract!Next, Abstract!Crash
<1>4. CASE LoggerFlush
  BY <1>4 DEF LoggerFlush, Abstract!Next, Abstract!Harden
<1>5. CASE TransactionEnd
  <2> DEFINE t == CurrentTxn
  <2>1. FramesOf("txn") # {} /\ t = Top.txn
    BY SMTT(30), <1>5, TransactionCloses
  <2>2. /\ writes = RowsOf(t, acked) /\ t \in TxnIds \ closed /\ waiter = 0
    BY <2>1 DEF FlatInv
  <2>3. closed' = closed \cup {t} /\ durable' = durable
    BY <1>5, <2>1 DEF TransactionEnd
  <2> HIDE DEF t
  <2>4. CASE PrecommitOk
    <3>1. store' = store \cup writes
      BY <2>4 DEF PrecommitOk
    <3>2. store = durable
      BY <2>2 DEF LogInv
    <3>3. writes \in SUBSET Rows
      BY DEF TypeOK
    <3>4. \A r \in writes : Owner(r) = t
      BY <2>2 DEF Owner, RowsOf
    <3>5. \A r \in writes, s \in store \cup writes : Key(r) = Key(s) => r = s
      BY DEF KeysInv, Key
    <3>6. Abstract!Commit(t, writes)
      BY SMTT(30), <2>2, <2>3, <3>1, <3>2, <3>4, <3>5 DEF Abstract!Commit
    <3> QED
      BY <2>2, <3>3, <3>6 DEF Abstract!Next
  <2>5. CASE PrecommitError
    <3>1. Abstract!Abort(t)
      BY <2>2, <2>3, <2>5 DEF PrecommitError, Abstract!Abort
    <3> QED
      BY <2>2, <3>1 DEF Abstract!Next
  <2> QED
    BY <1>5, <2>4, <2>5 DEF TransactionEnd
<1> QED
  BY Zenon, <1>1, <1>2, <1>3, <1>4, <1>5
     DEF Next, vars, Start, Transaction, wait_for_commit, Insert, For,
         ForFinish, Jump, Scan, ScanCopy, ScanNext, ScanFinish, Emit

\* Flat programs implement AtomicStore: transaction statements are atomic,
\* serial, and run over durable records only.
THEOREM FlatImplementsAtomicStore ==
  ASSUME Flat
  PROVE  Spec => ImplementsAtomicStore
<1>1. Init => Abstract!Init
  BY DEF Init, Abstract!Init
<1>2. TypeOK /\ LogInv /\ KeysInv /\ FlatInv /\ [Next]_vars
      => [Abstract!Next]_(Abstract!vars)
  BY AbstractStep
<1> QED
  BY <1>1, <1>2, TypeCorrect, LogAhead, KeysHold, FlatPrograms, PTL
     DEF Spec, ImplementsAtomicStore, Abstract!Spec

=============================================================================
