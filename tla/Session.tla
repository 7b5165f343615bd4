------------------------------ MODULE Session ------------------------------
(***************************************************************************)
(* One REIR program at run time, over the FOEDUS engine.                   *)
(*                                                                         *)
(* The JIT-compiled program is one worker thread that calls begin_xct,     *)
(* foedus_insert, the cursor functions and precommit_xct in the order its  *)
(* statements dictate.  The generated code discards what every one of      *)
(* these calls returns (db_interface.cpp), so the program always goes on   *)
(* to its next statement.  Which statement that is depends on the program  *)
(* text and on its data; here it is a nondeterministic choice among the    *)
(* statements the grammar allows at that point, and `frames' is the stack  *)
(* of statements being executed.  Let, if, expression and define           *)
(* statements change none of this state and are left out.                  *)
(*                                                                         *)
(* FOEDUS is external: it is modelled by the outcomes the interface code   *)
(* distinguishes.                                                          *)
(***************************************************************************)
EXTENDS Naturals, Sequences, FiniteSets

CONSTANTS
  Keys,         \* encoded record keys
  MaxTxn,       \* bound: transaction statements executed in a behaviour
  MaxDepth,     \* bound: nesting depth of statements
  MaxCursors,   \* bound: live cursor objects
  MaxWriteSet,  \* options.xct_.max_write_set_size_
  NestTxn,      \* programs may put a transaction inside a transaction
  JumpTxn,      \* programs may break/continue out of a transaction
  JumpScan      \* programs may break/continue out of a scan

ASSUME SessionAssumption ==
  /\ MaxTxn \in Nat /\ MaxDepth \in Nat
  /\ MaxCursors \in Nat /\ MaxWriteSet \in Nat
  /\ {NestTxn, JumpTxn, JumpScan} \subseteq BOOLEAN

VARIABLES
  up,       \* whether the process is up, executing its program
  waiter,   \* transaction statement blocked in wait_for_commit, 0 if none
  frames,   \* statements being executed, outermost first
  xct,      \* whether the worker's FOEDUS transaction is active
  writes,   \* its write set
  store,    \* committed records in memory
  durable,  \* records whose log has been flushed
  cursors,  \* number of live MasstreeCursor objects
  outputs,  \* CompilerContext::outputs_
  acked,    \* history: rows whose foedus_insert returned true
  success,  \* history: transactions for which "success." was printed
  closed,   \* history: transactions whose precommit_xct was called
  finished, \* history: transactions whose precommit_xct returned
  mixed,    \* history: transactions that shared a FOEDUS transaction
  nextTxn   \* identity of the next transaction statement executed

vars == <<up, waiter, frames, xct, writes, store, durable, cursors,
          outputs, acked, success, closed, finished, mixed, nextTxn>>

TxnIds == 1 .. MaxTxn

\* A record, with the transaction statement that inserted it (0: none).
Rows == [key : Keys, txn : 0 .. MaxTxn]

\* A statement being executed: a transaction (with its identity), a for, or
\* a scan (with the records its cursor has not passed, and the one in its
\* tuple_stack_ while its body runs).
Frames ==
  [kind : {"txn"}, txn : TxnIds, todo : {{}}, row : {{}}] \cup
  [kind : {"for", "scan"}, txn : {0}, todo : SUBSET Rows, row : SUBSET Rows]

TxnFrame(t) == [kind |-> "txn", txn |-> t, todo |-> {}, row |-> {}]
ForFrame == [kind |-> "for", txn |-> 0, todo |-> {}, row |-> {}]
ScanFrame(todo, row) ==
  [kind |-> "scan", txn |-> 0, todo |-> todo, row |-> row]

RowsOf(t, S) == {r \in S : r.txn = t}

FramesOf(kind) == {i \in DOMAIN frames : frames[i].kind = kind}

\* The index of the innermost frame of a kind; for a for, the loop_ of the
\* CompilerContext while the code inside it is generated.
Innermost(kind) ==
  CHOOSE i \in FramesOf(kind) : \A j \in FramesOf(kind) : j <= i

\* The transaction statement an insert executes in, 0 outside any.
CurrentTxn == IF FramesOf("txn") = {} THEN 0 ELSE frames[Innermost("txn")].txn

\* The worker is executing statements (it is not blocked in wait_for_commit).
Running == up /\ waiter = 0

Push(f) == frames' = Append(frames, f)
Top == frames[Len(frames)]
Replace(f) == frames' = [frames EXCEPT ![Len(frames)] = f]
Pop == frames' = SubSeq(frames, 1, Len(frames) - 1)

\* The worker is where a block has its next statement: at the top level, or in
\* the body of the innermost statement (a scan's once a row has been copied).
AtStatement ==
  /\ Running
  /\ frames # <<>> => Top.kind # "scan" \/ Top.row # {}

TypeOK ==
  /\ up \in BOOLEAN
  /\ waiter \in 0 .. MaxTxn
  /\ frames \in Seq(Frames)
  /\ xct \in BOOLEAN
  /\ writes \subseteq Rows
  /\ store \subseteq Rows
  /\ durable \subseteq Rows
  /\ cursors \in Nat
  /\ outputs \subseteq Rows
  /\ acked \subseteq Rows
  /\ success \subseteq TxnIds
  /\ closed \subseteq TxnIds
  /\ finished \subseteq TxnIds
  /\ mixed \subseteq TxnIds
  /\ nextTxn \in 1 .. (MaxTxn + 1)

Init ==
  /\ up = FALSE
  /\ waiter = 0
  /\ frames = <<>>
  /\ xct = FALSE
  /\ writes = {}
  /\ store = {}
  /\ durable = {}
  /\ cursors = 0
  /\ outputs = {}
  /\ acked = {}
  /\ success = {}
  /\ closed = {}
  /\ finished = {}
  /\ mixed = {}
  /\ nextTxn = 1

-----------------------------------------------------------------------------
(* The process: one program per engine start. *)

\* FoedusRunner() opens the engine, which recovers the flushed log, and run()
\* starts the compiled program on the worker thread.
Start ==
  /\ ~up
  /\ up' = TRUE
  /\ UNCHANGED <<waiter, frames, xct, writes, store, durable, cursors, outputs,
                 acked, success, closed, finished, mixed, nextTxn>>

\* The process is gone: only what the log holds is left of the records.
Lose ==
  /\ up' = FALSE
  /\ waiter' = 0
  /\ frames' = <<>>
  /\ xct' = FALSE
  /\ writes' = {}
  /\ cursors' = 0
  /\ outputs' = {}
  /\ UNCHANGED <<acked, success, closed, finished, mixed, nextTxn>>

\* The program returns; ~FoedusRunner uninitializes the engine, which flushes
\* the log (flush_at_shutdown_).  A transaction left active is dropped.
Exit ==
  /\ Running
  /\ frames = <<>>
  /\ Lose
  /\ durable' = store
  /\ UNCHANGED store

\* The process dies.
Crash ==
  /\ up
  /\ Lose
  /\ store' = durable
  /\ UNCHANGED durable

-----------------------------------------------------------------------------
(* transaction { ... } *)

\* begin_xct fails when a transaction is active; the failure is dropped.
begin_xct == xct' = TRUE /\ writes' = IF xct THEN writes ELSE {}

\* The transaction statements being executed.
OpenTxns == {frames[i].txn : i \in FramesOf("txn")}

\* The statements around it, and itself if begin_xct failed, do not have a
\* FOEDUS transaction of their own.
Transaction ==
  /\ AtStatement
  /\ nextTxn <= MaxTxn
  /\ Len(frames) < MaxDepth
  /\ NestTxn \/ FramesOf("txn") = {}
  /\ begin_xct
  /\ Push(TxnFrame(nextTxn))
  /\ mixed' = mixed \cup OpenTxns \cup (IF xct THEN {nextTxn} ELSE {})
  /\ nextTxn' = nextTxn + 1
  /\ UNCHANGED <<up, waiter, store, durable, cursors, outputs, acked, success,
                 closed, finished>>

\* Mutant: wait_for_commit eliminated.
PrecommitOkNoWait ==
  /\ xct
  /\ store' = store \cup writes
  /\ success' = success \cup {Top.txn}
  /\ finished' = finished \cup {Top.txn}
  /\ UNCHANGED waiter

\* Mutant: the write set is dropped by the commit.
PrecommitOkLost ==
  /\ xct
  /\ success' = success \cup {Top.txn}
  /\ waiter' = Top.txn
  /\ UNCHANGED <<store, finished>>

\* precommit_xct succeeds: "success." is printed, then wait_for_commit blocks.
PrecommitOk ==
  /\ xct
  /\ store' = store \cup writes
  /\ success' = success \cup {Top.txn}
  /\ waiter' = Top.txn
  /\ UNCHANGED finished

\* Mutant: "success." is printed whatever precommit_xct returned.
PrecommitErrorSuccess ==
  /\ success' = success \cup {Top.txn}
  /\ finished' = finished \cup {Top.txn}
  /\ UNCHANGED <<store, waiter>>

\* precommit_xct fails (no active transaction, or the engine aborts it): the
\* error code is printed, there is no epoch to wait for, the program goes on.
PrecommitError ==
  /\ finished' = finished \cup {Top.txn}
  /\ UNCHANGED <<store, success, waiter>>

\* Mutant: precommit_xct fails and leaves the transaction open.
TransactionEndOpen ==
  /\ Running
  /\ frames # <<>> /\ Top.kind = "txn"
  /\ \/ PrecommitOk /\ xct' = FALSE /\ writes' = {}
     \/ PrecommitError /\ UNCHANGED <<xct, writes>>
  /\ closed' = closed \cup {Top.txn}
  /\ Pop
  /\ UNCHANGED <<up, durable, cursors, outputs, acked, mixed, nextTxn>>

TransactionEnd ==
  /\ Running
  /\ frames # <<>> /\ Top.kind = "txn"
  /\ PrecommitOk \/ PrecommitError
  /\ xct' = FALSE
  /\ writes' = {}
  /\ closed' = closed \cup {Top.txn}
  /\ Pop
  /\ UNCHANGED <<up, durable, cursors, outputs, acked, mixed, nextTxn>>

\* The logger threads flush the committed records of the current epoch.
LoggerFlush ==
  /\ up
  /\ durable # store
  /\ durable' = store
  /\ UNCHANGED <<up, waiter, frames, xct, writes, store, cursors, outputs,
                 acked, success, closed, finished, mixed, nextTxn>>

\* Mutant: the wait returns at once.
wait_for_commitEarly ==
  /\ waiter # 0
  /\ waiter' = 0
  /\ finished' = finished \cup {waiter}
  /\ UNCHANGED <<up, frames, xct, writes, store, durable, cursors, outputs,
                 acked, success, closed, mixed, nextTxn>>

\* Mutant: the wait is for an epoch later than the commit's.
wait_for_commitNextEpoch ==
  /\ waiter # 0
  /\ store \subseteq durable /\ store # durable
  /\ waiter' = 0
  /\ finished' = finished \cup {waiter}
  /\ UNCHANGED <<up, frames, xct, writes, store, durable, cursors, outputs,
                 acked, success, closed, mixed, nextTxn>>

\* wait_for_commit returns once the epoch of the commit is durable.
wait_for_commit ==
  /\ waiter # 0
  /\ store \subseteq durable
  /\ waiter' = 0
  /\ finished' = finished \cup {waiter}
  /\ UNCHANGED <<up, frames, xct, writes, store, durable, cursors, outputs,
                 acked, success, closed, mixed, nextTxn>>

-----------------------------------------------------------------------------
(* insert *)

\* Mutant: an existing record does not make the insert fail.
InsertOkDuplicate(r) ==
  LET overwritten == {w \in writes : w.key = r.key} IN
  /\ xct
  /\ Cardinality(writes) < MaxWriteSet
  /\ writes' = (writes \ overwritten) \cup {r}
  /\ acked' = (acked \ overwritten) \cup {r}

\* foedus_insert returned true and the record is in the write set.  A key the
\* transaction has already written may be overwritten or refused.
InsertOk(r) ==
  LET overwritten == {w \in writes : w.key = r.key} IN
  /\ xct
  /\ \A s \in store : s.key # r.key
  /\ Cardinality(writes) < MaxWriteSet
  /\ writes' = (writes \ overwritten) \cup {r}
  /\ acked' = (acked \ overwritten) \cup {r}

\* foedus_insert returned false: duplicate key, full write set or no
\* transaction.  The generated code does not look at the result.
InsertError(r) ==
  /\ \/ ~xct
     \/ \E s \in store \cup writes : s.key = r.key
     \/ Cardinality(writes) >= MaxWriteSet
  /\ UNCHANGED <<writes, acked>>

\* Without an active transaction the engine may also accept the call; the
\* record is in no transaction's write set and is never committed.
InsertLost(r) ==
  /\ ~xct
  /\ acked' = acked \cup {r}
  /\ UNCHANGED writes

Insert(k) ==
  LET r == [key |-> k, txn |-> CurrentTxn] IN
  /\ AtStatement
  /\ InsertOk(r) \/ InsertError(r) \/ InsertLost(r)
  /\ UNCHANGED <<up, waiter, frames, xct, store, durable, cursors, outputs,
                 success, closed, finished, mixed, nextTxn>>

-----------------------------------------------------------------------------
(* for, break, continue *)

For ==
  /\ AtStatement
  /\ Len(frames) < MaxDepth
  /\ Push(ForFrame)
  /\ UNCHANGED <<up, waiter, xct, writes, store, durable, cursors, outputs,
                 acked, success, closed, finished, mixed, nextTxn>>

\* The condition is false at for_begin: on to for_finish.
ForFinish ==
  /\ Running
  /\ frames # <<>> /\ Top.kind = "for"
  /\ Pop
  /\ UNCHANGED <<up, waiter, xct, writes, store, durable, cursors, outputs,
                 acked, success, closed, finished, mixed, nextTxn>>

\* Programs whose jumps stay within the transaction, or the scan, they are in.
JumpAllowed(target) ==
  /\ JumpTxn \/ \A i \in FramesOf("txn") : i < target
  /\ JumpScan \/ \A i \in FramesOf("scan") : i < target

\* Mutant: a jump destroys a cursor whether or not it leaves a scan.
JumpDestroy(type) ==
  LET target == Innermost("for") IN
  /\ AtStatement
  /\ FramesOf("for") # {}
  /\ JumpAllowed(target)
  /\ frames' = SubSeq(frames, 1, IF type = "break" THEN target - 1 ELSE target)
  /\ cursors' = cursors - 1
  /\ UNCHANGED <<up, waiter, xct, writes, store, durable, outputs, acked,
                 success, closed, finished, mixed, nextTxn>>

\* A branch to the innermost for's for_finish (break) or for_every (continue):
\* what the statements in between would still have done, precommit_xct and
\* foedus_cursor_destroy included, is skipped.
Jump(type) ==
  LET target == Innermost("for") IN
  /\ AtStatement
  /\ FramesOf("for") # {}
  /\ JumpAllowed(target)
  /\ frames' = SubSeq(frames, 1, IF type = "break" THEN target - 1 ELSE target)
  /\ UNCHANGED <<up, waiter, xct, writes, store, durable, cursors, outputs,
                 acked, success, closed, finished, mixed, nextTxn>>

-----------------------------------------------------------------------------
(* scan, emit *)

\* foedus_generate_cursor: a cursor object is returned even when open fails
\* (the scan is then empty).  Whether the cursor shows the transaction's own
\* uncommitted records is up to the engine.
Scan ==
  /\ AtStatement
  /\ Len(frames) < MaxDepth
  /\ cursors < MaxCursors
  /\ \E todo \in {{}, store, store \cup writes} : Push(ScanFrame(todo, {}))
  /\ cursors' = cursors + 1
  /\ UNCHANGED <<up, waiter, xct, writes, store, durable, outputs, acked,
                 success, closed, finished, mixed, nextTxn>>

\* The cursor is on a record: its key and value are copied to the stack.
ScanCopy ==
  /\ Running
  /\ frames # <<>> /\ Top.kind = "scan" /\ Top.row = {}
  /\ \E r \in Top.todo : Replace(ScanFrame(Top.todo, {r}))
  /\ UNCHANGED <<up, waiter, xct, writes, store, durable, cursors, outputs,
                 acked, success, closed, finished, mixed, nextTxn>>

\* The body is done: foedus_cursor_next, back to fullscan_check.
ScanNext ==
  /\ Running
  /\ frames # <<>> /\ Top.kind = "scan" /\ Top.row # {}
  /\ Replace(ScanFrame(Top.todo \ Top.row, {}))
  /\ UNCHANGED <<up, waiter, xct, writes, store, durable, cursors, outputs,
                 acked, success, closed, finished, mixed, nextTxn>>

\* Mutant: fullscan_fin does not destroy the cursor.
ScanFinishLeak ==
  /\ Running
  /\ frames # <<>> /\ Top.kind = "scan" /\ Top.row = {} /\ Top.todo = {}
  /\ Pop
  /\ UNCHANGED <<up, waiter, xct, writes, store, durable, cursors, outputs,
                 acked, success, closed, finished, mixed, nextTxn>>

\* The cursor is exhausted: fullscan_fin destroys it.
ScanFinish ==
  /\ Running
  /\ frames # <<>> /\ Top.kind = "scan" /\ Top.row = {} /\ Top.todo = {}
  /\ Pop
  /\ cursors' = cursors - 1
  /\ UNCHANGED <<up, waiter, xct, writes, store, durable, outputs, acked,
                 success, closed, finished, mixed, nextTxn>>

\* The row of an enclosing scan goes to outputs_, printed when the program ends.
Emit ==
  /\ AtStatement
  /\ \E i \in FramesOf("scan") :
       /\ frames[i].row # {}
       /\ outputs' = outputs \cup frames[i].row
  /\ UNCHANGED <<up, waiter, frames, xct, writes, store, durable, cursors,
                 acked, success, closed, finished, mixed, nextTxn>>

-----------------------------------------------------------------------------
Next ==
  \/ Start \/ Exit \/ Crash
  \/ Transaction \/ TransactionEnd \/ LoggerFlush \/ wait_for_commit
  \/ \E k \in Keys : Insert(k)
  \/ For \/ ForFinish \/ \E type \in {"break", "continue"} : Jump(type)
  \/ Scan \/ ScanCopy \/ ScanNext \/ ScanFinish \/ Emit

Spec == Init /\ [][Next]_vars

\* The logger threads and the worker blocked in wait_for_commit are scheduled.
FairSpec == Spec /\ WF_vars(LoggerFlush) /\ WF_vars(wait_for_commit)

-----------------------------------------------------------------------------
(* Properties of every program *)

\* The statements after a transaction run over durable records only: since
\* precommit_xct does not return before wait_for_commit does, nothing that the
\* program reads or decides there can be undone by a crash.
ContinueDurable == Running => store = durable

\* No two committed records have the same key, whatever inserts were refused,
\* overwritten or left behind in a write set by a jump.
KeysUnique == \A r, s \in store : r.key = s.key => r = s

\* Nested transactions and jumps out of one harm only the transactions that
\* came to share a FOEDUS transaction: the others, before, after or inside
\* them, are all-or-nothing, and durable once precommit_xct has returned
\* success, across exits and crashes (begin_xct, precommit_xct).
UnmixedAtomic ==
  \A t \in finished \ mixed :
    IF t \in success THEN RowsOf(t, acked) \subseteq durable
                     ELSE RowsOf(t, store) = {}

\* A worker blocked in wait_for_commit is released (or its process dies).
WaitEnds == (waiter # 0) ~> (waiter = 0)

-----------------------------------------------------------------------------
(* Properties of programs without nested transactions or jumps out of one *)

\* While the program runs, the FOEDUS transaction is active exactly inside a
\* transaction statement: begin_xct and precommit_xct alternate.
XctFollowsTransaction == Running => (xct <=> FramesOf("txn") # {})

\* The write set holds only rows the open transaction statement inserted.
NoForeignWrites == \A r \in writes : r.txn = CurrentTxn /\ r.txn # 0

\* When precommit_xct has returned, either all the inserts the transaction was
\* told had succeeded are durable, or none of them is stored.
FinishedTransactionsAtomic ==
  \A t \in finished :
    IF t \in success THEN RowsOf(t, acked) \subseteq durable
                     ELSE RowsOf(t, store) = {}

\* "success." stands for a durable transaction (see design.md).
SuccessImpliesDurable == \A t \in success : RowsOf(t, acked) \subseteq durable

\* A row in outputs_ is a durable record, or was emitted by the transaction that
\* inserted it and that has not committed: Emit copies uncommitted rows out of a
\* transaction, and nothing takes them back when precommit_xct fails.
OutputsJustified ==
  Running => \A r \in outputs : r \in durable \/ r.txn \notin success

\* The program's transactions are the atomic, serial and durable ones of
\* AtomicStore: the committed records are `store', the durable ones `durable'.
Owner(r) == r.txn
Key(r) == r.key
Abstract == INSTANCE AtomicStore
              WITH Records <- Rows, Txns <- TxnIds,
                   committed <- store, hardened <- durable

\* Every behaviour of a flat program is one of AtomicStore.
ImplementsAtomicStore == Abstract!Spec

-----------------------------------------------------------------------------
(* Programs whose jumps stay inside the scan they are in *)

\* Every live cursor object belongs to a scan statement being executed.
CursorsReleased == cursors = Cardinality(FramesOf("scan"))

-----------------------------------------------------------------------------
(* Inductive strengthenings *)

\* Of TypeOK: a scan being executed has its cursor, so that fullscan_fin never
\* destroys one cursor too many.
CursorBound == Cardinality(FramesOf("scan")) <= cursors

\* Of ContinueDurable: committed records wait for the logger
\* only while the worker waits too.
LogInv ==
  /\ durable \subseteq store
  /\ waiter = 0 => store = durable
  /\ ~up => waiter = 0

\* Of KeysUnique: the write set has no key twice and none that is stored.
KeysInv ==
  /\ KeysUnique
  /\ \A r, s \in writes : r.key = s.key => r = s
  /\ \A r \in writes, s \in store : r.key # s.key
  /\ durable \subseteq store

\* Of UnmixedAtomic: of the open transaction statements only the innermost may
\* be unmixed, and then the active FOEDUS transaction is its own, with exactly
\* the rows it was told had been inserted; nothing is left in the store or the
\* write set of one that failed; the one that waits has its rows committed.
MixedInv ==
  /\ \A i, j \in FramesOf("txn") :
       i < j => frames[i].txn \in mixed /\ frames[i].txn # frames[j].txn
  /\ OpenTxns \cap closed = {}
  /\ \A t \in OpenTxns \cup closed : t < nextTxn
  /\ \A r \in acked \cup store \cup writes : r.txn < nextTxn
  /\ CurrentTxn # 0 /\ CurrentTxn \notin mixed =>
       /\ xct
       /\ writes = RowsOf(CurrentTxn, acked)
       /\ RowsOf(CurrentTxn, store) = {}
  /\ success \subseteq closed /\ finished \subseteq closed
  /\ \A t \in closed \ (mixed \cup success) : RowsOf(t, store \cup writes) = {}
  /\ waiter # 0 => waiter \in closed
  /\ waiter \notin mixed \cup {0} => RowsOf(waiter, acked) \subseteq store
  /\ \A t \in (finished \cap success) \ mixed : RowsOf(t, acked) \subseteq durable

\* Of the properties of flat programs: the one open transaction owns the write
\* set, which is exactly what it was told had been inserted; the stored records
\* are those of transactions that printed "success."; and the transaction that
\* waits has its records committed.
FlatInv ==
  /\ \A i, j \in FramesOf("txn") : i = j
  /\ xct <=> FramesOf("txn") # {}
  /\ ~ xct => writes = {}
  /\ xct => /\ writes = RowsOf(CurrentTxn, acked)
            /\ CurrentTxn \in TxnIds \ closed
            /\ CurrentTxn < nextTxn
            /\ waiter = 0
  /\ \A t \in closed : t < nextTxn
  /\ \A r \in acked : r.txn < nextTxn
  /\ \A r \in store : r.txn \in success
  /\ success \subseteq closed /\ finished \subseteq closed
  /\ waiter # 0 => waiter \in closed /\ RowsOf(waiter, acked) \subseteq store
  /\ \A t \in finished \cap success : RowsOf(t, acked) \subseteq durable

\* Of OutputsJustified: what a cursor shows, a tuple_stack_ holds or outputs_
\* has is committed, in the write set, or of a transaction that failed.
Shown ==
  outputs \cup UNION {frames[i].todo \cup frames[i].row : i \in DOMAIN frames}

ShownInv ==
  \A r \in Shown : r \in store \cup writes \/ r.txn \in closed \ success

=============================================================================
