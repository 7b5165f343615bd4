---------------------------- MODULE AtomicStore ----------------------------
(***************************************************************************)
(* What transaction statements promise: a set of records that grows by     *)
(* whole transactions, each over durable records only, and that a crash    *)
(* takes back to the durable records.                                      *)
(***************************************************************************)
CONSTANTS
  Records,    \* records that transactions may commit
  Txns,       \* transactions
  Owner(_),   \* the transaction of a record
  Key(_)      \* the key of a record

VARIABLES
  committed,  \* records a reader sees
  hardened,   \* records a crash does not take back
  closed      \* transactions that have committed or aborted

vars == <<committed, hardened, closed>>

Init == committed = {} /\ hardened = {} /\ closed = {}

\* A transaction adds its records all at once; their keys are new.
Commit(t, rows) ==
  /\ t \notin closed
  /\ committed = hardened
  /\ \A r \in rows : Owner(r) = t
  /\ \A r \in rows, s \in committed \cup rows : Key(r) = Key(s) => r = s
  /\ committed' = committed \cup rows
  /\ closed' = closed \cup {t}
  /\ UNCHANGED hardened

Abort(t) ==
  /\ t \notin closed
  /\ closed' = closed \cup {t}
  /\ UNCHANGED <<committed, hardened>>

Harden ==
  /\ hardened' = committed
  /\ UNCHANGED <<committed, closed>>

Crash ==
  /\ committed' = hardened
  /\ UNCHANGED <<hardened, closed>>

Next ==
  \/ \E t \in Txns : Abort(t) \/ \E rows \in SUBSET Records : Commit(t, rows)
  \/ Harden
  \/ Crash

Spec == Init /\ [][Next]_vars

=============================================================================
