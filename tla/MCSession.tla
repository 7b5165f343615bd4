----------------------------- MODULE MCSession -----------------------------
(***************************************************************************)
(* Instances of Session for TLC.                                           *)
(***************************************************************************)
EXTENDS Session, TLC

CONSTANTS k1, k2

MCKeys == {k1, k2}

Symmetry == Permutations(MCKeys)

\* What tells states apart where no property but TypeOK looks at outputs:
\* nothing in the program reads it back, so that states that differ there only
\* have the same future.
WithoutOutputs ==
  <<up, waiter, frames, xct, writes, store, durable, cursors, acked, success,
    closed, finished, mixed, nextTxn>>

=============================================================================
