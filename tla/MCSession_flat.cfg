\* Programs without nested transactions and without jumps out of a
\* transaction or a scan.
CONSTANTS
  k1 = k1
  k2 = k2
  Keys <- MCKeys
  MaxTxn = 2
  MaxDepth = 3
  MaxCursors = 2
  MaxWriteSet = 2
  NestTxn = FALSE
  JumpTxn = FALSE
  JumpScan = FALSE
SYMMETRY Symmetry
SPECIFICATION Spec
INVARIANTS
  FinishedTransactionsAtomic
  FlatInv
  OutputsJustified
  CursorsReleased
PROPERTY ImplementsAtomicStore
