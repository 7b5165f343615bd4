\* Every program.  Three transactions, so that one can follow, or be inside,
\* two that were mixed.  Without symmetry, which liveness does not allow.
CONSTANTS
  k1 = k1
  k2 = k2
  Keys <- MCKeys
  MaxTxn = 3
  MaxDepth = 2
  MaxCursors = 1
  MaxWriteSet = 2
  NestTxn = TRUE
  JumpTxn = TRUE
  JumpScan = TRUE
VIEW WithoutOutputs
SPECIFICATION FairSpec
INVARIANTS TypeOK ContinueDurable KeysUnique UnmixedAtomic
PROPERTY WaitEnds
