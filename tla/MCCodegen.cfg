\* Conditions and control statements, nested.
CONSTANTS
  Nodes <- AllNodes
  Programs <- AllPrograms
  Answers <- AnswerSeqs
SPECIFICATION Spec
INVARIANTS
  StopsOnlyAtFaults
  EmittedForRows
  PhisMatch
  BlocksEnd
  RunsAsWritten
CHECK_DEADLOCK FALSE
