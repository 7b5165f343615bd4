SPECIFICATION Spec
CONSTANT Programs <- MCPrograms
INVARIANTS
  BuffersFit
  EmitReadsNearest
  MembersAgree
  UsesOwnTables
  LocalIsStored
  RunsOwnCode
  RowsFit
  RowsReadBack
