CONSTANTS
  Names <- MCNames
  Attrs <- MCAttrs
  Words <- MCWords
  Garbage <- MCGarbage
  MaxTables = 2
  MaxRows = 2
SPECIFICATION Spec
INVARIANTS
  ScanCovers
  ScanIsolated
  ScanExact
  RefusedOnlyDuplicates
