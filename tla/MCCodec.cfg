\* The operations end; nothing follows.
SPECIFICATION Spec
CONSTANTS
  Names <- MCNames
  Schemas <- MCSchemas
  Ints <- MCInts
  Strings <- MCStrings
  Stale <- MCStale
  Prefix <- MCPrefix
  Room = 40
INVARIANTS SchemaReadsBack WithinLength RoundTrip
CHECK_DEADLOCK FALSE
