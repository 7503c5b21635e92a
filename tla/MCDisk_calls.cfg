\* Reads and writes against a device that may abort, fault or be absent.
CONSTANTS
  MaxCount = 2
  LbaLimit = 4
  Capacity = 3
  Starts <- MCStarts
  Counts <- MCCounts
  Data = {a, b}
  Junk = junk
  Kinds <- AllKinds
SPECIFICATION Spec
INVARIANTS
  TypeOK
  ReadGivesTheSectors
  WriteLosesOnlyTheLast
PROPERTIES
  StoredOnlyByItsWrite
  EveryCallReturns
CHECK_DEADLOCK FALSE
