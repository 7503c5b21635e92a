\* The cache of the device when disk_write returns.
CONSTANTS
  MaxCount = 2
  LbaLimit = 4
  Capacity = 3
  Starts <- MCStarts
  Counts = {1, 2}
  Data = {a, b}
  Junk = junk
  Kinds <- AtaOnly
SPECIFICATION Spec
INVARIANT
  FlushedOnReturn
CHECK_DEADLOCK FALSE
