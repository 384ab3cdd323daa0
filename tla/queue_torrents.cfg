CONSTANTS
  Jobs = {b, c}
  Torrents = {b}
  Large = {b}
  Restored = {}
  Slots = {s1}
  NoJob = NoJob
  NoSlot = NoSlot
  DiskFails = TRUE
SPECIFICATION Spec
CONSTRAINTS FewDuplicates UntilStopped
CHECK_DEADLOCK FALSE
INVARIANTS PendingInOrder
