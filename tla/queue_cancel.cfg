CONSTANTS
  Jobs = {a}
  Torrents = {}
  Large = {}
  Restored = {}
  Slots = {s1, s2}
  NoJob = NoJob
  NoSlot = NoSlot
  DiskFails = FALSE
SPECIFICATION Spec
CHECK_DEADLOCK FALSE
PROPERTY CancelSticks
