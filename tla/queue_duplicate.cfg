CONSTANTS
  Jobs = {a, b}
  Torrents = {b}
  Large = {}
  Restored = {a, b}
  Slots = {s1, s2}
  NoJob = NoJob
  NoSlot = NoSlot
  DiskFails = FALSE
SPECIFICATION Spec
CHECK_DEADLOCK FALSE
INVARIANT OneWorkerPerJob
