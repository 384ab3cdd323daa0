CONSTANTS
  Jobs = {a, b}
  Torrents = {}
  Large = {}
  Restored = {a}
  Slots = {s1, s2}
  NoJob = NoJob
  NoSlot = NoSlot
  DiskFails = FALSE
  MaxCalls = 4
SPECIFICATION CallsSpec
CHECK_DEADLOCK FALSE
INVARIANTS SingleWorker MarksAreActive AbortReachesWorker
PROPERTIES SlotsAreUsed NoStarvation StopDrains
