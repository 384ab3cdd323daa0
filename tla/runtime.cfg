SPECIFICATION PartSpec
CONSTANTS
  Tasks = {i1, i2, i3, b1, b2}
  Background = {b1, b2}
  Limit = 2
  Users = {u1, u2}  Capacity = 4  Headroom = 1  MaxResource = 3  Sizes = {1, 2}  MaxOutside = 1
  PieceLength = 2  f = f  g = g  Files = {f, g}  Offset <- OffsetOf  Length <- LengthOf  Readers = {u1, u2}
  Names = {"a", "A"}  MaxEntries = 3  MaxNames = 2  MaxPaths = 4  MaxBytes = 2
  PreviewBytes = 4  Size = 6
  Jobs = {j1, j2}  Sessions = {s1}  None = None
CHECK_DEADLOCK FALSE
INVARIANTS NoIdlePermit HeadroomKept StreamKeepsTorrent ContentsAreWhole
PROPERTIES EventuallyGranted PoolSpec RemovalIsAsked
