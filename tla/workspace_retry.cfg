SPECIFICATION PartSpec
CONSTANTS
  r1 = r1  c1 = c1  Roots = {r1, r2}  Torrents = {r2}  Children = {c1}  ParentOf <- ParentOfChild  MaxDepth = 1
  s1 = s1  s2 = s2  a = a  b = b  d = d
  Sessions = {s1, s2}  Songs <- SongsOf  Other = other  MaxEvents = 2
  Images = {a, b, d}  Near <- NearOf  Entries = {i1, i2, i3, i4}
  Texts = {t1, t2}  Offsets = {0, 1}  MaxAttempt = 3
  Tracks = {t1, t2}  Locals = {f1, f2}
  f1 = f1  f2 = f2  Videos = {f1, f2}  End = 2
  Trees <- TwoTrees  Filters <- FourFilters  NoFilter <- AllFiles
  Boxes = {1, 2}  MaxPrint = 2  MaxSent = 2
  Urls = {"url", "magnet", "text"}  Magnets = {"magnet"}  Valid = {"url", "magnet"}  Limit = 2  MaxLines = 2  MaxId = 4
  MaxCalls = 2
  None = None
CHECK_DEADLOCK FALSE
INVARIANTS BreadcrumbsLead
