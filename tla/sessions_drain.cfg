SPECIFICATION Spec
CONSTANTS Root = root Kids = {k1, k2} Ops = {o1, o2, o3} Entries = {e1} Picks = {{}, {e1}} Pinned = {}
CONSTANTS MaxVersion = 1 MaxDepth = 2 MaxBytes = 2 None = None
CHECK_DEADLOCK FALSE
INVARIANTS DrainsDescendants
