SPECIFICATION PartSpec
CONSTANTS Root = root Kids = {k1, k2} Ops = {o1, o2} Entries = {e1, e2} MaxVersion = 1 MaxDepth = 2 MaxBytes = 3
CONSTANTS e1 = e1 e2 = e2 Picks <- AnyPick Pinned = {k2}
CONSTANTS Files = {f1, f2} Readers = {r1, r2} Transfers = {t1, t2, t3} MaxReaders = 2 MaxRetries = 1 Large = 2
CONSTANTS Jobs = {j1, j2} Torrents = {j1} MaxFaults = 1 None = None
INVARIANTS NoOrphans ChainFits DrainedFirst NothingLost TorrentsHaveOwners 
 
