SPECIFICATION PartSpec
CONSTANTS v1 = v1 v2 = v2 b1 = b1 p1 = p1 low = low high = high audio = audio c1 = c1 c2 = c2 None = None
CONSTANTS Requests = {v1, v2, b1} Background = {b1} Windows = {0, 1} Wants <- WantsOf
CONSTANTS Videos <- TwoVideos Plays = {p1} Budget = 2 Callers = {c1, c2} Limit = 2
CONSTANTS Encodings = {"e1", "e2"} AudioOnly = {"e3"} Segments = 2 InNewDirectory = {"e2"}
INVARIANTS OneEncoder ReadyIsPublished EncodersUndisturbed ServedStays ServedWhole StaysDisabled
PROPERTIES MediaSettles
