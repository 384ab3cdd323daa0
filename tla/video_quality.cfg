SPECIFICATION Spec
CONSTANTS Files = {f1, f2} End = 2 None = None
CHECK_DEADLOCK FALSE
INVARIANTS QualityKeepsPosition
