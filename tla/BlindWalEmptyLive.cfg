CONSTANTS
  Requests = {r1, r2, r3}
  Genesis = Genesis
  Torn = Torn
  SegmentFrames = 2
  PruneOverEmptyLive = TRUE
SPECIFICATION Spec
SYMMETRY Symmetry
CHECK_DEADLOCK FALSE
INVARIANT AlwaysOpenable
