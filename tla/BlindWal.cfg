CONSTANTS
  Requests = {r1, r2, r3}
  Genesis = Genesis
  Torn = Torn
  SegmentFrames = 2
  PruneOverEmptyLive = FALSE
SPECIFICATION FairSpec
CHECK_DEADLOCK FALSE
INVARIANTS AlwaysOpenable StateIsLog RefusedStaysOut BarrierSeesDurableHead
PROPERTIES PruneRespectsHorizon HistorySpec Settles CloseCompletes
