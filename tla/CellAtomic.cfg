CONSTANTS
  Slots = {1, 2}
  Spends = {1, 2}
  None = None
  LeaseEpochs = 1
  Grace = 0
  Horizon = 1
  MaxJump = 1
  Clients = {c1, c2}
  Timer = Timer
  Ops = {"atomic", "refresh", "confirm", "compact"}
  Creates <- Separate
  Objects = {1, 2, 3}
  MaxEpoch = 3
  Quota <- OneBody
  MaxFaults = 1
  Serial = FALSE
  Aborts = FALSE
  Rollover = TRUE
SPECIFICATION Spec
SYMMETRY Symmetry
INVARIANTS AckedPutDurable BytesWithinQuota
