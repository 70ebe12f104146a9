CONSTANTS
  Slots = {1}
  Spends = {1, 2}
  None = None
  LeaseEpochs = 1
  Grace = 0
  Horizon = 1
  MaxJump = 1
  Clients = {c1, c2}
  Timer = Timer
  Ops = {"atomic", "refresh", "gc", "renew", "drop", "compact", "confirm", "scrub", "read", "corrupt"}
  Creates <- Ahead
  Objects = {1, 2}
  MaxEpoch = 3
  Quota <- Ample
  MaxFaults = 1
  Serial = TRUE
  Aborts = FALSE
  Rollover = FALSE
SPECIFICATION Spec
SYMMETRY Symmetry
INVARIANTS Sound NoResurrection LeaseHonoured GapReadOnly
