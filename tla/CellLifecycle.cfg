CONSTANTS
  Slots = {1}
  Spends = {1}
  None = None
  LeaseEpochs = 1
  Grace = 0
  Horizon = 1
  MaxJump = 1
  Clients = {c1}
  Timer = Timer
  Ops = {"put", "atomic", "tick"}
  Creates <- Repeated
  Objects = {1, 2}
  MaxEpoch = 1
  Quota <- Ample
  MaxFaults = 1
  Serial = TRUE
  Aborts = FALSE
  Rollover = FALSE
  MaxSnapshots = 1
SPECIFICATION LFairSpec
PROPERTIES ReservationsSettle SnapshotQuiet SnapshotEnds CloseEnds
