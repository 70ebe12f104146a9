CONSTANTS
  Slots = {1}
  Spends = {1}
  None = None
  LeaseEpochs = 1
  Grace = 0
  Horizon = 1
  MaxJump = 1
  Clients = {c1, c2}
  Timer = Timer
  Ops = {"atomic", "refresh"}
  Creates <- Repeated
  Objects = {1, 2}
  MaxEpoch = 2
  Quota <- Ample
  MaxFaults = 0
  Serial = FALSE
  Aborts = FALSE
  Rollover = FALSE
SPECIFICATION Spec
SYMMETRY Symmetry
INVARIANT RecoveryPossible
