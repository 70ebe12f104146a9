CONSTANTS
  Slots = {1}
  Spends = {1, 2}
  None = None
  LeaseEpochs = 1
  Grace = 0
  Horizon = 1
  MaxJump = 1
  Clients = {c1, c2}
  Timer = Timer
  Ops = {"put", "refresh"}
  Creates <- Contended
  Objects = {1, 2}
  MaxEpoch = 2
  Quota <- Ample
  MaxFaults = 1
  Serial = TRUE
  Aborts = TRUE
  Rollover = FALSE
SPECIFICATION Spec
SYMMETRY Symmetry
INVARIANTS Sound AckedPutDurable AttemptsBounded
