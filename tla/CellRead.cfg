CONSTANTS
  Slots = {1}
  Spends = {1, 2}
  None = None
  LeaseEpochs = 1
  Grace = 0
  Horizon = 2
  MaxJump = 1
  Clients = {c1, c2}
  Timer = Timer
  Ops = {"atomic", "read", "charged", "drop", "policy", "tick"}
  Creates <- Repeated
  Objects = {1, 2}
  MaxEpoch = 1
  Quota <- Ample
  MaxFaults = 0
  Serial = TRUE
  Aborts = FALSE
  Rollover = TRUE
SPECIFICATION Spec
SYMMETRY Symmetry
INVARIANT Sound
PROPERTY ServesLive
