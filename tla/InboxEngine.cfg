CONSTANTS
  Topics = {1}
  Spends = {1, 2, 3, 4, 5}
  None = None
  Lease = 1
  Retention = 1
  Grace = 1
  MaxStep = 1
  Clients = {c1, c2}
  Timer = Timer
  Requests <- Traffic
  Objects = {1, 2, 3}
  MaxEpoch = 4
  Quota <- Ample
  PageLimit = 2
  MaxFaults = 1
  MaxCalls = 3
SPECIFICATION Spec
SYMMETRY Symmetry
CHECK_DEADLOCK FALSE
INVARIANTS AccountingExact AckedAppendKept  NoLostWakeup PinsHold LeaseHonoured
PROPERTIES  GapFreezes
