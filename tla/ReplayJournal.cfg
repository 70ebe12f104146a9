CONSTANTS
  Records = {1, 2, 3}
  Callers = {c1, c2}
  Closer = Closer
  None = None
  TTL = 2
  Quarantine = 2
  Retention = 2
  Capacity = 2
  Limit = 3
  MaxNow = 6
  Deadlines = {4, 6}
  MaxGeneration = 3
  MaxFaults = 2
SPECIFICATION Spec
INVARIANTS AtMostOnce AlwaysReadable ReceiptIsDurable
