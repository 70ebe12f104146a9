CONSTANTS
  Clients = {c1, c2, c3}
  Keys = {1, 2, 3}
  Leaves = {2}
  None = None
SPECIFICATION FairSpec
PROPERTIES Granted LocksSpec
