SPECIFICATION Spec
CONSTANTS
  Callers = {c1, c2}
  Values = {v1, v2}
  Genesis = v1
  MaxRevision = 2
  MaxQueue = 1
  MaxMediaFaults = 1
  MaxUnsynced = 2
  MaxTemps = 1
SYMMETRY Symmetry
INVARIANTS AlwaysLoadable 
PROPERTIES NoLostUpdate RegisterSpec
