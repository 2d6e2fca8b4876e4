SPECIFICATION Spec
CONSTANTS
  a = a
  b = b
  Names <- TwoNames
  Procs = {p, q}
  Booted = {p}
  Loaders = {l, k}
  Kinds <- LoadKinds
  MaxLoads = 3
  MaxFrames = 2
  MaxCalls = 2
  MaxPurges = 1
SYMMETRY Symmetry
CHECK_DEADLOCK FALSE
INVARIANTS BoundIsKept VersionsDistinct 
