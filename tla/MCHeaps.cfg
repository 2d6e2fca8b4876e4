SPECIFICATION Spec
SYMMETRY ProcSymmetry
CONSTANTS
  WordBytes = 2
  Procs = {p, q}
  p = p
  q = q
  NRegs = 2
  Arg <- One
  KeyPairs <- SomeKeys
  Blobs <- Blob
  NFrames = 6
  PageWords = 4
  InitialPages = 1
  MaxPages = 4
  MinCompact = 1
  Slack = 0
  Operands <- Pairs
  MaxMail = 2
  MaxOps = 5
INVARIANTS NeverPanics NoDangling FramesDivided ReadsAreExact
PROPERTY IsValues
CHECK_DEADLOCK FALSE
