SPECIFICATION Spec
CONSTANTS
  IntBits = 4
  HalfBits = 3
  MaxByte = 1
  MaxBuf = 2
  Cases <- AllCases
  MaxNative = 3
  MaxDepth = 4
  MaxLog = 3
  MaxSince = 7
CHECK_DEADLOCK FALSE
INVARIANTS DecodersAgree LoadsWhole  SentinelContained EnginesAgree PollsOften
