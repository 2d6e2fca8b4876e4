SPECIFICATION Spec
CONSTANTS
  NCores = 3
  MaxBuf = 3
  NoBuf = NoBuf
INVARIANT TakenOnce
PROPERTY PinHolds
