SPECIFICATION Spec
CONSTANTS
  FrameSize = 2
  Memmap <- TwoRegions
  Storage = 3
  Sizes = {1, 2, 3}
  Aligns = {1, 2, 4}
  None = None
  NoCall = NoCall
INVARIANTS FreeExact OneOwner
PROPERTY IsFreeSet
