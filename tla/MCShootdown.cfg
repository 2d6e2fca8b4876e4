SPECIFICATION FairSpec
CONSTANTS
  NCores = 3
  NSlots = 2
  Spans = {f1, f2}
  NoSpan = NoSpan
  NoCore = NoCore
  NoSlot = NoSlot
PROPERTY StackReturned
INVARIANTS NoStaleTranslation NothingSharedOrLost
