SPECIFICATION FairSpec
CONSTANTS
  NCores = 2
  Pids = {p1}
  Kinds = {"serial", "net"}
  MaxPort = 1
  MaxTag = 2
  MaxInput = 2
  N = 2
  RxSize = 1
  Window = 2
  NoPid = NoPid
  NoCore = NoCore
INVARIANTS
  InOnePlace
  NoOrphanPort
PROPERTIES
  CompletionArrives
  ReadIsAnswered
