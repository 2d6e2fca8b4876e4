SPECIFICATION FairSpec
CONSTANTS
  NCores = 2
  Pids = {p1}
  p1 = p1
  Root = p1
  NoPid = NoPid
  Kinds = {"a"}
  Preds <- PredsSleep
  Timeouts = {0,1}
  MaxMail = 1
  MaxRef = 0
  MaxGrow = 1
  Ops = {"send", "recv", "full", "grow"}
INVARIANTS
  TypeOK
  SleeperHasTimer
PROPERTIES
  TimedReceiveReturns
