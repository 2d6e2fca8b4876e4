SPECIFICATION FairSpec
CONSTANTS
  NCores = 2
  Pids = {p1, p2}
  p1 = p1
  p2 = p2
  Root = p1
  NoPid = NoPid
  Kinds = {"a"}
  Preds <- PredsAny
  Timeouts = {}
  MaxMail = 1
  MaxRef = 0
  MaxGrow = 0
  Ops = {"spawn_link", "kill", "recv"}
PROPERTIES
  KilledIsReaped
  RunnableRuns
