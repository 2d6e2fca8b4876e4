SPECIFICATION Spec
CONSTANTS
  NCores = 2
  Pids = {p1, p2}
  p1 = p1
  p2 = p2
  Root = p1
  NoPid = NoPid
  Kinds = {"a"}
  Preds <- PredsSelective
  Timeouts = {}
  MaxMail = 1
  MaxRef = 1
  MaxGrow = 0
  Ops = {"spawn", "spawn_monitor", "monitor", "send", "recv", "exit"}
INVARIANTS
  NoLostWakeup
  
