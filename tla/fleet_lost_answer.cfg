\* The answer to one Running report is lost.
CONSTANTS
  Nodes = {n1}
  Vms = {v1}
  Pooled = {}
  Operators = {op1}
  Addrs = {}
  Capacity = 0
  NoVm = NoVm
  NoTask = NoTask
  NoAddr = NoAddr
  MaxAttempts = 3
  LongErrors = FALSE
  MaxTasks = 1
  Lossy = {"running"}
  MaxLosses = 1
  MaxKills = 0
SPECIFICATION FairFleetSpec
PROPERTY RunningTaskEnds
