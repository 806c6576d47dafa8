\* Nothing is lost, but a host command fails with a long error text.
CONSTANTS
  Nodes = {n1}
  Vms = {v1}
  Pooled = {}
  Operators = {op1}
  Addrs = {}
  Capacity = 0
  NoVm = NoVm
  NoTask = NoTask
  NoAddr = NoAddr
  MaxAttempts = 3
  LongErrors = TRUE
  MaxTasks = 1
  Lossy = {}
  MaxLosses = 0
  MaxKills = 0
SPECIFICATION FairFleetSpec
PROPERTY RunningTaskEnds
