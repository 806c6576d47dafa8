\* Terminal reports are lost, but not all the attempts of one report.
CONSTANTS
  Nodes = {n1}
  Vms = {v1}
  Pooled = {}
  Operators = {op1}
  Addrs = {}
  Capacity = 0
  NoVm = NoVm
  NoTask = NoTask
  NoAddr = NoAddr
  MaxAttempts = 3
  LongErrors = FALSE
  MaxTasks = 2
  Lossy = {"terminal"}
  MaxLosses = 2
  MaxKills = 0
SPECIFICATION FairFleetSpec
PROPERTIES RunningTaskEnds QueuedTaskEnds
