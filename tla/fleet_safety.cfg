\* Every exchange may time out, its request arriving late or never, and the
\* agent may be killed at any point.
CONSTANTS
  Nodes = {n1}
  Vms = {v1}
  Pooled = {}
  Operators = {op1}
  Addrs = {}
  Capacity = 0
  NoVm = NoVm
  NoTask = NoTask
  NoAddr = NoAddr
  MaxAttempts = 3
  LongErrors = TRUE
  MaxTasks = 3
  Lossy = {"heartbeat", "poll", "start_log", "running", "terminal"}
  MaxLosses = 1
  MaxKills = 1
SPECIFICATION FleetSpec
INVARIANTS FleetTypeOK HostWorkAtMostOnce HostWorkIsReserved HistoryIsTruthful
