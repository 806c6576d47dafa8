\* The reservation that overlapping admissions are documented to respect.
CONSTANTS
  Nodes = {n1}
  Vms = {v1}
  Pooled = {}
  Operators = {op1, op2}
  MaxTasks = 3
  Addrs = {}
  Capacity = 0
  NoVm = NoVm
  NoTask = NoTask
  NoAddr = NoAddr
SPECIFICATION Spec
INVARIANT ActiveTaskHoldsVm
