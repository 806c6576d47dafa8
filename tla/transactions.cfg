\* Two connections, two nodes that share a pool of two addresses.
CONSTANTS
  Nodes = {n1, n2}
  Vms = {v1, v2}
  Pooled = {v1, v2}
  Operators = {c1, c2}
  MaxTasks = 2
  Addrs <- TwoAddresses
  Capacity = 1
  NoVm = NoVm
  NoTask = NoTask
  NoAddr = NoAddr
SYMMETRY Symmetry
SPECIFICATION TransactionsSpec
INVARIANTS SessionTypeOK OnlyReusedIdsDeadlock
PROPERTIES AtomicHandlers DisabledNodeGetsNoWork CreationsFitNode
