\* Admissions one at a time: one administrator, two VMs that compete for the
\* only address of the pool.
CONSTANTS
  Nodes = {n1}
  Vms = {v1, v2}
  Pooled = {v1, v2}
  Operators = {op1}
  MaxTasks = 4
  Addrs = {a1}
  Capacity = 2
  NoVm = NoVm
  NoTask = NoTask
  NoAddr = NoAddr
SYMMETRY Symmetry
SPECIFICATION Spec
INVARIANTS TypeOK ActiveTaskHoldsVm TransientWhileTaskActive AddressRecordsAgree
PROPERTIES DeletedIsFinal ReservationSpec
