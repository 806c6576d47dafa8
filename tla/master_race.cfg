\* Two administrators whose requests overlap in every way, and a catalogue
\* that changes meanwhile.
CONSTANTS
  Nodes = {n1}
  Vms = {v1}
  Pooled = {v1}
  Operators = {op1, op2}
  MaxTasks = 3
  Addrs <- FirstAddress
  Capacity = 0
  NoVm = NoVm
  NoTask = NoTask
  NoAddr = NoAddr
  None = None
  Plans <- OnePlan
  PlanOf <- PlanOrder
  Images <- OneImage
  TitleOf <- OneTitle
  Pool <- SmallPool
  Orders <- TwoOrders
SYMMETRY Symmetry
SPECIFICATION CatalogueSpec
INVARIANTS AddressRecordsAgree CatalogueTypeOK PayloadsAreCarriedOut
PROPERTIES FinishedTaskIsImmutable DisabledPlanGetsNoVm
