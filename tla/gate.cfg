\* Two agents whose requests arrive in any number of copies, retained no
\* longer than needed.
CONSTANTS
  r1 = r1
  r2 = r2
  n1 = n1
  n2 = n2
  Nodes = {n1, n2}
  Requests = {r1, r2}
  Sender <- SenderOf
  Handlers = {h1, h2}
  TicksPerSecond = 2
  Window = 2
  Retention = 5
  Skew = 1
  Delay = 1
  LimiterWindow = 3
  Limit = 2
  MaxTime = 8
  Unsent = Unsent
SYMMETRY Symmetry
SPECIFICATION GateSpec
INVARIANTS GateTypeOK AppliedAtMostOnce ChargesBounded
