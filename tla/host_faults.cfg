\* Any three commands or file operations fault, the
\* agent may be killed anywhere.  A deleted VM, and one whose agent was
\* killed, is at the end of its history.
CONSTANTS
  Absent = Absent
  Torn = Torn
  MaxTasks = 5
  MaxFaults = 3
  None = None
  MaxUnsigned = 2048
  MaxSigned = 1024
  MaxVmCount = 7
SPECIFICATION HostSpec
INVARIANTS HostTypeOK RunningVmIsWhole DefinedDomainKeepsArtifacts DeletedLeavesNothing FailedCreateIsRecoverable DefinedVmHoldsAddress
PROPERTY RunningDiskUntouched
CHECK_DEADLOCK FALSE
