\* Two tokens and any two faults at any point.  An administrator who has no
\* more tokens to install leaves a system that may be at rest.
CONSTANTS
  MaxTokens = 2
  MaxAttempts = 5
  MaxFaults = 2
  None = None
SPECIFICATION FairEnrollSpec
INVARIANTS EnrollTypeOK OneCredentialPerToken FaultCostsOneToken
PROPERTIES ConfigSound EnrollmentSettles
CHECK_DEADLOCK FALSE
