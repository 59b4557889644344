SPECIFICATION Spec
CONSTANTS
  Nodes = {n1}
  Slots = {j1}
  MaxRetries = 1
  DeployAttempts = 1
  MaxJobRetries = 1
  EventQueue = 3
  MaxUser = 1
  MaxFaults = 0
  MaxOutages = 0
  MaxTimeouts = 1
  MaxRestarts = 1
  MaxDisruptions = 1
SYMMETRY Symmetry
INVARIANT TypeOK
INVARIANT EnforcementBounded
CHECK_DEADLOCK FALSE
