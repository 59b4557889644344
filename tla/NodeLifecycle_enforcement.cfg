SPECIFICATION Spec
CONSTANTS
  Nodes = {n1}
  Slots = {j1, j2}
  MaxRetries = 2
  DeployAttempts = 1
  MaxJobRetries = 0
  EventQueue = 0
  MaxUser = 1
  MaxFaults = 0
  MaxOutages = 0
  MaxTimeouts = 0
  MaxRestarts = 1
  MaxDisruptions = 1
SYMMETRY Symmetry
INVARIANT BatchStillDue
INVARIANT OneBatchJob
PROPERTY FailedUntilReset
PROPERTY BudgetSpec
CHECK_DEADLOCK FALSE
