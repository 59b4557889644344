SPECIFICATION Spec
CONSTANTS
  Nodes = {n1, n2}
  Slots = {j1}
  MaxRetries = 1
  DeployAttempts = 1
  MaxJobRetries = 1
  EventQueue = 0
  MaxUser = 0
  MaxFaults = 1
  MaxOutages = 0
  MaxTimeouts = 0
  MaxRestarts = 0
  MaxDisruptions = 0
SYMMETRY Symmetry
PROPERTY BudgetSpec
CHECK_DEADLOCK FALSE
