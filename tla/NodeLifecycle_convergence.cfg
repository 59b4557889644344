SPECIFICATION FairSpec
CONSTANTS
  Nodes = {n1}
  Slots = {j1}
  MaxRetries = 2
  DeployAttempts = 2
  MaxJobRetries = 1
  EventQueue = 0
  MaxUser = 1
  MaxFaults = 1
  MaxOutages = 1
  MaxTimeouts = 0
  MaxRestarts = 1
  MaxDisruptions = 1
PROPERTY Converges
PROPERTY JobsEnd
PROPERTY LabFollows
CHECK_DEADLOCK FALSE
