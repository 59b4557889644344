SPECIFICATION FairSpec
CONSTANTS
  Jobs = {j1, j2, j3}
  NoJob = NoJob
  Tries <- FewTries
  MaxRetries = 1
  MaxCommands = 2
  MaxTroubles = 1
CHECK_DEADLOCK FALSE
INVARIANT TypeOK
INVARIANT OneOperation
PROPERTY JobsEnd
PROPERTY RequestsEnd
PROPERTY LabTruthful
