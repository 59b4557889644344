SPECIFICATION FairSpec
CONSTANTS
  img1 = img1
  node1 = node1
  job1 = job1
  job2 = job2
  Images = {img1}
  Nodes = {node1}
  ImageOf <- MCImageOf
  Settings <- MCSettings
  Jobs = {job1, job2}
  Limit = 2
  MaxRetries = 2
  MaxEvents = 1
INVARIANT TypeOK
INVARIANT Honest
PROPERTY JobsEnd
PROPERTY Served
