SPECIFICATION FairSpec
CONSTANTS
  old = old
  new = new
  job1 = job1
  Versions = {old, new}
  Latest = new
  Installed = old
  Requests <- MCRequests
  Updates = {1, 2}
  Jobs = {job1}
  FixedIds = {TRUE, FALSE}
  MaxStarts = 2
  MaxEvents = 2
INVARIANT TypeOK
INVARIANT CompletedRan
PROPERTY Recognised
PROPERTY UpdatesEnd
CHECK_DEADLOCK FALSE
