SPECIFICATION FairSpec
CONSTANTS
  w1 = w1
  t1 = t1
  t2 = t2
  NoOne = NoOne
  Webs = {w1}
  Tasks = {t1, t2}
  Askers = {t2}
  Retries = 1
  MaxBoots = 2
INVARIANT TypeOK
INVARIANT OneDriver
PROPERTY TasksEnd
PROPERTY Restored
CHECK_DEADLOCK FALSE
