SPECIFICATION FairSpec
CONSTANTS
  w1 = w1
  t1 = t1
  t2 = t2
  NoOne = NoOne
  Webs = {w1}
  Tasks = {t1}
  Askers = {t1}
  Retries = 1
  MaxBoots = 1
CHECK_DEADLOCK FALSE
PROPERTY LaterIsNotDone
