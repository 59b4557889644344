SPECIFICATION FairSpec
CONSTANTS
  l1 = l1
  l2 = l2
  e1 = e1
  e2 = e2
  e3 = e3
  h1 = h1
  h2 = h2
  Links = {l1, l2}
  Endpoints = {e1, e2, e3}
  Hosts = {h1, h2}
  Source <- MCSource
  Target <- MCTarget
  Host <- MCHost
  HealEvery = 2
  MaxEvents = 1
  MaxFaults = 1
CHECK_DEADLOCK FALSE
PROPERTY Settles
PROPERTY Vanishes
INVARIANT TypeOK
INVARIANT ReservedByRow
