SPECIFICATION FairSpec
CONSTANTS
  port1 = port1
  port2 = port2
  vm1 = vm1
  s1 = s1
  s2 = s2
  Containers = {port1, port2}
  Machines = {vm1}
  Lab <- MCLab
  Isolated = {1, 2}
  Linked = {3}
  Slots = {s1, s2}
  MaxEvents = 5
  MaxBare = 1
  MaxFaults = 1
CHECK_DEADLOCK FALSE
INVARIANT TypeOK
INVARIANT NoStray
PROPERTY Fresh
PROPERTY Served
