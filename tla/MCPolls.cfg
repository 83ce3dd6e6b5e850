SPECIFICATION MCSpec
CONSTANTS
  tip = tip
  x = x
  y = y
  z = z
  p = p
  t1 = t1
  t2 = t2
  t3 = t3
  NULL = NULL
  Task <- MCTask
  RemoveSelf = FALSE
  System = System
  Timer <- MCTimer
  Waits <- MCWaits
  Always <- MCAlways
  Programs <- MCPrograms
  MaxDepth = 2
  MaxKills = 2
  KillSaved = FALSE
  Overwrites = FALSE
INVARIANTS
  CallsLiveTimers
PROPERTIES
  DueIsServed
  OrderSpec
  RunsOnce
