SPECIFICATION WSpec
CONSTANTS
  t1 = t1
  p1 = p1
  s1 = s1
  none = none
  None <- none
  Tabs <- OneTab
  Projects <- OneProject
  Sessions <- OneSession
  MaxRequests = 2
  MaxTime = 1
  MaxLives = 2
INVARIANT FreshProjectFreshChat
CHECK_DEADLOCK FALSE
