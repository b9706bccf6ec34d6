SPECIFICATION Spec
CONSTANTS
  t1 = t1
  t2 = t2
  p1 = p1
  p2 = p2
  s1 = s1
  s2 = s2
  none = none
  None <- none
  Tabs <- OneTab
  Projects <- TwoProjects
  Sessions <- TwoSessions
  MaxRequests = 2
  MaxTime = 1
INVARIANT DeletedForGood
