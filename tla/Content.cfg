SPECIFICATION MCSpec
CONSTANTS
  Topic = {t1, t2}
  Run = {d1, d2}
  Exec = {x1, x2}
  Screen = {q1, q2}
  Second = {"refused", "accepted"}
  None = None
  Browser = {b1}
  Nobody = Nobody
  Cap = 1
  PerCycle = 2
  Tries = 2
  MaxFaults = 1
  MaxAsked = 2
  t1 = t1
  t2 = t2
  d1 = d1
  d2 = d2
  x1 = x1
  x2 = x2
  j1 = j1
  j2 = j2
  p1 = p1
  f1 = f1
  f2 = f2
  r1 = r1
INVARIANTS NothingIsLeftOver AsManyAsAllowed
PROPERTIES DueIsServed EveryDiscoveryCloses PagesFollowTheAccount BrowserSettles
CHECK_DEADLOCK FALSE
