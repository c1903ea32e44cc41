SPECIFICATION MCSpec
CONSTANTS
  Brief = {b1}
  Run = {r1}
  NoBrief = NoBrief
  NoPost = NoPost
  Tries = 2
  MaxFaults = 1
  Outcome = {"ready", "validation_failed"}
  Env = {"keyed", "crash", "overrun", "db", "lost", "suspend", "slow", "cancel",
         "delete"}
  NoImage = "none"
  Discovery = d1
  Stages = 2
  Optional = {1}
  MinSources = 2
  Budget = 2
  Workers = 2
  CallsOfAPost = 2
  g1 = g1
  h1 = h1
  h2 = h2
  h3 = h3
  i1 = i1
  i2 = i2
  i3 = i3
  v1 = v1
  v2 = v2
  a1 = a1
  n1 = n1
  n2 = n2
  m1 = m1
  m2 = m2
INVARIANTS SuccessHasPost TopicsStayApart PanelTellsTheRun CallsAreHonest PicturesAreJudged PublishedIsBacked SpendBounded  PostIsLaidOut
PROPERTIES ClosedStaysClosed 
CHECK_DEADLOCK FALSE
