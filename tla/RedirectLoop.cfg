SPECIFICATION FairSpec
CONSTANTS
  Request = {r1}
  Browser = {b1}
  MaxTokens = 1
  MaxClock = 4
  Env = {"reset"}
  Nobody = Nobody
PROPERTIES EveryBrowserSettles
CHECK_DEADLOCK FALSE
