SPECIFICATION FairSpec
CONSTANTS
  Edit = {e1}
  Swap = {s1, s2}
  Original = Original
  Visitor = Visitor
  NoImage = NoImage
  MaxAsked = 2
  MaxFaults = 1
PROPERTIES SwapsAreProtected EverySwapCloses
CHECK_DEADLOCK FALSE
