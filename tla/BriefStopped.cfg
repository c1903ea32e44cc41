SPECIFICATION Spec
CONSTANTS
  Brief = {b1}
  Run = {r1}
  NoBrief = NoBrief
  NoPost = NoPost
  Tries = 1
  MaxFaults = 1
  Outcome = {"ready", "validation_failed", "thrown"}
  Env = {"keyed", "cancel"}
INVARIANTS StoppedBriefCanGo
CHECK_DEADLOCK FALSE
