SPECIFICATION FairSpec
CONSTANTS
  Brief = {b1}
  Run = {r1, r2}
  NoBrief = NoBrief
  NoPost = NoPost
  Tries = 2
  MaxFaults = 1
  Outcome = {"ready", "validation_failed", "refused", "thrown"}
  Env = {"crash", "db", "dup", "regenerate"}
PROPERTIES SuccessMeansDelivered EveryGenerationSettles
CHECK_DEADLOCK FALSE
