SPECIFICATION Spec
CONSTANTS
  Brief = {b1}
  Run = {r1, r2}
  NoBrief = NoBrief
  NoPost = NoPost
  Tries = 1
  MaxFaults = 1
  Outcome = {"ready", "validation_failed", "thrown"}
  Env = {"overrun", "slow", "suspend", "keyed", "dup", "cancel", "edit", "regenerate", "publish", "delete"}
INVARIANTS TypeOK OnePostPerBrief PublishedIsPublic
PROPERTIES DeliveredStays
CHECK_DEADLOCK FALSE
