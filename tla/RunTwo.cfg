SPECIFICATION Spec
CONSTANTS
  Job = {j1}
  Run = {r1, r2}
  Post = {p1}
  NoPost = NoPost
  NoJob = NoJob
  Original = Original
  NoContent = NoContent
  JobRunTries = 1
  PostTries = 1
  BatchSize = 1
  MaxFaults = 0
  Outcome = {"ready", "skipped", "no_change", "thrown"}
  Env = {"cancel", "suspend", "retry", "restore", "delete"}
INVARIANTS TypeOK WritesCanBeUndone
PROPERTIES KeepsLedger
CHECK_DEADLOCK FALSE
