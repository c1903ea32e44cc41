SPECIFICATION Spec
CONSTANTS
  Job = {j1}
  Run = {r1}
  Post = {p1}
  NoPost = NoPost
  NoJob = NoJob
  Original = Original
  NoContent = NoContent
  JobRunTries = 2
  PostTries = 1
  BatchSize = 1
  MaxFaults = 1
  Outcome = {"ready", "skipped", "thrown"}
  Env = {"overrun", "db", "dup", "drift"}
INVARIANTS SkippedWasProcessed UpdatedWasWritten
CHECK_DEADLOCK FALSE
