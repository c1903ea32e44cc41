SPECIFICATION FairSpec
CONSTANTS
  Job = {j1}
  Run = {r1}
  Post = {p1, p2}
  NoPost = NoPost
  NoJob = NoJob
  Original = Original
  NoContent = NoContent
  JobRunTries = 2
  PostTries = 2
  BatchSize = 2
  MaxFaults = 1
  Outcome = {"no_change", "thrown"}
  Env = {"crash"}
INVARIANTS OneItemPerPost ClosedRunIsRight
PROPERTIES EverySentRunCloses
CHECK_DEADLOCK FALSE
