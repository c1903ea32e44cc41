SPECIFICATION MCSpec
CONSTANTS
  Process = {"worker", "panel"}
  Key = {k1, k2}
  Request = {q1}
  Owner <- OwnerDef
  TTL = 2
  MaxTime = 4
  MaxCommits = 1
  None = None
  Browser = {b1}
  Nobody = Nobody
  r1 = r1
  r2 = r2
  Work = {w1, w2}
  MaxHits <- MaxHitsDef
  Window = 2
  Hook = {h1}
  s1 = s1
  s2 = s2
  Attempt = {a1, a2}
  Builtin = "builtin"
  Own = "own"
  Copy = "copy"
  Locale = {"pt", "en"}
  Day = {"mon", "tue"}
  Order <- OrderDef
  Purpose = {"generate", "illustrate"}
INVARIANTS StalenessBounded OldCredentialsEnd ChargedAsPaid LimitsHold PanelKnowsWorker FormsKeepWhatIsThere TemplatesKeepTheirWord
CHECK_DEADLOCK FALSE
