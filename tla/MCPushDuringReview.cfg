SPECIFICATION Spec
CONSTANTS
  p1 = p1
  p2 = p2
  r1 = r1
  r2 = r2
  r3 = r3
  None = None
  PRs = {p1}
  Runs = {r1}
  prOf <- OfRun
  Serial = TRUE
  HasBaseline = TRUE
  Required = FALSE
  CfgStatuses = FALSE
  Policies <- FullPolicy
  MainCI = FALSE
  Timely = TRUE
  Reruns <- NoResult
  MaxRerun = 0
  MaxRev = 1
  MaxMain = 0
  MaxTip = 2
PROPERTIES
  MergedIsGreen
CHECK_DEADLOCK FALSE
