SPECIFICATION Spec
CONSTANTS
  p1 = p1
  p2 = p2
  r1 = r1
  r2 = r2
  r3 = r3
  None = None
  PRs = {p1, p2}
  Runs = {r1, r2, r3}
  prOf <- OfRun
  Serial = TRUE
  HasBaseline = TRUE
  Required = FALSE
  CfgStatuses = FALSE
  Policies <- FullPolicy
  MainCI = TRUE
  Timely = TRUE
  Reruns <- JustFailed
  MaxRerun = 1
  MaxRev = 0
  MaxMain = 0
  MaxTip = 2
INVARIANTS
  TypeOK
  ApprovedIsAnswered
PROPERTIES
  ImplementsMergeTrain
  MergedIsApproved
  NothingOnRedMain
CHECK_DEADLOCK FALSE
