SPECIFICATION Spec
CONSTANTS
  p1 = p1
  p2 = p2
  r1 = r1
  r2 = r2
  r3 = r3
  None = None
  PRs = {p1}
  Runs = {r1}
  prOf <- OfRun
  Serial = FALSE
  HasBaseline = FALSE
  Required = TRUE
  CfgStatuses = TRUE
  Policies <- SomePolicies
  MainCI = FALSE
  Timely = FALSE
  Reruns <- AnyResult
  MaxRerun = 1
  MaxRev = 1
  MaxMain = 1
  MaxTip = 2
PROPERTIES
  MergedIsReviewed
  PolicyHeldDuringRun
  ReviewsEnd
CHECK_DEADLOCK FALSE
