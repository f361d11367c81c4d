SPECIFICATION Spec
CONSTANTS
  a = a
  b = b
  p1 = p1
  p2 = p2
  p3 = p3
  p4 = p4
  q1 = q1
  None = None
  Malformed = Malformed
  Repos = {a, b}
  PRs = {p1, p2, p3, p4, q1}
  repoOf <- OfRepo
  Installations <- TwoInstallations
  UserRepos <- BothRepos
  Endpoint = 1
  Open0 <- OpenAtStart
  PageSize = 2
  RepoPage = 1
  MayClose = {a, b}
INVARIANTS
  NobodyForgotten
CHECK_DEADLOCK FALSE
