SPECIFICATION Spec
CONSTANTS
  a = a
  p1 = p1
  p2 = p2
  d1 = d1
  d2 = d2
  None = None
  Null = Null
  Repos = {a}
  PRs = {p1, p2}
  Refs = {"main", "master"}
  refOf <- RefOf
  OrgRef = "main"
  Keys = {"k", "l"}
  Slots = {d1, d2}
  repoOf <- OfRepo
  Files <- OwnFiles
  OrgFiles <- OwnerFiles
  MaxEdits = 1
  MaxTrouble = 1
INVARIANT
  TypeOK
PROPERTIES
  MergedAsConfigured
  OneEventIsEnough
  HealedByDispatch
