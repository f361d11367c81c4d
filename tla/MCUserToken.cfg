SPECIFICATION Spec
CONSTANTS
  r1 = r1
  r2 = r2
  None = None
  Reviews = {r1, r2}
  MaxTokens = 4
INVARIANTS
  TypeOK
  SpentHasSuccessor
  SentOnlyStored
PROPERTIES
  StoreNeverGoesBack
  SpentIsReplaced
