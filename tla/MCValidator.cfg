SPECIFICATION Spec
CONSTANTS
  a1 = a1
  a2 = a2
  l1 = l1
  l2 = l2
  c1 = c1
  s1 = s1
  None = None
  Authors = {a1, a2}
  Labels = {l1, l2}
  Comments = {c1}
  Statuses = {s1}
  MaxPrefix = 2
  MaxAge = 2
  Sections <- SomeSections
INVARIANTS
  TypeOK
  SelectsDeciding
  StrictOutranks
  HandlerDropsOnlyHopeless
PROPERTIES
  GainsKeepAcceptance
