SPECIFICATION Spec
CONSTANTS
  w1 = w1
  w2 = w2
  c1 = c1
  Workflows = {w1, w2}
  Contexts = {c1}
  Conclusions = {"success", "failure"}
  Calls <- SomeCalls
  MaxRuns <- RunsOf
  MaxInt32 = 12
INVARIANTS
  TypeOK
  OverdueOnlyForRunning
  GivesUpInTime
PROPERTIES
  PassedIsSettled
CHECK_DEADLOCK FALSE
