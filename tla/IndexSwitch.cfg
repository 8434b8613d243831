\* One switch, nothing fails.
SPECIFICATION Spec
CONSTANTS
  c1 = c1
  c2 = c2
  Clients = {c1, c2}
  Json <- Texts
  Scenarios <- SwitchScenario
INVARIANTS
  SwitchBacksUp
CHECK_DEADLOCK FALSE
