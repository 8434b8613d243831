\* Command lines of the whole table, commands beside each other, index pushes.
SPECIFICATION Spec
CONSTANTS
  c1 = c1
  c2 = c2
  Clients = {c1, c2}
  Json <- Texts
  Scenarios <- TheScenarios
INVARIANTS
  TypeOK
  NamesItsObject
  CodeChecked
  DumpComplete
  RoundRobin
  OnlineWhole
  DeployTakes
PROPERTIES
  AddedMeansComplete
CHECK_DEADLOCK FALSE
