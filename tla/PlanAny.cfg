\* Two partitions, one of them a new layer; every kind of line; four regimes.
SPECIFICATION Spec
CONSTANTS
  pA = pA
  pB = pB
  n1 = n1
  n2 = n2
  n3 = n3
  Partitions = {pA, pB}
  Nodes = {n1, n2}
  MaxInstances = 7
  Placed <- OnePlaced
  Plans <- MixedPlans
  Regimes <- AnyRegime
INVARIANTS
  TypeOK
  ListsDisjoint
  PlacedOnce
  StartedUnderLock
PROPERTIES
  ImplementsInstances
  ForgotByMishap
  NoResurrection
  OnlyCondemnedDeleted
