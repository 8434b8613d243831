\* One instance is moved under the write lock; a call of the commit may fail.
SPECIFICATION Spec
CONSTANTS
  pA = pA
  pB = pB
  n1 = n1
  n2 = n2
  n3 = n3
  Partitions = {pA, pB}
  Nodes = {n1, n2}
  MaxInstances = 3
  Placed <- OnePlaced
  Plans <- MixedPlans
  Regimes <- FailingOnce
PROPERTIES
  OnlyGoneForgotten
