\* Moves of one partition and a new layer beside it: under the write lock, with a
\* layer that may never come up, and without a lock.
SPECIFICATION FairSpec
CONSTANTS
  pA = pA
  pB = pB
  n1 = n1
  n2 = n2
  n3 = n3
  Partitions = {pA, pB}
  Nodes = {n1, n2, n3}
  MaxInstances = 7
  Placed <- OnePlaced
  Plans <- MovePlans
  Regimes <- MovesRegime
INVARIANTS
  KeepsServing
PROPERTIES
  PlanCompletes
  OthersStart
  ConnectionFollows
