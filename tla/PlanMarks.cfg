\* Two partitions leave a node in one plan.
SPECIFICATION Spec
CONSTANTS
  pA = pA
  pB = pB
  n1 = n1
  n2 = n2
  n3 = n3
  Partitions = {pA, pB}
  Nodes = {n1, n2}
  MaxInstances = 2
  Placed <- TwoPlaced
  Plans <- BothMove
  Regimes <- LockedOnce
INVARIANTS
  MarksOwnPartition
