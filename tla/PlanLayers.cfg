\* The cron job commits under -s while a new layer is being added.
SPECIFICATION Spec
CONSTANTS
  pA = pA
  pB = pB
  n1 = n1
  n2 = n2
  n3 = n3
  Partitions = {pA, pB}
  Nodes = {n1, n2}
  MaxInstances = 2
  Placed <- OnePlaced
  Plans <- NewLayers
  Regimes <- UnlockedOnce
INVARIANTS
  StartedWasUp
