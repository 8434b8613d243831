\* Three nodes, up to three partitions; the planner stops when it is done.
SPECIFICATION Spec
CONSTANTS
  p1 = p1
  p2 = p2
  p3 = p3
  m1 = m1
  m2 = m2
  m3 = m3
  m4 = m4
  Partitions = {p1, p2, p3}
  Nodes = {m1, m2, m3}
  Position <- Order
  failure_domain <- TwoDomains
  type <- Types
  Dumps <- AllDumps
  MaxActions = 12
CHECK_DEADLOCK FALSE
INVARIANTS
  TypeOK
  MapsAgree
  ReplicasMet
  EvenlyLoaded
PROPERTIES
  NeverBelowFactor
  Finishes
