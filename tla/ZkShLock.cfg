\* Three users and every fault but a failing fork.
SPECIFICATION Spec
CONSTANTS
  p1 = p1
  p2 = p2
  p3 = p3
  Nobody = Nobody
  Procs = {p1, p2, p3}
  Parent <- Flat
  OptionLists <- UserOptions
  NestedOptions <- SafeOnly
  ResourceNum <- ManyReaders
  Faults = {"call", "kill", "expire"}
INVARIANTS
  TypeOK
  WriteExclusion
  ReadersShare
  SuccessIsEarned
PROPERTIES
  NoBarging
  ImplementsRWLock
