\* fork() may fail: what does the caller of zksh see?
SPECIFICATION Spec
CONSTANTS
  p1 = p1
  p2 = p2
  p3 = p3
  Nobody = Nobody
  Procs = {p1, p2}
  Parent <- Flat
  OptionLists <- UserOptions
  NestedOptions <- SafeOnly
  ResourceNum <- OneReader
  Faults = {"fork"}
INVARIANTS
  SuccessIsEarned
