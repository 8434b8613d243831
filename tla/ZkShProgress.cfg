\* Two users, one of whose scripts invokes zkctl -s again; zksh may be killed
\* and sessions may expire; one reader at a time.
SPECIFICATION FairSpec
CONSTANTS
  p1 = p1
  p2 = p2
  p3 = p3
  Nobody = Nobody
  Procs = {p1, p2, p3}
  Parent <- CrontabNesting
  OptionLists <- AnyOptions
  NestedOptions <- SafeOnly
  ResourceNum <- OneReader
  Faults = {"kill", "expire"}
PROPERTIES
  WriterGetsThrough
  WriteLockComesBack
