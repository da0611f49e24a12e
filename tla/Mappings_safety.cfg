SPECIFICATION Spec
CONSTANTS
  l1 = l1
  Locals = {l1, l2}
  Modes = {"tcp"}
  h1 = h1
  h2 = h2
  h3 = h3
  h4 = h4
  h5 = h5
  p1 = p1
  p2 = p2
  Handles = {h1, h2, h3}
  Requests = {p1, p2}
  MaxMappings = 1
  Usizes = 16
  DiskFails = FALSE
  MayRestart = FALSE
  ForeignPorts <- None
  NoHandle = NoHandle
  NoRecord = NoRecord
  NoSocket = NoSocket
  NoJob = NoJob
VIEW Seen
SYMMETRY Symmetric
INVARIANTS Capacity NoOrphans KeyMatchesRecord FileFollows
PROPERTY TableKept
CHECK_DEADLOCK FALSE
