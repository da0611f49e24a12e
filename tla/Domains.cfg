SPECIFICATION Spec
CONSTANTS
  Domains = {d1, d2}
  Ports = {https}
  Handles = {h1, h2, h3}
  Conns = {c1, c2}
  MaxDomains = 2
  MaxPending = 1
  ConnLimit = 1
  MayRestart = TRUE
  HostsFail = TRUE
  DiskFails = TRUE
  MaxSaves = 1
  NoHandle = NoHandle
  NoRecord = NoRecord
  NoJob = NoJob
VIEW Seen
SYMMETRY Symmetric
INVARIANTS TypeOK HostsTracked ServedExactly RecordsKept
CHECK_DEADLOCK FALSE
