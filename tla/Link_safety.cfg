SPECIFICATION Spec
CONSTANTS
  Creds = {k1, k2}
  Conns = {x1, x2}
  Tunnels = {p}
  Watchdogs = {w}
  Setters = {s1}
  Viewers = {v}
  NoCred = NoCred NoConn = NoConn
SYMMETRY Symmetry
INVARIANTS CachedForCreds TokenMatchesPeer
PROPERTY RetryElsewhere
CHECK_DEADLOCK FALSE
