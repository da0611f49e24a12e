SPECIFICATION FairSpec
CONSTANTS
  Creds = {k1}
  Conns = {x1, x2}
  Tunnels = {p}
  Watchdogs = {}
  Setters = {s1}
  Viewers = {v}
  NoCred = NoCred NoConn = NoConn
PROPERTY CredsTakeEffect
CHECK_DEADLOCK FALSE
