SPECIFICATION FairSpec
CONSTANTS
  Creds = {k1}
  Conns = {x1, x2}
  Tunnels = {p}
  Watchdogs = {w}
  Setters = {s1}
  Viewers = {}
  NoCred = NoCred NoConn = NoConn
PROPERTIES Reconnects TunnelsAnswered CredsTakeEffect
CHECK_DEADLOCK FALSE
