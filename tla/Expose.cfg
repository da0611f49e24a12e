SPECIFICATION FairSpec
CONSTANTS
  c1 = c1 c2 = c2 s1 = s1 s2 = s2 k1 = k1 k2 = k2 k3 = k3
  t1 = t1 t2 = t2 t3 = t3 a1 = a1 a2 = a2
  Conns = {c1, c2}
  Streams = {s1, s2}
  Clients = {k1, k2, k3}
  Tokens = {t1, t2, t3}
  Ports = {1, 2}
  Addrs = {a1, a2}
  TokenOf <- MCTokenOf
  Revoked = {k2}
  AllowPorts <- MCAllowPorts
  AllowNets <- MCAllowNets
  ConnLimit = 1
  ClientLimit <- MCClientLimit
  Requests <- MCRequests
  NoClient = NoClient NoStream = NoStream NoAddr = NoAddr
INVARIANTS PermitsConserved CountersExact DialAllowed
PROPERTIES Admits StreamsHandled PermitsReturn
CHECK_DEADLOCK FALSE
