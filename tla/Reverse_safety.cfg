SPECIFICATION Spec
CONSTANTS
  t1 = t1 t2 = t2 t3 = t3 l1 = l1 l2 = l2 l3 = l3
  Conns = {x1, x2}
  Tokens = {t1, t2}
  Listens = {l1, l2}
  ListensOf <- MCListensOf
  Streams = {s1}
  MaxRestarts = 1
  NoConn = NoConn NoToken = NoToken NoListen = NoListen
SYMMETRY Symmetry
VIEW Seen
INVARIANTS TypeOK GaugesExact Isolation DenyAll
CHECK_DEADLOCK FALSE
