SPECIFICATION FairSpec
CONSTANTS
  t1 = t1 t2 = t2 t3 = t3 l1 = l1 l2 = l2 l3 = l3
  Conns = {x1, x2}
  Tokens = {t1, t3}
  Listens = {l1}
  ListensOf <- MCOneTenant
  Streams = {}
  MaxRestarts = 0
  NoConn = NoConn NoToken = NoToken NoListen = NoListen
PROPERTIES PortsReleased DriverReregisters
CHECK_DEADLOCK FALSE
