SPECIFICATION FairSpec
CONSTANTS
  p1 = p1 p2 = p2 d1 = d1 d2 = d2 e1 = e1
  Peers = {p1, p2}
  Datagrams = {d1, d2, e1}
  From <- MCFrom
  Slots = {s1, s2}
  Modes = {"http", "udp"}
  Limits = {0, 1}
  Capacity = 1
  NoSlot = NoSlot NoPeer = NoPeer NoHand = NoHand
INVARIANTS TypeOK StreamLimit EntriesLive DeliveredOnce
PROPERTIES Drained LoopServes
CHECK_DEADLOCK FALSE
