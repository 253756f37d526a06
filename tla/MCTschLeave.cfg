CONSTANTS
  u1 = u1
  u2 = u2
  u3 = u3
  e1 = e1
  b1 = b1
  p1 = p1
  p2 = p2
  Unicast = {u1, u2, u3}
  EB = e1
  BC = b1
  Packet = {p1, p2}
  Slotframe <- MCSlotframe
  Receivers = {u2}
  Parents = {u1, u2, u3}
  QueueSize = 4
  DequeuedSize = 2
  InputSize = 2
  MaxNeighbors = 4
  MaxRetries = 1
  MinBE = 1
  MaxBE = 1
  NULL = NULL
SPECIFICATION TschLeaveSpec
INVARIANT SlotKeepsItsPacket
