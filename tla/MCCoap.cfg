CONSTANTS
  u1 = u1
  u2 = u2
  Peer = {p1, p2}
  Uri = {u1, u2}
  Beginnings <- MCBeginnings
  Client = {k1}
  MaxTransactions = 2
  MaxObservers = 2
  MaxRetransmit = 2
  NumMids = 3
  MaxEvents = 2
  NULL = NULL
SPECIFICATION CoapFairSpec
INVARIANTS OneRelation ExpiredIsHandled 
PROPERTY TransactionsEnd
