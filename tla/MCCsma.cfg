CONSTANTS
  a1 = a1
  a2 = a2
  Addr = {a1, a2}
  NumNeighbors = 2
  NumPackets = 2
  PerNeighbor = 2
  NumQueuebufs = 2
  NumSeqno = 4
  MaxTx = {2}
  MAX_BACKOFF = 1
  WithAcks = TRUE
  NULL = NULL
SPECIFICATION CsmaFairSpec
INVARIANTS PoolsBalance NextIsAlive FullAttempts NeverStuck
PROPERTIES ImplementsService EveryPacketAnswered
