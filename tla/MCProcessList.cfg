CONSTANTS
  a = a
  b = b
  c = c
  Proc = {a, b, c}
  NULL = NULL
  NumEvents = 1
  PostEvents = {"EXIT"}
  Broadcasts = TRUE
  Started = {a, b, c}
  Exited = {b, c}
  SelfExit = FALSE
  Synched = {c}
  Polled = {a}
  Interrupted = {a, b}
SPECIFICATION HSpec
INVARIANTS TypeOK NoReentrancy StateAgrees CurrentIsExecuting ExitIsExclusive NoLostPoll BroadcastReachesAll
