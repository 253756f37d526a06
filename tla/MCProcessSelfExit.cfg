CONSTANTS
  a = a
  b = b
  Proc = {a, b}
  NULL = NULL
  NumEvents = 1
  PostEvents = {}
  Broadcasts = FALSE
  Started = {}
  Exited = {a}
  SelfExit = TRUE
  Synched = {}
  Polled = {}
  Interrupted = {}
SPECIFICATION HSpec
INVARIANT RunningIsListed
