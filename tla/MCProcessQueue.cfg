CONSTANTS
  a = a
  b = b
  Proc = {a, b}
  NULL = NULL
  NumEvents = 2
  PostEvents = {"EVENT"}
  Broadcasts = TRUE
  Started = {}
  Exited = {b}
  SelfExit = FALSE
  Synched = {a}
  Polled = {a}
  Interrupted = {b}
SPECIFICATION FairHSpec
PROPERTIES QueueIsFifo PollServed EventServed
