CONSTANTS
  c1 = c1
  c2 = c2
  ctimer_process = ctimer_process
  Timer = {c1, c2}
  Proc = {ctimer_process}
  NULL = NULL
  NumEvents = 2
  Wrap = 6
  Intervals = {1}
  Adjustments = {}
  Ahead = 0
SPECIFICATION CtimerSpec
INVARIANTS CallbackWillCome
PROPERTY CalledOncePerSet
SYMMETRY Symmetry
