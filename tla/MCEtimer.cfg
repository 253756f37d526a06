CONSTANTS
  t1 = t1
  t2 = t2
  p1 = p1
  p2 = p2
  Timer = {t1, t2}
  Proc = {p1, p2}
  NULL = NULL
  NumEvents = 1
  Wrap = 6
  Intervals = {0, 1}
  Adjustments = {1}
  Ahead = 1
SPECIFICATION Spec
INVARIANTS ListHoldsOnce ExpiredIsPolled 
PROPERTY NeverEarly
SYMMETRY Symmetry
