SPECIFICATION FairSpec
CONSTANTS
  None = None
  r1 = r1
  w1 = w1
  w2 = w2
  b1 = b1
  f1 = f1
  Rings = {r1}
  Reqs = {w1, w2, b1, f1}
  Barriers = {b1}
  Flushes = {f1}
  Faulty = {w1}
  RingSize = 2
  Polling = TRUE
  LowMemory = TRUE
INVARIANTS
  RingSound
  BarrierSound
PROPERTIES
  EventuallyServed
