SPECIFICATION Spec
CONSTANTS
  NBlocks = 3
  SPB = 2
  BatPerSec = 1
  NSlots = 3
  CacheSize = 2
  VReqs = 3
  Reqs = {w1, w2, w3, w4}
  w1 = w1
  w2 = w2
  w3 = w3
  w4 = w4
  Parent = Parent
  Junk = Junk
  Modes = {FALSE}
  ClientSecs = {0, 2, 4}
  ClientOps = {"read", "write"}
  FailOps = {"bitmap_read"}
  TornOps = {}
  Crashes = 1
SYMMETRY Symm
CHECK_DEADLOCK FALSE
INVARIANTS
  CacheSound
  VreqConservation
