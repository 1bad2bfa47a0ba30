SPECIFICATION Spec
CONSTANTS
  NBlocks = 2
  SPB = 2
  BatPerSec = 2
  NSlots = 2
  CacheSize = 2
  VReqs = 3
  Reqs = {w1, w2, w3}
  w1 = w1
  w2 = w2
  w3 = w3
  w4 = w4
  Parent = Parent
  Junk = Junk
  Modes = {FALSE, TRUE}
  ClientSecs = {0, 1, 2, 3}
  ClientOps = {"read", "write"}
  FailOps = {"data_read", "data_write", "bitmap_read", "bitmap_write", "redundant_bm", "bat", "sync"}
  TornOps = {"data_write", "bitmap_write"}
  Crashes = 1
SYMMETRY Symm
CHECK_DEADLOCK FALSE
INVARIANTS
  CrashConsistent
  ReadsRegular
  Bookkeeping
PROPERTIES
  BatEntriesFinal
