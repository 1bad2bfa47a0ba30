SPECIFICATION FairSpec
CONSTANTS
  NBlocks = 2
  SPB = 2
  BatPerSec = 2
  NSlots = 1
  CacheSize = 2
  VReqs = 2
  Reqs = {w1, w2, w3}
  w1 = w1
  w2 = w2
  w3 = w3
  w4 = w4
  Parent = Parent
  Junk = Junk
  Modes = {FALSE}
  ClientSecs = {0, 2}
  ClientOps = {"read", "write", "status"}
  FailOps = {"data_read", "data_write", "bitmap_read", "bitmap_write", "redundant_bm", "zero_bm", "bat", "sync"}
  TornOps = {"data_write", "bitmap_write"}
  Crashes = 1
CHECK_DEADLOCK FALSE
INVARIANTS
  TypeOK
  QuiescentClean
PROPERTIES
  Answered
