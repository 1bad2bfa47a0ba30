SPECIFICATION Spec
CONSTANTS
  r1 = r1
  r2 = r2
  r3 = r3
  Reqs = {r1, r2}
  Iovs = 1
  ReqOps = {"read", "write"}
  Kinds = {"mirror", "nbd"}
  FailRes = {"EBUSY", "EIO"}
  EnospcKinds = {"mirror"}
  Messages = {"pause", "resume"}
  Signals = {"SIGINT"}
  OpenFails = {}
  NoImage = NoImage
SYMMETRY Symm
CHECK_DEADLOCK FALSE
INVARIANTS
  QueuesSound
  AckedServed
  SecondaryInChain
