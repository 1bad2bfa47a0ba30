SPECIFICATION FairSpec
CONSTANTS
  r1 = r1
  r2 = r2
  r3 = r3
  Reqs = {r1, r2}
  Iovs = 1
  ReqOps = {"write"}
  Kinds = {"none"}
  FailRes = {"EBUSY"}
  EnospcKinds = {}
  Messages = {"pause", "resume", "close", "force"}
  Signals = {"SIGXFSZ"}
  OpenFails = {"image", "info"}
  NoImage = NoImage
PROPERTIES
  NoSleepOnAnswers
  Answered
  ControlEnds
