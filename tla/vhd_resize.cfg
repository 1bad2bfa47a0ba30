SPECIFICATION Spec
CONSTANTS
    SPB = 2
    EPS = 2
    MapByte = 2
    MapSec = 2
    PageSecs = 2
    Images <- MCImages
    Goals <- MCGoals
    MaxFaults = 1
    MaxCrashes = 2
CHECK_DEADLOCK FALSE
INVARIANTS
  ResizeDelivers
  Recoverable
PROPERTIES
  ResizeImplements
