SPECIFICATION Spec
CONSTANTS
    SPB = 2
    EPS = 2
    MapByte = 2
    MapSec = 2
    PageSecs = 2
    Names <- MCNames
    Chains <- MCChains
    DepthLimit = 3
    MaxOps = 3
    MaxFaults = 1
    MaxCrashes = 1
    MaxOpsFaulty = 2
CHECK_DEADLOCK FALSE
INVARIANTS
  InService
  CoalesceDelivers
  ToolsSafe
