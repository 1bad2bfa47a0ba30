SPECIFICATION FairSpec
CONSTANTS
    Devices = {d1}
    PhysKeys = {"physical-device", "physical-device-path"}
    MaxQueue = 3
    MaxPlugs = 2
    MaxRings = 2
    MaxRestarts = 1
    DomainLives = 1
    BackendAlone = TRUE
    FastReplug = FALSE
    Deaths = {"exit"}
    DieServing = FALSE
CHECK_DEADLOCK FALSE
INVARIANTS
  NoPanic
  BackendTrue
PROPERTIES
  FrontendsServed
