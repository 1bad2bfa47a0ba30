SPECIFICATION FairSpec
CONSTANTS
    NReqs = 4
    MaxNbdReqs = 5
    NPassedFds = 1
    Styles = {"old", "new"}
    MaxSock = 2
    MaxLoad = 8
    SockLoad = 3
    MaxOpens = 2
    MaxErrors = 1
    MaxPauses = 1
    MayDie = TRUE
    FdReuse = FALSE
    PauseFull = FALSE
    Overload = FALSE
    LeaveEarly = FALSE
CHECK_DEADLOCK FALSE
INVARIANTS
  NbdSafe
PROPERTIES
  RequestsEnd
