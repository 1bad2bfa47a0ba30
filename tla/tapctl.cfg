SPECIFICATION FairSpec
CONSTANTS
    c1 = c1
    c2 = c2
    c3 = c3
    m1 = m1
    m2 = m2
    Clients = {c1, c2, c3}
    Minors = {m1, m2}
    MaxConn = 2
    MaxSock = 6
    Programs <- MCPrograms
    GivesUp = {c1}
    Starts <- MCStarts
    Ioctl = {m1}
CHECK_DEADLOCK FALSE
INVARIANTS
  RightAnswer
  ConnectionsSound
PROPERTIES
  CommandsEnd
