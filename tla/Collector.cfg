SPECIFICATION FairSpec
CONSTANTS
  Interval = 2
  Delay = 1
  MaxAge = 5
  LoggerDepth = 3
  Capacity = 1
  NoCatchup = {TRUE, FALSE}
  StartupSupported = {TRUE, FALSE}
  ArchiveSupported = {TRUE}
  MaxSkew = 3
  MaxTime = 8
  MaxFaults = 2
INVARIANTS
  TypeOK
  RecordsOnce
  NothingSkipped
  PostponementIsBounded
PROPERTIES
  RecordsArrive
