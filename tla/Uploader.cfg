SPECIFICATION UploaderSpec
CONSTANTS
  Spools = {"x", "y"}
  SendInterval = 1
  BackoffMax = 2
  Refusal = 3
  RetryAfters = {0, 2}
  Configured <- MCConfigured
  Adverts <- MCAdverts
  MaxTime = 4
  MaxFaults = 2
  x = x
  y = y
  z = z
  Stations = {x, y, z}
  Index <- ThreeIndex
  Limit <- OnePacket
  Capacity = 3
  LiveSize <- EqualSize
  Backlog <- SomeBacklog
INVARIANTS
  UploaderTypeOK
  RequestsKeepLearnedLimits
  BoundedWait
PROPERTIES
  LearnedLimitsOnlyTighten
  DelaysSurviveRestarts
  BacklogIsSent
