SPECIFICATION ReceiversSpec
CONSTANTS
  Sensors = {"a", "b"}
  Streams = {"obs"}
  RainStreams = {"obs"}
  Media = {"radio", "network"}
  Maximum = 1
  Capacity = 1
  Bounds <- MCBounds
  Purposes = {"run", "probe"}
  MaxLines = 2
  QueueSize = 1
  PipeSize = 3
  Slots = {0, 6, 48}
  RadioIds = {"x", "y"}
  Fields = {"outtemp", "t_raintotals", "t_rainyear"}
  MaxChanges = 2
  MaxRain = 1
  MaxSilent = 1
  SentTags = {2, 7, 96, 97, 99, 107, 112, 113, 128, 134}
  Samples <- MCSamples
  MaxFields = 2
  MaxRows = 2
  WindowPast = 1
  WindowFuture = 0
  HubError = 1
  MaxMinutes = 2
  MaxShowers = 1
  MaxUpsets = 2
INVARIANTS
  ReceiversTypeOK
  RainAddsUp
  IdsAreUnique
  LinesArriveInOrder
  NothingIsLeftRunning
  EachValueOnce
  ReadingsAreOwn
  RainWithinFall
  ReadAsSent
  RainIsAddedOnce
  SilenceIsBounded
PROPERTIES
  ReceptionGoesOn
  WorkerEnds
