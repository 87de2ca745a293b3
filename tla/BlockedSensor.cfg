SPECIFICATION ReceiversSpec
CONSTANTS
  Sensors = {"a", "b"}
  Streams = {"obs"}
  RainStreams = {}
  Media = {"network"}
  Maximum = 2
  Capacity = 1
  Bounds <- MCBounds
  Purposes = {"run"}
  MaxLines = 0
  QueueSize = 1
  PipeSize = 3
  Slots = {}
  RadioIds = {}
  Fields = {}
  MaxChanges = 0
  MaxRain = 0
  MaxSilent = 0
  SentTags = {}
  Samples <- MCSamples
  MaxFields = 0
  MaxRows = 1
  WindowPast = 0
  WindowFuture = 0
  HubError = 0
  MaxMinutes = 1
  MaxShowers = 0
  MaxUpsets = 0
PROPERTY BlockingIsolates
