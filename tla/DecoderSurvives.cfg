SPECIFICATION SdrSpec
CONSTANTS
  Purposes = {"run"}
  MaxLines = 1
  QueueSize = 1
  PipeSize = 2
INVARIANT StopLeavesNoDecoder
