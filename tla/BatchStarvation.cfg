SPECIFICATION RotationFairSpec
CONSTANTS
  x = x
  y = y
  z = z
  Stations = {x, y}
  Index <- TwoIndex
  Limit <- TwoPackets
  Capacity = 3
  LiveSize <- EqualSize
  Backlog <- LongRecord
PROPERTIES
  BacklogIsSent
