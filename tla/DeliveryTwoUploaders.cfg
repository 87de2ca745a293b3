SPECIFICATION Spec
CONSTANTS
  x = x
  y = y
  x1 = x1
  x2 = x2
  y1 = y1
  Stations <- OnlyX
  Events <- EventsOfX
  StationOf <- StationOfX
  SizeOf <- SizeOfX
  RecordTime <- RecordTimeX
  MaxEvents <- RoomyX
  MaxBytes <- RoomyBytesX
  Uploaders = {service, preview}
  NoStation = NoStation
  Refused = {}
  Configured <- MCConfigured
  Adverts <- NoAdvert
  ServerLimit <- WideServer
  Index <- IndexX
  Blockable = {x}
  MaxFaults = 1
INVARIANTS
  DeliveryInv
  UsageIsExact
PROPERTIES
  KeepsThePromise
