SPECIFICATION FairCollectSpec
CONSTANTS
  x = x
  y = y
  x1 = x1
  x2 = x2
  y1 = y1
  Stations <- MCStations
  Events <- MCEvents
  StationOf <- MCStationOf
  SizeOf <- MCSizeOf
  RecordTime <- MCRecordTime
  MaxEvents <- Tight
  MaxBytes <- RoomyBytes
  Uploaders = {service}
  NoStation = NoStation
  Refused = {y1}
  Configured <- MCConfigured
  Adverts <- NoAdvert
  ServerLimit <- NarrowServer
  Index <- MCIndex
  Blockable = {}
  MaxFaults = 1
INVARIANTS
  WithinQuota
PROPERTIES
  QuarantineIsJustified
  AdoptedStationDrains
  CollectionResumes
