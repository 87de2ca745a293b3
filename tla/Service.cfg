SPECIFICATION ServiceSpec
CONSTANTS
  Workers = {"x"}
  Uploader = "uploader"
  StartupTimeout = 1
  SilenceTimeout = 1
  StableAfter = 1
  MaxBackoff = 1
  MaxFailures = 1
  MaxFaults = 1
  Stations = 1
  Revisions = {"r1", "r2"}
  Sound = {"r1"}
  MaxBuilds = 2
  MaxDisturbances = 1
INVARIANTS
  ServiceTypeOK
  SingleCollector
  UnitMatchesRelease
  StartedIsNotLeftStopped
  ServesCurrent
  TestHasTheDevice
PROPERTIES
  WatchdogIsPatient
  ChildrenComeBack
  ShutdownEnds
