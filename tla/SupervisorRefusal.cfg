SPECIFICATION Spec
CONSTANTS
  Workers = {"x"}
  Uploader = "uploader"
  StartupTimeout = 1
  SilenceTimeout = 1
  StableAfter = 1
  MaxBackoff = 1
  MaxFailures = 1
  MaxFaults = 1
INVARIANTS
  RefusalIsReported
