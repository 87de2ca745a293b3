SPECIFICATION DeploymentSpec
CONSTANTS
  Stations = 1
  Revisions = {"r1", "r2", "r3"}
  Sound = {"r1", "r2"}
  MaxBuilds = 2
  MaxDisturbances = 1
INVARIANTS
  FailedStartIsUndone
