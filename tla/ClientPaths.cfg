SPECIFICATION Spec
CONSTANTS
  Paths = {p1}
  numDesiredPaths = 1
  build_timeout = 1
  latency_interval = 1
  alive_timeout = 3
  PathReanimationTimeout = 5
  default_lifetime = 6
  PATH_BUILD_RATE = 1
  MIN_PATH_BUILD_INTERVAL = 2
  MaxBuildInterval = 3
  MaxProbes = 1
  MaxPosted = 1
INVARIANTS  DeadPathNoticed
PROPERTIES NoPathAfterStop StoppedIsRemoved BuildsAgain
