CONSTANTS
  Pids = {1, 2, 3}
  MaxSteps = 4
SPECIFICATION LifecycleSpec
INVARIANTS OneDaemon FileNamesDaemon
PROPERTIES ServesAgain
CHECK_DEADLOCK FALSE
