CONSTANTS
  MaxSessions = 4
  MaxMoves = 5
  MaxOrphans = 1
SPECIFICATION Spec
INVARIANTS NothingDangles ActsByCurrentCapability
PROPERTIES StandingKept ResumedActs
CHECK_DEADLOCK FALSE
