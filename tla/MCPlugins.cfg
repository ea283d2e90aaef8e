CONSTANTS
  None = None
  Solo = Solo
  Names <- MCNames
  Candidates <- MCCandidates
  RandomNames = {}
  ClaudeKeys = {}
  OtherKeys = {"k1", "k2"}
  Roles = {"worker"}
  Requests <- MCRequests
  MaxAgents = 9
  Processes = {"p1", "p2"}
  Setups <- MCSetups
  Opens <- MCOpens
  Base <- MCBase
  Placeholder <- MCPlaceholder
  Wanted = {"w"}
  MaxMoves = 2
  MaxFaults = 1
SPECIFICATION PluginsSpec
INVARIANTS AgreesOnAddress ClosedLeavesNoRow
PROPERTIES PiStaysOnBus
CHECK_DEADLOCK FALSE
