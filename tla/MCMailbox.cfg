CONSTANTS
  Names <- MCNames
  Candidates <- MCCandidates
  RandomNames = {}
  ClaudeKeys = {"c1"}
  OtherKeys = {}
  Roles = {"dev", "lead"}
  Requests <- MCRequests
  MaxAgents = 3
  MaxMail = 3
  None = None
SPECIFICATION MCSpec
INVARIANTS HandedOutOnce NothingSkipped
PROPERTIES KeepsPromise
