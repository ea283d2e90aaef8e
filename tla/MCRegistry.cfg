CONSTANTS
  Names <- MCNames
  Candidates <- MCCandidates
  RandomNames <- MCRandomNames
  ClaudeKeys = {"c1", "c2"}
  OtherKeys = {"o1"}
  Roles = {"default"}
  Requests <- MCRequests
  MaxAgents = 3
  None = None
SPECIFICATION RegistrySpec
INVARIANTS OneMailboxPerSession
PROPERTIES RetainedMailboxKept LiveNameKept StaleSettles
