CONSTANTS
  Joiners = {j1, j2}
  MaxInvites = 1
  MaxMoves = 6
SPECIFICATION Spec
INVARIANTS TrustedAfterApproval InviteDecidedOnce RevocationHolds
PROPERTIES PairingCompletes
CHECK_DEADLOCK FALSE
