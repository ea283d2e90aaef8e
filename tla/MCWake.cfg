CONSTANTS
  Messages = {m}
  Agents = {a, b}
  Rows <- MCRows
  MaxBinds = 1
SPECIFICATION Spec
INVARIANTS TypeOK TimersAreListed DeliveredAtOnceReached
PROPERTIES FinalIsFinal RetriesEnd
