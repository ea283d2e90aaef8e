CONSTANTS
  a = a
  b = b
  here1 = here
  there1 = there
  Devices = {here, there}
  Agents = {a, b}
  Home <- MCHome
  MaxMessages = 2
  Writers = {a}
  SameNames = TRUE
  Limit = 2
  MaxFaults = 1
SPECIFICATION Spec
INVARIANTS TypeOK ForwardedArrived
PROPERTIES SecondOnlyByOverlap WaitingIsHandedOver
