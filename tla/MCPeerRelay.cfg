CONSTANTS
  Senders = {a}
  Targets = {x}
  MaxMail = 3
  MaxAttempts = 3
SPECIFICATION Spec
INVARIANTS NothingSkipped InOrder
