CONSTANTS
  Agents = {a1, a2}
  Panes = {p1, p2}
  NoPane = NoPane
  MaxCalls = 2
  MaxMoves = 2
SPECIFICATION Spec
PROPERTIES BoundPaneRanCodex OwnPaneFirst PreRegistrationUsedOnce
CHECK_DEADLOCK FALSE
