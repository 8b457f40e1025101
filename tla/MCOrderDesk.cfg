CONSTANTS
  Null = Null
  Sent = Sent
  Elsewhere = Elsewhere
  New = New
  MaxOrders = 2
  MaxEdits = 2
  MaxCalls = 2
  MaxEvents = 1
SPECIFICATION DeskSpec
INVARIANTS
  RestsOnOwnWrites
  OneOrderPerDraft
  DraftSurvives
PROPERTIES
  TypedTextKept
CHECK_DEADLOCK FALSE
