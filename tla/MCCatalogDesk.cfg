SPECIFICATION Spec
CONSTANTS
  None = None
  Sent = Sent
  List = List
  New = New
  MaxEdits = 1
  MaxCalls = 2
  MaxEvents = 1
INVARIANTS
  StorefrontAccounted
  DraftStored
  OneProductPerDraft
CHECK_DEADLOCK FALSE
