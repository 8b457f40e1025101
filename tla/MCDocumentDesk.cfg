CONSTANTS
  None = None
  Sent = Sent
  Elsewhere = Elsewhere
  New = New
  MaxDocs = 2
  MaxEdits = 1
  MaxCalls = 2
  MaxEvents = 1
SPECIFICATION Spec
INVARIANTS
  OwnForm
  StoredDraft
CHECK_DEADLOCK FALSE
