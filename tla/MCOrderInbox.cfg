\* Two requests, two callers and two imports at the same time.
CONSTANTS
  Requests = {r1, r2}
  Payloads = {p1, p2, p3}
  Importable = {p1}
  Unreadable = {p3}
  NoPayload = NoPayload
  Callers = {c1, c2}
  Importers = {i1, i2}
  MaxFaults = 3
  MaxResets = 2
SPECIFICATION FairSpec
CHECK_DEADLOCK FALSE
INVARIANTS
  AnswersAgree
  SyncedIsImported
PROPERTIES
  ImplementsReception
  EventuallySettled
