CONSTANTS
  Pages = {p1, p2}
  Places = {panel}
  PanelPlace = panel
  Lines = {l1}
  Contents = {asked, adjusted}
  Asked = asked
  None = None
  Sent = Sent
  MaxCalls = 2
  MaxEvents = 1
SPECIFICATION Spec
INVARIANTS
  QuotedAsSeen
  InformedProposals
  ConfirmedIsShown
PROPERTIES
  RetryIsHonoured
  NoLostQualification
SYMMETRY Symmetry
CHECK_DEADLOCK FALSE
