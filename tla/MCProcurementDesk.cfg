SPECIFICATION Spec
CONSTANTS
  None = None
  Asked = Asked
  Rates = Rates
  Resources = Resources
  Review = Review
  Supply = Supply
  Materials = {flour, sugar}
  Types = {prep}
  MaxOffers = 2
  MaxEdits = 1
  MaxCalls = 2
  MaxEvents = 1
INVARIANTS
  ClosedByOwnAnswer
  StatusSettled
  
  NoEmptyPage
CHECK_DEADLOCK FALSE
