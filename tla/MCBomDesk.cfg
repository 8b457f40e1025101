SPECIFICATION Spec
CONSTANTS
  None = None
  List = List
  New = New
  Elsewhere = Elsewhere
  Resources = {flour, sugar}
  Units = {mass, volume}
  Offers = {pack}
  MaxParts = 1
  MaxEdits = 1
  MaxCalls = 2
  MaxEvents = 1
SYMMETRY Symmetry
INVARIANTS
  SavedAgain
  OfferFits
  DraftStored
  OneBomPerDraft
CHECK_DEADLOCK FALSE
