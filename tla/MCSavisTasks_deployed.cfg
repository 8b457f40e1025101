\* One worker, as deployed: two refreshes of one offer.
SPECIFICATION Spec
CONSTANTS
  t1 = t1
  t2 = t2
  o1 = o1
  NoOffer = NoOffer
  Tasks = {t1, t2}
  Offers = {o1}
  OfferOf <- MCRefreshes
  Workers = {w1}
  MaxRetries = 1
  TimeLimit = 1
  StaleAfter = 1
  MaxRedeliveries = 1
  MaxFaults = 1
INVARIANTS OneActiveRefresh Accounted OutcomeConsistent
PROPERTY CompletedIsFinal
