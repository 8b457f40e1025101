\* Liveness with one worker.
SPECIFICATION FairSpec
CONSTANTS
  t1 = t1
  t2 = t2
  o1 = o1
  NoOffer = NoOffer
  Tasks = {t1, t2}
  Offers = {o1}
  OfferOf <- MCRefreshAndCollection
  Workers = {w1}
  MaxRetries = 0
  TimeLimit = 1
  StaleAfter = 1
  MaxRedeliveries = 0
  MaxFaults = 1
PROPERTY EventuallyTerminal
