\* Two workers share the row: every interleaving of their transactions.
SPECIFICATION AccessSpec
CONSTANTS
  Workers = {w1, w2}
  MinDelay = 2
  MaxDelay = 3
  Cooldowns <- MCCooldowns
  ProbeTimeout = 3
  TimeLimit = 6
  MaxTime = 5
  MaxDeaths = 1
SYMMETRY Symmetry
\* The clock stops at MaxTime: a sleeping worker then waits for ever.
CHECK_DEADLOCK FALSE
INVARIANT SlotsSpaced
PROPERTY ProbesSpaced
