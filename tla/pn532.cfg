SPECIFICATION FairSpec
CONSTANTS
  None = None
  Habits = {TRUE, FALSE}
  ReadTimeout = TRUE
  MaxFrames = 6
  MaxFaults = 1
INVARIANTS TypeOK
PROPERTIES KeepsContract EveryCallReturns
