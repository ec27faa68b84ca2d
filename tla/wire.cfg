SPECIFICATION FairSpec
CONSTANTS
  c1 = c1
  c2 = c2
  Clients = {c1, c2}
  MaxRetries = 1
  MaxCalls = 3
INVARIANTS TypeOK OneWinner
PROPERTIES ImplementsRefStore CallsEnd
CHECK_DEADLOCK FALSE
