CONSTANTS
  Programs = {p1}
  Startable <- MCStartable
  BatchSize = 2
  MaxStarted = 3
  MaxStored = 3
SPECIFICATION CommandSpec
INVARIANTS OneShotsSeeTheNewest
CHECK_DEADLOCK FALSE
