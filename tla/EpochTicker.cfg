SPECIFICATION FairSpec
CONSTANTS
  Runs = {r1, r2}
  Timeouts <- MCTimeouts
  MaxAge = 3
INVARIANTS
  TypeOK
  TickerAwake
PROPERTIES
  WatchdogSpec
  TimeoutFires
