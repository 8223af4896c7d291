CONSTANTS
  Connectors = {slack, twilio}
  Callers = {t1, t2}
  Threshold = 2
  Threads = {w1}
  Reliable = {slack}
  MaxQueue = 2
  MaxChanges = 2
SPECIFICATION PoolFairSpec
INVARIANTS
  OneJobPerWait
PROPERTIES
  EveryCallReturns
  OrphansAreWorkedOff
  Recovers
  OpensOnAStreak
  ClosesOnSuccesses
