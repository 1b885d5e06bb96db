\* Four threads compete for two permits, so that two can sleep while two
\* release; one spurious wakeup.
CONSTANTS
  Thread = {t1, t2, t3, t4}
  Null = Null
  Limit = 2
  Spins = 1
  MaxRounds = 1
  MaxSpurious = 1
SPECIFICATION FairSpec
INVARIANTS TypeOK PermitsConserved NoLostWakeup
PROPERTIES EveryoneServed ImplementsSemaphore
\* The threads stop after MaxRounds.
CHECK_DEADLOCK FALSE
