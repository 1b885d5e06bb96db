\* Three threads, one call each: a direct insert and two threads that insert,
\* read or iterate at any point of it and of each other.
CONSTANTS
  Thread = {t1, t2, t3}
  Key <- MCKey
  Null = Null
  MaxNodes = 3
  MAX_HEAD_HEIGHT = 2
  Zeros = {0, 1}
  User = {1}
  MaxCalls = 1
  Inserter = {t1, t3}
  DirectInserter = {t2}
  Reader = {t1, t3}
  Snapshot = {1}
SPECIFICATION Spec
SYMMETRY Alike
\* Every thread stops after MaxCalls calls.
CHECK_DEADLOCK FALSE
INVARIANTS TypeOK LevelsSorted TowersComplete IterSeesSnapshot
PROPERTY ImplementsVersionedMap
