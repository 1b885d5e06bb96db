\* Three blocks of three bytes; one layout that needs padding, and one larger than
\* a block; one reset.
CONSTANTS
  Thread = {t1, t2}
  BlockSize = 3
  Cap = 9
  Layouts <- Mixed
  NoThread = NoThread
  MaxResets = 1
SPECIFICATION Spec
\* Every thread may have panicked.
CHECK_DEADLOCK FALSE
INVARIANTS TypeOK NoOverlap CapRespected NoChunkSkipped UsedMatchesRanges
PROPERTY CallsEnd
