\* Lengths on both sides of the one-byte varint and of each limit: a key that is
\* too long, a value that cannot be encoded, a record too large for any batch,
\* and records of which several fit.
CONSTANTS
  MAX_BATCH_SIZE = 400
  MAX_USER_KEY_BYTES = 128
  MAX_LEN = 300
  KeyLens = {100, 128, 129}
  ValueLens = {0, 128, 300, 301}
  MaxCommits = 3
SPECIFICATION Spec
\* A dropped batch and a panic end the life of the allocation.
CHECK_DEADLOCK FALSE
INVARIANTS TypeOK BufferDecodes NoReuseBeforeSync ReuseMeansDurable
PROPERTIES RefusalChangesNothing WaitReturns
