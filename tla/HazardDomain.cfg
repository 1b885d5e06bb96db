\* Two threads, arrays of one and two records, two records: an array can be
\* all recycled, all new, or one of each; both threads meet in every loop.
CONSTANTS
  Thread = {t1, t2}
  Rec = {r1, r2}
  Obj = {o1, o2}
  Null = Null
  Sizes = {1, 2}
SPECIFICATION Spec
SYMMETRY Symmetry
\* A thread stops when it panics, when it follows a tagged pointer, or when
\* the bound on records is reached.
CHECK_DEADLOCK FALSE
INVARIANTS TypeOK LockBitExcludes RecordListComplete ProtectionSound
