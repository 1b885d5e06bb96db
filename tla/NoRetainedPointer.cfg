CONSTANTS
  Thread = {t1, t2}
  Null = Null
  N = 2
  Counts = {1}
  SeqSpan = 1000
  MaxPos = 3
SPECIFICATION Spec
SYMMETRY Symmetry
INVARIANT NoRetainedPointer
CHECK_DEADLOCK FALSE
