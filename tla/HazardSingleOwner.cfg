\* The same instance, asked whether a record can have two owners.
CONSTANTS
  Thread = {t1, t2}
  Rec = {r1, r2}
  Obj = {o1, o2}
  Null = Null
  Sizes = {1, 2}
SPECIFICATION Spec
SYMMETRY Symmetry
\* A thread stops when it panics, when it follows a tagged pointer, or when
\* the bound on records is reached.
CHECK_DEADLOCK FALSE
INVARIANT SingleOwner
