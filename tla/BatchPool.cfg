\* Two threads over two shards of one slot each: refills and spills of both
\* threads meet on a shard, and a spill both fills and overflows it.
CONSTANTS
  Thread = {t1, t2}
  Batch = {b1, b2, b3, b4}
  None = None
  SHARDS = 2
  SHARD_CAP = 1
  TLS_CAP = 2
  TARGET = 1
SPECIFICATION Spec
SYMMETRY Symmetry
INVARIANTS TypeOK SingleOwner StateMatchesOwner NothingLeaks
PROPERTY SpillRetainsTarget
