\* Three committers compete for a ring of two slots; five enqueues wrap it
\* twice and reuse every batch.
CONSTANTS
  Thread = {t1, t2, t3}
  Null = Null
  N = 2
  Counts = {1}
  SeqSpan = 1000
  MaxPos = 5
SPECIFICATION Spec
SYMMETRY Symmetry
INVARIANTS TypeOK ClaimsInOrder NoReservationFailure HandedBackOnce
PROPERTY ClaimsReady
\* Committers stop at MaxPos, and for good when prepare_commit fails.
CHECK_DEADLOCK FALSE
