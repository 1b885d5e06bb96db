\* Three columns, so that an id is reused while another column lives (one
\* without a handler after one with), and two threads that come and go.
CONSTANTS
  Thread = {t1, t2}
  Column = {c1, c2, c3}
  WithHandler = {c1, c2}
  Null = Null
  Sentinel = Sentinel
SPECIFICATION Spec
SYMMETRY Alike
\* All columns dropped and all threads gone.
CHECK_DEADLOCK FALSE
INVARIANTS TypeOK RingComplete CellsMatchColumns ReclaimedOnce
