SPECIFICATION Spec
CONSTANTS
  Threads = {t1, t2}
  currentSize = 2
  CounterMod = 8
INVARIANTS TypeOK PoolConsistent CounterAccounting ExclusiveOwnership LentClear
PROPERTY PeakNeverBehind
SYMMETRY Symmetry
