SPECIFICATION FairSpec
CONSTANTS
  Producers = {p1, p2}
  Values = {v1, v2}
  Nodes = {n1, n2, n3, n4}
  NULL = NULL
INVARIANTS TypeOK NoUseAfterFree
PROPERTIES ImplementsFifo SpinEnds
