\* A table reachable through a collected coroutine's variable is finalized.
CONSTANTS
  t1 = t1  t2 = t2  t3 = t3  u1 = u1  u2 = u2  o1 = o1  o2 = o2
  Threads <- OneThread
  UpVals <- OneUpVal
  Tables <- TwoTables
  Root = Root
  Nil = Nil
  Closed = Closed
  RestartDropped = FALSE
  MaxTracked = 1
SYMMETRY Symmetry
SPECIFICATION Spec
PROPERTIES OnlyUnreachableFinalized
