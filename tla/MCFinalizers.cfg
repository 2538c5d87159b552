\* Two coroutines, an upvalue and a table, as Lua programs and careful hosts use them.
CONSTANTS
  t1 = t1  t2 = t2  t3 = t3  u1 = u1  u2 = u2  o1 = o1  o2 = o2
  Threads <- TwoThreads
  UpVals <- OneUpVal
  Tables <- OneTable
  Root = Root
  Nil = Nil
  Closed = Closed
  RestartDropped = FALSE
  MaxTracked = 2
SYMMETRY Symmetry
SPECIFICATION Spec
INVARIANTS TypeOK UpValueThreadsLive ReachableLive TrackedThreadsLive OwedNotFreed
PROPERTIES FinalizersKept
