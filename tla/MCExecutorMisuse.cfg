\* The host also drives threads that are in the executor's stack.
CONSTANTS
  t1 = t1
  t2 = t2
  t3 = t3
  Threads <- ThreeThreads
  FuelGiven <- NoFuel
  VmCosts <- OneVmCost
  MaxFrames = 2
  FUEL_PER_CALLBACK = 8
  FUEL_PER_SEQ_STEP = 4
  FUEL_PER_STEP = 4
SYMMETRY Symmetry
SPECIFICATION MisuseSpec
CONSTRAINT StackBound
INVARIANT FramesWellFormed
