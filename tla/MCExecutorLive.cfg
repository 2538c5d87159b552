\* Every call of step returns, with fuel for several iterations.
CONSTANTS
  t1 = t1
  t2 = t2
  t3 = t3
  Threads <- TwoThreads
  FuelGiven <- FewFuel
  VmCosts <- FewVmCosts
  MaxFrames = 3
  FUEL_PER_CALLBACK = 8
  FUEL_PER_SEQ_STEP = 4
  FUEL_PER_STEP = 4
SPECIFICATION DrivenSpec
PROPERTIES StepReturns UnwindingEnds
