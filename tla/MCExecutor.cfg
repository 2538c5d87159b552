\* Documented use of one executor and three threads; the host may act between
\* any two iterations of the step loop.
CONSTANTS
  t1 = t1
  t2 = t2
  t3 = t3
  Threads <- ThreeThreads
  FuelGiven <- NoFuel
  VmCosts <- OneVmCost
  MaxFrames = 2
  FUEL_PER_CALLBACK = 8
  FUEL_PER_SEQ_STEP = 4
  FUEL_PER_STEP = 4
SYMMETRY Symmetry
SPECIFICATION Spec
INVARIANTS TypeOK FramesWellFormed WaitChain NoBadThreadMode
PROPERTIES AbandonedUntouched SequencesNotSkipped ImplementsCoroutines
