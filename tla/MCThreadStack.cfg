SPECIFICATION Spec
VIEW StackView
CONSTANTS
  Nil = Nil
  Cb = Cb
  Main = Main
  UpVals = {1, 2}
  Cells = {1, 2}
  StackSize = 2
  FixedParams = {1}
  Counts <- MCCounts
  KeepArgs = 0
  MaxFrames = 2
  ArgCounts = {0, 2}
  Passed = {Cb}
INVARIANTS
  TypeOK LocalsIntact UpValueSeesVariable StackAsserts
