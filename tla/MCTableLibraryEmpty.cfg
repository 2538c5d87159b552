\* Integers from -5 to 4, tables of at most four entries.
CONSTANTS
  MIN <- MinInteger
  MAX = 4
  Metatables <- SomeMetatables
  Lens <- SomeLens
  Indices <- SomeIndices
  Nil = Nil
  Tab = Tab
  New = New
  Other = Other
  MIN_BATCH_SIZE = 2
  MaxPacked = 3
SPECIFICATION Spec
INVARIANTS EmptyRemovalIsNil
