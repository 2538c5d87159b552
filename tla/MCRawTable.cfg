\* Small integers and one object, moving between both parts of the table; length
\* doubles and saturates at 5.
CONSTANTS
  o1 = o1
  o2 = o2
  v1 = v1
  Nil = Nil
  Error = Error
  Ints <- SmallInts
  Objects <- OneObject
  Bytes <- OwnBytes
  Vals <- OneValue
  MAX = 5
  MaxArray = 4
  BucketCounts <- SmallBuckets
SPECIFICATION Spec
INVARIANTS TypeOK MapWellFormed TraversalComplete LengthIsBorder
PROPERTIES NoKeyTwice ImplementsTable
