SPECIFICATION Spec
CONSTANTS
  NumRegs = 14
  NumConst8 = 3
  FieldsPerFlush = 2
  IntWidth = 8
  MaxRecursion = 200
  Programs <- Every
  Lasting = {0, 6}
INVARIANTS TypeOK ProgramsCompile StackProtocol MeaningPreserved
