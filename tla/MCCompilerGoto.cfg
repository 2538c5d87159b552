SPECIFICATION Spec
CONSTANTS
  NumRegs = 12
  Names = {"x"}
  Labels = {"l"}
  Attributes = {"none"}
  Budgets <- GotoBack
  Returning = {}
  AnyGoto = TRUE
  ParamLists <- NoParams
  MaxFunctions = 3
INVARIANTS ClosuresKeepVariables
