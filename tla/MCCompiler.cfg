SPECIFICATION Spec
CONSTANTS
  NumRegs = 12
  Names = {"x"}
  Labels = {"l"}
  Attributes = {"none"}
  Budgets <- Families
  Returning = {"if", "function"}
  AnyGoto = FALSE
  ParamLists <- SomeParams
  MaxFunctions = 3
INVARIANTS TypeOK NoPanic NamesResolveLexically VariablesInScope ClosuresKeepVariables

