SPECIFICATION Spec
CHECK_DEADLOCK FALSE
CONSTANTS
  Units = 1
  OtherSales = 0
  MaxEvaluations = 1
INVARIANTS
  FilledExitCanClose
