SPECIFICATION Spec
CONSTANTS
  Digits = {1}
  Operators = {"MUL", "DIV", "OR"}
  Dot = 0
  MaxOps = 5
  MaxNum = 2
  Cases <- MCCases
  Zeros <- MCNoZeros
INVARIANTS ComputesTheValue
PROPERTIES ReturnDelivers
CHECK_DEADLOCK FALSE
