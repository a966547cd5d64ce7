CONSTANTS
  Prices = {1}
  Word = 8
  Ids = {a, b, c}
  None = None
  Requests <- TakerRequests
  Amendments = {}
SYMMETRY Symmetry
SPECIFICATION Spec
INVARIANTS ActiveOrdersRest
CHECK_DEADLOCK FALSE
