CONSTANTS
  Prices <- MCPrices
  Word = 4
  Ids = {a, b, c}
  None = None
  Requests <- MakerRequests
  Amendments <- MakerAmendments
SYMMETRY Symmetry
SPECIFICATION Spec
INVARIANTS ActiveOrdersRest
CHECK_DEADLOCK FALSE
