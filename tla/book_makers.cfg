CONSTANTS
  Prices <- MCPrices
  Word = 4
  Ids = {a, b, c, d}
  None = None
  Requests <- MakerRequests
  Amendments = {}
SYMMETRY Symmetry
SPECIFICATION Spec
INVARIANTS IcebergsShowALot
PROPERTIES RefinesPriorityBook
\* Clients may have no order left to submit: the system may stop.
CHECK_DEADLOCK FALSE
