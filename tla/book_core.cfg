CONSTANTS
  Prices <- CorePrices
  Word = 8
  Ids = {a, b, c}
  None = None
  Requests <- CoreRequests
  Amendments <- CoreAmendments
SYMMETRY Symmetry
SPECIFICATION Spec
INVARIANTS BookIndexed ActiveOrdersRest CrossedOnlyByModify Ledger QuotesTrue DepthTrue
PROPERTIES RefinesPriorityBook
\* Clients may have no order left to submit: the system may stop.
CHECK_DEADLOCK FALSE
