CONSTANTS
  Prices = {1}
  Word = 8
  Ids = {a, b, c, d}
  None = None
  Requests <- IcebergRequests
  Amendments <- IcebergAmendments
SYMMETRY Symmetry
SPECIFICATION Spec
INVARIANTS TypeOK GhostsOfferNothing IcebergSplit Ledger OnlyEmptyOrdersTradeNothing
PROPERTIES CancelledNeverTrades
\* Clients may have no order left to submit: the system may stop.
CHECK_DEADLOCK FALSE
