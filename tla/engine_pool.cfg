CONSTANTS
  Prices = {1}
  Word = 4
  Ids <- MCIds
  None = None
  Requests <- MCRequests
  Amendments <- MCAmendments
  Threads = {t1, t2}
  Objects <- MCIds
  Nothing = Nothing
  SlabSize = 2
  AmendedOnce = TRUE
SPECIFICATION FairEngineSpec
INVARIANTS OnePlaceEachBlock ReferencedIntact NothingLeaks IdsAreFresh FirstDoneFirstServed
PROPERTIES CallsReturn
\* Clients may have no order left to submit: the system may stop.
CHECK_DEADLOCK FALSE
