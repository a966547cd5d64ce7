CONSTANTS
  Prices <- MCPrices
  Word = 4
  Ids <- StopIds
  None = None
  Requests <- StopRequests
  Amendments = {}
SPECIFICATION InTurnFairSpec
INVARIANTS OnePlaceEach NothingLost NoMissedTrigger
PROPERTIES WorkShrinks LockReleased
\* Clients may have no order left to submit: the system may stop.
CHECK_DEADLOCK FALSE
