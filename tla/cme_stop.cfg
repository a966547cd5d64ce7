CONSTANTS
  Clients = {p1, p2}
  Owner = owner
  Dispatcher = consumer
  MaxEvents = 3
  MaxStops = 2
SPECIFICATION FairSpec
INVARIANTS StoppedMeansDrained
PROPERTIES RefinesPipeline SettledAfterStop StopReturns
\* The clients may be done and the object destroyed: the system may stop.
CHECK_DEADLOCK FALSE
