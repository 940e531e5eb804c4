SPECIFICATION FairSpec
CONSTANTS
  NumServices = 1
  CountSpace = 256
  MaxStarts = 2
  MaxRequests = 2
  MaxOutside = 3
  MaxStray = 1
CHECK_DEADLOCK FALSE
INVARIANTS
  TypeOK
  OneAtATime
  OncePerRequest
  KeepsPolling
PROPERTIES
  StopsPolling
  EveryRequestAnswered
