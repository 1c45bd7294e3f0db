SPECIFICATION FairSpec

CONSTANTS
  Workers = {w1, w2, w3}
  Requests <- MCRequests
  Environments <- MCEnvironments
  MaxAge = 1
  MaxFuture = 1
  NoSecret = NoSecret
  None = None
  MaxTime = 1
  MaxDeliveries = 3

INVARIANTS
  AcceptedOnce
  DuplicateIsOnRecord

PROPERTY EveryRequestEnds
