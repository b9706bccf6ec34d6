SPECIFICATION FairSpec
CONSTANTS
  MaxRequests = 2
  MaxStatuses = 2
INVARIANT TypeOK
INVARIANT StreamComplete
INVARIANT OneBubblePerRequest
PROPERTY FormComesBack
PROPERTY KeepsContract
\* The page need not send another request.
CHECK_DEADLOCK FALSE
