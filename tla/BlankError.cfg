SPECIFICATION Spec
CONSTANTS
  MaxRequests = 2
  MaxStatuses = 2
INVARIANT AnswerIsSaved
CHECK_DEADLOCK FALSE
