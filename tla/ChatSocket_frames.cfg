SPECIFICATION FairSpec
CONSTANTS
  MaxRuns = 3
  MaxEvents = 1
  MaxReplies = 1
INVARIANTS RunsDoNotInterleave NothingAfterTheEnd
PROPERTY CancelDoesNotWait
CHECK_DEADLOCK FALSE
