SPECIFICATION SessionsFairSpec
CONSTANTS
  Turns = {t1}
  Silent = {}
  Fits = 2
  Ends = {e1, e2}
  MaxTries = 2
  MaxFaults = 1
INVARIANTS OneSummary SearchRanksSummaries
PROPERTIES SummariesAdvance QueuedIsSummarised
CHECK_DEADLOCK FALSE
