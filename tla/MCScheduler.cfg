CONSTANTS
  a = a  b = b
  Id <- MCId
  Limit = 1
  MaxTimers = 3
  None = None
SPECIFICATION FairSpec
INVARIANTS IInv OneForgottenPerStale ActiveWithinLimit
PROPERTIES AtMostOnceMore TimersSettle
