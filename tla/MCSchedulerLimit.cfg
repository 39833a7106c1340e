CONSTANTS
  a = a  b = b
  Id <- MCId
  Limit = 1
  MaxTimers = 3
  None = None
SPECIFICATION Spec
INVARIANTS LimitedTimers
