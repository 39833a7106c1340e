CONSTANTS
  Script <- MCScript
  TimerScript <- MCScript
  MaxGen = 2
  None = None
SPECIFICATION Spec
INVARIANT TimersBelongToActive
