CONSTANTS
  Script <- MCScript
  TimerScript <- MCOneScript
  MaxGen = 3
  None = None
SPECIFICATION FairSpec
INVARIANTS IInv FailureKeepsScripts DisabledIsInactive StoppedRuntimesSilent
PROPERTIES ActiveTimersKept OperationsEnd
