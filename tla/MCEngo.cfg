CONSTANTS
  Channel = {"#a"}
  Configured = {"#a"}
  Conn = {c1, c2}
  Session <- MCSession
  None = None
  Caller <- MCCaller
  Version <- MCVersion
  Scope = {"#a"}
  MaxConcurrent = 1
  Nobody = Nobody
  Main = Main
  MaxSessions = 2
  MaxEvents = 2
SPECIFICATION FairSpec
INVARIANTS IInv OneScript StatusIInv StatusAgrees
PROPERTIES SignalsServed
CHECK_DEADLOCK FALSE
