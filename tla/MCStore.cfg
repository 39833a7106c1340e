CONSTANTS
  t1 = t1  t2 = t2  t3 = t3  p1 = p1  p2 = p2
  k1 = k1  k2 = k2  kbad = kbad  v1 = v1  vbig = vbig  vraw = vraw  vutf = vutf
  Thread <- MCThread
  Process <- MCProcess
  ProcessOf <- MCProcessOf
  Key <- MCKey
  LegalKey <- MCLegalKey
  Value <- MCValue
  SmallValue <- MCSmallValue
  Clean <- MCClean
  Missing = Missing
  Request <- MCRequest
  NoOp = NoOp
  None = None
SPECIFICATION FairSpec
INVARIANTS NeverTorn CopyIsCurrent IInv
PROPERTIES ImplementsKVStore EveryCallReturns
