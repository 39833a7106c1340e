CONSTANTS
  sasl = sasl
  accountTag = accountTag
  serverTime = serverTime
  Cap <- MCCap
  Sasl = sasl
  Requested <- MCSasl
  SaslWanted = TRUE
  ChannelsValid = TRUE
  NoLine = NoLine
SPECIFICATION FairSpec
INVARIANTS RegisteredNegotiated CredentialsNeedGrant IInv
PROPERTIES ImplementsRegistration NeverHalfRegistered
CHECK_DEADLOCK FALSE
