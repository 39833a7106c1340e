CONSTANTS
  sasl = sasl
  accountTag = accountTag
  serverTime = serverTime
  Cap <- MCCap
  Sasl = sasl
  Requested <- MCNone
  SaslWanted = FALSE
  ChannelsValid = TRUE
  NoLine = NoLine
  MaxNews = 1
  MaxMessages = 1
SPECIFICATION SessionSpec
INVARIANT SurvivesUnrelatedDEL
CHECK_DEADLOCK FALSE
