CONSTANTS
  sasl = sasl
  accountTag = accountTag
  serverTime = serverTime
  Cap <- MCCap
  Sasl = sasl
  Requested <- MCSasl
  SaslWanted = TRUE
  ChannelsValid = TRUE
  NoLine = NoLine
  MaxNews = 2
  MaxMessages = 1
SPECIFICATION PromptSpec
INVARIANTS SessionIInv Agreement RegisteredAtServer OrderlyClient EndsForCause
PROPERTY NegotiationSettles
CHECK_DEADLOCK FALSE
