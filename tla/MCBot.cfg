CONSTANTS
  Nick <- MCNick
  Host = {h1, h2}
  Account = {"alice", "bob"}
  Mapping <- MCMapping
  Default = "rfc1459"
  Key <- MCKey
  Fold <- MCFold
  Command = {"op"}
  Builtin = {"ai"}
  Perm = {"admin"}
  Required <- MCRequired
  Granted <- MCGranted
  Star = "*"
  None = "none"
  Server = "irc.net"
SPECIFICATION NetworkSpec
SYMMETRY Swap
INVARIANTS NetworkIInv CacheIsCurrent InSightIsKnown OwnersOnly
CHECK_DEADLOCK FALSE
