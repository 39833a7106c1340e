CONSTANTS
  n1 = n1  n2 = n2  c1 = c1  a1 = a1
  Me = Me  Mask = Mask  None = None
  Channel <- MCChannels
  Name <- MCName
  Account <- MCAccounts
  MaxUsers = 1
  MaxSessions = 2
  MaxLeft = 3
SPECIFICATION NetworkSpec
INVARIANTS NetworkIInv MembersAgree RolesAgree AccountsAgree
