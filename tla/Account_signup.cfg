SPECIFICATION FairSpec
CONSTANTS
  a = a
  b = b
  NoUser = NoUser
  User <- MCUser
  MaxCalls <- MCCalls
  MaxLaunches = 1
  MaxCuts = 1
PROPERTY SignUpMovesOn
CHECK_DEADLOCK FALSE
