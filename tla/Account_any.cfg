SPECIFICATION Spec
CONSTANTS
  a = a
  b = b
  NoUser = NoUser
  User <- MCUser
  MaxCalls <- MCCalls
  MaxLaunches = 3
  MaxCuts = 1
SYMMETRY MCSymmetry
INVARIANT TypeOK
INVARIANT IInv
PROPERTY ImplementsSession
INVARIANT RemembersOneReader
INVARIANT OwnDocument
INVARIANT NeverTraps
CHECK_DEADLOCK FALSE
