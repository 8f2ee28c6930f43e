SPECIFICATION Spec
CONSTANTS
  business = business
  sports = sports
  Category <- MCCategory
  Sizes = {0, 2}
  MaxVisits = 2
  MaxCalls = 2
  MaxSaved = 1
SYMMETRY MCSymmetry
CHECK_DEADLOCK FALSE
INVARIANT TypeOK
INVARIANT ListOfShown
INVARIANT CategoryNeverTraps
INVARIANT CategoryCatchesUp
 
