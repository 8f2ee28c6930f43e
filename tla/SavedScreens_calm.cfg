SPECIFICATION SSpec
CONSTANTS
  a = a
  b = b
  NoUrl = NoUrl
  Url <- MCUrl
  TopUrl <- MCUrl
  Initial <- MCInitial
  Visible = 2
  MaxInFlight = 2
  MaxDocs = 2
  MaxLaunches = 1
CHECK_DEADLOCK FALSE
INVARIANT ScreensTypeOK
INVARIANT CalmNoPhantom
INVARIANT CalmNewestFirst
INVARIANT SavedTableCatchesUp
INVARIANT SavedRowsCurrent
 
