SPECIFICATION FairSpec
CONSTANTS
  a = a
  b = b
  NoUrl = NoUrl
  Url <- MCUrl
  Initial <- MCInitial
  MaxInFlight = 2
  MaxDocs = 2
  MaxLaunches = 2
INVARIANT TypeOK
INVARIANT IInv
INVARIANT NoLostBookmark
INVARIANT WritesAccounted
PROPERTY ImplementsBookmarks
PROPERTY UnsaveHolds
PROPERTY SaveSettles
