SPECIFICATION Spec
CONSTANTS
  p = p
  q = q
  NoText = NoText
  Text <- MCText
  MaxArticles = 2
  MaxPage = 4
  MaxSends = 4
INVARIANT TypeOK
INVARIANT TableCatchesUp
INVARIANT PagesInOrder
INVARIANT SearchNeverTraps
CHECK_DEADLOCK FALSE
