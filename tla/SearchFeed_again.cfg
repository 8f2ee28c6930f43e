SPECIFICATION Spec
CONSTANTS
  p = p
  q = q
  NoText = NoText
  Text <- MCText
  MaxArticles = 2
  MaxPage = 4
  MaxSends = 4
INVARIANT FindsFirstPage
CHECK_DEADLOCK FALSE
