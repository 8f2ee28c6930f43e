SPECIFICATION Spec
CONSTANTS
  i = i
  j = j
  en = en
  bg = bg
  Unset = Unset
  Interest <- MCInterest
  Language <- MCLanguage
  MaxArticles = 2
  MaxPage = 2
  MaxSends = 3
  MaxFound = 1
SYMMETRY MCSymmetry
INVARIANT TypeOK
INVARIANT FeedOfInterests
INVARIANT FeedCatchesUp
INVARIANT SpinnerHasAnswer
INVARIANT FeedNeverTraps
INVARIANT OnlyFirstPage
CHECK_DEADLOCK FALSE
