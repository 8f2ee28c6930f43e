SPECIFICATION Spec
CONSTANTS
  i = i
  j = j
  en = en
  bg = bg
  Unset = Unset
  Interest <- MCInterest
  Language <- MCLanguage
  MaxArticles = 2
  MaxPage = 2
  MaxSends = 3
  MaxFound = 1
INVARIANT TapOpens
CHECK_DEADLOCK FALSE
