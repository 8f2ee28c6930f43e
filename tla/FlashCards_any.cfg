SPECIFICATION Spec
CONSTANTS
  c1 = c1
  c2 = c2
  Country <- MCCountry
  Visible = 2
  MaxCards = 3
  MaxLoads = 4
  MaxHomes = 2
  MaxDeck = 2
INVARIANT TypeOK
INVARIANT DeckFollowsList
INVARIANT ReloadOffered
INVARIANT DeckIsCurrent
INVARIANT NewsOfCountry
PROPERTY TrapsNeedNewList
CHECK_DEADLOCK FALSE
SYMMETRY CountrySymmetry
