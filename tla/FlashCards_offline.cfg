SPECIFICATION Spec
CONSTANTS
  c1 = c1
  c2 = c2
  Country <- MCCountry
  Visible = 2
  MaxCards = 3
  MaxLoads = 2
  MaxHomes = 1
  MaxDeck = 3
PROPERTY LoadedNewsStay
CHECK_DEADLOCK FALSE
