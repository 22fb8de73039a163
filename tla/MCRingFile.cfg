CONSTANTS
  HeaderLen = 2
  LenSize = 1
  MaxUsize = 15
  Layouts <- MCLayouts
  Courts = {c1, c2}
  MaxCreations = 2
SPECIFICATION FileSpec
INVARIANTS FileInv MappingFits TurnedAwayOnlyInRace
CHECK_DEADLOCK FALSE
