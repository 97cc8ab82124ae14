SPECIFICATION Spec
CONSTANTS
  FactoryBoots = 3
  Blank = Blank
  ReadMayFail = TRUE
  SaveMayFail = FALSE
  MaxBoots = 6
PROPERTY TotalNeverFalls
CHECK_DEADLOCK FALSE
