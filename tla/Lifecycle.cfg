SPECIFICATION Spec
CONSTANTS
  FactoryBoots = 3
  Blank = Blank
  ReadMayFail = TRUE
  SaveMayFail = TRUE
  MaxBoots = 6
INVARIANTS TypeOK FactoryMeansUnstable
PROPERTIES UnstableMeansFactory
CHECK_DEADLOCK FALSE
