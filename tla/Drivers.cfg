SPECIFICATION FairSpec
CONSTANTS
  Width = 1
  Height = 2
  XOffset = 2
  YOffset = 1
  RamWidth = 5
  RamHeight = 4
  Regions <- MCRegions
  Rotations = {0, 90, 180, 270}
  Gui = Gui
  Test = Test
  InvertColor = TRUE
  MaxIos = 2
  LedMax = 2
  LedDefault = 1
  Colours <- MCColours
  Builds <- MCBuilds
INVARIANTS TypeOK Ready RegionDrawn
PROPERTY StripSettles
