SPECIFICATION FairSpec
CONSTANTS
  Blocks = {b1, b2}
  NoBlock = NoBlock
  Free = Free
  Junk = Junk
  MaxMessage = 3
  Handles = {h1, h2}
  NoConn = NoConn
  Sources <- MCSources
  FrameSn <- MCFrameSn
  Invalid = Invalid
  Fragments <- MCFragments
  QueueLength = 1
  Timeout = 2
  HostLatency = 1
  ClockModulus = 4
  ArmMayFail = TRUE
  RearmMayFail = FALSE
  MaxSession = 3
INVARIANTS TypeOK SoleOwner ReassemblyOfConnection QueuedWhole TimeoutGuards
PROPERTIES NoEarlyRelease ReassemblyEnds QueuedFreed
