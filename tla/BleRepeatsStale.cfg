SPECIFICATION RepeatsSpec
CONSTANTS
  Blocks = {b1, b2, b3}
  NoBlock = NoBlock
  Free = Free
  Junk = Junk
  MaxMessage = 1
  Handles = {h1}
  NoConn = NoConn
  Sources <- MCSources
  FrameSn <- MCFrameSn
  Invalid = Invalid
  Fragments <- MCFragments
  QueueLength = 2
  Timeout = 1
  HostLatency = 0
  ClockModulus = 2
  ArmMayFail = FALSE
  RearmMayFail = FALSE
  MaxSession = 3
PROPERTY RepeatOfSameSession
