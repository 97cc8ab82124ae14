SPECIFICATION ChannelSpec
CONSTANTS
  Blocks = {b1, b2, b3}
  NoBlock = NoBlock
  Free = Free
  Junk = Junk
  MaxMessage = 2
  Handles = {h1}
  NoConn = NoConn
  Sources <- MCSources
  FrameSn <- MCFrameSn
  Invalid = Invalid
  Fragments = {}
  QueueLength = 1
  Timeout = 1
  HostLatency = 0
  ClockModulus = 2
  ArmMayFail = TRUE
  RearmMayFail = TRUE
  MaxSession = 3
  LenOf <- MCLenOf
INVARIANT QueuedUnmixed
