SPECIFICATION Spec
CONSTANTS
  Senders = {s1, s2}
  NoSender = NoSender
  Handles = {h1}
  NoConn = NoConn
  FrameLen = 3
  LargeMtu = 2
  RetryMax = 2
  MaxSends = 2
  MaxLinks = 2
  MaxSession = 3
PROPERTY NoCrossing
CHECK_DEADLOCK FALSE
