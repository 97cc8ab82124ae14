SPECIFICATION FairSpec
CONSTANTS
  Loggers = {t1, t2}
  Output = Output
  Shell = Shell
  Nobody = Nobody
  Chars = {"x", "y", "nl", "blank"}
  Newline = "nl"
  Logs <- MCLogs
  Blank = "blank"
  BufSize = 4
  LineSize = 2
INVARIANTS TypeOK FlagsAgree OneAtATime
PROPERTIES ImplementsStream Drains
