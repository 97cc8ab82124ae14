SPECIFICATION ShellSpec
CONSTANTS
  ParamMax = 3
  Word = 1024
  H = 2
  Tables <- MCTables
  Sessions <- MCSessions
  Columns = 8
INVARIANTS TypeOK LineShown HistoryFaithful ArgumentsRight NumbersRight
