SPECIFICATION AlgorithmsSpec
CONSTANTS
  ROWS = 4
  COLUMNS = 4
  Files <- SomeFiles
  MaxBytes = 9
  ElfHeader = 2
  Header = 2
  Item = 2
INVARIANTS
  WinnerHasLine
  ReplayedBoardIsPlayed
  AcceptedIsStatic
PROPERTIES
  ImplementsGameRules
CHECK_DEADLOCK FALSE
