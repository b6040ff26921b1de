CONSTANTS
  Tails <- MCTails
  MaxLines = 3
  Window = 2
  PageLines = 1
  RestartLines <- MCRestartLines
  StallPolls = 1
  FileLines = 2
  KeepLines = 2
  MaxOpens = 2
  MaxTorn = 0
  MaxErrors = 1
  Breaks <- MCBreaks
SPECIFICATION MCSpec
INVARIANTS CursorNotAhead ScreenIsTrue ListsAreHonest CheckpointsAreTrue
PROPERTIES NothingGoesBack ViewsSettle
CHECK_DEADLOCK FALSE
