SPECIFICATION SelSpec
CONSTANTS
  t1 = t1
  t2 = t2
  t3 = t3
  Grid = {t1}
  Cut = t1
  Parts = {t2, t3}
  NoTask = NoTask
  Me <- Mapper
  Project <- Open
  Starts <- OneTaskStarts
  MaxMoves = 3
  MaxChanges = 1
  MaxFaults = 2
  MaxPolls = 1
PROPERTIES ClickAnswered StatusesConverge LockFoundAgain
CHECK_DEADLOCK FALSE
