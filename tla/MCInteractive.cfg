SPECIFICATION FairSpec
CONSTANTS
  Codes = {0, 1, 2}
  Header = 2
  Buffer = 1
  MaxOutput = 2
  LineBound = 3
  MayIdle = TRUE
  Reaping = TRUE
  MayFault = TRUE
INVARIANTS NoEarlyEof EndedWell
PROPERTIES NobodyLeftWaiting Judged
\* The function returns.
CHECK_DEADLOCK FALSE
