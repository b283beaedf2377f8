SPECIFICATION FairSpec
CONSTANTS
  Programs <- MCPrograms
  Input = 3
  OutCap = 2
  ErrCap = 2
  Buffer = 2
  Reaping = TRUE
  MayFault = TRUE
INVARIANTS
  CutNeverCompared InnocentJudgedByOutput LimitsEnforced PreviewAgrees
  CompilerBelieved NothingRunsOn
PROPERTY Returned
\* The function returns.
CHECK_DEADLOCK FALSE
