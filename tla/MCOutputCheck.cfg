SPECIFICATION CheckSpec
CONSTANTS
  Configs <- MCConfigs
  Outputs <- MCOutputs
  Inputs <- MCInputs
  Wide <- MCWide
  EpsNum = 3
  EpsDen = 2
  MaxFloat = 110
INVARIANTS TextsAgree FloatsNear SectionsReadBack CheckerDecides
\* The functions return.
CHECK_DEADLOCK FALSE
