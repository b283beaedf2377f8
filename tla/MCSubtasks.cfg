SPECIFICATION Spec
CONSTANTS
  NumSubtasks = 3
  Kinds <- MCKinds
INVARIANTS OrderSound ScoresByTheRules PointsDeserved VerdictSound
\* The functions return.
CHECK_DEADLOCK FALSE
