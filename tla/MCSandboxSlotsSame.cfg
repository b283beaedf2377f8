SPECIFICATION Spec
CONSTANTS
  t1 = t1
  t2 = t2
  t3 = t3
  t4 = t4
  NoJob = NoJob
  Nobody = Nobody
  Tasks <- ThreeTasks
  Jobs <- SameLanguage
  NumLanguages = 2
  GlobalSlots = 3
  LanguageSlots = 2
SYMMETRY MCSymmetry
INVARIANT SomebodyMoves
