SPECIFICATION FairSpec
CONSTANTS
  t1 = t1
  t2 = t2
  t3 = t3
  t4 = t4
  NoJob = NoJob
  Nobody = Nobody
  Tasks <- MCTasks
  Jobs <- MCJobs
  NumLanguages = 2
  GlobalSlots = 2
  LanguageSlots = 1
INVARIANTS TypeOK SlotsConserved NoLostWakeup SomebodyMoves
PROPERTIES ImplementsBound Served
