SPECIFICATION FairSpec
CONSTANTS
  w1 = w1
  w2 = w2
  j1 = j1
  j2 = j2
  d1 = d1
  d2 = d2
  d3 = d3
  d4 = d4
  NoDir = NoDir
  Nobody = Nobody
  Workers <- MCWorkers
  Jobs <- OneJob
  Dirs <- ThreeDirs
  MaxCached = 2
  MaxFaults = 1
  MayAge = TRUE
INVARIANTS CacheKept CacheWhole
PROPERTIES TakenOnlyByCleaners LeftoversRemoved
