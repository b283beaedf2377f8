SPECIFICATION Spec
CONSTANTS
  w1 = w1
  w2 = w2
  j1 = j1
  j2 = j2
  d1 = d1
  d2 = d2
  d3 = d3
  d4 = d4
  NoDir = NoDir
  Nobody = Nobody
  Workers <- MCWorkers
  Jobs <- TwoJobs
  Dirs <- FourDirs
  MaxCached = 2
  MaxFaults = 1
  MayAge = FALSE
INVARIANT LiveDirsKept
