SPECIFICATION Spec
CONSTANTS
  t1 = t1
  t2 = t2
  t3 = t3
  d1 = d1
  d2 = d2
  d3 = d3
  cpp = cpp
  c = c
  py = py
  s1 = s1
  NoRequest = NoRequest
  NoDir = NoDir
  Tasks <- MCTasks
  Requests <- MCRequests
  Interpreted = {py}
  Dirs <- MCDirs
  MaxEntries = 1
  MaxLost = 0
  MayFail = FALSE
SYMMETRY MCSymmetry
INVARIANT HeldNotRemoved
