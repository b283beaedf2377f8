--------------------------- MODULE TempDirsProofs ---------------------------
(***************************************************************************)
(* Theorems about TempDirs: for every set of workers, judgings and         *)
(* directories, and any number of crashes, what a compile cache names is   *)
(* on disk, and a judging loses a directory only to the clean-up of a      *)
(* worker that starts or to the reaper's sweep of what is old.             *)
(***************************************************************************)
EXTENDS TempDirs, TLAPS

\* A name that mkdtemp() gives is on nobody's mind: not on disk, of no judging,
\* and of no cache.
LEMMA FreshIsNew ==
  ASSUME TypeOK, NEW d \in Fresh
  PROVE  /\ d \in Dirs /\ d # NoDir
         /\ d \notin present /\ d \notin whole /\ d \notin ccache /\ d \notin stale
         /\ \A j \in Jobs : d # dir[j] /\ d # workDir[j]
         /\ \A w \in Workers : d \notin cached[w] /\ d \notin scan[w]
<1>1. d \in Dirs /\ d # NoDir
  BY TempDirsAssumption DEF Fresh, TempDirsAssumption
<1>2. d \notin present /\ d \notin whole /\ d \notin ccache /\ d \notin stale
  BY DEF Fresh, TypeOK
<1>3. ASSUME NEW j \in Jobs PROVE d # dir[j] /\ d # workDir[j]
  <2>1. d \notin HeldBy(j)
    BY DEF Fresh, Held
  <2>. QED BY <2>1, <1>1 DEF HeldBy
<1>4. ASSUME NEW w \in Workers PROVE d \notin cached[w] /\ d \notin scan[w]
  BY DEF Fresh
<1>. QED BY <1>1, <1>2, <1>3, <1>4

\* Whose age and name let a scan remove it.
Removable(w, d) ==
  /\ d \in scan[w]
  /\ status[w] = "cleaning" \/ (status[w] = "sweeping" /\ d \in stale)

\* A new directory for a job, which compiles in it or not.
Begins(j, w, d, c, dropped, freed) ==
  /\ Begin(j, w, d, c, dropped, freed)
  /\ compiling' = compiling \/ (c = NoDir /\ compiling' = compiling \cup {j})

\* The steps by what they do to the disk.
LEMMA StepCases ==
  ASSUME [Next]_vars
  PROVE  \/ UNCHANGED vars
         \/ \E w \in Workers : Start(w) \/ Sweep(w) \/ Scanned(w) \/ Crash(w)
         \/ \E w \in Workers, d \in Dirs :
              \/ PassBy(w, d)
              \/ Removable(w, d) /\ (Empty(w, d) \/ (d \notin whole /\ RemoveEmptied(w, d)))
         \/ \E j \in Jobs, w \in Workers, d \in Dirs, c \in Dirs \cup {NoDir},
               dropped, freed \in SUBSET Dirs : Begins(j, w, d, c, dropped, freed)
         \/ \E w \in Workers, d \in Dirs, dropped, freed \in SUBSET Dirs :
               BeginFails(w, d, dropped, freed)
         \/ \E j \in Jobs : CompileError(j) \/ Compiled(j) \/ TestDone(j) \/ JudgeDone(j)
         \/ \E j \in Jobs : CompileRaises(j)
         \/ \E j \in Jobs, c \in Dirs, dropped, freed \in SUBSET Dirs : Store(j, c, dropped, freed)
         \/ \E j \in Jobs, c \in Dirs : StoreFails(j, c) \/ Prepare(j, c) \/ PrepareFails(j, c)
         \/ \E d \in Dirs : Age(d)
<1>1. ASSUME NEW w \in Workers, NEW d \in Dirs, Clean(w, d) \/ Reap(w, d)
      PROVE  \/ PassBy(w, d)
             \/ Removable(w, d) /\ (Empty(w, d) \/ (d \notin whole /\ RemoveEmptied(w, d)))
  BY <1>1 DEF Clean, Reap, Visit, IsStale, Removable
<1>2. ASSUME NEW j \in Jobs, NEW w \in Workers, NEW d \in Dirs,
             \/ \E dropped, freed \in AtMostOne : Compile(j, w, d, dropped, freed)
             \/ Interpret(j, w, d)
             \/ \E c \in Dirs : Hit(j, w, d, c)
      PROVE  \E c \in Dirs \cup {NoDir}, dropped, freed \in SUBSET Dirs :
               Begins(j, w, d, c, dropped, freed)
  BY <1>2 DEF Compile, Interpret, Hit, Begins, AtMostOne
<1>3. AtMostOne \subseteq SUBSET Dirs
  BY DEF AtMostOne
<1>. QED
  BY <1>1, <1>2, <1>3 DEF Next, Serve, Judge

\* The types: every step keeps them.
LEMMA TypeStep == TypeOK /\ [Next]_vars => TypeOK'
<1>. SUFFICES ASSUME TypeOK, [Next]_vars PROVE TypeOK'
  OBVIOUS
<1>. USE DEF TypeOK
<1>0. Fault => faults' \in 0..MaxFaults
  BY TempDirsAssumption DEF Fault, TempDirsAssumption
<1>1. ASSUME NEW w \in Workers, Start(w) \/ Sweep(w) PROVE TypeOK'
  BY <1>1 DEF Start, Sweep, Scan, disk, judgings
<1>2. ASSUME NEW w \in Workers, Scanned(w) PROVE TypeOK'
  BY <1>2 DEF Scanned, disk, judgings
<1>3. ASSUME NEW w \in Workers, Crash(w) PROVE TypeOK'
  <2>1. Fault
    BY <1>3 DEF Crash
  <2>. QED BY <1>0, <1>3, <2>1 DEF Crash, disk
<1>4. ASSUME NEW w \in Workers, NEW d \in Dirs, PassBy(w, d) PROVE TypeOK'
  BY <1>4 DEF PassBy, disk, judgings
<1>5. ASSUME NEW w \in Workers, NEW d \in Dirs, Empty(w, d) PROVE TypeOK'
  BY <1>5 DEF Empty, scans, judgings
<1>6. ASSUME NEW w \in Workers, NEW d \in Dirs, RemoveEmptied(w, d) PROVE TypeOK'
  BY <1>6 DEF RemoveEmptied, Removed, disk, judgings
<1>7. ASSUME NEW w \in Workers, NEW d \in Dirs, NEW c \in Dirs \cup {NoDir}, NEW new \in SUBSET {d},
             NEW dropped \in SUBSET Dirs, NEW freed \in SUBSET Dirs,
             Recache(w, dropped, freed, new), Added(d, c, freed), d \in Fresh
      PROVE  /\ present' \subseteq Dirs /\ whole' \subseteq present' /\ ccache' \subseteq present'
             /\ stale' \subseteq present' /\ cached' \in [Workers -> SUBSET Dirs]
  <2>1. present' \subseteq Dirs /\ whole' \subseteq present' /\ stale' \subseteq present'
    BY <1>7 DEF Added
  <2>2. ccache' \subseteq present'
    BY <1>7 DEF Recache, Added
  <2>3. cached' \in [Workers -> SUBSET Dirs]
    BY <1>7 DEF Recache
  <2>. QED BY <2>1, <2>2, <2>3
<1>14. ASSUME NEW j \in Jobs, NEW w \in Workers, NEW d \in Dirs, NEW c \in Dirs \cup {NoDir},
              NEW dropped \in SUBSET Dirs, NEW freed \in SUBSET Dirs,
              Begins(j, w, d, c, dropped, freed)
       PROVE  TypeOK'
  <2>1. Recache(w, dropped, freed, {}) /\ Added(d, c, freed) /\ d \in Fresh
    BY <1>14 DEF Begins, Begin
  <2>2. /\ present' \subseteq Dirs /\ whole' \subseteq present' /\ ccache' \subseteq present'
        /\ stale' \subseteq present' /\ cached' \in [Workers -> SUBSET Dirs]
    BY <1>7, <2>1
  <2>3. UNCHANGED <<status, scan, workDir, spoiled, faults>>
    BY <1>14 DEF Begins, Begin, scans
  <2>4. /\ worker' \in [Jobs -> Workers \cup {Nobody}] /\ dir' \in [Jobs -> Dirs \cup {NoDir}]
        /\ compiling' \subseteq Jobs
    BY <1>14 DEF Begins, Begin
  <2>. QED BY <2>2, <2>3, <2>4
<1>15. ASSUME NEW w \in Workers, NEW d \in Dirs, NEW dropped \in SUBSET Dirs,
              NEW freed \in SUBSET Dirs, BeginFails(w, d, dropped, freed)
       PROVE  TypeOK'
  <2>1. Recache(w, dropped, freed, {}) /\ Added(d, d, freed) /\ d \in Fresh /\ Fault
    BY <1>15 DEF BeginFails
  <2>2. /\ present' \subseteq Dirs /\ whole' \subseteq present' /\ ccache' \subseteq present'
        /\ stale' \subseteq present' /\ cached' \in [Workers -> SUBSET Dirs]
    BY <1>7, <2>1
  <2>3. UNCHANGED <<status, scan, worker, dir, compiling, workDir, spoiled>>
    BY <1>15 DEF BeginFails, scans, judgings
  <2>. QED BY <1>0, <2>1, <2>2, <2>3
<1>16. ASSUME NEW j \in Jobs, CompileRaises(j) PROVE TypeOK'
  BY <1>0, <1>16 DEF CompileRaises, scans, disk
<1>17. ASSUME NEW j \in Jobs, NEW d \in Dirs, PrepareFails(j, d) PROVE TypeOK'
  BY <1>0, <1>17 DEF PrepareFails, Added, scans, judgings
<1>8. ASSUME NEW j \in Jobs, CompileError(j) \/ TestDone(j) \/ JudgeDone(j) PROVE TypeOK'
  BY <1>8 DEF CompileError, TestDone, JudgeDone, Removed, scans
<1>9. ASSUME NEW j \in Jobs, Compiled(j) PROVE TypeOK'
  BY <1>9 DEF Compiled, scans, disk
<1>10. ASSUME NEW j \in Jobs, NEW c \in Dirs, NEW dropped \in SUBSET Dirs,
              NEW freed \in SUBSET Dirs, Store(j, c, dropped, freed)
       PROVE  TypeOK'
  <2>1. /\ worker[j] \in Workers /\ Recache(worker[j], dropped, freed, {c})
        /\ Added(c, dir[j], freed) /\ c \in Fresh /\ dir[j] \in Dirs \cup {NoDir}
    BY <1>10 DEF Store, Running
  <2>2. /\ present' \subseteq Dirs /\ whole' \subseteq present' /\ ccache' \subseteq present'
        /\ stale' \subseteq present' /\ cached' \in [Workers -> SUBSET Dirs]
    BY <1>7, <2>1
  <2>3. UNCHANGED <<status, scan, worker, dir, workDir, spoiled, faults>> /\ compiling' \subseteq Jobs
    BY <1>10 DEF Store, scans
  <2>. QED BY <2>2, <2>3
<1>11. ASSUME NEW j \in Jobs, NEW c \in Dirs, StoreFails(j, c) PROVE TypeOK'
  BY <1>11 DEF StoreFails, scans
<1>12. ASSUME NEW j \in Jobs, NEW d \in Dirs, Prepare(j, d) PROVE TypeOK'
  BY <1>12 DEF Prepare, Added, scans
<1>13. ASSUME NEW d \in Dirs, Age(d) PROVE TypeOK'
  BY <1>13 DEF Age, scans, judgings
<1>18. CASE UNCHANGED vars
  BY <1>18 DEF vars, scans, disk, judgings
<1>. QED
  BY <1>1, <1>2, <1>3, <1>4, <1>5, <1>6, <1>8, <1>9, <1>10, <1>11, <1>12, <1>13, <1>14, <1>15,
     <1>16, <1>17, <1>18, StepCases

\* What HeldApart says of single directories.
LEMMA ApartPointwise ==
  ASSUME TypeOK, HeldApart
  PROVE  /\ \A j \in Jobs : /\ dir[j] \notin ccache /\ workDir[j] \notin ccache
                            /\ worker[j] = Nobody => dir[j] = NoDir /\ workDir[j] = NoDir
         /\ \A j, k \in Jobs : j # k => HeldBy(j) \cap HeldBy(k) = {}
<1>1. ASSUME NEW j \in Jobs PROVE dir[j] \notin ccache /\ workDir[j] \notin ccache
  BY TempDirsAssumption DEF TempDirsAssumption, TypeOK, HeldApart, HeldBy
<1>2. ASSUME NEW j \in Jobs, worker[j] = Nobody PROVE dir[j] = NoDir /\ workDir[j] = NoDir
  BY <1>2 DEF HeldApart, HeldBy
<1>. QED BY <1>1, <1>2 DEF HeldApart

\* A step that gives no judging a directory and the caches no ones but theirs
\* keeps HeldApart.
LEMMA ApartShrinks ==
  ASSUME HeldApart, ccache' \subseteq ccache,
         \A j \in Jobs : /\ dir'[j] \in {dir[j], NoDir}
                         /\ workDir'[j] \in {workDir[j], NoDir}
                         /\ worker'[j] = Nobody => dir'[j] = NoDir /\ workDir'[j] = NoDir
  PROVE  HeldApart'
<1>1. \A j \in Jobs : HeldBy(j)' \subseteq HeldBy(j)
  BY DEF HeldBy
<1>2. ASSUME NEW j \in Jobs
      PROVE  /\ (HeldBy(j) \cap ccache = {})'
             /\ (dir[j] = workDir[j] => dir[j] = NoDir)'
             /\ (worker[j] = Nobody => HeldBy(j) = {})'
  <2>1. (HeldBy(j) \cap ccache = {})'
    BY <1>1 DEF HeldApart
  <2>2. (dir[j] = workDir[j] => dir[j] = NoDir)'
    BY DEF HeldApart
  <2>3. (worker[j] = Nobody => HeldBy(j) = {})'
    BY DEF HeldBy
  <2>. QED BY <2>1, <2>2, <2>3
<1>3. ASSUME NEW j \in Jobs, NEW k \in Jobs, j # k PROVE (HeldBy(j) \cap HeldBy(k) = {})'
  BY <1>1, <1>3 DEF HeldApart
<1>. QED BY <1>2, <1>3 DEF HeldApart

\* A job that begins has a directory nobody knows.
LEMMA ApartBegins ==
  ASSUME TypeOK, HeldApart, NEW j \in Jobs, NEW w \in Workers, NEW d \in Dirs,
         NEW c \in Dirs \cup {NoDir}, NEW dropped \in SUBSET Dirs, NEW freed \in SUBSET Dirs,
         Begins(j, w, d, c, dropped, freed)
  PROVE  HeldApart'
<1>1. d \in Fresh /\ worker[j] = Nobody
  BY DEF Begins, Begin
<1>2. /\ ccache' \subseteq ccache /\ workDir' = workDir
      /\ worker' = [worker EXCEPT ![j] = w] /\ dir' = [dir EXCEPT ![j] = d]
  BY DEF Begins, Begin, Recache
<1>3. HeldBy(j)' = {d} /\ workDir'[j] = NoDir /\ dir'[j] = d /\ d # NoDir
  BY <1>1, <1>2, FreshIsNew, ApartPointwise DEF HeldBy, TypeOK
<1>4. ASSUME NEW k \in Jobs, k # j
      PROVE  /\ dir'[k] = dir[k] /\ workDir'[k] = workDir[k] /\ worker'[k] = worker[k]
             /\ HeldBy(k)' = HeldBy(k)
  BY <1>2, <1>4 DEF HeldBy, TypeOK
<1>5. ASSUME NEW k \in Jobs PROVE (HeldBy(k) \cap ccache = {})'
  <2>1. d \notin ccache'
    BY <1>1, <1>2, FreshIsNew
  <2>. QED BY <2>1, <1>2, <1>3, <1>4 DEF HeldApart
<1>6. ASSUME NEW k \in Jobs
      PROVE  /\ (dir[k] = workDir[k] => dir[k] = NoDir)'
             /\ (worker[k] = Nobody => HeldBy(k) = {})'
  <2>1. CASE k = j
    BY <1>2, <1>3, <2>1, TempDirsAssumption DEF TypeOK, TempDirsAssumption
  <2>2. CASE k # j
    BY <1>4, <2>2 DEF HeldApart
  <2>. QED BY <2>1, <2>2
<1>7. ASSUME NEW k \in Jobs, NEW l \in Jobs, k # l PROVE (HeldBy(k) \cap HeldBy(l) = {})'
  <2>1. \A m \in Jobs : d \notin HeldBy(m)
    BY <1>1 DEF Fresh, Held
  <2>. QED BY <1>3, <1>4, <1>7, <2>1 DEF HeldApart
<1>. QED BY <1>5, <1>6, <1>7 DEF HeldApart

\* So is the work_dir of a test.
LEMMA ApartPrepares ==
  ASSUME TypeOK, HeldApart, NEW j \in Jobs, NEW d \in Dirs, Prepare(j, d)
  PROVE  HeldApart'
<1>1. ccache' = ccache
  BY DEF Prepare
<1>2. /\ d \notin ccache /\ \A k \in Jobs : d # dir[k] /\ d # workDir[k] /\ d \notin HeldBy(k)
      /\ d # NoDir
  <2>1. \A k \in Jobs : d \notin HeldBy(k)
    BY DEF Prepare, Fresh, Held
  <2>. QED BY <2>1, FreshIsNew DEF Prepare
<1>3. /\ dir' = dir /\ worker' = worker /\ worker[j] # Nobody
      /\ workDir'[j] = d /\ \A k \in Jobs \ {j} : workDir'[k] = workDir[k]
  BY DEF Prepare, Running, TypeOK
<1>4. /\ HeldBy(j)' \subseteq HeldBy(j) \cup {d}
      /\ \A k \in Jobs \ {j} : HeldBy(k)' = HeldBy(k)
  BY <1>3 DEF HeldBy
<1>5. ASSUME NEW k \in Jobs
      PROVE  /\ (HeldBy(k) \cap ccache = {})'
             /\ (dir[k] = workDir[k] => dir[k] = NoDir)'
             /\ (worker[k] = Nobody => HeldBy(k) = {})'
  <2>1. (HeldBy(k) \cap ccache = {})'
    BY <1>1, <1>2, <1>4 DEF HeldApart
  <2>2. (dir[k] = workDir[k] => dir[k] = NoDir)'
    BY <1>2, <1>3 DEF HeldApart
  <2>3. (worker[k] = Nobody => HeldBy(k) = {})'
    BY <1>3, <1>4 DEF HeldApart
  <2>. QED BY <2>1, <2>2, <2>3
<1>6. ASSUME NEW k \in Jobs, NEW l \in Jobs, k # l PROVE (HeldBy(k) \cap HeldBy(l) = {})'
  BY <1>2, <1>4, <1>6 DEF HeldApart
<1>. QED BY <1>5, <1>6 DEF HeldApart

\* What is named ccache_ anew is held by nobody.
LEMMA ApartStores ==
  ASSUME TypeOK, HeldApart, NEW c \in Fresh, ccache' \subseteq ccache \cup {c},
         UNCHANGED <<worker, dir, workDir>>
  PROVE  HeldApart'
<1>1. \A k \in Jobs : c \notin HeldBy(k) /\ HeldBy(k)' = HeldBy(k)
  BY DEF Fresh, Held, HeldBy
<1>. QED BY <1>1 DEF HeldApart

\* Every step of the specification keeps HeldApart.
LEMMA ApartStep == TypeOK /\ HeldApart /\ CompilersApart /\ [Next]_vars => HeldApart'
<1>. SUFFICES ASSUME TypeOK, HeldApart, CompilersApart, [Next]_vars PROVE HeldApart'
  OBVIOUS
<1>1. ASSUME ccache' \subseteq ccache, UNCHANGED <<worker, dir, workDir>> PROVE HeldApart'
  <2>1. \A j \in Jobs : worker[j] = Nobody => dir[j] = NoDir /\ workDir[j] = NoDir
    BY ApartPointwise
  <2>. QED BY <1>1, <2>1, ApartShrinks
<1>2. ASSUME NEW w \in Workers, Start(w) \/ Sweep(w) \/ Scanned(w) PROVE HeldApart'
  BY <1>2, <1>1 DEF Start, Sweep, Scan, Scanned, disk, judgings
<1>3. ASSUME NEW w \in Workers, Crash(w) PROVE HeldApart'
  <2>1. ccache' \subseteq ccache
    BY <1>3 DEF Crash, disk
  <2>2. ASSUME NEW j \in Jobs
        PROVE  /\ dir'[j] \in {dir[j], NoDir}
               /\ workDir'[j] \in {workDir[j], NoDir}
               /\ worker'[j] = Nobody => dir'[j] = NoDir /\ workDir'[j] = NoDir
    BY <1>3, ApartPointwise DEF Crash, TypeOK
  <2>. QED BY <2>1, <2>2, ApartShrinks
<1>4. ASSUME NEW w \in Workers, NEW d \in Dirs,
             PassBy(w, d) \/ Empty(w, d) \/ RemoveEmptied(w, d)
      PROVE  HeldApart'
  BY <1>4, <1>1 DEF PassBy, Empty, RemoveEmptied, Removed, disk, judgings
<1>5. ASSUME NEW j \in Jobs, CompileError(j) \/ CompileRaises(j) \/ TestDone(j) \/ JudgeDone(j)
      PROVE  HeldApart'
  <2>1. ccache' \subseteq ccache
    BY <1>5 DEF CompileError, CompileRaises, TestDone, JudgeDone, Removed, disk
  <2>2. ASSUME NEW k \in Jobs
        PROVE  /\ dir'[k] \in {dir[k], NoDir}
               /\ workDir'[k] \in {workDir[k], NoDir}
    BY <1>5 DEF CompileError, CompileRaises, TestDone, JudgeDone, TypeOK
  <2>3. ASSUME NEW k \in Jobs, worker'[k] = Nobody
        PROVE  dir'[k] = NoDir /\ workDir'[k] = NoDir
    BY <1>5, <2>3, ApartPointwise
       DEF CompileError, CompileRaises, TestDone, JudgeDone, Running, CompilersApart, TypeOK
  <2>. QED BY <2>1, <2>2, <2>3, ApartShrinks
<1>6. ASSUME NEW j \in Jobs, Compiled(j) PROVE HeldApart'
  BY <1>6, <1>1 DEF Compiled, disk
<1>7. ASSUME NEW j \in Jobs, NEW c \in Dirs,
             StoreFails(j, c) \/ \E dropped, freed \in SUBSET Dirs : Store(j, c, dropped, freed)
      PROVE  HeldApart'
  <2>1. c \in Fresh /\ ccache' \subseteq ccache \cup {c} /\ UNCHANGED <<worker, dir, workDir>>
    BY <1>7 DEF Store, StoreFails, Recache
  <2>. QED BY <2>1, ApartStores
<1>10. ASSUME NEW w \in Workers, NEW d \in Dirs, NEW dropped \in SUBSET Dirs,
              NEW freed \in SUBSET Dirs, BeginFails(w, d, dropped, freed)
       PROVE  HeldApart'
  BY <1>10, <1>1 DEF BeginFails, Recache, judgings
<1>11. ASSUME NEW j \in Jobs, NEW d \in Dirs, PrepareFails(j, d) PROVE HeldApart'
  BY <1>11, <1>1 DEF PrepareFails, judgings
<1>8. ASSUME NEW d \in Dirs, Age(d) PROVE HeldApart'
  BY <1>8, <1>1 DEF Age, judgings
<1>9. CASE UNCHANGED vars
  BY <1>9, <1>1 DEF vars, disk, judgings
<1>. QED
  BY <1>2, <1>3, <1>4, <1>5, <1>6, <1>7, <1>8, <1>9, <1>10, <1>11, ApartBegins, ApartPrepares,
     StepCases

\* What a job removes that ends, or whose test or compiler does, is its own.
LEMMA OwnRemoved ==
  ASSUME TypeOK, HeldApart, CompilersApart, NEW j \in Jobs,
         CompileError(j) \/ TestDone(j) \/ JudgeDone(j)
  PROVE  \E d \in {dir[j], workDir[j]} :
           /\ Removed({d})
           /\ d \notin ccache
           /\ d # NoDir => d \in HeldBy(j) /\ d \notin HeldBy(j)'
           /\ \A k \in Jobs \ {j} : d \notin HeldBy(k) \/ d = NoDir
<1>1. CASE CompileError(j)
  <2>1. Removed({dir[j]}) /\ dir'[j] = NoDir /\ workDir' = workDir /\ workDir[j] = NoDir
    BY <1>1 DEF CompileError, CompilersApart, TypeOK
  <2>2. dir[j] \notin ccache
    BY ApartPointwise
  <2>. QED BY <2>1, <2>2 DEF HeldApart, HeldBy
<1>2. CASE TestDone(j)
  <2>1. Removed({workDir[j]}) /\ workDir'[j] = NoDir /\ dir' = dir /\ workDir[j] # NoDir
    BY <1>2 DEF TestDone, TypeOK
  <2>2. workDir[j] \notin ccache
    BY ApartPointwise
  <2>. QED BY <2>1, <2>2 DEF HeldApart, HeldBy
<1>3. CASE JudgeDone(j)
  <2>1. Removed({dir[j]}) /\ dir'[j] = NoDir /\ workDir' = workDir /\ workDir[j] = NoDir
    BY <1>3 DEF JudgeDone, TypeOK
  <2>2. dir[j] \notin ccache
    BY ApartPointwise
  <2>. QED BY <2>1, <2>2 DEF HeldApart, HeldBy
<1>. QED BY <1>1, <1>2, <1>3

\* A step that changes no cache.
LEMMA CacheUnchanged ==
  ASSUME CacheKept, cached' = cached, ccache \subseteq ccache'
  PROVE  CacheKept'
BY DEF CacheKept

\* What is dropped from a cache is named by none, and what is new is named by one.
LEMMA Recached ==
  ASSUME TypeOK, CacheKept, NEW w \in Workers, NEW dropped \in SUBSET Dirs,
         NEW freed \in SUBSET Dirs, NEW new \in SUBSET Fresh, Recache(w, dropped, freed, new)
  PROVE  /\ freed \subseteq ccache /\ ccache' = (ccache \ freed) \cup new
         /\ \A v \in Workers : cached'[v] \cap freed = {} /\ cached'[v] \subseteq cached[v] \cup new
         /\ CacheKept'
<1>1. /\ freed \subseteq cached[w] /\ ccache' = (ccache \ freed) \cup new
      /\ cached' = [cached EXCEPT ![w] = (@ \ dropped) \cup new] /\ freed \subseteq dropped
  BY DEF Recache
<1>2. freed \subseteq ccache
  BY <1>1 DEF CacheKept
<1>3. cached'[w] = (cached[w] \ dropped) \cup new /\ \A v \in Workers \ {w} : cached'[v] = cached[v]
  BY <1>1 DEF TypeOK
<1>4. \A v \in Workers : cached[v] \cap new = {}
  BY DEF Fresh
<1>5. \A v \in Workers \ {w} : cached[v] \cap cached[w] = {}
  BY DEF CacheKept
<1>6. ASSUME NEW v \in Workers
      PROVE  cached'[v] \cap freed = {} /\ cached'[v] \subseteq cached[v] \cup new
  BY <1>1, <1>3, <1>4, <1>5
<1>7. \A v \in Workers : cached'[v] \subseteq ccache'
  BY <1>1, <1>3, <1>6 DEF CacheKept
<1>8. \A u, v \in Workers : u # v => cached'[u] \cap cached'[v] = {}
  BY <1>3, <1>4, <1>5 DEF CacheKept
<1>. QED BY <1>1, <1>2, <1>6, <1>7, <1>8 DEF CacheKept

\* What a compile_once() does that drops an entry, for Recached.
LEMMA CacheAsked ==
  ASSUME TypeOK, CacheKept, NEW w \in Workers, NEW dropped \in SUBSET Dirs,
         NEW freed \in SUBSET Dirs, Recache(w, dropped, freed, {})
  PROVE  /\ freed \subseteq ccache /\ ccache' = ccache \ freed
         /\ \A v \in Workers : cached'[v] \cap freed = {} /\ cached'[v] \subseteq cached[v]
         /\ CacheKept'
<1>1. {} \in SUBSET Fresh
  OBVIOUS
<1>2. /\ freed \subseteq ccache /\ ccache' = (ccache \ freed) \cup {}
      /\ \A v \in Workers : cached'[v] \cap freed = {} /\ cached'[v] \subseteq cached[v] \cup {}
      /\ CacheKept'
  BY ONLY <1>1, Recached, TypeOK, CacheKept, w \in Workers, dropped \in SUBSET Dirs,
          freed \in SUBSET Dirs, Recache(w, dropped, freed, {})
<1>. QED BY <1>2

\* What Store() does to the caches and the disk.
LEMMA StoredInCache ==
  ASSUME TypeOK, CacheKept, NEW j \in Jobs, NEW c \in Dirs, NEW dropped \in SUBSET Dirs,
         NEW freed \in SUBSET Dirs, Store(j, c, dropped, freed)
  PROVE  /\ c \in Fresh /\ freed \subseteq ccache /\ ccache' = (ccache \ freed) \cup {c}
         /\ \A v \in Workers : cached'[v] \cap freed = {} /\ cached'[v] \subseteq cached[v] \cup {c}
         /\ CacheKept'
<1>1. worker[j] \in Workers /\ c \in Fresh /\ Recache(worker[j], dropped, freed, {c})
  BY DEF Store, Running, TypeOK
<1>2. {c} \in SUBSET Fresh
  BY <1>1
<1>3. /\ freed \subseteq ccache /\ ccache' = (ccache \ freed) \cup {c}
      /\ \A v \in Workers : cached'[v] \cap freed = {} /\ cached'[v] \subseteq cached[v] \cup {c}
      /\ CacheKept'
  BY ONLY <1>1, <1>2, Recached, TypeOK, CacheKept, dropped \in SUBSET Dirs, freed \in SUBSET Dirs
<1>. QED BY <1>1, <1>3

\* Every step keeps CacheKept: only the jobs themselves remove what is not asked
\* for its name, and what they remove is no cache's.
LEMMA CacheStep ==
  IInv /\ [Next]_vars => CacheKept'
<1>. SUFFICES ASSUME IInv, [Next]_vars PROVE CacheKept'
  OBVIOUS
<1>. USE DEF IInv
<1>1. ASSUME NEW w \in Workers, Start(w) \/ Sweep(w) \/ Scanned(w) PROVE CacheKept'
  BY <1>1, CacheUnchanged DEF Start, Sweep, Scan, Scanned, disk
<1>2. ASSUME NEW w \in Workers, Crash(w) PROVE CacheKept'
  <2>1. ccache' = ccache /\ \A v \in Workers : cached'[v] \subseteq cached[v]
    BY <1>2 DEF Crash, disk, TypeOK
  <2>. QED BY <2>1 DEF CacheKept
<1>3. ASSUME NEW w \in Workers, NEW d \in Dirs,
             PassBy(w, d) \/ (Removable(w, d) /\ (Empty(w, d) \/ RemoveEmptied(w, d)))
      PROVE  CacheKept'
  <2>1. cached' = cached
    BY <1>3 DEF PassBy, Empty, RemoveEmptied
  <2>2. ccache \subseteq ccache'
    BY <1>3 DEF PassBy, Empty, RemoveEmptied, Removed, Removable, ScansApart, disk
  <2>. QED BY <2>1, <2>2, CacheUnchanged
<1>4. ASSUME NEW w \in Workers, NEW d \in Dirs,
             NEW dropped \in SUBSET Dirs, NEW freed \in SUBSET Dirs,
             \/ \E j \in Jobs, c \in Dirs \cup {NoDir} : Begins(j, w, d, c, dropped, freed)
             \/ BeginFails(w, d, dropped, freed)
      PROVE  CacheKept'
  <2>1. Recache(w, dropped, freed, {})
    BY <1>4 DEF Begins, Begin, BeginFails
  <2>. QED BY <2>1, CacheAsked
<1>5. ASSUME NEW j \in Jobs, CompileError(j) \/ TestDone(j) \/ JudgeDone(j) PROVE CacheKept'
  <2>1. cached' = cached
    BY <1>5 DEF CompileError, TestDone, JudgeDone
  <2>2. ccache \subseteq ccache'
    BY <1>5, OwnRemoved DEF Removed
  <2>. QED BY <2>1, <2>2, CacheUnchanged
<1>6. ASSUME NEW j \in Jobs, Compiled(j) \/ CompileRaises(j) PROVE CacheKept'
  BY <1>6, CacheUnchanged DEF Compiled, CompileRaises, disk
<1>7. ASSUME NEW j \in Jobs, NEW c \in Dirs, NEW dropped \in SUBSET Dirs,
             NEW freed \in SUBSET Dirs, Store(j, c, dropped, freed)
      PROVE  CacheKept'
  BY <1>7, StoredInCache
<1>8. ASSUME NEW j \in Jobs, NEW c \in Dirs, StoreFails(j, c) \/ Prepare(j, c) \/ PrepareFails(j, c)
      PROVE  CacheKept'
  BY <1>8, CacheUnchanged DEF StoreFails, Prepare, PrepareFails
<1>9. ASSUME NEW d \in Dirs, Age(d) PROVE CacheKept'
  BY <1>9, CacheUnchanged DEF Age
<1>10. CASE UNCHANGED vars
  BY <1>10, CacheUnchanged DEF vars, disk
<1>. QED
  BY <1>1, <1>2, <1>3, <1>4, <1>5, <1>6, <1>7, <1>8, <1>9, <1>10, StepCases

\* Every step keeps ScansApart: names are never given again that a scan is to visit.
LEMMA ScansStep ==
  IInv /\ [Next]_vars => ScansApart'
<1>. SUFFICES ASSUME IInv, [Next]_vars PROVE ScansApart'
  OBVIOUS
<1>. USE DEF IInv
<1>1. ASSUME ccache' \subseteq ccache, \A w \in Workers : scan'[w] \subseteq scan[w]
      PROVE  ScansApart'
  BY <1>1 DEF ScansApart
<1>2. ASSUME NEW c \in Fresh, ccache' \subseteq ccache \cup {c}, scan' = scan
      PROVE  ScansApart'
  BY <1>2, FreshIsNew DEF ScansApart
<1>3. ASSUME NEW w \in Workers, Start(w) \/ Sweep(w) PROVE ScansApart'
  BY <1>3 DEF Start, Sweep, Scan, IsTemp, ScansApart, TypeOK, disk
<1>4. ASSUME NEW w \in Workers, Scanned(w) \/ Crash(w) PROVE ScansApart'
  BY <1>4, <1>1 DEF Scanned, Crash, TypeOK, disk
<1>5. ASSUME NEW w \in Workers, NEW d \in Dirs,
             PassBy(w, d) \/ Empty(w, d) \/ RemoveEmptied(w, d)
      PROVE  ScansApart'
  BY <1>5, <1>1 DEF PassBy, Empty, RemoveEmptied, Removed, TypeOK, disk, scans
<1>6. ASSUME NEW w \in Workers, NEW d \in Dirs,
             NEW dropped \in SUBSET Dirs, NEW freed \in SUBSET Dirs,
             \/ \E j \in Jobs, c \in Dirs \cup {NoDir} : Begins(j, w, d, c, dropped, freed)
             \/ BeginFails(w, d, dropped, freed)
      PROVE  ScansApart'
  <2>1. Recache(w, dropped, freed, {}) /\ scan' = scan
    BY <1>6 DEF Begins, Begin, BeginFails, scans
  <2>. QED BY <2>1, <1>1 DEF Recache
<1>7. ASSUME NEW j \in Jobs, CompileError(j) \/ TestDone(j) \/ JudgeDone(j) PROVE ScansApart'
  BY <1>7, <1>1, OwnRemoved DEF CompileError, TestDone, JudgeDone, Removed, scans
<1>8. ASSUME NEW j \in Jobs, Compiled(j) \/ CompileRaises(j) PROVE ScansApart'
  BY <1>8, <1>1 DEF Compiled, CompileRaises, disk, scans
<1>9. ASSUME NEW j \in Jobs, NEW c \in Dirs,
             StoreFails(j, c) \/ \E dropped, freed \in SUBSET Dirs : Store(j, c, dropped, freed)
      PROVE  ScansApart'
  BY <1>9, <1>2 DEF Store, StoreFails, Recache, scans
<1>10. ASSUME NEW j \in Jobs, NEW d \in Dirs, Prepare(j, d) \/ PrepareFails(j, d)
       PROVE  ScansApart'
  BY <1>10, <1>1 DEF Prepare, PrepareFails, scans
<1>11. ASSUME NEW d \in Dirs, Age(d) PROVE ScansApart'
  BY <1>11, <1>1 DEF Age, scans
<1>12. CASE UNCHANGED vars
  BY <1>12, <1>1 DEF vars, disk, scans
<1>. QED
  BY <1>3, <1>4, <1>5, <1>6, <1>7, <1>8, <1>9, <1>10, <1>11, <1>12, StepCases

\* What a step takes out of `whole`, of what it had present, is no cache's of those
\* that stay, and no compiler's, but for the clean-up's and the job's own.
LEMMA WholeStep ==
  ASSUME IInv, [Next]_vars, spoiled' = FALSE, NEW d \in whole, d \notin whole'
  PROVE  /\ \A w \in Workers : d \notin cached'[w]
         /\ \A j \in compiling' : d # dir'[j]
<1>. USE DEF IInv
<1>0. TypeOK' /\ CacheKept' /\ HeldApart'
  BY TypeStep, CacheStep, ApartStep
<1>1. d \in Dirs
  BY DEF TypeOK
<1>2. ASSUME NEW w \in Workers, NEW e \in Dirs, Removable(w, e),
             Empty(w, e) \/ (e \notin whole /\ RemoveEmptied(w, e))
      PROVE  /\ \A v \in Workers : d \notin cached'[v]
             /\ \A j \in compiling' : d # dir'[j]
  <2>1. CASE RemoveEmptied(w, e) /\ e \notin whole
    BY <2>1 DEF RemoveEmptied, Removed, disk
  <2>2. CASE Empty(w, e)
    <3>1. d = e /\ d \notin ccache
      BY <1>2, <2>2 DEF Empty, Removable, ScansApart
    <3>2. \A j \in compiling : d # dir[j]
      BY <1>2, <2>2, <3>1 DEF Empty, Removable, CompilersApart, TypeOK
    <3>. QED BY <2>2, <3>1, <3>2 DEF Empty, CacheKept, judgings
  <2>. QED BY <1>2, <2>1, <2>2
<1>3. ASSUME NEW j \in Jobs, CompileError(j) \/ TestDone(j) \/ JudgeDone(j)
      PROVE  /\ \A v \in Workers : d \notin cached'[v]
             /\ \A k \in compiling' : d # dir'[k]
  <2>1. PICK e \in {dir[j], workDir[j]} :
          /\ Removed({e})
          /\ e \notin ccache
          /\ e # NoDir => e \in HeldBy(j) /\ e \notin HeldBy(j)'
          /\ \A k \in Jobs \ {j} : e \notin HeldBy(k) \/ e = NoDir
    BY <1>3, OwnRemoved
  <2>2. d = e /\ d # NoDir
    BY <2>1, <1>1, TempDirsAssumption DEF Removed, TempDirsAssumption
  <2>3. ASSUME NEW k \in compiling' PROVE d # dir'[k]
    <3>1. k \in Jobs
      BY <1>0 DEF TypeOK
    <3>2. CASE k = j
      BY <2>1, <2>2, <3>2 DEF HeldBy
    <3>3. CASE k # j
      <4>1. dir'[k] = dir[k]
        BY <1>3, <3>1, <3>3 DEF CompileError, TestDone, JudgeDone, TypeOK
      <4>. QED BY <2>1, <2>2, <3>1, <3>3, <4>1 DEF HeldBy
    <3>. QED BY <3>2, <3>3
  <2>4. cached' = cached
    BY <1>3 DEF CompileError, TestDone, JudgeDone
  <2>. QED BY <2>1, <2>2, <2>3, <2>4 DEF CacheKept
<1>4. ASSUME NEW j \in Jobs, NEW c \in Dirs, NEW dropped \in SUBSET Dirs,
             NEW freed \in SUBSET Dirs, Store(j, c, dropped, freed)
      PROVE  /\ \A v \in Workers : d \notin cached'[v]
             /\ \A k \in compiling' : d # dir'[k]
  <2>1. d \in freed
    BY <1>4 DEF Store, Added
  <2>2. d \in ccache /\ \A v \in Workers : d \notin cached'[v]
    BY <1>4, <2>1, StoredInCache
  <2>3. compiling' \subseteq Jobs /\ dir' = dir
    BY <1>4, <1>0 DEF Store, TypeOK
  <2>. QED BY <2>2, <2>3, ApartPointwise
<1>13. ASSUME NEW w \in Workers, NEW e \in Dirs, NEW c \in Dirs \cup {NoDir},
              NEW dropped \in SUBSET Dirs, NEW freed \in SUBSET Dirs,
              Recache(w, dropped, freed, {}), Added(e, c, freed)
       PROVE  d \in ccache /\ \A v \in Workers : d \notin cached'[v]
  <2>1. d \in freed
    BY <1>13 DEF Added
  <2>. QED BY <1>13, <2>1, CacheAsked
<1>5. whole \subseteq whole' => FALSE
  OBVIOUS
<1>6. ASSUME NEW w \in Workers, Start(w) \/ Sweep(w) \/ Scanned(w) \/ Crash(w) PROVE FALSE
  BY <1>6, <1>5 DEF Start, Sweep, Scan, Scanned, Crash, disk
<1>7. ASSUME NEW w \in Workers, NEW e \in Dirs, PassBy(w, e) PROVE FALSE
  BY <1>7, <1>5 DEF PassBy, disk
<1>8. ASSUME NEW j \in Jobs, NEW w \in Workers, NEW e \in Dirs, NEW c \in Dirs \cup {NoDir},
             NEW dropped \in SUBSET Dirs, NEW freed \in SUBSET Dirs,
             Begins(j, w, e, c, dropped, freed)
      PROVE  /\ \A v \in Workers : d \notin cached'[v]
             /\ \A k \in compiling' : d # dir'[k]
  <2>1. Recache(w, dropped, freed, {}) /\ Added(e, c, freed) /\ e \in Fresh
    BY <1>8 DEF Begins, Begin
  <2>2. d \in ccache /\ \A v \in Workers : d \notin cached'[v]
    BY <1>13, <2>1
  <2>3. d # e
    BY <2>1, FreshIsNew
  <2>4. compiling' \subseteq Jobs /\ \A k \in Jobs : dir'[k] \in {dir[k], e}
    BY <1>8, <1>0 DEF Begins, Begin, TypeOK
  <2>. QED BY <2>2, <2>3, <2>4, ApartPointwise
<1>14. ASSUME NEW w \in Workers, NEW e \in Dirs, NEW dropped \in SUBSET Dirs,
              NEW freed \in SUBSET Dirs, BeginFails(w, e, dropped, freed)
       PROVE  /\ \A v \in Workers : d \notin cached'[v]
              /\ \A k \in compiling' : d # dir'[k]
  <2>1. Recache(w, dropped, freed, {}) /\ Added(e, e, freed) /\ e \in Fresh
    BY <1>14 DEF BeginFails
  <2>2. d \in ccache /\ \A v \in Workers : d \notin cached'[v]
    BY <1>13, <2>1
  <2>3. compiling' = compiling /\ dir' = dir
    BY <1>14 DEF BeginFails, judgings
  <2>. QED BY <2>2, <2>3, ApartPointwise DEF TypeOK
<1>9. ASSUME NEW j \in Jobs, NEW c \in Dirs, StoreFails(j, c) \/ Prepare(j, c) \/ PrepareFails(j, c)
      PROVE  FALSE
  BY <1>9, <1>5 DEF StoreFails, Prepare, PrepareFails, Added
<1>10. ASSUME NEW j \in Jobs, Compiled(j) \/ CompileRaises(j) PROVE FALSE
  BY <1>10, <1>5 DEF Compiled, CompileRaises, disk
<1>11. ASSUME NEW c \in Dirs, Age(c) PROVE FALSE
  BY <1>11, <1>5 DEF Age
<1>12. CASE UNCHANGED vars
  BY <1>12, <1>5 DEF vars, disk
<1>. QED
  BY <1>2, <1>3, <1>4, <1>6, <1>7, <1>8, <1>9, <1>10, <1>11, <1>12, <1>14, StepCases

\* What a compiler's directory is like when a step is over.
LEMMA CompilersStep ==
  IInv /\ [Next]_vars => CompilersApart'
<1>. SUFFICES ASSUME IInv, [Next]_vars, NEW k \in compiling'
              PROVE  /\ dir'[k] # NoDir /\ workDir'[k] = NoDir
                     /\ dir'[k] \notin stale'
                     /\ spoiled' \/ dir'[k] \in whole'
  BY DEF CompilersApart
<1>. USE DEF IInv
<1>0. TypeOK'
  BY TypeStep
<1>1. k \in Jobs /\ (spoiled => spoiled') /\ spoiled' \in BOOLEAN
  <2>1. spoiled => spoiled'
    BY StepCases
       DEF Start, Sweep, Scan, Scanned, Crash, PassBy, Empty, RemoveEmptied, Begins, Begin,
           BeginFails, CompileError, CompileRaises, Compiled, TestDone, JudgeDone, Store,
           StoreFails, Prepare, PrepareFails, Age, vars
  <2>. QED BY <2>1, <1>0 DEF TypeOK
<1>2. ASSUME k \in compiling, dir'[k] = dir[k], workDir'[k] = workDir[k],
             dir[k] \in stale' => dir[k] \in stale
      PROVE  /\ dir'[k] # NoDir /\ workDir'[k] = NoDir
             /\ dir'[k] \notin stale'
             /\ spoiled' \/ dir'[k] \in whole'
  BY <1>1, <1>2, WholeStep DEF CompilersApart
<1>3. ASSUME UNCHANGED <<compiling, dir, workDir>>, stale' \subseteq stale
      PROVE  /\ dir'[k] # NoDir /\ workDir'[k] = NoDir
             /\ dir'[k] \notin stale'
             /\ spoiled' \/ dir'[k] \in whole'
  BY <1>2, <1>3
<1>4. ASSUME NEW w \in Workers, Start(w) \/ Sweep(w) \/ Scanned(w)
      PROVE  UNCHANGED <<compiling, dir, workDir>> /\ stale' \subseteq stale
  BY <1>4 DEF Start, Sweep, Scan, Scanned, disk, judgings
<1>5. ASSUME NEW w \in Workers, NEW d \in Dirs,
             PassBy(w, d) \/ Empty(w, d) \/ RemoveEmptied(w, d)
      PROVE  UNCHANGED <<compiling, dir, workDir>> /\ stale' \subseteq stale
  BY <1>5 DEF PassBy, Empty, RemoveEmptied, Removed, disk, judgings
<1>6. CASE \E w \in Workers : Crash(w)
  <2>1. PICK w \in Workers : Crash(w)
    BY <1>6
  <2>2. k \in compiling /\ worker[k] # w /\ stale' = stale
    BY <2>1, <1>1 DEF Crash, disk
  <2>3. dir'[k] = dir[k] /\ workDir'[k] = workDir[k]
    BY <2>1, <2>2, <1>1 DEF Crash
  <2>. QED BY <2>2, <2>3, <1>2
<1>7. ASSUME NEW j \in Jobs, NEW w \in Workers, NEW d \in Dirs, NEW c \in Dirs \cup {NoDir},
             NEW dropped \in SUBSET Dirs, NEW freed \in SUBSET Dirs,
             Begins(j, w, d, c, dropped, freed)
      PROVE  /\ dir'[k] # NoDir /\ workDir'[k] = NoDir
             /\ dir'[k] \notin stale'
             /\ spoiled' \/ dir'[k] \in whole'
  <2>1. /\ worker[j] = Nobody /\ d \in Fresh /\ stale' \subseteq stale /\ workDir' = workDir
        /\ dir' = [dir EXCEPT ![j] = d]
    BY <1>7 DEF Begins, Begin, Added
  <2>2. CASE k = j /\ k \notin compiling
    <3>1. d # NoDir /\ d \notin stale
      BY <2>1, FreshIsNew
    <3>2. workDir[j] = NoDir
      BY <2>1, ApartPointwise
    <3>3. d \in whole'
      <4>1. c = NoDir
        BY <2>2, <1>7 DEF Begins
      <4>. QED BY <4>1, <1>7 DEF Begins, Begin, Added
    <3>. QED BY <2>1, <2>2, <3>1, <3>2, <3>3, <1>1 DEF TypeOK
  <2>3. CASE k # j
    BY <2>1, <2>3, <1>2, <1>7 DEF Begins, TypeOK
  <2>4. CASE k = j /\ k \in compiling
    BY <2>1, <2>4, ApartPointwise DEF CompilersApart
  <2>. QED BY <2>2, <2>3, <2>4
<1>8. ASSUME NEW j \in Jobs, CompileError(j) \/ CompileRaises(j) \/ TestDone(j) \/ JudgeDone(j)
      PROVE  /\ k \in compiling /\ dir'[k] = dir[k] /\ workDir'[k] = workDir[k]
             /\ stale' \subseteq stale
  <2>1. stale' \subseteq stale /\ k \in compiling
    BY <1>8 DEF CompileError, CompileRaises, TestDone, JudgeDone, Removed, disk
  <2>2. k # j
    BY <1>8, <2>1 DEF CompileError, CompileRaises, TestDone, JudgeDone, CompilersApart
  <2>. QED BY <1>8, <2>1, <2>2, <1>1 DEF CompileError, CompileRaises, TestDone, JudgeDone, TypeOK
<1>9. ASSUME NEW j \in Jobs,
             \/ Compiled(j)
             \/ \E c \in Dirs : StoreFails(j, c)
             \/ \E c \in Dirs, dropped, freed \in SUBSET Dirs : Store(j, c, dropped, freed)
      PROVE  /\ k \in compiling /\ dir'[k] = dir[k] /\ workDir'[k] = workDir[k]
             /\ stale' \subseteq stale
  BY <1>9 DEF Compiled, StoreFails, Store, Added, disk
<1>13. ASSUME NEW w \in Workers, NEW d \in Dirs, NEW dropped \in SUBSET Dirs,
              NEW freed \in SUBSET Dirs, BeginFails(w, d, dropped, freed)
       PROVE  UNCHANGED <<compiling, dir, workDir>> /\ stale' \subseteq stale
  BY <1>13 DEF BeginFails, Added, judgings
<1>14. ASSUME NEW j \in Jobs, NEW d \in Dirs, PrepareFails(j, d)
       PROVE  UNCHANGED <<compiling, dir, workDir>> /\ stale' \subseteq stale
  BY <1>14 DEF PrepareFails, Added, judgings
<1>10. ASSUME NEW j \in Jobs, NEW d \in Dirs, Prepare(j, d)
       PROVE  /\ k \in compiling /\ dir'[k] = dir[k] /\ workDir'[k] = workDir[k]
              /\ stale' \subseteq stale
  BY <1>10 DEF Prepare, Added, TypeOK
<1>11. ASSUME NEW d \in Dirs, Age(d)
       PROVE  /\ k \in compiling /\ dir'[k] = dir[k] /\ workDir'[k] = workDir[k]
              /\ dir[k] \in stale' => dir[k] \in stale
  BY <1>11 DEF Age, judgings
<1>12. UNCHANGED vars => UNCHANGED <<compiling, dir, workDir>> /\ stale' \subseteq stale
  BY DEF vars, disk, judgings
<1>. QED
  BY <1>2, <1>3, <1>4, <1>5, <1>6, <1>7, <1>8, <1>9, <1>10, <1>11, <1>12, <1>13, <1>14, StepCases

\* What the cache has got stays whole, and what it gets is a copy of what is.
LEMMA WholeCacheStep ==
  IInv /\ [Next]_vars => CacheWhole'
<1>. SUFFICES ASSUME IInv, [Next]_vars PROVE CacheWhole'
  OBVIOUS
<1>0. TypeOK'
  BY TypeStep DEF IInv
<1>. SUFFICES ASSUME spoiled' = FALSE, NEW w \in Workers, NEW c \in cached'[w], c \notin whole'
              PROVE  FALSE
  BY <1>0 DEF CacheWhole, TypeOK
<1>. USE DEF IInv
<1>1. spoiled = FALSE
  <2>1. spoiled => spoiled'
    BY StepCases
       DEF Start, Sweep, Scan, Scanned, Crash, PassBy, Empty, RemoveEmptied, Begins, Begin,
           BeginFails, CompileError, CompileRaises, Compiled, TestDone, JudgeDone, Store,
           StoreFails, Prepare, PrepareFails, Age, vars
  <2>. QED BY <2>1 DEF TypeOK
<1>2. c \notin cached[w]
  BY <1>1, WholeStep DEF CacheWhole
<1>3. ASSUME NEW j \in Jobs, NEW b \in Dirs, NEW dropped \in SUBSET Dirs,
             NEW freed \in SUBSET Dirs, Store(j, b, dropped, freed)
      PROVE  FALSE
  <2>1. c = b
    BY <1>2, <1>3, StoredInCache
  <2>2. dir[j] \in whole
    BY <1>1, <1>3 DEF Store, CompilersApart
  <2>. QED BY <1>3, <2>1, <2>2 DEF Store, Added
<1>4. ASSUME \A v \in Workers : cached'[v] \subseteq cached[v] PROVE FALSE
  BY <1>2, <1>4
<1>5. ASSUME NEW v \in Workers, Start(v) \/ Sweep(v) \/ Scanned(v) PROVE FALSE
  BY <1>5, <1>4 DEF Start, Sweep, Scan, Scanned
<1>6. ASSUME NEW v \in Workers, Crash(v) PROVE FALSE
  BY <1>6, <1>4 DEF Crash, TypeOK
<1>7. ASSUME NEW v \in Workers, NEW d \in Dirs,
             PassBy(v, d) \/ Empty(v, d) \/ RemoveEmptied(v, d)
      PROVE  FALSE
  BY <1>7, <1>4 DEF PassBy, Empty, RemoveEmptied
<1>8. ASSUME NEW v \in Workers, NEW d \in Dirs,
             NEW dropped \in SUBSET Dirs, NEW freed \in SUBSET Dirs,
             \/ \E j \in Jobs, b \in Dirs \cup {NoDir} : Begins(j, v, d, b, dropped, freed)
             \/ BeginFails(v, d, dropped, freed)
      PROVE  FALSE
  <2>1. Recache(v, dropped, freed, {})
    BY <1>8 DEF Begins, Begin, BeginFails
  <2>2. \A u \in Workers : cached'[u] \subseteq cached[u]
    BY <2>1, CacheAsked
  <2>. QED BY <2>2, <1>4
<1>9. ASSUME NEW j \in Jobs,
             CompileError(j) \/ CompileRaises(j) \/ Compiled(j) \/ TestDone(j) \/ JudgeDone(j)
      PROVE  FALSE
  BY <1>9, <1>4 DEF CompileError, CompileRaises, Compiled, TestDone, JudgeDone
<1>10. ASSUME NEW j \in Jobs, NEW d \in Dirs, StoreFails(j, d) \/ Prepare(j, d) \/ PrepareFails(j, d)
       PROVE  FALSE
  BY <1>10, <1>4 DEF StoreFails, Prepare, PrepareFails
<1>11. ASSUME NEW d \in Dirs, Age(d) PROVE FALSE
  BY <1>11, <1>4 DEF Age
<1>12. CASE UNCHANGED vars
  BY <1>12, <1>4 DEF vars
<1>. QED
  BY <1>3, <1>5, <1>6, <1>7, <1>8, <1>9, <1>10, <1>11, <1>12, StepCases

-----------------------------------------------------------------------------
\* The inductive invariant: the types, what the caches name is on disk, nobody but
\* its judging knows a directory, no scan is to visit a cache's, and nothing but a
\* clean-up touches what a compiler works in.
THEOREM Invariance == Spec => []IInv
<1>1. Init => IInv
  <2>. SUFFICES ASSUME Init PROVE IInv
    OBVIOUS
  <2>1. TypeOK
    <3>1. faults \in 0..MaxFaults
      BY TempDirsAssumption DEF Init, TempDirsAssumption
    <3>2. spoiled \in BOOLEAN
      BY DEF Init
    <3>. QED BY <3>1, <3>2 DEF Init, TypeOK
  <2>2. HeldApart
    BY DEF Init, HeldApart, HeldBy
  <2>. QED BY <2>1, <2>2 DEF Init, IInv, CacheKept, ScansApart, CacheWhole, CompilersApart
<1>2. IInv /\ [Next]_vars => IInv'
  BY TypeStep, CacheStep, ApartStep, ScansStep, WholeCacheStep, CompilersStep DEF IInv
<1>. QED BY <1>1, <1>2, PTL DEF Spec

\* Whoever cleans, sweeps or crashes, the directories a compile cache names stay
\* on disk, and no two workers' caches name the same one.
THEOREM CachesKept == Spec => []CacheKept
<1>. QED BY Invariance, PTL DEF IInv

\* A hit of the cache gets all the artifacts of the program, unless the clean-up of
\* a worker that starts has emptied a directory while a compiler worked in it.
THEOREM CachesWhole == Spec => []CacheWhole
<1>. QED BY Invariance, PTL DEF IInv

\* A directory of a judging goes or is emptied, while it is the judging's, only when
\* a worker that starts cleans up or the reaper finds it old.
LEMMA TakenStep ==
  ASSUME IInv, [Next]_vars, NEW j \in Jobs, NEW d \in HeldBy(j), d \in HeldBy(j)',
         (d \in present /\ d \notin present') \/ (d \in whole /\ d \notin whole')
  PROVE  \E w \in Workers : /\ d \in scan[w]
                            /\ status[w] = "cleaning" \/ (status[w] = "sweeping" /\ d \in stale)
<1>. USE DEF IInv
<1>1. ASSUME NEW w \in Workers, NEW e \in Dirs, Removable(w, e),
             Empty(w, e) \/ RemoveEmptied(w, e)
      PROVE  \E v \in Workers :
               /\ d \in scan[v]
               /\ status[v] = "cleaning" \/ (status[v] = "sweeping" /\ d \in stale)
  BY <1>1 DEF Empty, RemoveEmptied, Removed, Removable, disk
<1>2. ASSUME NEW k \in Jobs, NEW c \in Dirs, NEW dropped \in SUBSET Dirs,
             NEW freed \in SUBSET Dirs, Store(k, c, dropped, freed)
      PROVE  FALSE
  <2>1. d \in freed
    BY <1>2 DEF Store, Added
  <2>2. freed \subseteq ccache
    BY <1>2, StoredInCache
  <2>. QED BY <2>1, <2>2 DEF HeldApart
<1>3. ASSUME NEW k \in Jobs, CompileError(k) \/ TestDone(k) \/ JudgeDone(k) PROVE FALSE
  <2>1. d \in Dirs /\ d # NoDir
    BY TempDirsAssumption DEF HeldBy, TypeOK, TempDirsAssumption
  <2>2. d \in HeldBy(k) /\ d \notin HeldBy(k)'
    BY <1>3, <2>1, OwnRemoved DEF Removed
  <2>. QED BY <2>2 DEF HeldApart
<1>4. ASSUME present \subseteq present', whole \subseteq whole' PROVE FALSE
  BY <1>4
<1>5. ASSUME NEW w \in Workers, Start(w) \/ Sweep(w) \/ Scanned(w) \/ Crash(w) PROVE FALSE
  BY <1>5, <1>4 DEF Start, Sweep, Scan, Scanned, Crash, disk
<1>6. ASSUME NEW w \in Workers, NEW e \in Dirs, PassBy(w, e) PROVE FALSE
  BY <1>6, <1>4 DEF PassBy, disk
<1>7. ASSUME NEW k \in Jobs, NEW w \in Workers, NEW e \in Dirs, NEW c \in Dirs \cup {NoDir},
             NEW dropped \in SUBSET Dirs, NEW freed \in SUBSET Dirs,
             Begins(k, w, e, c, dropped, freed) \/ BeginFails(w, e, dropped, freed)
      PROVE  FALSE
  <2>1. Recache(w, dropped, freed, {}) /\ \E b \in Dirs \cup {NoDir} : Added(e, b, freed)
    BY <1>7 DEF Begins, Begin, BeginFails
  <2>2. d \in freed
    BY <2>1 DEF Added
  <2>3. freed \subseteq ccache
    BY <2>1, CacheAsked
  <2>. QED BY <2>2, <2>3 DEF HeldApart
<1>8. ASSUME NEW k \in Jobs, NEW c \in Dirs, StoreFails(k, c) \/ Prepare(k, c) \/ PrepareFails(k, c)
      PROVE  FALSE
  BY <1>8, <1>4 DEF StoreFails, Prepare, PrepareFails, Added
<1>9. ASSUME NEW k \in Jobs, Compiled(k) \/ CompileRaises(k) PROVE FALSE
  BY <1>9, <1>4 DEF Compiled, CompileRaises, disk
<1>10. ASSUME NEW e \in Dirs, Age(e) PROVE FALSE
  BY <1>10, <1>4 DEF Age
<1>11. CASE UNCHANGED vars
  BY <1>11, <1>4 DEF vars, disk
<1>. QED
  BY <1>1, <1>2, <1>3, <1>5, <1>6, <1>7, <1>8, <1>9, <1>10, <1>11, StepCases

\* No judging loses a directory but to the clean-up of a worker that starts, or
\* to a sweep that finds it unchanged for 300 s: the directories the workers
\* remove for themselves are never those of another judging.
THEOREM OnlyCleanersTake == Spec => TakenOnlyByCleaners
<1>1. IInv /\ [Next]_vars => [LostToCleaner]_vars
  BY TakenStep DEF LostToCleaner
<1>. QED BY <1>1, Invariance, PTL DEF Spec, TakenOnlyByCleaners
=============================================================================
