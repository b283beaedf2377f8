------------------------------ MODULE TempDirs ------------------------------
(***************************************************************************)
(* compiler_temp_dir, shared by the uvicorn workers of one container: the  *)
(* directories the judgings create and remove, the clean-up of a worker    *)
(* that starts (_cleanup_stale_temp of app/main.py), the sweep of the      *)
(* reaper (_zombie_reaper_loop of app/sandbox/runner.py), and workers that *)
(* crash and are started again.                                            *)
(*                                                                         *)
(* A worker is one thread: its judgings stand still while it cleans or     *)
(* sweeps, those of the other workers do not.  A directory that is removed *)
(* loses its files before it goes, and what happens between may find it    *)
(* incomplete.                                                             *)
(***************************************************************************)
EXTENDS Naturals, FiniteSets

CONSTANTS Workers,     \* the uvicorn workers
          Jobs,        \* judgings
          Dirs,        \* names of directories
          MaxCached,   \* compile_cache_max_entries
          MaxFaults,   \* bound on the crashes and on exceptions that leave a directory
          MayAge,      \* whether a judging may last more than the 300 s of the reaper
          NoDir,       \* no directory
          Nobody       \* no worker

ASSUME TempDirsAssumption ==
  /\ MaxCached \in Nat
  /\ MaxFaults \in Nat
  /\ MayAge \in BOOLEAN
  /\ NoDir \notin Dirs
  /\ Nobody \notin Workers

VARIABLES status,   \* worker -> what it is doing
          scan,     \* worker -> the entries of its scan that may have to go
          present,  \* the directories on disk
          whole,    \* those with all their artifacts
          ccache,   \* those named ccache_...
          stale,    \* those last modified more than 300 s ago
          cached,   \* worker -> the directories its compile cache names
          worker,   \* job -> the worker that judges it
          dir,      \* job -> its compiled_dir
          compiling,\* the jobs whose compiler runs
          workDir,  \* job -> the work_dir of its current test
          spoiled,  \* history: a clean-up has emptied a directory under a compiler
          faults    \* how many crashes and such exceptions there were

disk == <<present, whole, ccache, stale>>
scans == <<status, scan>>
judgings == <<worker, dir, compiling, workDir>>
vars == <<scans, disk, cached, judgings, spoiled, faults>>

\* Types of the variables; what is known of a directory goes when it goes.
TypeOK ==
  /\ status \in [Workers -> {"down", "cleaning", "up", "sweeping"}]
  /\ scan \in [Workers -> SUBSET Dirs]
  /\ present \subseteq Dirs
  /\ whole \subseteq present
  /\ ccache \subseteq present
  /\ stale \subseteq present
  /\ cached \in [Workers -> SUBSET Dirs]
  /\ worker \in [Jobs -> Workers \cup {Nobody}]
  /\ dir \in [Jobs -> Dirs \cup {NoDir}]
  /\ compiling \subseteq Jobs
  /\ workDir \in [Jobs -> Dirs \cup {NoDir}]
  /\ spoiled \in BOOLEAN
  /\ faults \in 0..MaxFaults

-----------------------------------------------------------------------------
HeldBy(j) == {dir[j], workDir[j]} \ {NoDir}
Held == UNION {HeldBy(j) : j \in Jobs}

\* mkdtemp() never gives a name again that somebody may still think of.
Fresh == Dirs \ (present \cup Held \cup UNION {scan[w] \cup cached[w] : w \in Workers})

Removed(ds) ==
  /\ present' = present \ ds
  /\ whole' = whole \ ds
  /\ ccache' = ccache \ ds
  /\ stale' = stale \ ds

\* A new directory with what is in `source`, if that is one, and those in `freed` go.
Added(d, source, freed) ==
  /\ present' = (present \ freed) \cup {d}
  /\ whole' = (whole \ freed) \cup (IF source \in whole \cup {NoDir} THEN {d} ELSE {})
  /\ stale' = stale \ freed

\* A slip to catch: what is dropped, and may have no directory, stays in the cache.
RecacheBeside(w, dropped, freed, new) ==
  /\ freed \subseteq dropped
  /\ dropped \subseteq cached[w]
  /\ Cardinality(dropped) <= 1
  /\ cached' = [cached EXCEPT ![w] = @ \cup new]
  /\ ccache' = (ccache \ freed) \cup new
\* The cache of w gets `new` and drops an entry or none: one that has expired, has
\* the same key or is the oldest.  Its directory goes, unless a judge has a ref on it.
Recache(w, dropped, freed, new) ==
  /\ freed \subseteq dropped
  /\ dropped \subseteq cached[w]
  /\ Cardinality(dropped) <= 1
  /\ cached' = [cached EXCEPT ![w] = (@ \ dropped) \cup new]
  /\ ccache' = (ccache \ freed) \cup new

\* A worker crashes, or a call raises and a directory stays that nobody knows.
Fault == faults < MaxFaults /\ faults' = faults + 1

Init ==
  /\ status = [w \in Workers |-> "down"]
  /\ scan = [w \in Workers |-> {}]
  /\ present = {}
  /\ whole = {}
  /\ ccache = {}
  /\ stale = {}
  /\ cached = [w \in Workers |-> {}]
  /\ worker = [j \in Jobs |-> Nobody]
  /\ dir = [j \in Jobs |-> NoDir]
  /\ compiling = {}
  /\ workDir = [j \in Jobs |-> NoDir]
  /\ spoiled = FALSE
  /\ faults = 0

-----------------------------------------------------------------------------
(* The life of a worker.                                                   *)

\* The entries of a scan: those whose names do not begin with ccache_.
IsTemp(d) == d \notin ccache
\* os.scandir() lists what is there.
Scan(w, from, to) ==
  /\ status[w] = from
  /\ status' = [status EXCEPT ![w] = to]
  /\ scan' = [scan EXCEPT ![w] = {d \in present : IsTemp(d)}]
  /\ UNCHANGED <<disk, cached, judgings, spoiled, faults>>
\* lifespan() begins.
Start(w) == Scan(w, "down", "cleaning")
\* The reaper's interval is over.
Sweep(w) == Scan(w, "up", "sweeping")

\* Slips to catch: a sweep that does not ask for the age, or reads another clock.
AnyAge(d) == TRUE
NeverOld(d) == FALSE
\* What the sweep removes: its age is that of the moment.
IsStale(d) == d \in stale

\* The scan comes to an entry that it is to leave alone, or that is gone.
PassBy(w, d) ==
  /\ scan' = [scan EXCEPT ![w] = @ \ {d}]
  /\ UNCHANGED <<status, disk, cached, judgings, spoiled, faults>>
\* rmtree() removes the files,
Empty(w, d) ==
  /\ whole' = whole \ {d}
  /\ spoiled' = (spoiled \/ (status[w] = "cleaning" /\ \E j \in compiling : dir[j] = d))
  /\ UNCHANGED <<scans, present, ccache, stale, cached, judgings, faults>>
\* and then the directory, which fails if something has been written to it.
RemoveEmptied(w, d) ==
  /\ scan' = [scan EXCEPT ![w] = @ \ {d}]
  /\ Removed({d}) \/ (d \in Held /\ UNCHANGED disk)
  /\ UNCHANGED <<status, cached, judgings, spoiled, faults>>

Visit(w, d, removes) ==
  /\ d \in scan[w]
  /\ IF d \notin present \/ ~removes THEN PassBy(w, d)
     ELSE IF d \in whole THEN Empty(w, d) ELSE RemoveEmptied(w, d)
\* _cleanup_stale_temp() visits an entry.
Clean(w, d) == status[w] = "cleaning" /\ Visit(w, d, TRUE)
\* The reaper visits an entry.
Reap(w, d) == status[w] = "sweeping" /\ Visit(w, d, IsStale(d))

\* All entries are visited: the worker serves requests (again).
Scanned(w) ==
  /\ status[w] \in {"cleaning", "sweeping"}
  /\ scan[w] = {}
  /\ status' = [status EXCEPT ![w] = "up"]
  /\ UNCHANGED <<scan, disk, cached, judgings, spoiled, faults>>

\* The worker dies, and with it its judgings and its cache; what it had on disk
\* stays there.  uvicorn starts it again.
Crash(w) ==
  LET mine == {j \in Jobs : worker[j] = w} IN
  /\ status[w] # "down"
  /\ Fault
  /\ status' = [status EXCEPT ![w] = "down"]
  /\ scan' = [scan EXCEPT ![w] = {}]
  /\ cached' = [cached EXCEPT ![w] = {}]
  /\ worker' = [j \in Jobs |-> IF j \in mine THEN Nobody ELSE worker[j]]
  /\ dir' = [j \in Jobs |-> IF j \in mine THEN NoDir ELSE dir[j]]
  /\ compiling' = compiling \ mine
  /\ workDir' = [j \in Jobs |-> IF j \in mine THEN NoDir ELSE workDir[j]]
  /\ UNCHANGED <<disk, spoiled>>

-----------------------------------------------------------------------------
(* The directories of a judging, or of a /run, which has no second one.    *)

Running(j) == worker[j] # Nobody /\ status[worker[j]] = "up"

\* A directory for a job that begins.
Begin(j, w, d, source, dropped, freed) ==
  /\ worker[j] = Nobody
  /\ status[w] = "up"
  /\ d \in Fresh
  /\ worker' = [worker EXCEPT ![j] = w]
  /\ dir' = [dir EXCEPT ![j] = d]
  /\ Recache(w, dropped, freed, {})
  /\ Added(d, source, freed)
  /\ UNCHANGED <<scans, workDir, spoiled, faults>>

\* compile_once() drops an entry that has expired, writes the source and awaits the
\* compiler, which takes no 300 s.
Compile(j, w, d, dropped, freed) ==
  Begin(j, w, d, NoDir, dropped, freed) /\ compiling' = compiling \cup {j}
\* An interpreted language: nothing is awaited, and no cache is asked.
Interpret(j, w, d) == Begin(j, w, d, NoDir, {}, {}) /\ UNCHANGED compiling
\* The artifacts come from a directory of the cache.
Hit(j, w, d, c) == c \in cached[w] /\ Begin(j, w, d, c, {}, {}) /\ UNCHANGED compiling

\* compile_once() raises where it writes to a directory it has made: that stays, and
\* nobody knows it.
BeginFails(w, d, dropped, freed) ==
  /\ status[w] = "up"
  /\ d \in Fresh
  /\ Recache(w, dropped, freed, {})
  /\ Added(d, d, freed)
  /\ Fault
  /\ UNCHANGED <<scans, judgings, spoiled>>

\* The compiler cannot be started or awaited: compile_once() raises, and forgets the
\* directory.
CompileRaises(j) ==
  /\ Running(j)
  /\ j \in compiling
  /\ compiling' = compiling \ {j}
  /\ worker' = [worker EXCEPT ![j] = Nobody]
  /\ dir' = [dir EXCEPT ![j] = NoDir]
  /\ Fault
  /\ UNCHANGED <<scans, disk, cached, workDir, spoiled>>

\* The compiler is done and has found an error: the directory goes.
CompileError(j) ==
  /\ Running(j)
  /\ j \in compiling
  /\ compiling' = compiling \ {j}
  /\ worker' = [worker EXCEPT ![j] = Nobody]
  /\ dir' = [dir EXCEPT ![j] = NoDir]
  /\ Removed({dir[j]})
  /\ UNCHANGED <<scans, cached, workDir, spoiled, faults>>

\* The compiler is done, and nothing is to be cached.
Compiled(j) ==
  /\ Running(j)
  /\ j \in compiling
  /\ compiling' = compiling \ {j}
  /\ UNCHANGED <<scans, disk, cached, worker, dir, workDir, spoiled, faults>>

\* A slip to catch: what is copied need not be there.
StoreAnything(j, c, dropped, freed) ==
  /\ Running(j)
  /\ j \in compiling
  /\ c \in Fresh
  /\ Cardinality(cached[worker[j]] \ dropped) < MaxCached
  /\ compiling' = compiling \ {j}
  /\ Recache(worker[j], dropped, freed, {c})
  /\ Added(c, c, freed)
  /\ UNCHANGED <<scans, worker, dir, workDir, spoiled, faults>>
\* The compiler is done, and the artifacts that are there are stored in the cache, in
\* the place of the entry with the same key, or of the oldest if there is no room.
Store(j, c, dropped, freed) ==
  /\ Running(j)
  /\ j \in compiling
  /\ dir[j] \in present
  /\ c \in Fresh
  /\ Cardinality(cached[worker[j]] \ dropped) < MaxCached
  /\ compiling' = compiling \ {j}
  /\ Recache(worker[j], dropped, freed, {c})
  /\ Added(c, dir[j], freed)
  /\ UNCHANGED <<scans, worker, dir, workDir, spoiled, faults>>

\* There is no directory left to store: os.listdir() raises, and the one made for
\* the cache is forgotten.
StoreFails(j, c) ==
  /\ Running(j)
  /\ j \in compiling
  /\ dir[j] \notin present
  /\ c \in Fresh
  /\ compiling' = compiling \ {j}
  /\ present' = present \cup {c}
  /\ ccache' = ccache \cup {c}
  /\ UNCHANGED <<scans, whole, stale, cached, worker, dir, workDir, spoiled, faults>>

\* run_test() makes a work_dir with the artifacts of the compiled_dir, and waits
\* for a slot.
Prepare(j, d) ==
  /\ Running(j)
  /\ j \notin compiling
  /\ workDir[j] = NoDir
  /\ dir[j] \in present
  /\ d \in Fresh
  /\ workDir' = [workDir EXCEPT ![j] = d]
  /\ Added(d, dir[j], {})
  /\ UNCHANGED <<scans, ccache, cached, worker, dir, compiling, spoiled, faults>>

\* The compiled_dir cannot be listed, as it is gone, or its files cannot be copied:
\* run_test() raises before its `try`, the work_dir stays, and the test is IE.
PrepareFails(j, d) ==
  /\ Running(j)
  /\ j \notin compiling
  /\ workDir[j] = NoDir
  /\ d \in Fresh
  /\ Added(d, d, {})
  /\ Fault
  /\ UNCHANGED <<scans, ccache, cached, judgings, spoiled>>

\* The test has run; the `finally` of run_test().
TestDone(j) ==
  /\ Running(j)
  /\ workDir[j] # NoDir
  /\ workDir' = [workDir EXCEPT ![j] = NoDir]
  /\ Removed({workDir[j]})
  /\ UNCHANGED <<scans, cached, worker, dir, compiling, spoiled, faults>>

\* The `finally` of judge_submission().
JudgeDone(j) ==
  /\ Running(j)
  /\ j \notin compiling
  /\ workDir[j] = NoDir
  /\ worker' = [worker EXCEPT ![j] = Nobody]
  /\ dir' = [dir EXCEPT ![j] = NoDir]
  /\ Removed({dir[j]})
  /\ UNCHANGED <<scans, cached, compiling, workDir, spoiled, faults>>

\* 300 s without a change of d pass; a compiler is stopped before that.  The age of
\* a directory of the cache nobody asks for.
Age(d) ==
  /\ d \in present \ (stale \cup ccache)
  /\ MayAge \/ d \notin Held
  /\ \A j \in compiling : dir[j] # d
  /\ stale' = stale \cup {d}
  /\ UNCHANGED <<scans, present, whole, ccache, cached, judgings, spoiled, faults>>

-----------------------------------------------------------------------------
AtMostOne == {ds \in SUBSET Dirs : Cardinality(ds) <= 1}

Serve(w) ==
  \/ Sweep(w)
  \/ \E d \in Dirs : Clean(w, d) \/ Reap(w, d)
  \/ Scanned(w)

Judge(j) ==
  \/ \E w \in Workers, d \in Dirs, dropped, freed \in AtMostOne : Compile(j, w, d, dropped, freed)
  \/ \E w \in Workers, d \in Dirs : Interpret(j, w, d)
  \/ \E w \in Workers, d, c \in Dirs : Hit(j, w, d, c)
  \/ CompileError(j)
  \/ Compiled(j)
  \/ CompileRaises(j)
  \/ \E c \in Dirs, dropped, freed \in AtMostOne : Store(j, c, dropped, freed)
  \/ \E c \in Dirs : StoreFails(j, c)
  \/ \E d \in Dirs : Prepare(j, d) \/ PrepareFails(j, d)
  \/ TestDone(j)
  \/ JudgeDone(j)

Next == \/ \E w \in Workers : Start(w) \/ Serve(w) \/ Crash(w)
        \/ \E w \in Workers, d \in Dirs, dropped, freed \in AtMostOne :
             BeginFails(w, d, dropped, freed)
        \/ \E j \in Jobs : Judge(j)
        \/ \E d \in Dirs : Age(d)

Spec == Init /\ [][Next]_vars

\* Scans go on, the reaper comes back, time passes; whether a worker is started
\* again is not up to this program.
FairSpec == /\ Spec
            /\ \A w \in Workers : WF_vars(Serve(w))
            /\ \A d \in Dirs : WF_vars(Age(d))

-----------------------------------------------------------------------------
\* A directory that a compile cache names is on disk, whoever cleans, sweeps or
\* crashes, and no two workers' caches name the same one.
CacheKept ==
  /\ \A w \in Workers : cached[w] \subseteq ccache
  /\ \A v, w \in Workers : v # w => cached[v] \cap cached[w] = {}

\* Nobody else knows the directories of a judging: no other judging, no cache.
HeldApart ==
  /\ \A j \in Jobs : /\ HeldBy(j) \cap ccache = {}
                     /\ dir[j] = workDir[j] => dir[j] = NoDir
                     /\ worker[j] = Nobody => HeldBy(j) = {}
  /\ \A j, k \in Jobs : j # k => HeldBy(j) \cap HeldBy(k) = {}

\* No scan is to visit a directory of the cache.
ScansApart == \A w \in Workers : scan[w] \cap ccache = {}

\* Every hit of the cache gets all the artifacts, unless a clean-up has emptied a
\* directory under a compiler: the reaper never does.
CacheWhole == spoiled \/ \A w \in Workers : cached[w] \subseteq whole

\* Nor does anybody else touch the directory a compiler works in.
CompilersApart ==
  \A j \in compiling : /\ dir[j] # NoDir /\ workDir[j] = NoDir
                       /\ dir[j] \notin stale
                       /\ spoiled \/ dir[j] \in whole

\* The inductive invariant behind CacheKept, CacheWhole and TakenOnlyByCleaners.
IInv == TypeOK /\ CacheKept /\ HeldApart /\ ScansApart /\ CacheWhole /\ CompilersApart

LostToCleaner ==
  \A j \in Jobs : \A d \in HeldBy(j) :
    /\ (d \in present /\ d \notin present') \/ (d \in whole /\ d \notin whole')
    /\ d \in HeldBy(j)'
    => \E w \in Workers : /\ d \in scan[w]
                          /\ status[w] = "cleaning" \/ (status[w] = "sweeping" /\ d \in stale)

\* No judging has its directories taken away or emptied but by the clean-up of a
\* worker that starts, or because nothing was written to them for 300 s.
TakenOnlyByCleaners == [][LostToCleaner]_vars

\* What a crash leaves behind is removed in the end as long as any worker lives,
\* started again or not; d is one directory, and they differ in nothing.
LeftoverRemoved(d) ==
  d \in present \ (ccache \cup Held)
    ~> d \notin present \/ \A w \in Workers : status[w] = "down"

-----------------------------------------------------------------------------
\* "Remove leftover temp directories from a previous crash": with judgings that
\* last less than 300 s, those under way keep their directories.
LiveDirsKept == Held \subseteq present
=============================================================================
