# TLA+ models of hacknow-cp-compiler

hacknow-cp-compiler judges submissions to programming contests: a FastAPI service,
run by several uvicorn workers in one container, compiles a submission, runs it
in `nsjail` on every test of its problem, compares or checks what it prints, and
answers with verdicts and scores. This directory models the parts of it that
have state or an order to get wrong, model-checks them with TLC and proves the
central invariants with TLAPS.

    tlc -config MCCompileCache.cfg MCCompileCache.tla      # one run
    tlapm CompileCacheProofs.tla                           # one proof module

`PROJECT.json` lists the components, the runs, the mutants (one way to break the
code that makes each property fail), the source lines behind every definition, the
findings, the hazards and the theorems.

## 1. Inventory

### Components, their state and operations

| component | source (`app/`) | state | operations |
|---|---|---|---|
| Compile cache | `sandbox/cache.py`, `compile_once()` and `release_compiled()` of `sandbox/runner.py` | an `OrderedDict` key → entry (directory, `ref_count`, creation time) per worker; `ccache_` directories on the tmpfs | `get`, `put`, `release`, with expiry, LRU eviction and replacement |
| Sandbox concurrency | `sandbox/runner.py` | a global `asyncio.Semaphore`, one per language | `async with` around each execution, two languages for an interactive one |
| Sandbox execution | `_run_in_nsjail`, `_compile_in_nsjail`, `_read_capped`, `_parse_time_output`; `stream_file_to_stdin` of `testdata.py` | a child process, its stdin and two pipes, the bytes fed and read | spawn, feed, write, read up to a cap, exit, limits of the jail, `wait_for`, exceptions |
| Interactive execution | `run_interactive`, `_determine_interactive_status` | two children, a header, two relays | spawn, write the header, relay a line, end of either program, idle and wall time-outs |
| Temporary directories | `_cleanup_stale_temp` (`main.py`), `_zombie_reaper_loop`, `run_test`, `compile_once`, `judge_submission` | `compiler_temp_dir`, shared by all workers | make, link, remove, clean up at start, sweep |
| Judge service | `api/judge.py`, `services/judge.py` | the backpressure semaphore, the gauge, the directories and refs of each request | admit, compile up to three programs, run the tests one by one or at once, answer |
| Subtask scoring | `_toposort_subtasks`, `_aggregate_subtasks` | in-degrees, queue and order of Kahn's algorithm; `score_map` | queue a subtask, take it off, visit one that depends on it, aggregate one |
| Verdicts | `_determine_test_status`, `_determine_status`, `_aggregate_flat`, `_check_output`, `_run_custom_checker` | none | part of the four models that produce verdicts |
| Output comparison | `services/comparator.py` | none | standard, by tokens, by floating-point numbers |
| Source validation, language registry, HTTP layer, schemas, configuration, metrics | | none of their own | not modelled (section 6) |

### How they interact

A request for `POST /judge` takes a backpressure slot, then calls `compile_once()`
for the submission and, if there are such, for the checker and the interactor.
`compile_once()` asks the cache of its worker and otherwise awaits the compiler
in a jail. Every test links the artifacts into a directory of its own, waits
for a global and a language slot, and runs in a jail. The `finally` of
`judge_submission()` removes the directories and gives the cache refs back. All
coroutines of a worker share one event loop; workers share only the tmpfs and the
children's exit statuses of their own process. Beside the requests each worker
runs a background task, the reaper, which collects exit statuses and old directories.

### What is hard

- *Interleaving at awaits.* While one coroutine awaits a compiler, others of the same
  key hit, store, expire and release; the cache's refs are counted per key, not per
  entry.
- *Hand-over of slots.* `asyncio.Semaphore` wakes waiters through futures; a lost or
  duplicated wake-up blocks a queue. Interactive jobs hold three slots at once.
- *Processes and time.* Output, exit, CPU limit, wall limit, idle time-out and the
  reaper's `waitpid(-1)` end an execution in any order; what is beyond a cap stays in
  pipes that nobody reads, and input is fed to programs that may not read it.
- *Several workers on one disk.* A worker that starts, or whose reaper runs, removes
  directories of which it knows only the name and the age, file by file, while others
  compile into them and copy from them.
- *Every way out.* Early returns, compile errors, exceptions and tests that fail in
  any combination must give back the same slots, directories and refs.
- *Order of subtasks.* Dependencies may be listed before what they depend on, and in
  cycles, and one id may be given to several subtasks.
- *Text and numbers.* Blanks at ends of lines, sizes in bytes of texts in characters, tolerances
  near zero, numbers beyond the range of a double.

### What makes it correct

A judge is given the artifacts of its own source; no directory in use is removed and
none that is not stays; no slot is lost and nobody waits for ever; cut output is never
compared; nobody within the limits is blamed for a limit; the reported failure
is that of the first failing test; scores depend on the rules and not on the order;
no process outlives the slot and the directory it was given; two outputs are equal
just if a definition of equality that knows nothing of the algorithm says so.
`PROJECT.json` "hazards" names the line of each, and the properties that watch it.

## 2. Modules

| module | models | composed with |
|---|---|---|
| `CompileService` | what `compile_once()` promises: every judge is given the artifacts of what it asked for | implemented by `CompileCache`; `JudgeService` relies on it |
| `CompileCache` | the cache and every path of `compile_once()` and `release_compiled()` | `INSTANCE CompileService` |
| `BoundedSandbox` | what the semaphores promise: never more executions than slots | implemented by `SandboxSlots` |
| `SandboxSlots` | the semaphores, with asyncio's futures and its event loop's turns | `INSTANCE BoundedSandbox` |
| `Execution` | one program, its pipes, limits, exit, result and verdict | |
| `Interactive` | two programs, the relays, the verdict | |
| `TempDirs` | workers, judgings and the directories they share | |
| `JudgeService` | one worker's requests from admission to `finally` | |
| `Subtasks` | the topological order and the aggregation | |
| `OutputCheck` | the comparisons and the custom checker: what "compared" of `Execution` becomes | |
| `MC<module>` | small instances for TLC | `EXTENDS` the module |
| `CommonLemmas` | lemmas on least and greatest elements, sums over finite sets, functions defined by recursion upwards and downwards, and sequences | |
| `CompileCacheProofs`, `SandboxSlotsProofs`, `TempDirsProofs`, `JudgeServiceProofs`, `ExecutionProofs`, `InteractiveProofs` | the theorems | `EXTENDS` the module |
| `JudgingProofs` | the theorems about `Subtasks` and `OutputCheck` | `EXTENDS` both, which is why the specification of `OutputCheck` is `CheckSpec` |

The grain is that of the event loop: one action is what a coroutine does
between two awaits, with every state change and early return on its way (`Subtasks`,
which never awaits, takes its loops round by round). A
definition whose comment begins "A slip to catch" is not part of the model: it
is the form a plausible mistake in the code would give to the definition after it, and
`PROJECT.json` "mutants" says which property it breaks.

**CompileCache.** `entries` is the map (`NoEntry` where it has none), `lru` the order of
the `OrderedDict`, `disk` and `content` the `ccache_` directories. `compile_once()` awaits
once, for the compiler: `Interpret`, `Hit`, `HitUnusable`, `HitRaises`, `MissExpired` and
`Miss` are its ways to that await or past it; `CompileError`, `Store`,
`KeepUncached` and `KeepAfterFailedStore` its ways on from there. `Release` is
`release_compiled()`. `Expire` is time, `Vanish` somebody else's `rm`. The history variables
`source` (which directory a ref was taken on) and `lost` are read by properties only; `lost`
also carries the bound `MaxLost`.

**SandboxSlots.** A language is a number, in the order in which `run_interactive()` sorts
the names; 0 is the global semaphore. `value`, `queue` and `granted` are `_value`, `_waiters` and
the futures with a result of `asyncio.Semaphore` (Python's library, so marked external); the
semaphores are `run_test()`'s and `run_interactive()`'s. The jail of a compiler takes none of
them, so compilers are not in this module. `turn`
is the coroutine that is executing: `acquire()` of a free semaphore and `release()` do not
give it up.

**Execution.** A program is a run or a compiler; input and output are counted in units, the
output against `OutCap` and `ErrCap`, and the usage that `/usr/bin/time` appends to stderr is
one more unit. `Parsed` is what `_parse_time_output()` may make of it: the true usage if all of it was
kept; none behind a last line of the program's own without a newline (`Joined`); less than the true one
if a part was cut (`UsageCut`); anything if the program printed a usage and the true one did not follow. `Readings` puts
the judge's wall clock in the place of a CPU time of 0.00, and `Elapsed` says what that clock may show: too much
for anybody, and nothing else for who used or slept too much. `Feed` and `FeedEnds` are `_feed_stdin()` and `stream_file_to_stdin()`; `Take` is
the program's reading, before it writes, after it, or never. `Read` takes any number of units
that have arrived and ends the reading beyond the cap; `ReadFails` is the `except` that ends it with what is there. Time and memory are within the limit or over it.
`Return`, `WallTimeout`, `SpawnFails` and `FeedFails` are the ways out of `_run_in_nsjail()`, and
all but the last of `_compile_in_nsjail()`, which is given no input.

**Interactive.** A program works, reads a line, or has ended; what it says is not
known. `WriteHeader` writes the test input to the interactor, all at once, and the judge waits until that has read
enough of it (`HeaderDrained`) or has ended (`HeaderBroken`) before any line is relayed. `Relay`, `RelayEof`, `RelayFull`, `RelayBroken` and `RelayIdle` are the ways through
`_relay()`; `MaxOutput` is its `max_bytes` in lines. `SpawnFails` is a jail that does not start.
`Notice` and `Steal` are what the loop hears of an exit, as in `Execution`; `Return` needs both. `idled` is a history of the relays that gave up.

**TempDirs.** `scan` is what `os.scandir()` has listed under a name without the prefix `ccache_`
and the loop not yet visited; judgings of the worker that scans stand still, those of others do
not. `rmtree()` is two steps, `Empty` (the files go: the directory is no longer `whole`) and
`RemoveEmptied`, which fails if somebody has written to the directory meanwhile. `Compile`,
`Interpret` and `Hit` are the ways into a judging, and `CompileError`, `Compiled`, `Store` and
`StoreFails` what follows the compiler. The cache of a worker names up to `MaxCached` directories. Keys, the order
and the refs of its entries are `CompileCache`'s; here `get()` may find any entry expired, and `put()` may replace or evict any,
and the directory of the entry goes or, if somebody has a ref, stays (`Recache`). `BeginFails`, `CompileRaises` and
`PrepareFails` are calls that raise and leave a directory behind that nobody knows. Ages are a flag that `Age` sets. mkdtemp's names are
taken not to be reused while somebody still thinks of them (`Fresh`). `spoiled` is a
history that a clean-up emptied a directory under a compiler.

**JudgeService.** A submission is what the control flow asks of it: languages
(`"none"` for no program) and whether to stop at the first failure. An outcome of a test is what
the verdict distinguishes. `Raised` is `compile_once()` raising, with or without a directory it has made (`orphans`) and a ref
it has taken (`lostRefs`); `Stall` an await that never returns, of a compilation or of a test.

**Subtasks.** A subtask is a position in the request and has an id, which another may have, too;
its `kind` has its mode, its maximum and its results. `Enqueue`, `Pop`, `Visit` and `Sorted` are the rounds
of `_toposort_subtasks()`, whose innermost loop still has `rest` to visit; `Aggregate`, by `Skip` or `Score`, is one
round of `_aggregate_subtasks()`.

**OutputCheck.** A text is a sequence of characters. `Tokens`, `Lines` and `Normalize` are `str.split()`,
`str.split("\n")` and `_normalize_strict()`, the first two as recursive functions from the end of the text; they are
compared with `Words` and `ShownText`, which know nothing of tokens and lines and pick characters of the text
by what surrounds them; `Float` is `float()` on the texts of two digits, a sign and
the words `nan` and `inf`. Numbers are integers, compared exactly, and beyond `MaxFloat` they are
infinite as Python's are. `Wide` characters take two bytes, which is what the sections a
custom checker reads are measured in; `RunChecker`, `CheckerEnds` and `CheckerRaises` run it.

## 3. Runs

Eight passing runs, one per module, check all its properties together; four more end in
the counterexample they are meant to show (section 4).

| run | instance | what it shows |
|---|---|---|
| `cache` | 3 judges, one source in two compiled languages and an interpreted one, 1 entry, 3 directories, at most 1 lost ref | refs accounted for, served directories exist, never more entries than the limit; implements `CompileService`; only unreferenced directories are removed |
| `slots` | 4 tasks, 2 languages, 2 global slots, 1 per language, interactive jobs in opposite roles | no slot lost, no lost wake-up, no deadlock; implements `BoundedSandbox`; every waiter is served |
| `execution` | runs and compilers of 0, 1, 2, 3 and 6 units on each stream and up to 3 units of input read first, last or never, caps and buffers of 2, with next to no CPU time, within or over each limit or asleep, a last line on stderr without end, a usage that is forged, exits 0, 1, 139, with reaper and exceptions | cut output is never compared; nobody innocent blamed, but by the wall clock where there is no CPU time; time and memory enforced unless stderr is full, `/run` agrees with `/judge`, a compiler is believed just if it ended by itself, no process outlives its slot; every execution whose exit nobody stole returns |
| `interactive` | a header of 2 lines, 3 lines each way, pipes of 1 line, relays of at most 2, exit codes 0, 1, 2, with idle time-outs and failing jails | only a pair that ended well is accepted; no line is lost before an end; nothing runs on; nobody waits for a program that has ended, two that wait for each other are told so; a pair that has ended is judged unless an exit was stolen |
| `temp_dirs` | 2 workers, caches of 2 entries, 1 judging, 3 directories, 1 crash or exception | what a cache names stays and is complete; a judging loses directories to cleaners only; leftovers go as long as a worker lives |
| `judge` | 3 requests, 2 slots, 2 tests, submissions with and without custom checker and interactor, one whose interactor is refused, two that stop at the first failure, `compile_once()` raises at most once | slot, gauge, directories and refs given back exactly once, but for what `compile_once()` held when it raised; artifacts in place; first failure reported; every admitted request is answered or is stuck itself |
| `subtasks` | every graph of 3 subtasks with one, two or three ids × 6 kinds, one of them with a maximum of 0 | the order has each subtask once and is topological, the scores and the verdict those of a definition that knows no order; no points behind a dependency without any, nor beyond the maxima |
| `output_check` | all pairs of texts of up to 5 characters for `standard`, 3 for `tokens` and `float`, 2 for a custom checker | the comparisons are those of reference definitions and agree with each other; a checker reads back the three texts and has the last word |

Bounds, and why they are enough. The cache has one entry and requests for two keys, so
that eviction, replacement and expiry all happen, and three judges so that an entry replaced
under one is hit by another; three directories make the disk run full. Slots: four tasks for two
global slots, so that tasks queue at the global semaphore and, behind it, at both
languages; an interactive job holds three slots at once. The theorems cover the rest. Execution: two units per cap
is the smallest that tells below, at and beyond it, for whole and partial reads; six units are more
than cap, pipe and one read beyond the cap together, so that a program blocks; three of input are more than a pipe holds.
Interactive: more lines than a pipe holds, so that a relay has to wait, and more than a relay
carries; a header of two is more than a pipe holds, so that the judge waits in `drain()` until the interactor has read one or
ended. TempDirs: two workers, of which one can crash and start while the other judges; caches of two entries, so that an old
entry is beside the newest one, and three directories, so that an entry has to expire or be evicted before a judging with a test can be
stored once more; more crashes repeat the same, and the theorems cover any number of judgings, entries and faults. `LeftoversRemoved` names one
directory, since no definition tells them apart. Judge: three
requests for two slots reach the limit; two tests are the least with an order. The requests are alike, so `Answered` names one.
Subtasks: three make chains, diamonds without a join, two-cycles, loops, and cycles with a tail, and two
of one id with a third that depends on it. OutputCheck: five characters have a line, blanks at its end and
a second line or empty ones; three have a sign with two digits, more than `MaxFloat`, and a number beside a word.
`MaxLost`, `MaxRaised`, `MaxFaults`, `LineBound` and the units of a program are the only bounds on
counters. Symmetry is used in `cache`, `cache_removed` and `slots_same_language`, for judges,
directories and tasks, which no definition there tells apart; no run with a liveness property
uses it.

A type invariant is checked where it says something of the code, that no count falls below zero;
the other modules have theirs as a part of the inductive invariant of their proofs.

`CHECK_DEADLOCK FALSE` is set where the modelled function returns
(Execution, Interactive, Subtasks, OutputCheck); the services never stop.

### Fairness

- `SandboxSlots`: strong fairness of each coroutine's `Step`. The event loop runs its ready
  callbacks in the order they became ready, so a coroutine that is ready again and again is run; weak
  fairness is not enough, since each step of another coroutine takes the turn and
  disables it. Every jail ends by its time limit, so `Finish` happens.
- `Execution`: weak fairness of the jail (a program that can write or end does, and nsjail
  keeps time), of the loop, of its notice of an exit, and of `wait_for()`.
- `Interactive`: weak fairness of the header and the relays, of the idle time-out of each relay, of a
  program that has the line it waits for or is at the end of its input, of the loop's notice of an exit, and of the final step. The jails' limits are not assumed to be fair:
  `NobodyLeftWaiting` holds without them, and `Judged` is conditional on both programs ending and on no exit being stolen.
- `JudgeService`: weak fairness of each request's `Progress`, of what is not stuck: a compiler and a test end by their time
  limits (`Returned` of `execution` and `Judged` of `interactive` are this for a test). What has no time limit, an
  exit the reaper has taken and a slot behind interactive jobs that block each other (section 4), is `Stall`, after
  which nothing of that compilation or test happens any more: `Answered` promises an answer to all other requests.
- `TempDirs`: weak fairness of a live worker's scans and of time. That a crashed worker is started
  again is not assumed.

## 4. Findings

Each is a run that ends in a counterexample to what the repository says of itself.

| run | what happens |
|---|---|
| `cache_removed` | two judges miss at the same time and both store, the second in the place of the first; the first releases by key and so gives back the ref of the second, whose directory is removed under it when the entry is evicted |
| `slots_same_language` | submission and interactor in one language: one semaphore is taken twice, and enough of such jobs block each other for ever |
| `temp_dirs_start` | a worker that starts removes directories in use by another |
| `judge_checker` | a checker that is not C++ is compiled in its language and run as C++ |

Other places where the code and its words differ, seen while modelling. The models do what the
code does, and their properties are worded with these in mind; no run is spent on them:

- An entry dropped from the cache while referenced, or a store that failed, leaves a directory
  that no entry names and nobody removes (`cache.py:79`, `runner.py:586`); `mkdtemp` may raise after
  `get()` took a ref and before the `try` that gives it back (`runner.py:527`), which `lost` counts.
- `compile_once()` that raises after `mkdtemp` forgets its directory (`runner.py:568-577`), and so does `run_test()` while it
  copies the artifacts (`runner.py:629`): the reaper removes them after 300 s.
- A hit returns the compiler's output, the compilation that stored it `""` (`runner.py:555`, `:619`).
- Compilers and the second jail of an interactive job run beyond the global limit (`runner.py:390`).
- The reaper's `waitpid(-1)` may take the exit status an execution waits for (`runner.py:1053`,
  `Steal` in `Execution`). With uvloop, which `uvicorn[standard]` installs, the exit is then never
  reported and `proc.wait()` never returns, for either program of a pair, too (`runner.py:810`), and the request keeps its
  slots for good; asyncio's own child watchers would report 255.
- An exception of the judge is the submission's RTE (`runner.py:989`); a segmentation fault is MLE
  (`runner.py:987`); OLE is tested before TLE (`judge.py:616`).
- The time of a run is the judge's wall clock whenever `/usr/bin/time` says 0.00 s (`runner.py:970`): what sleeps within the limit, waits
  for the CPU or is read late counts then, and a tiny program may get TLE on a busy host. The same holds for one that ends with 0
  and whose last line on stderr has no newline: `RESOURCE_USAGE` is not on a line of its own then, and nothing is parsed
  (`runner.py:1006`), memory included.
- A program that fills stderr pushes out its usage, or a part of it, and what it printed itself in that form is taken
  instead (`runner.py:898`, `:1005-1028`): hence the exceptions in `LimitsEnforced`.
- An exception while a pipe is read ends the reading as if it were the end of the output (`runner.py:440`).
- An exception that comes after a jail has started, on the feeding of a file or on the start of the
  second jail of a pair, leaves the first one running with its slot given back and its directory
  removed (`runner.py:989`, `:759`; the exceptions in `NothingRunsOn` and `EndedWell`).
- A compiler that prints beyond the cap blocks and is "Compile timeout" (`runner.py:399`).
- The time of an interactive run is wall-clock time, its partner's included (`judge.py:413`), and the
  idle time-out covers the thinking time of either program (`runner.py:771`).
- Subtasks in a cycle are all skipped, and the verdict is OK with score 0 (`judge.py:560`). Of two subtasks
  with one id the last definition counts for both, a mark of the first pass stays, the maximum is
  counted twice and in-degrees may fall below zero (`judge.py:503`, `:585`).
- A checker that cannot be run is exit 1, and so WA (`judge.py:723`); a checker of no known type is
  `standard`; two numbers beyond the range of a double are both infinite and so equal
  (`comparator.py:69`).
- Nothing reads `max_interactive_turns` (`config.py:128`). A submission that the interactor rejected
  and that fails afterwards is RTE (`judge.py:413`).
- The reaper removes what has not been written to for 300 s, also a `compiled_dir` in use
  (`runner.py:1071`).
- With a `max_score` of 0 a passing subtask fails its dependents and a failing one of mode `min` is OK
  (`judge.py:510`, `:548`).

## 5. Proofs

TLAPS proves, for every value of the constants that satisfies the module's named assumption:

**CompileCacheProofs** (`ConstantsAssumption`: finitely many judges, limits in `Nat`, null
values distinct). `IInv` is `TypeOK`, `TaskSound`, `EntrySound`, `MappedOnDisk`, `OrderSound` and
`RefsAccounted`. `MappedOnDisk` alone is not inductive: a store frees the directories
of the entries it pops, and that none of these is another entry's needs that entries do not
share directories; the size of the cache needs that the order lists each mapped key once.
`RefsAccounted` bounds each count by the judges that will release the key: it is an inequality,
since a release by key may take the ref of another. The refinement of `CompileService` uses
`EntrySound`, the key's artifacts are those of its request, and that `_key` is injective.

**SandboxSlotsProofs** (`SlotsAssumption`: finitely many tasks, at least one slot each). `IInv` is
`TypeOK`, `PathSound`, `QueueSound`, `SlotsConserved` and `NoLostWakeup`. `QueueSound` is needed because a
wake-up goes to a position in the queue, and `PathSound` because what a task holds is a prefix of
its job's path. `NoDeadlock` adds the assumption that no job has its interactor in the submission's
language: the paths then ascend, so the greatest semaphore that is waited for is held by
tasks that wait for nothing. `slots_same_language` shows what happens without it.
`BoundImplemented` follows from `SlotsConserved`: the executions under way are at most the slots held.

**TempDirsProofs** (`TempDirsAssumption`: null values distinct). `IInv` is `TypeOK`, `CacheKept`,
`HeldApart`, `ScansApart`, `CacheWhole` and `CompilersApart`. That the `finally` of a judging and
an eviction take nobody else's directory needs `HeldApart`: a directory of a judging is no other judging's,
not twice its own, and no cache's. That a scan listed before a directory got its name of the cache
does not remove it is `ScansApart`, which holds since `Fresh` excludes what is listed. `CacheWhole`, that a hit
gets all the artifacts unless a clean-up emptied a directory under a compiler, needs `CompilersApart`:
what a compiler works in is not stale, so that no reaper has emptied it. Entries that expire, are
replaced or evicted take at most their own directories with them (`Recache`), and no two of them share one.

**JudgeServiceProofs** (`ServiceAssumption`: finitely many requests, at least one test and one slot). `IInv` is
`TypeOK`, `GivenBack` and, for each request, `Prepared` (what has been compiled is bound), `TestsInTime` (no
test runs before the compilations or after the answer), `OneByOne` and `AnswerSound`. `OneByOne` is needed
because a fail-fast judging answers with the failure that has just ended: all tests before it must have passed
and none after it run. `AnswerSound` keeps `FirstFailureReported` true while other requests go on. That the
verdict of tests that ran all at once is that of a first failing one uses that a nonempty set of tests
has a least element.

**ExecutionProofs** (`ExecutionAssumption`: caps and buffers of at least one unit, compilers read nothing). `IInv` is
`TypeOK`, `Bounded`, `StatusSound`, `ClosedSound`, `ModestLeftAlone` and the six properties themselves.
`ClosedSound`, that a reading ends beyond the cap, with all there is or by an exception, is why a comparison has seen the whole
output; `StatusSound`, that an exit status other than that of a kill means the program ended by itself with its usage
written, why a limit cannot be missed below the cap of stderr; and `ModestLeftAlone`, that whoever fits the caps is never
blocked and so never late, why no time-out is the fault of an innocent. What `Parsed` may be, below the cap and without exceptions, are the
true usage and, behind an unfinished line, none, so that only a CPU time of 0.00 leaves the judgement to the wall clock. A result stays true because
what may run on behind it is a process whose result is the exception.

**InteractiveProofs** (`InteractiveAssumption`: exit codes are not those of a kill, buffers of at least
one line). `IInv` is `TypeOK`, `HeardEnded`, `NoEarlyEof` and `EndedWell`; a verdict waits for both exits, and `HeardEnded` says that
these are exits of programs that have ended. `CarriedGrows` and `EndedStays` say why the first is
inductive: what a relay has carried never becomes less, and a program that has ended sends nothing more; so the
reason for which a stdin was closed (`WhyClosed`) stays.

**JudgingProofs, Subtasks** (`SubtasksAssumption`: at least one subtask; kinds have a mode, a maximum and results as
the schema has them). `IInv` has the parts
- `TypeOK`, `FoundOnce` (order and queue hold no more entries for an id than there are subtasks with it) and
  `SortingSound` (what is visited now depends on the last of the order). The order is complete, also with ids
  that occur twice, because an id that was found has an in-degree below one and is not found again in `Visit`;
- `InDegreeSound`, for distinct ids: the in-degree is the number of dependencies still to be visited, and what is in the
  order is behind all it depends on. With a cycle nothing can be said of the order; without one, `Sorted`
  finds it full, since among the ids not in the order one has no open dependency (`OrderSound`);
- `NothingYet`, `ScoresSound` (points are those of `ScoreOf`, behind dependencies that have some), `InTurn`,
  `Deserved` and `VerdictSoFar`, what the aggregation has done up to `next`.

`ScoresByTheRules` is about sets of subtasks that support each other: the subtasks with points are such a set, without
a cycle because the first of one in the order would have a dependency before it; and in any such set, one without
points, all of whose dependencies in the set have some, would deserve its own. `PointsDeserved` needs a sum over ids
to be at most one over subtasks, `SumBounded`, proved like the other facts about sums by the smallest set that
would be a counterexample.

**JudgingProofs, OutputCheck** (`OutputCheckAssumption`: texts are sequences of strings, `EpsDen` and `MaxFloat` natural
numbers, `EpsNum` any integer). `CheckIInv` is `CheckTypeOK` and `Grounded`: a verdict is that of the
comparison or of the checker, and the checker was given the three sections. The rest is about the operators. What a
recursive function computes is reached by a table of its values, which exists and is typed
(`RecursiveExists`, `FromEndExists`) and agrees with the function from the end on (`SameFromEnd`).
- `ComparisonIsByWhatShows`: of two texts `Tokens` are equal just if `Words` are, and `Normalize` just if `ShownText` is.
  Each side is a value that grows from the end of the text (`TokensGrow`, `ElementsGrow`, `LayoutGrows`): at some positions
  nothing is added to either, and at the others the same is added to both in a way that can be undone. Two such
  rows are equal or not together (`Twins`, by the least sum of positions that would be a counterexample). For
  `Normalize`, what is left of the first line and of the others is kept apart (`LayoutRows`), and
  `WordsAreLeft` says of both when they are empty.
- `FloatComparisonIsNear`: `CloseIsTolerance` turns the two tests of `compare_float()` into intervals. The proof showed
  a reference definition to be wrong: nothing keeps `epsilon` from being negative (`requests.py:125`), and then
  an expected 0 has no relative tolerance, which `WithinTolerance` now says.
- `SectionsAreReadBack`: what is behind a section is where its length says (`ReadSection`), since it is the length of
  the encoded text.

Only model-checked: all liveness properties, which TLAPS, without ENABLED, cannot prove. That `Float` computes the
value of the digits is not stated at all: it is the definition.

## 6. What is not modelled

- *Source validation* is a list of regular expressions; the *language registry* a table of constants.
- The *HTTP layer*: routing, authentication, CORS, rate limits and size limits are calls of the
  frameworks; the backpressure is in `JudgeService`. *Schemas* and *configuration* give the
  models their inputs and constants. *Metrics* are output, but for the gauge.
- In `OutputCheck`, fractions and the rounding of doubles, which TLA+ does not have; in `Execution`,
  nsjail's argument list, an event loop that is late by the five seconds `wait_for()` adds to the limit or a host that is
  by the three `nsjail` adds, and the answers to compile errors, RTE of `/run` and CE of `/judge`; in `JudgeService`, a test list that is empty; everywhere, the sizes
  of files: a full tmpfs shows as the exceptions it causes.
- Cancellation of a request: uvicorn does not cancel a handler whose client has gone.

## 7. Plan

The order was that of what matters most to the system: the cache and the slots, on
which every request depends (modelled, refined, proved); executions, interactive runs and directories, and the
service around them, the scoring and the comparisons (modelled and proved). Left, in this order:

1. Compose `Interactive` with `SandboxSlots`, so that a pair that is never judged would keep its slots.
2. Properties of steps as theorems: which transitions of a component can never happen, where an invariant of its
   states does not say it.
