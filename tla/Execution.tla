------------------------------ MODULE Execution ------------------------------
(***************************************************************************)
(* One process in a jail: _run_in_nsjail() and _compile_in_nsjail() of     *)
(* app/sandbox/runner.py with _read_capped() and stream_file_to_stdin(),   *)
(* and the verdict on a run: _determine_test_status() of                   *)
(* app/services/judge.py and _determine_status() of                        *)
(* app/services/executor.py.                                               *)
(*                                                                         *)
(* The event loop feeds stdin and reads two pipes up to a cap, all at      *)
(* once; /usr/bin/time adds the resource usage to stderr when a run has    *)
(* ended; nsjail ends what takes too long.  Input and output are counted   *)
(* in units; times and sizes are within their limit or over it.  The loop  *)
(* may be slow to read and to notice, but not by the seconds wait_for()    *)
(* grants beyond the limit, nor the host by those nsjail grants.           *)
(***************************************************************************)
EXTENDS Naturals

CONSTANTS Programs,  \* what the programs may do
          Input,     \* units of input of a run
          OutCap,    \* settings.output_limit_mb, or compile_output_limit_kb
          ErrCap,    \* settings.stderr_limit_kb, or compile_output_limit_kb
          Buffer,    \* what a pipe and its buffers hold for one who does not read
          Reaping,   \* whether the zombie reaper may run meanwhile
          MayFault   \* whether there may be exceptions

Streams == {"out", "err"}
Cap == [s \in Streams |-> IF s = "out" THEN OutCap ELSE ErrCap]

\* A run or a compiler; whether it reads its input before it writes, afterwards or
\* not at all; how much it writes; whether its error output is whole lines, ends
\* within one, or looks like the resource usage of /usr/bin/time; whether its CPU
\* time is so little that /usr/bin/time says 0.00, within the limit or over it, or
\* it sleeps instead of ending; whether its memory is; the exit code of its own.
Program == [kind : {"run", "compiler"}, reads : {"first", "last", "never"},
            out : Nat, err : Nat, says : {"lines", "unended", "usage"},
            time : {"tiny", "within", "over", "asleep"},
            memory : {"within", "over"}, code : 0..255]

ASSUME ExecutionAssumption ==
  /\ Programs \subseteq Program
  /\ \A p \in Programs : p.kind = "compiler" => p.reads = "never"
  /\ Input \in Nat
  /\ {OutCap, ErrCap, Buffer} \subseteq Nat \ {0}
  /\ {Reaping, MayFault} \subseteq BOOLEAN

\* No exit status: the process runs, or was never started.
Running == 1000
NotStarted == 1001

VARIABLES program,  \* the program
          fed,      \* units of input written to its stdin
          taken,    \* units of input it has read
          wrote,    \* stream -> units written
          read,     \* stream -> units taken from the pipe
          open,     \* what gather() waits for: the feeding and two readings
          broken,   \* the streams whose reading an exception has ended
          usage,    \* whether the last unit on stderr is the resource usage
          code,     \* exit status of nsjail
          exit,     \* what the event loop knows of the exit
          result    \* the ExecutionResult, or what a compilation returns

jail == <<fed, taken, wrote, usage, code>>
loop == <<read, open, broken, exit, result>>
vars == <<program, jail, loop>>

NoResult == [none |-> TRUE]

-----------------------------------------------------------------------------
Room(s) == wrote[s] - read[s] < Buffer
\* A stream nobody reads any more is full.
Blocked == \E s \in Streams \ open : ~Room(s)
\* Whether the time limit of the jail can come to bear.
Late == program.time = "asleep" \/ Blocked \/ code = 137

\* What _read_capped() returns, in units.
Got(s) == IF read[s] < Cap[s] THEN read[s] ELSE Cap[s]

Init ==
  /\ program \in Programs
  /\ fed = 0
  /\ taken = 0
  /\ wrote = [s \in Streams |-> 0]
  /\ read = [s \in Streams |-> 0]
  /\ open = IF program.kind = "run" THEN {"in"} \cup Streams ELSE Streams
  /\ broken = {}
  /\ usage = FALSE
  /\ code = Running
  /\ exit = "unknown"
  /\ result = NoResult

-----------------------------------------------------------------------------
(* In the jail.                                                            *)

Size(s) == IF s = "out" THEN program.out ELSE program.err
Written == \A s \in Streams : wrote[s] = Size(s)
\* All the input is read, or stdin is at its end.
InputRead == taken = Input \/ (taken = fed /\ "in" \notin open)

Take ==
  /\ code = Running
  /\ program.reads = "first" \/ (program.reads = "last" /\ Written)
  /\ taken < fed
  /\ taken' = taken + 1
  /\ UNCHANGED <<program, fed, wrote, usage, code, loop>>

Write(s) ==
  /\ code = Running
  /\ program.reads = "first" => InputRead
  /\ wrote[s] < Size(s)
  /\ Room(s)
  /\ wrote' = [wrote EXCEPT ![s] = @ + 1]
  /\ UNCHANGED <<program, fed, taken, usage, code, loop>>

\* The program has ended, by itself or at its CPU limit.  Of a run, /usr/bin/time
\* writes the usage and ends with its exit status, 128 + 24 for SIGXCPU.
End(status) ==
  /\ code = Running
  /\ code' = status
  /\ IF program.kind = "run"
     THEN /\ Room("err")
          /\ wrote' = [wrote EXCEPT !["err"] = @ + 1]
          /\ usage' = TRUE
     ELSE UNCHANGED <<wrote, usage>>
  /\ UNCHANGED <<program, fed, taken, loop>>

Exit ==
  /\ program.time # "asleep"
  /\ program.reads # "never" => InputRead
  /\ Written
  /\ End(program.code)
CpuLimit == program.time = "over" /\ End(152)

\* Slip to catch: a jail without --time_limit.
Unlimited == FALSE /\ UNCHANGED vars
\* --time_limit: nsjail kills the jail, /usr/bin/time included.
JailLimit ==
  /\ code = Running
  /\ Late
  /\ code' = 137
  /\ UNCHANGED <<program, fed, taken, wrote, usage, loop>>

-----------------------------------------------------------------------------
(* In the event loop.  An exception in the feeding leaves the readings to  *)
(* themselves: gather() cancels nothing.                                   *)

Reads(s) == s \in open /\ (result = NoResult \/ code = Running)

\* _feed_stdin(), which waits for room in the pipe, but not for the program to
\* read.
Feed ==
  /\ "in" \in open
  /\ code = Running
  /\ fed < Input
  /\ fed - taken < Buffer
  /\ fed' = fed + 1
  /\ UNCHANGED <<program, taken, wrote, usage, code, loop>>

\* stdin is closed: nothing is left, or drain() raised since nobody is there to read.
FeedEnds ==
  /\ "in" \in open
  /\ fed = Input \/ code # Running
  /\ open' = open \ {"in"}
  /\ UNCHANGED <<program, jail, read, broken, exit, result>>

\* _read_capped() takes n units: what is more than the cap is dropped, and the
\* reading ends.
Read(s, n) ==
  /\ Reads(s)
  /\ n \in 1..(wrote[s] - read[s])
  /\ read' = [read EXCEPT ![s] = @ + n]
  /\ open' = IF read[s] + n > Cap[s] THEN open \ {s} ELSE open
  /\ UNCHANGED <<program, jail, broken, exit, result>>

\* stream.read() returns nothing: every writer is gone.
Eof(s) ==
  /\ s \in open
  /\ code # Running
  /\ wrote[s] = read[s]
  /\ result = NoResult
  /\ open' = open \ {s}
  /\ UNCHANGED <<program, jail, read, broken, exit, result>>

\* stream.read() raises: `except Exception: break` ends the reading, and what has
\* been read until then is all there is.
ReadFails(s) ==
  /\ MayFault
  /\ Reads(s)
  /\ open' = open \ {s}
  /\ broken' = broken \cup {s}
  /\ UNCHANGED <<program, jail, read, exit, result>>

\* The loop collects the exit status of its child.
Notice ==
  /\ code \notin {Running, NotStarted}
  /\ exit = "unknown"
  /\ exit' = "known"
  /\ UNCHANGED <<program, jail, read, open, broken, result>>

\* _zombie_reaper_loop() gets it first, from os.waitpid(-1): the loop of uvloop,
\* which uvicorn[standard] installs, never hears of the exit then.
Steal ==
  /\ Reaping
  /\ code \notin {Running, NotStarted}
  /\ exit = "unknown"
  /\ exit' = "stolen"
  /\ UNCHANGED <<program, jail, read, open, broken, result>>

\* elapsed_ms, on the wall clock of the judge: too much for a program that used or
\* slept too much (--max_cpus 1: no CPU time without as much wall time), and perhaps
\* for any other, which may have slept, waited for the CPU, or been read and noticed
\* late.
Elapsed ==
  IF code = 137 \/ program.time \in {"over", "asleep"} THEN {"over"} ELSE {"within", "over"}

\* A slip to catch: only what is beyond the limit is too much.
TooMuchBeyond == Got("out") > OutCap
\* len(stdout_bytes) >= max_output_bytes
TooMuch == Got("out") >= OutCap

\* ExecutionResult: 139, a segmentation fault, counts as memory.
Outcome(status, time, memory, late, cut) ==
  [code |-> status, time |-> time, memory |-> memory, timedOut |-> late,
   memoryExceeded |-> status = 139, outputLimitExceeded |-> cut]
\* The resource usage: none that is found, and the true one.
Usage == [time : {"zero", "within", "over"}, memory : {"within", "over"}]
NoUsage == [time |-> "zero", memory |-> "within"]
Used == [time |-> IF program.time = "tiny" THEN "zero" ELSE program.time,
         memory |-> program.memory]
\* The last line of the program's own and RESOURCE_USAGE are one line: that of a
\* program that failed is joined by another line of /usr/bin/time instead.
Joined == program.says = "unended" /\ program.err > 0 /\ code = 0
\* Whether all of the usage is in what was kept of stderr, or a part may be: a
\* program that writes as much as the cap may leave room for some of it.
UsageWhole == usage /\ read["err"] = wrote["err"] /\ read["err"] <= ErrCap
UsageCut == usage /\ wrote["err"] <= ErrCap + 1 /\ read["err"] + 1 >= wrote["err"]
\* _parse_time_output(): the lines behind RESOURCE_USAGE, the last of each kind.
\* A line or a number that is cut says less than was used; what the program printed
\* for usage is taken if the true one does not follow.
Parsed ==
  IF Joined THEN {NoUsage}
  ELSE IF UsageWhole THEN {Used}
  ELSE IF program.says = "usage" /\ read["err"] > 0 THEN Usage
  ELSE IF UsageCut
  THEN {u \in Usage : /\ u.time = "over" => program.time = "over"
                      /\ u.time = "within" => program.time # "tiny"
                      /\ u.memory = "over" => program.memory = "over"}
  ELSE {NoUsage}

\* What a run is judged by: the wall clock whenever the CPU time is 0.00.
Readings ==
  {m \in Usage : \E u \in Parsed :
     m.memory = u.memory /\ IF u.time = "zero" THEN m.time \in Elapsed ELSE m.time = u.time}

\* Slips to catch: without the wrapper's CPU time no time has passed, and whatever
\* did not end with 0 was ended by a time limit.
MeasuredByWrapper ==
  {Outcome(code, u.time, u.memory, code \in {137, 124, 152}, FALSE) : u \in Parsed}
MeasuredByCode == {Outcome(code, m.time, m.memory, code # 0, FALSE) : m \in Readings}
Measured ==
  {Outcome(code, m.time, m.memory, code \in {137, 124, 152}, FALSE) : m \in Readings}
OutputLimit == {Outcome(1, e, "within", FALSE, TRUE) : e \in Elapsed}
TimedOut == Outcome(124, "over", "within", TRUE, FALSE)
Faulty == Outcome(1, "within", "within", FALSE, FALSE)
\* (returncode, combined_output)
Compiled == Outcome(code, "within", "within", FALSE, FALSE)
\* A slip to catch: proc.returncode or 0
CompiledSoFar == Outcome(IF code = Running THEN 0 ELSE code, "over", "within", TRUE, FALSE)
CompileTimeout == Outcome(1, "over", "within", TRUE, FALSE)

\* gather() is done and proc.wait() returns.
Return ==
  /\ result = NoResult
  /\ open = {}
  /\ exit = "known"
  /\ result' \in IF program.kind = "compiler" THEN {Compiled}
                 ELSE IF TooMuch THEN OutputLimit ELSE Measured
  /\ UNCHANGED <<program, jail, read, open, broken, exit>>

\* A slip to catch: the jail is left to its own limit.
WallTimeoutAlone ==
  /\ result = NoResult
  /\ open # {}
  /\ Late
  /\ result' = IF program.kind = "compiler" THEN CompileTimeout ELSE TimedOut
  /\ UNCHANGED <<program, jail, read, open, broken, exit>>
\* wait_for() gives up on gather(), and the jail is killed.
WallTimeout ==
  /\ result = NoResult
  /\ open # {}
  /\ Late
  /\ result' = IF program.kind = "compiler" THEN CompileTimeout ELSE TimedOut
  /\ code' = IF code = Running THEN 137 ELSE code
  /\ UNCHANGED <<program, fed, taken, wrote, usage, read, open, broken, exit>>

\* create_subprocess_exec() raises: a run ends with `except Exception`, a
\* compilation passes the exception on.
SpawnFails ==
  /\ MayFault
  /\ result = NoResult
  /\ code = Running
  /\ fed = 0 /\ wrote = [s \in Streams |-> 0]
  /\ code' = NotStarted
  /\ open' = {}
  /\ result' = Faulty
  /\ UNCHANGED <<program, fed, taken, wrote, usage, read, broken, exit>>

\* stream_file_to_stdin() closes stdin and raises: the file cannot be opened or
\* read.  `except Exception` ends the run, but not the process.
FeedFails ==
  /\ MayFault
  /\ result = NoResult
  /\ "in" \in open
  /\ open' = open \ {"in"}
  /\ result' = Faulty
  /\ UNCHANGED <<program, jail, read, broken, exit>>

-----------------------------------------------------------------------------
Jail == Take \/ (\E s \in Streams : Write(s)) \/ Exit \/ CpuLimit \/ JailLimit
Loop ==
  \/ Feed
  \/ FeedEnds
  \/ \E s \in Streams, n \in 1..Buffer : Read(s, n)
  \/ \E s \in Streams : Eof(s)
  \/ Return

Next ==
  \/ Jail
  \/ Loop
  \/ Notice
  \/ Steal
  \/ WallTimeout
  \/ SpawnFails
  \/ FeedFails
  \/ \E s \in Streams : ReadFails(s)

Spec == Init /\ [][Next]_vars

\* Programs run, nsjail keeps time, the loop turns, and wait_for() fires.
FairSpec == Spec /\ WF_vars(Jail) /\ WF_vars(Loop) /\ WF_vars(Notice) /\ WF_vars(WallTimeout)

-----------------------------------------------------------------------------
(* The verdicts.                                                           *)

\* A slip to catch: memory before time.
MemoryFirst(r) ==
  IF r.outputLimitExceeded THEN "OLE"
  ELSE IF r.memoryExceeded \/ r.memory = "over" THEN "MLE"
  ELSE IF r.timedOut \/ r.time = "over" THEN "TLE"
  ELSE IF r.code # 0 THEN "RTE"
  ELSE "compared"
\* _determine_test_status(): "compared" stands for what _check_output() says.
JudgeStatus(r) ==
  IF r.outputLimitExceeded THEN "OLE"
  ELSE IF r.code = 0
  THEN IF r.time = "over" THEN "TLE"
       ELSE IF r.memory = "over" THEN "MLE"
       ELSE "compared"
  ELSE IF r.timedOut \/ r.time = "over" THEN "TLE"
  ELSE IF r.memoryExceeded \/ r.memory = "over" THEN "MLE"
  ELSE "RTE"
\* _determine_status() of /run.
RunStatus(r) ==
  IF r.outputLimitExceeded THEN "OLE"
  ELSE IF r.timedOut \/ r.time = "over" THEN "TLE"
  ELSE IF r.memoryExceeded THEN "MLE"
  ELSE IF r.code # 0 THEN "RTE"
  ELSE "compared"

-----------------------------------------------------------------------------
Finished == result # NoResult
Judged == Finished /\ program.kind = "run"
Verdict == JudgeStatus(result)

\* Output that was cut is never compared with the expected one, though the
\* program may well end with exit code 0: what did not fit is in the buffers by
\* then.  Only an exception of the reading itself goes unnoticed.
CutNeverCompared ==
  (Judged /\ Verdict = "compared" /\ "out" \notin broken) =>
     read["out"] = program.out /\ program.out <= OutCap

\* Unless there is an exception, a program within all its limits, stderr
\* included, is judged by what it printed or by its own exit code, in whatever
\* order input, output, exit and time-out come, and whether or not it reads its
\* input.  The only other thing that may be held against it is the wall clock, if
\* its CPU time is 0.00 or its last line on stderr hides the usage.
InnocentJudgedByOutput ==
  (/\ Judged
   /\ program.out < OutCap
   /\ program.err < ErrCap
   /\ program.time \in {"tiny", "within"}
   /\ program.memory = "within"
   /\ program.code < 124
   /\ broken = {}
   /\ result = Faulty => program.code = 1)
     => \/ Verdict = IF program.code = 0 THEN "compared" ELSE "RTE"
        \/ Verdict = "TLE" /\ (program.time = "tiny" \/ Joined)

\* /run and /judge agree on every execution, but for the memory /run does not
\* look at.
PreviewAgrees == Judged => RunStatus(result) = Verdict \/ result.memory = "over"

\* A program that never ends is never accepted.  One that takes too much CPU time or
\* memory is not, whatever it prints, unless it fills stderr or the reading of it
\* fails: the usage comes last, and is neither lost nor replaced below the cap; all
\* but memory behind a last line that hides it.
LimitsEnforced ==
  (Judged /\ Verdict = "compared") =>
    /\ program.time # "asleep"
    /\ program.time = "over" => program.err >= ErrCap \/ "err" \in broken
    /\ program.memory = "over" => program.err >= ErrCap \/ "err" \in broken \/ Joined

\* A compilation succeeds just if the compiler ended by itself and said so, and
\* one that prints no more than the cap and is fast enough is believed, unless it
\* says it was killed; one that prints more, or whose output an exception keeps from
\* being read, may be stopped by its full pipe and the time limit.
CompilerBelieved ==
  (Finished /\ program.kind = "compiler") =>
    /\ result.code = 0 => code = 0 /\ Written
    /\ (/\ program.out <= OutCap /\ program.err <= ErrCap
        /\ program.time \in {"tiny", "within"} /\ program.code # 137
        /\ broken = {} /\ result # Faulty) => result.code = program.code

\* When an execution gives its slot back, and a judging removes the directory, no
\* process of it is left, whether it ended, was cut or took too long; all but an
\* exception on the feeding see to that.
NothingRunsOn == Finished /\ code = Running => result = Faulty

\* Every execution ends, also that of a program that fills a pipe nobody reads any
\* more, or that does not read its input, and one left behind by an exception; and
\* it has a result, though the final proc.wait() has no time-out of its own; all but
\* one whose exit status the zombie reaper has taken away.
Returned == <>(code # Running /\ (Finished \/ exit = "stolen"))
=============================================================================
