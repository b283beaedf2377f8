---------------------------- MODULE JudgeService ----------------------------
(***************************************************************************)
(* POST /judge of one worker process: the backpressure of app/api/judge.py *)
(* and judge_submission() of app/services/judge.py with the tests it runs. *)
(*                                                                         *)
(* A step is what happens between two awaits on a request's way: it is     *)
(* admitted, a compile_once() returns, a test finishes.  compile_once() is *)
(* what CompileService promises: a directory that is to be given back with *)
(* release_compiled(), None, or an exception.                              *)
(***************************************************************************)
EXTENDS Integers, FiniteSets, FiniteSetsExt

CONSTANTS Requests,            \* the coroutines that handle POST /judge
          Submissions,         \* what may be asked for
          NumTests,            \* tests of a submission
          Endings,             \* what may become of a test, of Finished
          Known,               \* the languages get_language() knows
          Native,              \* those whose artifact is run as ./solution, as C++ is
          AllowCustomChecker,  \* settings.allow_custom_checker
          MaxInflight,         \* _max_inflight
          MaxRaised,           \* bound: how often compile_once() may raise
          NoSubmission         \* no submission

\* What a test is: not begun, running, or stuck in an await that never returns;
\* or finished with an output that equals the expected one, that only the
\* problem's own checker would accept, or that is wrong; a crash of the program;
\* test data that could not be read.
Finished == {"same", "accepted", "wrong", "crash", "unreadable"}
Pending == {"running", "stuck"}
Outcomes == {"none"} \cup Pending \cup Finished

\* data.language_id, the language of a custom checker and of the interactor
\* ("none" if there is no such thing), and whether the judging stops at the
\* first test that fails.
ASSUME ServiceAssumption ==
  /\ IsFiniteSet(Requests)
  /\ Endings \subseteq Finished
  /\ NumTests \in Nat \ {0}
  /\ MaxInflight \in Nat \ {0}
  /\ MaxRaised \in Nat
  /\ AllowCustomChecker \in BOOLEAN
  /\ "none" \notin Known
  /\ Native \subseteq Known
  /\ Submissions \subseteq [language : STRING, checker : STRING, interactor : STRING,
                            failFast : BOOLEAN]
  /\ NoSubmission \notin Submissions

Tests == 1..NumTests
Roles == {"submission", "checker", "interactor"}
Stages == Roles \cup {"idle", "testing", "stuck"}
Verdicts == {"OK", "WA", "RTE", "IE"}

VARIABLES slots,       \* _judge_semaphore._value
          inflight,    \* the gauge judge_inflight
          stage,       \* request -> the await it is at
          submission,  \* request -> what it was admitted to judge
          dirs,        \* the <<request, role>> whose work_dir exists and is known
          owed,        \* the <<request, role>> release_compiled() is owed for
          outcome,     \* request -> test -> what became of it
          response,    \* request -> the status of its last response
          raised,      \* how often compile_once() has raised
          orphans,     \* work_dirs nobody knows of any more
          lostRefs     \* cache refs nobody will give back

vars == <<slots, inflight, stage, submission, dirs, owed, outcome, response,
          raised, orphans, lostRefs>>
leaks == <<raised, orphans, lostRefs>>

-----------------------------------------------------------------------------
Bound(q) == {role \in Roles : <<q, role>> \in dirs}
HasChecker(s) == s.checker # "none"
HasInteractor(s) == s.interactor # "none"

\* Where judge_submission() goes when the compilation of `done` has succeeded.
AfterChecker(s) == IF ~HasInteractor(s) THEN "testing"
                   ELSE IF s.interactor \in Known THEN "interactor" ELSE "refused"
NextStage(s, done) ==
  IF done = "interactor" THEN "testing"
  ELSE IF done = "submission" /\ HasChecker(s) /\ ~AllowCustomChecker THEN "refused"
  ELSE IF done = "submission" /\ s.checker \in Known THEN "checker"
  ELSE AfterChecker(s)

\* _run_custom_checker() runs the compiled checker as C++ whatever it is; a
\* checker in an unknown language is not compiled, and the standard comparison
\* is used instead.
CheckedAs(s) == IF HasInteractor(s) \/ s.checker \notin Known THEN "standard"
                ELSE IF s.checker \in Native THEN "custom" ELSE "failing"
\* The interactor's own verdict stands for both right outputs.
VerdictOf(s, o) ==
  CASE o = "unreadable" -> "IE"
    [] o = "crash" -> "RTE"
    [] o = "wrong" -> "WA"
    [] o = "same" -> IF CheckedAs(s) = "failing" THEN "WA" ELSE "OK"
    [] o = "accepted" -> IF HasInteractor(s) \/ CheckedAs(s) = "custom" THEN "OK" ELSE "WA"

Done(o) == {i \in Tests : o[i] \in Finished}
Failed(s, o) == {i \in Done(o) : VerdictOf(s, o[i]) # "OK"}
\* A slip to catch: the verdict of the last test that failed.
OverallLast(s, o) == IF Failed(s, o) = {} THEN "OK" ELSE VerdictOf(s, o[Max(Failed(s, o))])
\* _aggregate_flat: the first verdict that is not OK, in the order of the tests.
Overall(s, o) == IF Failed(s, o) = {} THEN "OK" ELSE VerdictOf(s, o[Min(Failed(s, o))])
\* Slips to catch: a judging that ends with the first failure though tests are
\* running, and one that only ends when all tests have run.
CompleteEarly(s, o) == Done(o) = Tests \/ Failed(s, o) # {}
CompleteLate(s, o) == Done(o) = Tests
\* All tests have a result, or the first one that is not OK ended the loop.
Complete(s, o) == Done(o) = Tests \/ (s.failFast /\ Failed(s, o) # {})

-----------------------------------------------------------------------------
Init ==
  /\ slots = MaxInflight
  /\ inflight = 0
  /\ stage = [q \in Requests |-> "idle"]
  /\ submission = [q \in Requests |-> NoSubmission]
  /\ dirs = {}
  /\ owed = {}
  /\ outcome = [q \in Requests |-> [i \in Tests |-> "none"]]
  /\ response = [q \in Requests |-> "none"]
  /\ raised = 0
  /\ orphans = 0
  /\ lostRefs = 0

\* A request arrives: what is known of the one q handled before is forgotten.
NewRequest(q, s, status) ==
  /\ submission' = [submission EXCEPT ![q] = s]
  /\ outcome' = [outcome EXCEPT ![q] = [i \in Tests |-> "none"]]
  /\ response' = [response EXCEPT ![q] = status]

\* The backpressure is at its limit: 503.
Reject(q) ==
  /\ stage[q] = "idle"
  /\ slots = 0
  /\ NewRequest(q, NoSubmission, "503")
  /\ UNCHANGED <<slots, inflight, stage, dirs, owed, leaks>>

\* Disk pressure, or an unknown language: IE before anything is compiled.
\* Admission, answer and release of the slot are one step: nothing is awaited.
TurnAway(q) ==
  /\ stage[q] = "idle"
  /\ slots > 0
  /\ NewRequest(q, NoSubmission, "IE")
  /\ UNCHANGED <<slots, inflight, stage, dirs, owed, leaks>>

Admit(q, s) ==
  /\ stage[q] = "idle"
  /\ slots > 0
  /\ s.language \in Known
  /\ slots' = slots - 1
  /\ inflight' = inflight + 1
  /\ stage' = [stage EXCEPT ![q] = "submission"]
  /\ NewRequest(q, s, "none")
  /\ UNCHANGED <<dirs, owed, leaks>>

\* A slip to catch: a `finally` that knows of the submission only.
AnswerSubmissionOnly(q, status) ==
  /\ response' = [response EXCEPT ![q] = status]
  /\ inflight' = inflight - 1
  /\ dirs' = dirs \ {<<q, "submission">>}
  /\ owed' = owed \ {<<q, "submission">>}
  /\ slots' = slots + 1
  /\ stage' = [stage EXCEPT ![q] = "idle"]
  /\ UNCHANGED submission
\* The response, the `finally` of judge_submission() and the end of the
\* semaphore's `async with`: nothing is awaited on the way out.
Answer(q, status) ==
  /\ response' = [response EXCEPT ![q] = status]
  /\ inflight' = inflight - 1
  /\ dirs' = dirs \ ({q} \X Bound(q))
  /\ owed' = owed \ ({q} \X Bound(q))
  /\ slots' = slots + 1
  /\ stage' = [stage EXCEPT ![q] = "idle"]
  /\ UNCHANGED submission

\* What _run_all_tests() starts: the first test, or all of them at once.
Started(s) == [i \in Tests |-> IF i = 1 \/ ~s.failFast THEN "running" ELSE "none"]

\* compile_once() returned a work_dir: on to the next compilation or the tests.
Compiled(q) ==
  LET s == submission[q]
      next == NextStage(s, stage[q])
  IN
  /\ stage[q] \in Roles
  /\ next # "refused"
  /\ dirs' = dirs \cup {<<q, stage[q]>>}
  /\ owed' = owed \cup {<<q, stage[q]>>}
  /\ stage' = [stage EXCEPT ![q] = next]
  /\ outcome' = IF next = "testing" THEN [outcome EXCEPT ![q] = Started(s)] ELSE outcome
  /\ UNCHANGED <<slots, inflight, submission, response, leaks>>

\* compile_once() returned a work_dir, but custom checkers are disabled or the
\* interactor's language is unknown: its directory lives and dies in this step.
Refused(q) ==
  /\ stage[q] \in Roles
  /\ NextStage(submission[q], stage[q]) = "refused"
  /\ Answer(q, "IE")
  /\ UNCHANGED <<outcome, leaks>>

\* compile_once() returned None.
NotCompiled(q) ==
  /\ stage[q] \in Roles
  /\ Answer(q, IF stage[q] = "submission" THEN "CE" ELSE "IE")
  /\ UNCHANGED <<outcome, leaks>>

\* compile_once() raised: `except Exception`.  The name its work_dir would have
\* been bound to is still None, so the `finally` gives back what the earlier
\* compilations took and nothing of this one.  It may have made its work_dir
\* (chmod, the source file or the compiler failed), and may hold the ref get()
\* took for a hit (mkdtemp or chmod failed): both are lost.
Raised(q) ==
  /\ stage[q] \in Roles
  /\ raised < MaxRaised
  /\ Answer(q, "IE")
  /\ raised' = raised + 1
  /\ \E dir, ref \in {0, 1} : orphans' = orphans + dir /\ lostRefs' = lostRefs + ref
  /\ UNCHANGED outcome

\* An await of the request never returns: the reaper took the exit a compilation
\* or a test waits for, or the test waits for a slot behind two interactive ones
\* that block each other.
Stall(q) ==
  /\ \/ /\ stage[q] \in Roles
        /\ stage' = [stage EXCEPT ![q] = "stuck"]
        /\ UNCHANGED outcome
     \/ /\ stage[q] = "testing"
        /\ \E i \in Tests : /\ outcome[q][i] = "running"
                            /\ outcome' = [outcome EXCEPT ![q] = [@ EXCEPT ![i] = "stuck"]]
        /\ UNCHANGED stage
  /\ UNCHANGED <<slots, inflight, submission, dirs, owed, response, leaks>>

\* What the results are once test i has ended in o; a fail-fast judging goes on
\* with the next test.
Recorded(q, i, o) ==
  [j \in Tests |->
     IF j = i THEN o
     ELSE IF /\ submission[q].failFast
             /\ j = i + 1
             /\ VerdictOf(submission[q], o) = "OK"
          THEN "running"
          ELSE outcome[q][j]]

\* _run_single_test() returns; it catches every exception of its test.
TestDone(q, i, o) ==
  LET s == submission[q]
      results == Recorded(q, i, o)
  IN
  /\ stage[q] = "testing"
  /\ outcome[q][i] = "running"
  /\ outcome' = [outcome EXCEPT ![q] = results]
  /\ IF Complete(s, results)
     THEN Answer(q, Overall(s, results))
     ELSE UNCHANGED <<slots, inflight, stage, submission, dirs, owed, response>>
  /\ UNCHANGED leaks

Progress(q) ==
  \/ Compiled(q)
  \/ Refused(q)
  \/ NotCompiled(q)
  \/ Raised(q)
  \/ \E i \in Tests, o \in Endings : TestDone(q, i, o)

Next ==
  \E q \in Requests : \/ Reject(q)
                      \/ TurnAway(q)
                      \/ \E s \in Submissions : Admit(q, s)
                      \/ Progress(q)
                      \/ Stall(q)

Spec == Init /\ [][Next]_vars

\* Every compilation and every test that is not stuck ends by its time limit.
FairSpec == Spec /\ \A q \in Requests : WF_vars(Progress(q))

-----------------------------------------------------------------------------
Statuses == Verdicts \cup {"none", "503", "CE"}
Active == {q \in Requests : stage[q] # "idle"}

\* On every way out of judge() and judge_submission(), the early returns and the
\* exceptions included, the slot and the gauge are given back exactly once: both
\* always count the requests being judged.  No directory and no cache ref a
\* compilation handed over outlives its request, and each is given up with the
\* other.  What compile_once() itself held when it raised is lost, one directory
\* and one ref at the most each time: nothing else ever leaks.
GivenBack ==
  /\ inflight = Cardinality(Active)
  /\ slots + Cardinality(Active) = MaxInflight
  /\ dirs = owed
  /\ \A x \in dirs : stage[x[1]] # "idle"
  /\ orphans <= raised
  /\ lostRefs <= raised

\* The artifacts the tests of a submission need: its own, and those of a checker
\* or an interactor in a known language.
Needed(s) == {"submission"} \cup {role \in {"checker", "interactor"} : s[role] \in Known}

\* While a test runs nobody takes its artifacts away: a request is not answered,
\* and its directories not removed, before the last of its tests has ended,
\* whatever becomes of the others; a test that is stuck holds them all.
ArtifactsInPlace ==
  \A q \in Requests :
    (\E i \in Tests : outcome[q][i] \in Pending) =>
       stage[q] = "testing" /\ Needed(submission[q]) \subseteq Bound(q)

\* Whether the tests ran one by one or all at once, and in whatever order they
\* finished, a failing verdict is that of the first test that fails: all tests
\* before it have finished and are OK.
FirstFailureReported ==
  \A q \in Requests :
    (stage[q] = "idle" /\ response[q] \in Verdicts \ {"OK"} /\ Done(outcome[q]) # {}) =>
       \E i \in Tests :
         /\ outcome[q][i] \in Finished
         /\ VerdictOf(submission[q], outcome[q][i]) = response[q]
         /\ \A j \in 1..(i - 1) : outcome[q][j] \in Finished
                                 /\ VerdictOf(submission[q], outcome[q][j]) = "OK"

Stuck(q) == stage[q] = "stuck" \/ \E i \in Tests : outcome[q][i] = "stuck"

\* An admitted request is answered unless an await of its own never returns: a
\* request that is stuck holds its slot for good, and keeps no other admitted one
\* from its answer.
RequestAnswered(q) == stage[q] # "idle" ~> stage[q] = "idle" \/ Stuck(q)

-----------------------------------------------------------------------------
\* "Language of checker code": a custom checker decides in whatever language it
\* is written, so an output it accepts is OK.
CheckerHonoured ==
  \A q \in Requests : submission[q] # NoSubmission /\ submission[q].checker \in Known =>
    \A i \in Tests : outcome[q][i] = "accepted" => VerdictOf(submission[q], outcome[q][i]) = "OK"
=============================================================================
