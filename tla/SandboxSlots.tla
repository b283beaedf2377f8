---------------------------- MODULE SandboxSlots ----------------------------
(***************************************************************************)
(* The concurrency slots of one worker process (app/sandbox/runner.py):    *)
(* a global asyncio.Semaphore and one per language, taken by _run_in_nsjail*)
(* and run_interactive with one `async with` statement.  Coroutines share  *)
(* an event loop: `turn` is the coroutine that is executing, and it keeps  *)
(* executing until it awaits something that is not ready.  acquire() of a  *)
(* free semaphore and release() do not give up the turn.                   *)
(***************************************************************************)
EXTENDS Integers, Sequences, FiniteSets, SequencesExt

CONSTANTS Tasks,          \* the coroutines that run tests
          Jobs,           \* the executions they may be asked for
          NumLanguages,   \* how many languages there are
          GlobalSlots,    \* _global_slots
          LanguageSlots,  \* slots_per_language
          NoJob,          \* no job
          Nobody          \* no coroutine is executing: the loop may pick one

Languages == 1..NumLanguages   \* language ids, in the order of their names
None == 0      \* a job without an interactor
Global == 0    \* the global semaphore; a language's semaphore is its id
Sems == Languages \cup {Global}

ASSUME SlotsAssumption ==
  /\ IsFiniteSet(Tasks)
  /\ Nobody \notin Tasks
  /\ GlobalSlots \in Nat \ {0}
  /\ LanguageSlots \in Nat \ {0}
  /\ NumLanguages \in Nat
  /\ Jobs \subseteq [lang : Languages, interactor : Languages \cup {None}]
  /\ NoJob \notin Jobs

VARIABLES value,    \* semaphore -> _value
          queue,    \* semaphore -> _waiters, the tasks whose futures it holds
          granted,  \* the waiting tasks whose future has its result
          pc,       \* task -> what it is doing
          job,      \* task -> the execution it was asked for
          got,      \* task -> how many semaphores of its path it has acquired
          turn      \* the executing coroutine

vars == <<value, queue, granted, pc, job, got, turn>>

-----------------------------------------------------------------------------
Capacity(s) == IF s = Global THEN GlobalSlots ELSE LanguageSlots

\* Slips to catch: the languages in the order of their roles, and an interactor
\* that takes no slot of its language.
PathByRole(j) ==
  IF j.interactor = None THEN <<Global, j.lang>> ELSE <<Global, j.lang, j.interactor>>
PathOfLanguage(j) == <<Global, j.lang>>
\* The order in which a job's semaphores are acquired: the global one first, an
\* interactive job's two languages by id.
Path(j) ==
  IF j.interactor = None THEN <<Global, j.lang>>
  ELSE IF j.lang > j.interactor THEN <<Global, j.interactor, j.lang>>
  ELSE <<Global, j.lang, j.interactor>>

Uses(j, l) == l \in {j.lang, j.interactor}

NextSem(t) == Path(job[t])[got[t] + 1]
LastSem(t) == Path(job[t])[got[t]]

\* A slip to catch: the free slots are not looked at.
Queued(s) == queue[s] # <<>>
Locked(s) == value[s] = 0 \/ queue[s] # <<>>

\* The position in queue[s] of the first future without a result; 0 if none.
Pending(s) == {i \in DOMAIN queue[s] : queue[s][i] \notin granted}
\* A slip to catch: the waiters are served last in, first out.
LastPending(s) == CHOOSE i \in Pending(s) : \A k \in Pending(s) : i >= k
FirstPending(s) == CHOOSE i \in Pending(s) : \A k \in Pending(s) : i <= k

\* _wake_up_next, when v slots of s are free and the futures in done have their
\* result: the first pending waiter is handed one of them.
WakeUpNext(s, v, done) ==
  IF Pending(s) = {}
  THEN /\ value' = [value EXCEPT ![s] = v]
       /\ granted' = done
  ELSE /\ value' = [value EXCEPT ![s] = v - 1]
       /\ granted' = done \cup {queue[s][FirstPending(s)]}

-----------------------------------------------------------------------------
Init ==
  /\ value = [s \in Sems |-> Capacity(s)]
  /\ queue = [s \in Sems |-> <<>>]
  /\ granted = {}
  /\ pc = [t \in Tasks |-> "idle"]
  /\ job = [t \in Tasks |-> NoJob]
  /\ got = [t \in Tasks |-> 0]
  /\ turn = Nobody

\* A test is to be run: the coroutine reaches its `async with`.
Arrive(t, j) ==
  /\ turn = Nobody
  /\ pc[t] = "idle"
  /\ job' = [job EXCEPT ![t] = j]
  /\ pc' = [pc EXCEPT ![t] = "acquiring"]
  /\ turn' = t
  /\ UNCHANGED <<value, queue, granted, got>>

\* acquire(), fast path
Acquire(t) ==
  /\ turn = t
  /\ pc[t] = "acquiring"
  /\ got[t] < Len(Path(job[t]))
  /\ ~Locked(NextSem(t))
  /\ value' = [value EXCEPT ![NextSem(t)] = @ - 1]
  /\ got' = [got EXCEPT ![t] = @ + 1]
  /\ UNCHANGED <<queue, granted, pc, job, turn>>

\* acquire(), slow path: await a new future
Wait(t) ==
  /\ turn = t
  /\ pc[t] = "acquiring"
  /\ got[t] < Len(Path(job[t]))
  /\ Locked(NextSem(t))
  /\ queue' = [queue EXCEPT ![NextSem(t)] = Append(@, t)]
  /\ pc' = [pc EXCEPT ![t] = "waiting"]
  /\ turn' = Nobody
  /\ UNCHANGED <<value, granted, job, got>>

\* A slip to catch: the resumed waiter does not wake the next one.
ResumeQuietly(t) ==
  LET s == NextSem(t) IN
  /\ turn = Nobody
  /\ pc[t] = "waiting"
  /\ t \in granted
  /\ queue' = [queue EXCEPT ![s] = RemoveFirst(@, t)]
  /\ granted' = granted \ {t}
  /\ got' = [got EXCEPT ![t] = @ + 1]
  /\ pc' = [pc EXCEPT ![t] = "acquiring"]
  /\ turn' = t
  /\ UNCHANGED <<value, job>>

\* The loop resumes acquire() after its future: the waiter leaves the deque and,
\* if further slots are free, wakes the next one.
Resume(t) ==
  LET s == NextSem(t) IN
  /\ turn = Nobody
  /\ pc[t] = "waiting"
  /\ t \in granted
  /\ queue' = [queue EXCEPT ![s] = RemoveFirst(@, t)]   \* _waiters.remove(fut)
  /\ IF value[s] > 0
     THEN WakeUpNext(s, value[s], granted \ {t})
     ELSE /\ granted' = granted \ {t}
          /\ UNCHANGED value
  /\ got' = [got EXCEPT ![t] = @ + 1]
  /\ pc' = [pc EXCEPT ![t] = "acquiring"]
  /\ turn' = t
  /\ UNCHANGED job

\* Inside the `async with`: the nsjail processes are spawned.
Enter(t) ==
  /\ turn = t
  /\ pc[t] = "acquiring"
  /\ got[t] = Len(Path(job[t]))
  /\ pc' = [pc EXCEPT ![t] = "running"]
  /\ turn' = Nobody
  /\ UNCHANGED <<value, queue, granted, job, got>>

\* The processes have exited, a timeout has expired or an exception was raised.
Finish(t) ==
  /\ turn = Nobody
  /\ pc[t] = "running"
  /\ pc' = [pc EXCEPT ![t] = "releasing"]
  /\ turn' = t
  /\ UNCHANGED <<value, queue, granted, job, got>>

\* __aexit__, innermost semaphore first
Release(t) ==
  LET s == LastSem(t) IN
  /\ turn = t
  /\ pc[t] = "releasing"
  /\ got[t] > 0
  /\ WakeUpNext(s, value[s] + 1, granted)
  /\ got' = [got EXCEPT ![t] = @ - 1]
  /\ UNCHANGED <<queue, pc, job, turn>>

\* A slip to catch: an exit that keeps its slots.
LeaveHolding(t) ==
  /\ turn = t
  /\ pc[t] = "releasing"
  /\ got' = [got EXCEPT ![t] = 0]
  /\ pc' = [pc EXCEPT ![t] = "idle"]
  /\ job' = [job EXCEPT ![t] = NoJob]
  /\ turn' = Nobody
  /\ UNCHANGED <<value, queue, granted>>

Leave(t) ==
  /\ turn = t
  /\ pc[t] = "releasing"
  /\ got[t] = 0
  /\ pc' = [pc EXCEPT ![t] = "idle"]
  /\ job' = [job EXCEPT ![t] = NoJob]
  /\ turn' = Nobody
  /\ UNCHANGED <<value, queue, granted, got>>

\* What a coroutine does once asked: everything the loop and the sandbox's own
\* time limits bring about without a new request.
Step(t) ==
  \/ Acquire(t)
  \/ Wait(t)
  \/ Resume(t)
  \/ Enter(t)
  \/ Finish(t)
  \/ Release(t)
  \/ Leave(t)

Next == \E t \in Tasks : (\E j \in Jobs : Arrive(t, j)) \/ Step(t)

Spec == Init /\ [][Next]_vars

\* The loop runs every ready callback, and every nsjail ends by its time limit.
FairSpec == Spec /\ \A t \in Tasks : SF_vars(Step(t))

-----------------------------------------------------------------------------
\* Types of the variables; a semaphore's value is never negative.
TypeOK ==
  /\ value \in [Sems -> Nat]
  /\ queue \in [Sems -> Seq(Tasks)]
  /\ granted \subseteq Tasks
  /\ pc \in [Tasks -> {"idle", "acquiring", "waiting", "running", "releasing"}]
  /\ job \in [Tasks -> Jobs \cup {NoJob}]
  /\ got \in [Tasks -> 0..3]
  /\ turn \in Tasks \cup {Nobody}

\* The slots of s in use, each named by its task and the place on its path.
Held(s) == {h \in Tasks \X (1..3) : h[2] <= got[h[1]] /\ Path(job[h[1]])[h[2]] = s}
Granted(s) == {t \in granted : NextSem(t) = s}

\* A task that is not idle has a job; how far it is on the job's path.
PathSound ==
  \A t \in Tasks :
    /\ pc[t] = "idle" <=> job[t] = NoJob
    /\ pc[t] = "idle" => got[t] = 0
    /\ pc[t] = "waiting" => got[t] < Len(Path(job[t]))
    /\ pc[t] \in {"acquiring", "running", "releasing"} => got[t] <= Len(Path(job[t]))
    /\ pc[t] = "running" => got[t] = Len(Path(job[t]))
    /\ turn = t <=> pc[t] \in {"acquiring", "releasing"}

\* A queue holds the tasks that wait for its semaphore, each once.
QueueSound ==
  /\ \A s \in Sems :
       /\ IsInjective(queue[s])
       /\ ToSet(queue[s]) = {t \in Tasks : pc[t] = "waiting" /\ NextSem(t) = s}
  /\ \A t \in granted : pc[t] = "waiting"

\* No slot is ever lost or invented: whatever the order of arrivals, hand-overs
\* and exits, a semaphore's free slots, the held ones and those handed to a
\* waiter that has not resumed add up to its capacity.
SlotsConserved ==
  \A s \in Sems : value[s] + Cardinality(Held(s)) + Cardinality(Granted(s)) = Capacity(s)

\* No lost wake-up: slots are free while a task waits for them only if a waiter
\* in the same queue has its grant and will pass the wake-up on.
NoLostWakeup ==
  \A s \in Sems : value[s] > 0 /\ Pending(s) # {} => Granted(s) # {}

\* No deadlock: while a task waits, some task is running or about to.
SomebodyMoves ==
  (\E t \in Tasks : pc[t] = "waiting") =>
     \/ turn # Nobody
     \/ granted # {}
     \/ \E t \in Tasks : pc[t] = "running"

\* The inductive invariant behind the three of them.
IInv == TypeOK /\ PathSound /\ QueueSound /\ SlotsConserved /\ NoLostWakeup

Sandbox == INSTANCE BoundedSandbox
             WITH running <- [t \in Tasks |-> IF pc[t] = "running" THEN job[t] ELSE NoJob]
\* The semaphores implement the bound on concurrent executions: never more tests
\* at once than global slots, nor in one language than its slots.
ImplementsBound == Sandbox!Spec

\* No starvation: a task that waits for a slot gets to run its test.
Served == \A t \in Tasks : pc[t] = "waiting" ~> pc[t] = "running"
=============================================================================
