------------------------------ MODULE Subtasks ------------------------------
(***************************************************************************)
(* IOI scoring: _toposort_subtasks() and _aggregate_subtasks() of          *)
(* app/services/judge.py.  A step puts a subtask on Kahn's queue, takes    *)
(* one off, visits one that depends on it, or aggregates the next one of   *)
(* the order.                                                              *)
(*                                                                         *)
(* Subtasks are numbered in the order of the request.  Nothing in the      *)
(* schema keeps two of them from having one id; the id of a subtask is the *)
(* number of the first one that has it.  What a subtask asks for and how   *)
(* its tests went is its kind.                                             *)
(***************************************************************************)
EXTENDS Integers, Sequences, FiniteSets, FiniteSetsExt, SequencesExt

CONSTANTS NumSubtasks,  \* how many
          Kinds         \* what a subtask and its results can be

\* A result has the test's points, given if its status is OK.
Result == [status : {"OK", "WA", "TLE"}, points : Nat]
SkippedResult == [status |-> "SK", points |-> 0]

ASSUME SubtasksAssumption ==
  /\ NumSubtasks \in Nat \ {0}
  /\ \A k \in Kinds : /\ k.mode \in {"min", "sum", "all_or_nothing"}
                      /\ k.max \in Nat
                      /\ k.results \in Seq(Result)

Positions == 1..NumSubtasks
Ids == Positions

VARIABLES id,         \* subtask -> its id
          dependsOn,  \* subtask -> the ids it depends on
          kind,       \* subtask -> its kind
          inDegree,   \* id -> dependencies not yet in the order
          queue,      \* the ids whose dependencies are in the order
          rest,       \* the subtasks that the innermost loop has still to visit
          order,      \* the order found so far
          phase,      \* the function that runs
          next,       \* position in the order of the next subtask to aggregate
          results,    \* id -> the results of its tests
          score,      \* id -> score_map, 0 if not in it
          status,     \* id -> the status of its last SubtaskResult
          overall     \* overall_first_failure

request == <<id, dependsOn, kind>>
sorting == <<inDegree, queue, rest>>
scoring == <<next, results, score, status, overall>>
vars == <<request, sorting, order, phase, scoring>>

-----------------------------------------------------------------------------
Named == {id[p] : p \in Positions}
\* by_id: the last definition of an id is the one that counts.
Definition(n) == Max({p \in Positions : id[p] = n})

\* in_degree counts the dependencies of all definitions of an id.
Dependencies(n) == {x \in Positions \X Ids : id[x[1]] = n /\ x[2] \in dependsOn[x[1]]}
\* children: the subtasks that depend on d, visited in the order of the request.
Children(d) == {p \in Positions : d \in dependsOn[p]}

Passed(rs) == \A i \in DOMAIN rs : rs[i].status = "OK"
\* The status of the first result that is not OK.
FirstFailure(rs) == rs[Min({i \in DOMAIN rs : rs[i].status # "OK"})].status
\* A slip to catch: points for every result.
PointsForAll(rs) == SumFunction([i \in DOMAIN rs |-> rs[i].points])
\* The sum of the scores of the results.
Points(rs) ==
  SumFunction([i \in DOMAIN rs |-> IF rs[i].status = "OK" THEN rs[i].points ELSE 0])

\* What a subtask that is not skipped scores.
ScoreOf(k, rs) ==
  IF rs = <<>> THEN 0
  ELSE IF k.mode = "sum" THEN Min({Points(rs), k.max})
  ELSE IF Passed(rs) THEN k.max ELSE 0

\* Its status: mode "min" takes a score of max_score for a pass.
StatusOf(k, rs) ==
  IF rs = <<>> THEN "WA"
  ELSE IF Passed(rs) \/ (k.mode = "min" /\ ScoreOf(k, rs) = k.max) THEN "OK"
  ELSE FirstFailure(rs)

\* A slip to catch: a dependency that was not reached yet does not count.
SkippedLater(n) == \E d \in dependsOn[Definition(n)] : status[d] # "none" /\ score[d] <= 0
\* A dependency has no score, or none yet.
Skipped(n) == \E d \in dependsOn[Definition(n)] : score[d] <= 0

-----------------------------------------------------------------------------
Init ==
  /\ id \in {f \in [Positions -> Positions] : \A p \in Positions : f[p] <= p /\ f[f[p]] = f[p]}
  /\ dependsOn \in [Positions -> SUBSET Named]
  /\ kind \in [Positions -> Kinds]
  /\ inDegree = [n \in Ids |-> Cardinality(Dependencies(n))]
  /\ queue = <<>>
  /\ rest = {p \in Positions : inDegree[id[p]] = 0}
  /\ order = <<>>
  /\ phase = "queueing"
  /\ next = 1
  /\ results = [n \in Ids |-> IF n \in Named THEN kind[Definition(n)].results ELSE <<>>]
  /\ score = [n \in Ids |-> 0]
  /\ status = [n \in Ids |-> "none"]
  /\ overall = "OK"

\* The subtasks without dependencies are queued in the order of the request.
Enqueue ==
  /\ phase = "queueing"
  /\ rest # {}
  /\ queue' = Append(queue, id[Min(rest)])
  /\ rest' = rest \ {Min(rest)}
  /\ UNCHANGED <<request, inDegree, order, phase, scoring>>

\* One round of the loop over the queue.
Pop ==
  /\ phase \in {"queueing", "sorting"}
  /\ rest = {}
  /\ queue # <<>>
  /\ phase' = "sorting"
  /\ order' = Append(order, Head(queue))
  /\ queue' = Tail(queue)
  /\ rest' = Children(Head(queue))
  /\ UNCHANGED <<request, inDegree, scoring>>

\* A slip to catch: a child is ready whatever else it depends on.
TakeOffAnyway(child) ==
  /\ inDegree' = [inDegree EXCEPT ![child] = @ - 1]
  /\ queue' = Append(queue, child)
\* in_degree falls, and what falls to 0 is queued.
TakeOff(child) ==
  /\ inDegree' = [inDegree EXCEPT ![child] = @ - 1]
  /\ queue' = IF inDegree[child] = 1 THEN Append(queue, child) ELSE queue
\* One round of the loop over the children.
Visit ==
  /\ phase = "sorting"
  /\ rest # {}
  /\ TakeOff(id[Min(rest)])
  /\ rest' = rest \ {Min(rest)}
  /\ UNCHANGED <<request, order, phase, scoring>>

\* The queue is empty; with a cycle the order is that of the request.
Sorted ==
  /\ phase \in {"queueing", "sorting"}
  /\ rest = {}
  /\ queue = <<>>
  /\ phase' = "aggregating"
  /\ order' = IF Len(order) = NumSubtasks THEN order ELSE id
  /\ UNCHANGED <<request, sorting, scoring>>

\* A dependency failed: the subtask and its tests are SK.
Skip(n) ==
  /\ Skipped(n)
  /\ status' = [status EXCEPT ![n] = "SK"]
  /\ score' = [score EXCEPT ![n] = 0]
  /\ results' = [results EXCEPT ![n] = [i \in DOMAIN @ |-> SkippedResult]]
  /\ UNCHANGED overall

\* A slip to catch: the last subtask has the last word.
ScoreLast(n) ==
  LET k == kind[Definition(n)] IN
  /\ ~Skipped(n)
  /\ score' = [score EXCEPT ![n] = ScoreOf(k, results[n])]
  /\ status' = [status EXCEPT ![n] = StatusOf(k, results[n])]
  /\ overall' = StatusOf(k, results[n])
  /\ UNCHANGED results

\* The score and the status by score_mode; the first failure is kept.
Score(n) ==
  LET k == kind[Definition(n)] IN
  /\ ~Skipped(n)
  /\ score' = [score EXCEPT ![n] = ScoreOf(k, results[n])]
  /\ status' = [status EXCEPT ![n] = StatusOf(k, results[n])]
  /\ overall' = IF overall = "OK" THEN StatusOf(k, results[n]) ELSE overall
  /\ UNCHANGED results

\* One round of the loop over the order.
Aggregate ==
  /\ phase = "aggregating"
  /\ next <= NumSubtasks
  /\ next' = next + 1
  /\ Skip(order[next]) \/ Score(order[next])
  /\ UNCHANGED <<request, sorting, order, phase>>

Next == Enqueue \/ Pop \/ Visit \/ Sorted \/ Aggregate

Spec == Init /\ [][Next]_vars

-----------------------------------------------------------------------------
Finished == phase = "aggregating" /\ next > NumSubtasks

Distinct == \A p \in Positions : id[p] = p

\* In a cycle, or in a set with one, everybody has a dependency in the set.
AcyclicIn(T) == \A S \in SUBSET T : S # {} => \E s \in S : dependsOn[s] \cap S = {}
Acyclic == AcyclicIn(Ids)

\* What a subtask is worth by its mode, a sum over the tests that passed.
Worth(k) ==
  LET passed == {i \in DOMAIN k.results : k.results[i].status = "OK"}
      sum == SumFunction([i \in passed |-> k.results[i].points])
  IN CASE k.mode = "sum" -> IF sum < k.max THEN sum ELSE k.max
       [] k.mode # "sum" -> IF passed = DOMAIN k.results /\ passed # {} THEN k.max ELSE 0

\* The subtasks that score by the rules alone, whatever the order: those that
\* have points of their own and whose dependencies score, without a cycle.
Scoring ==
  UNION {S \in SUBSET Ids : /\ AcyclicIn(S)
                            /\ \A s \in S : Worth(kind[s]) > 0 /\ dependsOn[s] \subseteq S}

\* Every id is in the order as often as in the request, one entry for each subtask,
\* also in a cycle and if it occurs twice; and distinct ones are behind all they
\* depend on if that is possible at all: the fallback is taken for cycles and
\* nothing else.
OrderSound ==
  phase = "aggregating" =>
    /\ Len(order) = NumSubtasks
    /\ \E f \in [Positions -> Positions] :
         /\ \A i, j \in Positions : f[i] = f[j] => i = j
         /\ \A i \in Positions : order[i] = id[f[i]]
    /\ (Distinct /\ Acyclic) => \A i, j \in Ids : order[i] \in dependsOn[order[j]] => i < j

\* The scores of distinct subtasks are those of the rules, whatever order they were
\* computed in, as long as there is no cycle; in a cycle, and behind one, nothing
\* scores.  Beside a cycle, in the order of the request, a subtask may be skipped
\* because what it depends on is only scored after it.
ScoresByTheRules ==
  (Finished /\ Distinct) => \A s \in Ids :
    /\ s \notin Scoring => score[s] = 0
    /\ s \in Scoring /\ Acyclic => score[s] = Worth(kind[s])

\* No subtask has points behind a dependency without any, whatever order the
\* dependencies were written in, nor more than the maximum of any one of its
\* definitions, and nobody more than the sum of the maxima, though an id that
\* occurs twice is scored twice.
PointsDeserved ==
  /\ Finished => \A n \in Named : score[n] > 0 => \A d \in dependsOn[Definition(n)] : score[d] > 0
  /\ \A n \in Named : \E p \in Positions : id[p] = n /\ score[n] <= kind[p].max
  /\ SumFunction(score) <= SumFunction([p \in Positions |-> kind[p].max])

\* A subtask with something to score in every test.
Pointed(k) == k.max > 0 /\ \A i \in DOMAIN k.results : k.results[i].points > 0

\* If every subtask has a max_score, every test points, and there is neither a
\* cycle nor a second subtask of one id, a submission is OK just if all its tests are.
VerdictSound ==
  (Finished /\ Distinct /\ Acyclic /\ \A s \in Ids : Pointed(kind[s])) =>
    (overall = "OK" <=> \A s \in Ids : kind[s].results # <<>> /\ Passed(kind[s].results))
=============================================================================
