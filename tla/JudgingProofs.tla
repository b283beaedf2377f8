--------------------------- MODULE JudgingProofs ----------------------------
(***************************************************************************)
(* Theorems about what app/services/judge.py makes of results and outputs: *)
(* about Subtasks for any number of subtasks, any dependencies among them, *)
(* any ids and any results, and about OutputCheck for any texts.           *)
(***************************************************************************)
EXTENDS Subtasks, OutputCheck, CommonLemmas

-----------------------------------------------------------------------------
(* What a subtask scores.                                                  *)

Statuses == {"OK", "WA", "TLE", "SK"}
Outcome == [status : Statuses, points : Nat]

LEMMA KindType ==
  ASSUME NEW k \in Kinds
  PROVE  /\ k.mode \in {"min", "sum", "all_or_nothing"} /\ k.max \in Nat
         /\ k.results \in Seq(Result) /\ k.results \in Seq(Outcome)
<1>1. k.mode \in {"min", "sum", "all_or_nothing"} /\ k.max \in Nat /\ k.results \in Seq(Result)
  BY SubtasksAssumption
<1>2. Result \subseteq Outcome
  BY DEF Result, Outcome, Statuses
<1>. QED BY <1>1, <1>2, SeqMonotonic

\* The results of a subtask are finitely many, each with its status and points.
LEMMA ResultsView ==
  ASSUME NEW rs \in Seq(Outcome)
  PROVE  /\ IsFiniteSet(DOMAIN rs)
         /\ \A i \in DOMAIN rs : rs[i].status \in Statuses /\ rs[i].points \in Nat
         /\ rs = <<>> <=> DOMAIN rs = {}
<1>1. DOMAIN rs = 1..Len(rs) /\ Len(rs) \in Nat /\ rs \in [1..Len(rs) -> Outcome]
  BY LenProperties
<1>2. IsFiniteSet(1..Len(rs))
  BY <1>1, FS_Interval
<1>3. \A i \in DOMAIN rs : rs[i] \in Outcome
  BY <1>1
<1>4. \A i \in DOMAIN rs : rs[i].status \in Statuses /\ rs[i].points \in Nat
  BY <1>3 DEF Outcome
<1>5. rs = <<>> <=> DOMAIN rs = {}
  <2>1. rs # <<>> => Len(rs) > 0
    BY EmptySeq
  <2>2. rs = <<>> => Len(rs) = 0
    BY EmptySeq
  <2>3. 1..Len(rs) = {} <=> Len(rs) = 0
    <3>1. Len(rs) > 0 => 1 \in 1..Len(rs)
      BY <1>1
    <3>. QED BY <1>1, <3>1
  <2>. QED BY <1>1, <2>1, <2>2, <2>3
<1>. QED BY <1>1, <1>2, <1>4, <1>5

\* Points adds up the points of the results that are OK.
LEMMA PointsView ==
  ASSUME NEW rs \in Seq(Outcome)
  PROVE  LET passed == {i \in DOMAIN rs : rs[i].status = "OK"} IN
         /\ Points(rs) \in Nat
         /\ Points(rs) = SumFunction([i \in passed |-> rs[i].points])
         /\ passed = {} => Points(rs) = 0
         /\ \A i \in passed : rs[i].points > 0 => Points(rs) > 0
<1> DEFINE passed == {i \in DOMAIN rs : rs[i].status = "OK"}
           all == [i \in DOMAIN rs |-> IF rs[i].status = "OK" THEN rs[i].points ELSE 0]
           some == [i \in passed |-> rs[i].points]
<1>1. /\ IsFiniteSet(DOMAIN rs)
      /\ \A i \in DOMAIN rs : rs[i].points \in Nat
  BY ResultsView
<1>2. IsFiniteSet(passed) /\ passed \in SUBSET DOMAIN rs
  BY <1>1, FS_Subset
<1>3. Points(rs) = SumFunctionOnSet(all, DOMAIN rs)
  BY DEF Points, SumFunction
<1>4. SumFunction(some) = SumFunctionOnSet(some, passed)
  BY DEF SumFunction
<1>5. \A i \in DOMAIN rs : all[i] \in Nat
  BY <1>1
<1>6. \A i \in (DOMAIN rs) \ passed : all[i] = 0
  OBVIOUS
<1>7. \A i \in passed : some[i] = all[i] /\ all[i] \in Nat /\ all[i] = rs[i].points
  BY <1>1
<1> HIDE DEF passed, all, some
<1>8. SumFunctionOnSet(all, DOMAIN rs) = SumFunctionOnSet(all, passed)
  BY <1>1, <1>2, <1>5, <1>6, SumDropZeros
<1>9. SumFunctionOnSet(all, passed) = SumFunctionOnSet(some, passed)
  BY <1>2, <1>7, SumCongruence
<1>10. Points(rs) \in Nat
  BY <1>1, <1>3, <1>5, SumStep
<1>11. passed = {} => Points(rs) = 0
  BY <1>3, <1>8, SumEmpty
<1>12. ASSUME NEW i \in passed, rs[i].points > 0 PROVE Points(rs) > 0
  <2>1. SumFunctionOnSet(all, passed) = all[i] + SumFunctionOnSet(all, passed \ {i})
    <3>1. \A j \in passed : all[j] \in Nat
      BY <1>7
    <3>. QED BY <1>2, <3>1, SumStep
  <2>2. SumFunctionOnSet(all, passed \ {i}) \in Nat
    <3>1. IsFiniteSet(passed \ {i}) /\ \A j \in passed \ {i} : all[j] \in Nat
      BY <1>2, <1>7, FS_Subset
    <3>. QED BY <3>1, SumStep
  <2>3. all[i] \in Nat /\ all[i] > 0
    BY <1>7, <1>12
  <2>. QED BY <1>3, <1>8, <2>1, <2>2, <2>3
<1>13. Points(rs) = SumFunction(some)
  BY <1>3, <1>4, <1>8, <1>9
<1>. QED BY <1>10, <1>11, <1>12, <1>13 DEF passed, some

\* The score by the mode is what the subtask is worth.
LEMMA ScoreOfIsWorth ==
  ASSUME NEW k \in Kinds
  PROVE  ScoreOf(k, k.results) = Worth(k)
<1> DEFINE rs == k.results
           passed == {i \in DOMAIN rs : rs[i].status = "OK"}
           sum == SumFunction([i \in passed |-> rs[i].points])
<1>1. k.max \in Nat /\ rs \in Seq(Outcome)
  BY KindType
<1>2. Worth(k) = IF k.mode = "sum" THEN IF sum < k.max THEN sum ELSE k.max
                 ELSE IF passed = DOMAIN rs /\ passed # {} THEN k.max ELSE 0
  BY DEF Worth
<1>3. /\ Points(rs) \in Nat
      /\ Points(rs) = sum
      /\ passed = {} => Points(rs) = 0
  BY <1>1, PointsView
<1>4. passed = DOMAIN rs <=> Passed(rs)
  BY DEF Passed
<1>5. rs = <<>> <=> DOMAIN rs = {}
  BY <1>1, ResultsView
<1>6. Min({Points(rs), k.max}) = IF sum < k.max THEN sum ELSE k.max
  BY <1>1, <1>3, MinOfTwo
<1> HIDE DEF sum
<1>7. rs = <<>> => passed = {}
  BY <1>5
<1> HIDE DEF passed, rs
<1>8. ScoreOf(k, rs) = IF rs = <<>> THEN 0
                       ELSE IF k.mode = "sum" THEN IF sum < k.max THEN sum ELSE k.max
                       ELSE IF Passed(rs) THEN k.max ELSE 0
  BY <1>6 DEF ScoreOf
<1>9. ScoreOf(k, rs) = Worth(k)
  <2>1. CASE rs = <<>>
    <3>1. passed = {} /\ sum = 0
      BY <1>3, <1>7, <2>1
    <3>. QED BY <1>1, <1>2, <1>8, <2>1, <3>1
  <2>2. CASE rs # <<>> /\ k.mode = "sum"
    BY <1>2, <1>8, <2>2
  <2>3. CASE rs # <<>> /\ k.mode # "sum"
    <3>1. Passed(rs) <=> passed = DOMAIN rs /\ passed # {}
      BY <1>4, <1>5, <2>3
    <3>. QED BY <1>2, <1>8, <2>3, <3>1
  <2>. QED BY <2>1, <2>2, <2>3
<1>. QED BY <1>9 DEF rs

\* FirstFailure is the status of a result that is not OK.
LEMMA FailureFound ==
  ASSUME NEW rs \in Seq(Outcome), ~Passed(rs)
  PROVE  FirstFailure(rs) \in Statuses \ {"OK"}
<1> DEFINE failed == {i \in DOMAIN rs : rs[i].status # "OK"}
<1>1. failed # {}
  BY DEF Passed
<1>2. failed \subseteq Nat
  BY LenProperties
<1>3. Min(failed) \in failed
  BY <1>1, <1>2, MinOfSet
<1>. QED BY <1>3, ResultsView DEF FirstFailure

\* No score is above the maximum, and tests that were skipped score nothing.
LEMMA ScoreOfBounds ==
  ASSUME NEW k \in Kinds, NEW rs \in Seq(Outcome)
  PROVE  /\ ScoreOf(k, rs) \in Nat /\ ScoreOf(k, rs) <= k.max
         /\ (\A i \in DOMAIN rs : rs[i] = SkippedResult) => ScoreOf(k, rs) = 0
         /\ StatusOf(k, rs) \in Statuses
<1>1. k.max \in Nat
  BY KindType
<1>2. /\ Points(rs) \in Nat
      /\ {i \in DOMAIN rs : rs[i].status = "OK"} = {} => Points(rs) = 0
  BY PointsView
<1>3. Min({Points(rs), k.max}) = IF Points(rs) < k.max THEN Points(rs) ELSE k.max
  BY <1>1, <1>2, MinOfTwo
<1>4. ScoreOf(k, rs) \in Nat /\ ScoreOf(k, rs) <= k.max
  BY <1>1, <1>2, <1>3 DEF ScoreOf
<1>5. ASSUME \A i \in DOMAIN rs : rs[i] = SkippedResult PROVE ScoreOf(k, rs) = 0
  <2>1. \A i \in DOMAIN rs : rs[i].status # "OK"
    BY <1>5 DEF SkippedResult
  <2>2. Points(rs) = 0
    BY <1>2, <2>1
  <2>3. rs # <<>> => ~Passed(rs)
    BY <2>1, ResultsView DEF Passed
  <2>. QED BY <1>1, <1>3, <2>2, <2>3 DEF ScoreOf
<1>6. StatusOf(k, rs) \in Statuses
  <2>1. CASE Passed(rs)
    BY <2>1 DEF StatusOf, Statuses
  <2>2. CASE ~Passed(rs)
    <3>1. FirstFailure(rs) \in Statuses
      BY <2>2, FailureFound
    <3>. QED BY <3>1 DEF StatusOf, Statuses
  <2>. QED BY <2>1, <2>2
<1>. QED BY <1>4, <1>5, <1>6

\* With tests that all point, a subtask that passed has a score and no failure, and
\* one that did not, or has no tests, has a failure.
Good(k) == k.results # <<>> /\ Passed(k.results)

LEMMA GoodKinds ==
  ASSUME NEW k \in Kinds, Pointed(k)
  PROVE  /\ Good(k) => ScoreOf(k, k.results) > 0 /\ StatusOf(k, k.results) = "OK"
         /\ ~Good(k) => StatusOf(k, k.results) # "OK"
<1> DEFINE rs == k.results
<1>1. k.max \in Nat /\ rs \in Seq(Outcome) /\ k.max > 0
  BY KindType DEF Pointed
<1> HIDE DEF rs
<1>2. ASSUME Good(k)
      PROVE  ScoreOf(k, rs) > 0 /\ StatusOf(k, rs) = "OK"
  <2>1. rs # <<>> /\ Passed(rs)
    BY <1>2 DEF Good, rs
  <2>2. PICK i \in DOMAIN rs : rs[i].status = "OK" /\ rs[i].points > 0
    BY <1>1, <2>1, ResultsView DEF Passed, Pointed, rs
  <2>3. Points(rs) > 0 /\ Points(rs) \in Nat
    BY <1>1, <2>2, PointsView
  <2>4. Min({Points(rs), k.max}) > 0
    BY <1>1, <2>3, MinOfTwo
  <2>. QED BY <1>1, <2>1, <2>4 DEF ScoreOf, StatusOf
<1>3. ASSUME ~Good(k)
      PROVE  StatusOf(k, rs) # "OK"
  <2>1. CASE rs = <<>>
    BY <2>1 DEF StatusOf
  <2>2. CASE rs # <<>> /\ ~Passed(rs)
    <3>1. FirstFailure(rs) # "OK"
      BY <1>1, <2>2, FailureFound
    <3>2. ~(k.mode = "min" /\ ScoreOf(k, rs) = k.max)
      BY <1>1, <2>2 DEF ScoreOf
    <3>. QED BY <2>2, <3>1, <3>2 DEF StatusOf
  <2>. QED BY <1>3, <2>1, <2>2 DEF Good, rs
<1>. QED BY <1>2, <1>3 DEF rs

-----------------------------------------------------------------------------
(* The inductive invariant.                                                *)

\* What was found so far: the order and behind it the queue.
Found == order \o queue

TypeOK ==
  /\ id \in [Positions -> Positions]
  /\ dependsOn \in [Positions -> SUBSET Named]
  /\ kind \in [Positions -> Kinds]
  /\ inDegree \in [Ids -> Int]
  /\ queue \in Seq(Named)
  /\ rest \in SUBSET Positions
  /\ order \in Seq(Named)
  /\ phase \in {"queueing", "sorting", "aggregating"}
  /\ next \in 1..(NumSubtasks + 1)
  /\ results \in [Ids -> Seq(Outcome)]
  /\ score \in [Ids -> Nat]
  /\ status \in [Ids -> Statuses \cup {"none"}]
  /\ overall \in Statuses

\* Every entry of F stands for another subtask.
Witness(w, F) ==
  /\ w \in [1..Len(F) -> Positions]
  /\ \A i, j \in 1..Len(F) : w[i] = w[j] => i = j
  /\ \A i \in 1..Len(F) : id[w[i]] = F[i]

\* An id is found as often as it has subtasks at most, none of them still to be queued.
FoundOnce ==
  \E w \in [1..Len(Found) -> Positions] :
    /\ Witness(w, Found)
    /\ phase = "queueing" => \A i \in 1..Len(Found) : w[i] \notin rest

\* Who is visited depends on the last of the order; who is found is not found again.
SortingSound ==
  /\ phase = "queueing" => order = <<>> /\ \A p \in rest : inDegree[id[p]] = 0
  /\ phase = "sorting" => Len(order) > 0 /\ rest \subseteq Children(order[Len(order)])
  /\ phase # "aggregating" => \A n \in Ids : inDegree[n] >= 1 => n \notin ToSet(Found)

\* The dependencies of n that in_degree still counts.
Open(n) ==
  {d \in dependsOn[n] : \/ d \notin ToSet(order)
                        \/ phase = "sorting" /\ n \in rest /\ d = order[Len(order)]}

\* Of distinct ids those are found that have no open dependency, and behind all they
\* depend on.
InDegreeSound ==
  (Distinct /\ phase # "aggregating") =>
    /\ \A n \in Ids : inDegree[n] = Cardinality(Open(n))
    /\ \A n \in Ids : n \in ToSet(Found) <=> inDegree[n] = 0 /\ (phase = "queueing" => n \notin rest)
    /\ \A j \in 1..Len(order) : \A d \in dependsOn[order[j]] : \E i \in 1..(j - 1) : order[i] = d

\* Nothing is aggregated before the order is known.
NothingYet ==
  phase # "aggregating" =>
    /\ next = 1 /\ overall = "OK"
    /\ \A n \in Ids : score[n] = 0
    /\ \A n \in Named : results[n] = kind[Definition(n)].results

\* Points are those of the results, behind dependencies that have points.
ScoresSound ==
  /\ \A n \in Ids \ Named : score[n] = 0
  /\ \A n \in Named : \/ results[n] = kind[Definition(n)].results
                      \/ \A i \in DOMAIN results[n] : results[n][i] = SkippedResult
  /\ \A n \in Named : score[n] > 0 =>
       /\ results[n] = kind[Definition(n)].results
       /\ score[n] = ScoreOf(kind[Definition(n)], results[n])
       /\ \A d \in dependsOn[Definition(n)] : score[d] > 0

\* Distinct subtasks are aggregated once each, those with points in an order.
InTurn ==
  (Distinct /\ phase = "aggregating") =>
    /\ \A i, j \in Ids : order[i] = order[j] => i = j
    /\ \A j \in next..NumSubtasks : results[order[j]] = kind[order[j]].results
    /\ \A j \in Ids : score[order[j]] > 0 =>
         j < next /\ \A d \in dependsOn[order[j]] : \E i \in 1..(j - 1) : order[i] = d

\* So far, who is behind dependencies with points has what it is worth.
Deserved ==
  (Distinct /\ Acyclic /\ phase = "aggregating") =>
    \A j \in 1..(next - 1) :
      (\A d \in dependsOn[order[j]] : score[d] > 0) => score[order[j]] = Worth(kind[order[j]])

\* So far, the first failure is kept and there was one if something failed.
VerdictSoFar ==
  (Distinct /\ Acyclic /\ phase = "aggregating" /\ \A s \in Ids : Pointed(kind[s])) =>
    IF \A j \in 1..(next - 1) : Good(kind[order[j]])
    THEN overall = "OK" /\ \A j \in 1..(next - 1) : score[order[j]] > 0
    ELSE overall # "OK"

IInv == /\ TypeOK /\ FoundOnce /\ SortingSound /\ InDegreeSound /\ OrderSound
        /\ NothingYet /\ ScoresSound /\ InTurn /\ Deserved /\ VerdictSoFar

-----------------------------------------------------------------------------
(* Facts about single states.                                              *)

LEMMA RequestKept ==
  ASSUME UNCHANGED request
  PROVE  /\ Named' = Named
         /\ \A n : Definition(n)' = Definition(n)
         /\ \A n : Children(n)' = Children(n)
         /\ Distinct' <=> Distinct
         /\ Acyclic' <=> Acyclic
         /\ id' = id /\ dependsOn' = dependsOn /\ kind' = kind
BY DEF request, Named, Definition, Children, Distinct, Acyclic, AcyclicIn

LEMMA NamedFacts ==
  ASSUME TypeOK
  PROVE  /\ Named \subseteq Ids /\ IsFiniteSet(Ids)
         /\ \A n \in Named : /\ Definition(n) \in Positions /\ id[Definition(n)] = n
                             /\ kind[Definition(n)] \in Kinds
                             /\ dependsOn[Definition(n)] \subseteq Named
         /\ Distinct => Named = Ids /\ \A n \in Ids : Definition(n) = n
<1>0. NumSubtasks \in Nat /\ NumSubtasks > 0
  BY SubtasksAssumption
<1>1. id \in [Positions -> Positions] /\ kind \in [Positions -> Kinds]
      /\ dependsOn \in [Positions -> SUBSET Named]
  BY DEF TypeOK
<1>2. Named \subseteq Ids
  BY <1>1 DEF Named, Ids
<1>3. IsFiniteSet(Ids)
  BY <1>0, FS_Interval DEF Ids, Positions
<1>4. ASSUME NEW n \in Named
      PROVE  Definition(n) \in Positions /\ id[Definition(n)] = n
  <2> DEFINE P == {p \in Positions : id[p] = n}
  <2>1. P \subseteq 0..NumSubtasks /\ P # {}
    BY <1>0 DEF Named, Positions
  <2>2. Max(P) \in P
    BY <1>0, <2>1, MaxOfSet
  <2>. QED BY <2>2 DEF Definition
<1>5. ASSUME Distinct PROVE Named = Ids /\ \A n \in Ids : Definition(n) = n
  <2>1. Named = Ids
    BY <1>5 DEF Distinct, Named, Ids
  <2>. QED BY <1>4, <1>5, <2>1 DEF Distinct
<1>. QED BY <1>1, <1>2, <1>3, <1>4, <1>5

LEMMA FoundType ==
  ASSUME TypeOK
  PROVE  /\ Found \in Seq(Named) /\ Len(Found) = Len(order) + Len(queue)
         /\ Len(order) \in Nat /\ Len(queue) \in Nat
         /\ \A i \in 1..Len(order) : Found[i] = order[i]
         /\ ToSet(Found) = ToSet(order) \cup ToSet(queue)
<1>1. order \in Seq(Named) /\ queue \in Seq(Named)
  BY DEF TypeOK
<1>2. Len(order) \in Nat /\ Len(queue) \in Nat
  BY <1>1, LenProperties
<1>3. /\ Found \in Seq(Named) /\ Len(Found) = Len(order) + Len(queue)
      /\ \A i \in 1..(Len(order) + Len(queue)) :
           Found[i] = IF i <= Len(order) THEN order[i] ELSE queue[i - Len(order)]
  BY <1>1, ConcatProperties DEF Found
<1>4. ToSet(Found) = ToSet(order) \cup ToSet(queue)
  BY <1>1, ConcatToSet DEF Found
<1>. QED BY <1>2, <1>3, <1>4

\* With distinct subtasks nothing is found twice.
LEMMA FoundDistinct ==
  ASSUME TypeOK, FoundOnce, Distinct
  PROVE  \A i, j \in 1..Len(Found) : Found[i] = Found[j] => i = j
BY DEF FoundOnce, Witness, Distinct

\* One more subtask is found.
LEMMA OneMore ==
  ASSUME NEW F \in Seq(Named), id \in [Positions -> Positions],
         NEW w, Witness(w, F),
         NEW p \in Positions, \A i \in 1..Len(F) : w[i] # p
  PROVE  \E v : /\ Witness(v, Append(F, id[p]))
                /\ \A i \in 1..Len(Append(F, id[p])) : v[i] = p \/ \E j \in 1..Len(F) : v[i] = w[j]
<1>0. /\ w \in [1..Len(F) -> Positions]
      /\ \A i, j \in 1..Len(F) : w[i] = w[j] => i = j
      /\ \A i \in 1..Len(F) : id[w[i]] = F[i]
  BY DEF Witness
<1> DEFINE G == Append(F, id[p])
           v == [i \in 1..Len(G) |-> IF i <= Len(F) THEN w[i] ELSE p]
<1>1. id[p] \in Named
  BY DEF Named
<1>2. /\ G \in Seq(Named) /\ Len(G) = Len(F) + 1 /\ Len(F) \in Nat
      /\ \A i \in 1..Len(F) : G[i] = F[i]
      /\ G[Len(F) + 1] = id[p]
  BY <1>1, AppendProperties, LenProperties
<1> HIDE DEF G
<1>3. /\ \A i \in 1..Len(F) : i \in 1..Len(G) /\ v[i] = w[i]
      /\ v[Len(F) + 1] = p
      /\ \A i \in 1..Len(G) : i \in 1..Len(F) \/ i = Len(F) + 1
  BY <1>2
<1>4. v \in [1..Len(G) -> Positions]
  BY <1>0, <1>2
<1> HIDE DEF v
<1>5. \A i, j \in 1..Len(G) : v[i] = v[j] => i = j
  BY <1>0, <1>3
<1>6. \A i \in 1..Len(G) : id[v[i]] = G[i]
  BY <1>0, <1>2, <1>3
<1>7. \A i \in 1..Len(G) : v[i] = p \/ \E j \in 1..Len(F) : v[i] = w[j]
  BY <1>3
<1>8. Witness(v, G)
  BY <1>4, <1>5, <1>6 DEF Witness
<1>. QED BY <1>7, <1>8 DEF G

LEMMA OpenFinite ==
  ASSUME TypeOK, NEW n \in Ids
  PROVE  IsFiniteSet(Open(n)) /\ Cardinality(Open(n)) \in Nat
         /\ (Cardinality(Open(n)) = 0 <=> Open(n) = {})
<1>1. Open(n) \subseteq Ids
  BY NamedFacts DEF TypeOK, Open, Ids
<1>2. IsFiniteSet(Open(n))
  BY <1>1, NamedFacts, FS_Subset
<1>. QED BY <1>2, FS_CardinalityType, FS_EmptySet

\* What is visited is the first of the subtasks that are left.
LEMMA FirstOfRest ==
  ASSUME TypeOK, rest # {}
  PROVE  Min(rest) \in rest /\ Min(rest) \in Positions /\ id[Min(rest)] \in Named
<1>1. rest \subseteq Positions /\ id \in [Positions -> Positions]
  BY DEF TypeOK
<1>2. rest \subseteq Nat
  BY <1>1 DEF Positions
<1>3. Min(rest) \in rest
  BY <1>2, MinOfSet
<1>. QED BY <1>1, <1>3 DEF Named

-----------------------------------------------------------------------------
(* The invariant holds initially and every step keeps it.                  *)

LEMMA InitHolds ==
  ASSUME Init
  PROVE  IInv
<1>0. NumSubtasks \in Nat \ {0} /\ Positions = 1..NumSubtasks
  BY SubtasksAssumption DEF Positions
<1>1. /\ id \in [Positions -> Positions] /\ dependsOn \in [Positions -> SUBSET Named]
      /\ kind \in [Positions -> Kinds]
  BY DEF Init
<1>2. \A n \in Ids : IsFiniteSet(Dependencies(n)) /\ inDegree[n] = Cardinality(Dependencies(n))
  <2>0. IsFiniteSet(Positions) /\ IsFiniteSet(Ids)
    BY <1>0, FS_Interval DEF Ids
  <2>1. IsFiniteSet(Positions \X Ids)
    BY <2>0, FS_Product
  <2>2. \A n \in Ids : Dependencies(n) \subseteq Positions \X Ids
    BY DEF Dependencies
  <2>. QED BY <2>1, <2>2, FS_Subset DEF Init
<1>3. inDegree \in [Ids -> Int]
  BY <1>2, FS_CardinalityType DEF Init
<1>4. \A n \in Named : /\ Definition(n) \in Positions /\ n \in Ids
                       /\ kind[Definition(n)].results \in Seq(Outcome)
  <2> DEFINE P(n) == {p \in Positions : id[p] = n}
  <2>1. ASSUME NEW n \in Named PROVE Definition(n) \in Positions
    <3>1. P(n) \subseteq 0..NumSubtasks /\ P(n) # {}
      BY <1>0 DEF Named
    <3>2. Max(P(n)) \in P(n)
      BY <1>0, <3>1, MaxOfSet
    <3>. QED BY <3>2 DEF Definition
  <2>. QED BY <1>1, <2>1, KindType DEF Named, Ids
<1>5. TypeOK
  <2>1. results \in [Ids -> Seq(Outcome)]
    BY <1>4, EmptySeq DEF Init
  <2>2. queue \in Seq(Named) /\ order \in Seq(Named)
    BY EmptySeq DEF Init
  <2>3. next \in 1..(NumSubtasks + 1)
    BY <1>0 DEF Init
  <2>4. score \in [Ids -> Nat] /\ status \in [Ids -> Statuses \cup {"none"}] /\ overall \in Statuses
    BY DEF Init, Statuses
  <2>5. rest \in SUBSET Positions /\ phase \in {"queueing", "sorting", "aggregating"}
    BY DEF Init
  <2>. QED BY <1>1, <1>3, <2>1, <2>2, <2>3, <2>4, <2>5 DEF TypeOK
<1>6. Found = <<>> /\ Len(Found) = 0 /\ 1..Len(Found) = {} /\ ToSet(Found) = {} /\ ToSet(order) = {}
  <2>1. order = <<>> /\ queue = <<>> /\ <<>> \in Seq(Named) /\ Len(<<>>) = 0
    BY EmptySeq DEF Init
  <2>2. Found = <<>>
    BY <2>1, ConcatEmptySeq DEF Found
  <2>3. 1..0 = {}
    OBVIOUS
  <2>5. ToSet(<<>>) = {}
    BY DEF ToSet
  <2>. QED BY <2>1, <2>2, <2>3, <2>5
<1>7. FoundOnce
  <2>1. [i \in {} |-> 1] \in [{} -> Positions]
    OBVIOUS
  <2>. QED BY <1>6, <2>1 DEF FoundOnce, Witness
<1>8. SortingSound
  BY <1>6 DEF SortingSound, Init
<1>9. InDegreeSound
  <2>. SUFFICES ASSUME Distinct PROVE InDegreeSound
    BY DEF InDegreeSound
  <2>0. phase = "queueing" /\ order = <<>> /\ Len(order) = 0
    BY EmptySeq DEF Init
  <2>1. ASSUME NEW n \in Ids PROVE inDegree[n] = Cardinality(Open(n))
    <3>1. Open(n) = dependsOn[n] /\ dependsOn[n] \subseteq Ids
      BY <1>1, <1>6, <2>0, NamedFacts, <1>5 DEF Open, Ids
    <3> DEFINE f == [x \in Dependencies(n) |-> x[2]]
    <3>2. \A x \in Dependencies(n) : x = <<n, x[2]>> /\ x[2] \in dependsOn[n]
      BY DEF Dependencies, Distinct
    <3>3. \A d \in dependsOn[n] : <<n, d>> \in Dependencies(n)
      BY <3>1 DEF Dependencies, Distinct, Ids
    <3>4. f \in [Dependencies(n) -> dependsOn[n]]
      BY <3>2
    <3>5. f \in Surjection(Dependencies(n), dependsOn[n])
      BY <3>3, <3>4 DEF Surjection
    <3>6. f \in Injection(Dependencies(n), dependsOn[n])
      <4>1. \A x, y \in Dependencies(n) : f[x] = f[y] => x = y
        BY <3>2
      <4>. QED BY <3>4, <4>1 DEF Injection, IsInjective
    <3>7. Cardinality(dependsOn[n]) = Cardinality(Dependencies(n))
      BY <1>2, <3>5, <3>6, FS_Surjection
    <3>. QED BY <1>2, <3>1, <3>7
  <2>2. ASSUME NEW n \in Ids PROVE ~(inDegree[n] = 0 /\ n \notin rest)
    <3>1. n \in Positions /\ id[n] = n
      BY <1>1 DEF Distinct, Ids
    <3>. QED BY <3>1 DEF Init
  <2>3. 1..0 = {}
    OBVIOUS
  <2>. QED BY <1>6, <2>0, <2>1, <2>2, <2>3 DEF InDegreeSound
<1>10. /\ OrderSound /\ InTurn /\ Deserved /\ VerdictSoFar
  BY DEF Init, OrderSound, InTurn, Deserved, VerdictSoFar
<1>11. NothingYet
  BY <1>4 DEF Init, NothingYet
<1>12. ScoresSound
  BY <1>4 DEF Init, ScoresSound
<1>. QED BY <1>5, <1>7, <1>8, <1>9, <1>10, <1>11, <1>12 DEF IInv

\* While the order is found nothing is scored.
LEMMA ScoresKept ==
  ASSUME NothingYet, ScoresSound, UNCHANGED <<request, scoring>>, phase # "aggregating"
  PROVE  /\ ScoresSound'
         /\ phase' # "aggregating" =>
              NothingYet' /\ OrderSound' /\ InTurn' /\ Deserved' /\ VerdictSoFar'
<1>1. /\ Named' = Named /\ \A n : Definition(n)' = Definition(n)
      /\ kind' = kind /\ dependsOn' = dependsOn
  BY RequestKept
<1>2. next' = next /\ overall' = overall /\ results' = results /\ score' = score
  BY DEF scoring
<1>3. ScoresSound'
  BY <1>1, <1>2 DEF ScoresSound
<1>4. phase' # "aggregating" => NothingYet'
  BY <1>1, <1>2 DEF NothingYet
<1>5. phase' # "aggregating" => OrderSound' /\ InTurn' /\ Deserved' /\ VerdictSoFar'
  BY DEF OrderSound, InTurn, Deserved, VerdictSoFar
<1>. QED BY <1>3, <1>4, <1>5

LEMMA EnqueueKeeps ==
  ASSUME IInv, Enqueue
  PROVE  IInv'
<1> DEFINE p == Min(rest)
<1>0. /\ TypeOK /\ FoundOnce /\ SortingSound /\ InDegreeSound /\ NothingYet /\ ScoresSound
      /\ phase = "queueing" /\ rest # {}
      /\ queue' = Append(queue, id[p]) /\ rest' = rest \ {p}
      /\ UNCHANGED <<request, inDegree, order, phase, scoring>>
  BY DEF IInv, Enqueue
<1>1. /\ Named' = Named /\ (Distinct' <=> Distinct) /\ \A n : Children(n)' = Children(n)
      /\ id' = id /\ dependsOn' = dependsOn /\ kind' = kind
  BY <1>0, RequestKept
<1>2. p \in rest /\ p \in Positions /\ id[p] \in Named
  BY <1>0, FirstOfRest
<1>3. Found' = Append(Found, id[p]) /\ ToSet(Found') = ToSet(Found) \cup {id[p]}
  <2>1. order \in Seq(Named) /\ queue \in Seq(Named) /\ Found \in Seq(Named)
    BY <1>0, FoundType DEF TypeOK
  <2>2. Found' = Append(Found, id[p])
    BY <1>0, <1>2, <2>1, AppendBehind DEF Found
  <2>. QED BY <1>2, <2>1, <2>2, AppendToSet
<1> HIDE DEF p
<1>4. TypeOK'
  <2>1. queue' \in Seq(Named)
    BY <1>0, <1>2, AppendProperties DEF TypeOK
  <2>. QED BY <1>0, <1>1, <2>1 DEF TypeOK, scoring
<1>5. FoundOnce'
  <2>1. PICK w \in [1..Len(Found) -> Positions] :
          Witness(w, Found) /\ \A i \in 1..Len(Found) : w[i] \notin rest
    BY <1>0 DEF FoundOnce
  <2>2. \A i \in 1..Len(Found) : w[i] # p
    BY <1>2, <2>1
  <2>3. PICK v : /\ Witness(v, Found')
                 /\ \A i \in 1..Len(Found') : v[i] = p \/ \E j \in 1..Len(Found) : v[i] = w[j]
    <3>1. Found \in Seq(Named) /\ id \in [Positions -> Positions]
      BY <1>0, FoundType DEF TypeOK
    <3>. QED BY <1>2, <1>3, <2>1, <2>2, <3>1, OneMore
  <2>4. \A i \in 1..Len(Found') : v[i] \notin rest'
    BY <1>0, <2>1, <2>3
  <2>. QED BY <1>1, <2>3, <2>4 DEF FoundOnce, Witness
<1>6. inDegree[id[p]] = 0
  BY <1>0, <1>2 DEF SortingSound
<1>7. SortingSound'
  <2>1. \A n \in Ids : inDegree'[n] >= 1 => n \notin ToSet(Found')
    BY <1>0, <1>3, <1>6 DEF SortingSound
  <2>. QED BY <1>0, <1>1, <2>1 DEF SortingSound
<1>8. InDegreeSound'
  <2>. SUFFICES ASSUME Distinct PROVE InDegreeSound'
    BY <1>1 DEF InDegreeSound
  <2>1. \A n \in Ids : Open(n)' = Open(n)
    BY <1>0, <1>1 DEF Open
  <2>2. id[p] = p /\ p \in Ids
    BY <1>2 DEF Distinct, Ids
  <2>3. ASSUME NEW n \in Ids
        PROVE  n \in ToSet(Found') <=> inDegree[n] = 0 /\ n \notin rest'
    <3>1. n \in ToSet(Found) <=> inDegree[n] = 0 /\ n \notin rest
      BY <1>0 DEF InDegreeSound
    <3>. QED BY <1>0, <1>2, <1>3, <1>6, <2>2, <3>1
  <2>4. \A n \in Ids : inDegree'[n] = Cardinality(Open(n)')
    BY <1>0, <2>1 DEF InDegreeSound
  <2>. QED BY <1>0, <1>1, <2>3, <2>4 DEF InDegreeSound
<1>. QED BY <1>0, <1>4, <1>5, <1>7, <1>8, ScoresKept DEF IInv

LEMMA PopKeeps ==
  ASSUME IInv, Pop
  PROVE  IInv'
<1> DEFINE h == Head(queue)
<1>0. /\ TypeOK /\ FoundOnce /\ SortingSound /\ InDegreeSound /\ NothingYet /\ ScoresSound
      /\ phase # "aggregating" /\ rest = {} /\ queue # <<>> /\ phase' = "sorting"
      /\ order' = Append(order, h) /\ queue' = Tail(queue) /\ rest' = Children(h)
      /\ UNCHANGED <<request, inDegree, scoring>>
  BY DEF IInv, Pop
<1>1. /\ Named' = Named /\ (Distinct' <=> Distinct) /\ \A n : Children(n)' = Children(n)
      /\ id' = id /\ dependsOn' = dependsOn /\ kind' = kind
  BY <1>0, RequestKept
<1>2. order \in Seq(Named) /\ queue \in Seq(Named)
  BY <1>0 DEF TypeOK
<1>3. /\ h \in Named /\ Tail(queue) \in Seq(Named)
      /\ Len(queue) > 0 /\ Len(order) \in Nat /\ Len(queue) \in Nat
  BY <1>0, <1>2, HeadTailProperties, EmptySeq, LenProperties
<1>4. Found' = Found
  BY <1>0, <1>2, MoveHead DEF Found
<1>5. /\ order' \in Seq(Named) /\ Len(order') = Len(order) + 1
      /\ \A i \in 1..Len(order) : order'[i] = order[i]
      /\ order'[Len(order')] = h
      /\ ToSet(order') = ToSet(order) \cup {h}
  BY <1>0, <1>2, <1>3, AppendProperties, AppendToSet
<1>6. /\ Found[Len(order) + 1] = h /\ h \in ToSet(Found)
      /\ Len(order) + 1 \in 1..Len(Found)
      /\ \A i \in 1..Len(order) : Found[i] = order[i] /\ i \in 1..Len(Found)
  <2>1. order' \in Seq(Named) /\ queue' \in Seq(Named) /\ Len(queue') \in Nat
    BY <1>0, <1>3, <1>5, LenProperties
  <2>2. /\ \A i \in 1..Len(order') : Found'[i] = order'[i]
        /\ Len(Found') = Len(order') + Len(queue')
        /\ ToSet(Found') = ToSet(order') \cup ToSet(queue')
    <3>1. /\ Len(Found') = Len(order') + Len(queue')
          /\ \A i \in 1..(Len(order') + Len(queue')) :
               Found'[i] = IF i <= Len(order') THEN order'[i] ELSE queue'[i - Len(order')]
      BY <2>1, ConcatProperties DEF Found
    <3>2. ToSet(Found') = ToSet(order') \cup ToSet(queue')
      BY <2>1, ConcatToSet DEF Found
    <3>. QED BY <1>3, <1>5, <2>1, <3>1, <3>2
  <2>3. /\ \A i \in 1..Len(order) : i \in 1..Len(order') /\ i \in 1..Len(Found')
        /\ Len(order) + 1 \in 1..Len(order') /\ Len(order) + 1 \in 1..Len(Found')
    BY <1>3, <1>5, <2>2
  <2>4. h \in ToSet(Found')
    BY <1>5, <2>2
  <2>. QED BY <1>4, <1>5, <2>2, <2>3, <2>4
<1> HIDE DEF h
<1>7. TypeOK'
  BY <1>0, <1>1, <1>3, <1>5 DEF TypeOK, scoring, Children
<1>8. FoundOnce'
  BY <1>0, <1>1, <1>4 DEF FoundOnce, Witness
<1>9. SortingSound'
  <2>1. Len(order') > 0 /\ rest' \subseteq Children(order[Len(order)])'
    BY <1>0, <1>1, <1>3, <1>5 DEF Children
  <2>. QED BY <1>0, <1>4, <2>1 DEF SortingSound
<1>10. InDegreeSound'
  <2>. SUFFICES ASSUME Distinct PROVE InDegreeSound'
    BY <1>1 DEF InDegreeSound
  <2>1. h \notin ToSet(order)
    <3>1. \A i \in 1..Len(order) : order[i] # h
      BY <1>0, <1>3, <1>6, FoundDistinct
    <3>2. ToSet(order) = {order[i] : i \in 1..Len(order)}
      BY <1>2, QueueView
    <3>. QED BY <3>1, <3>2
  <2>2. ASSUME NEW n \in Ids PROVE Open(n)' = Open(n)
    <3>1. n \in Children(h) <=> h \in dependsOn[n]
      BY DEF Children, Ids
    <3>2. Open(n) = {d \in dependsOn[n] : d \notin ToSet(order)}
      BY <1>0 DEF Open
    <3>3. Open(n)' = {d \in dependsOn[n] : d \notin ToSet(order') \/ (n \in Children(h) /\ d = h)}
      BY <1>0, <1>1, <1>5 DEF Open
    <3>. QED BY <1>5, <2>1, <3>1, <3>2, <3>3
  <2>3. \A n \in Ids : inDegree'[n] = Cardinality(Open(n)')
    BY <1>0, <2>2 DEF InDegreeSound
  <2>4. \A n \in Ids : n \in ToSet(Found') <=> inDegree'[n] = 0
    BY <1>0, <1>4 DEF InDegreeSound
  <2>5. dependsOn[h] \subseteq ToSet(order)
    <3>1. h \in Ids
      BY <1>0, <1>3, NamedFacts
    <3>2. inDegree[h] = 0 /\ inDegree[h] = Cardinality(Open(h))
      BY <1>0, <1>6, <3>1 DEF InDegreeSound
    <3>3. Open(h) = {}
      BY <1>0, <3>1, <3>2, OpenFinite
    <3>. QED BY <3>3 DEF Open
  <2>6. ASSUME NEW j \in 1..Len(order'), NEW d \in dependsOn[order'[j]]
        PROVE  \E i \in 1..(j - 1) : order'[i] = d
    <3>1. CASE j \in 1..Len(order)
      <4>1. order'[j] = order[j]
        BY <1>5, <3>1
      <4>2. PICK i \in 1..(j - 1) : order[i] = d
        BY <1>0, <3>1, <4>1 DEF InDegreeSound
      <4>3. i \in 1..Len(order)
        BY <1>3, <3>1
      <4>. QED BY <1>5, <4>2, <4>3
    <3>2. CASE j = Len(order) + 1
      <4>1. d \in ToSet(order)
        BY <1>5, <2>5, <3>2
      <4>2. PICK i \in 1..Len(order) : order[i] = d
        BY <1>2, <4>1, QueueView
      <4>3. i \in 1..(j - 1) /\ order'[i] = d
        BY <1>3, <1>5, <3>2, <4>2
      <4>. QED BY <4>3
    <3>. QED BY <1>3, <1>5, <3>1, <3>2
  <2>. QED BY <1>0, <1>1, <2>3, <2>4, <2>6 DEF InDegreeSound
<1>. QED BY <1>0, <1>7, <1>8, <1>9, <1>10, ScoresKept DEF IInv

LEMMA VisitKeeps ==
  ASSUME IInv, Visit
  PROVE  IInv'
<1> DEFINE p == Min(rest)
           c == id[p]
<1>0. /\ TypeOK /\ FoundOnce /\ SortingSound /\ InDegreeSound /\ NothingYet /\ ScoresSound
      /\ phase = "sorting" /\ rest # {} /\ rest' = rest \ {p}
      /\ inDegree' = [inDegree EXCEPT ![c] = @ - 1]
      /\ queue' = IF inDegree[c] = 1 THEN Append(queue, c) ELSE queue
      /\ UNCHANGED <<request, order, phase, scoring>>
  BY DEF IInv, Visit, TakeOff
<1>1. /\ Named' = Named /\ (Distinct' <=> Distinct) /\ \A n : Children(n)' = Children(n)
      /\ id' = id /\ dependsOn' = dependsOn /\ kind' = kind
  BY <1>0, RequestKept
<1>2. p \in rest /\ p \in Positions /\ c \in Named /\ c \in Ids
  BY <1>0, FirstOfRest, NamedFacts
<1>3. /\ order \in Seq(Named) /\ queue \in Seq(Named) /\ Found \in Seq(Named)
      /\ id \in [Positions -> Positions] /\ inDegree \in [Ids -> Int] /\ rest \in SUBSET Positions
  BY <1>0, FoundType DEF TypeOK
<1> HIDE DEF p
<1>4. inDegree[c] = 1 => /\ Found' = Append(Found, c)
                         /\ ToSet(Found') = ToSet(Found) \cup {c}
  <2>1. ASSUME inDegree[c] = 1 PROVE Found' = Append(Found, c)
    BY <1>0, <1>2, <1>3, <2>1, AppendBehind DEF Found
  <2>2. ToSet(Append(Found, c)) = ToSet(Found) \cup {c}
    BY <1>2, <1>3, AppendToSet
  <2>. QED BY <2>1, <2>2
<1>5. inDegree[c] # 1 => Found' = Found
  BY <1>0 DEF Found
<1> HIDE DEF c
<1>6. TypeOK'
  <2>1. queue' \in Seq(Named)
    BY <1>0, <1>2, <1>3, AppendProperties
  <2>2. inDegree' \in [Ids -> Int]
    BY <1>0, <1>2, <1>3
  <2>. QED BY <1>0, <1>1, <2>1, <2>2 DEF TypeOK, scoring
<1>7. inDegree[c] >= 1 => c \notin ToSet(Found)
  BY <1>0, <1>2 DEF SortingSound
<1>8. FoundOnce'
  <2>0. PICK w \in [1..Len(Found) -> Positions] : Witness(w, Found)
    BY <1>0 DEF FoundOnce
  <2>1. CASE inDegree[c] = 1
    <3>1. c \notin ToSet(Found)
      BY <1>7, <2>1
    <3>2. ToSet(Found) = {Found[i] : i \in 1..Len(Found)}
      BY <1>3, QueueView
    <3>3. \A i \in 1..Len(Found) : w[i] # p
      BY <2>0, <3>1, <3>2 DEF Witness, c
    <3>4. PICK v : Witness(v, Append(Found, id[p]))
      BY <1>2, <1>3, <2>0, <3>3, OneMore
    <3>5. Witness(v, Found')
      BY <1>4, <2>1, <3>4 DEF c
    <3>. QED BY <1>0, <1>1, <3>5 DEF FoundOnce, Witness
  <2>2. CASE inDegree[c] # 1
    BY <1>0, <1>1, <1>5, <2>0, <2>2 DEF FoundOnce, Witness
  <2>. QED BY <2>1, <2>2
<1>9. SortingSound'
  <2>1. rest \subseteq Children(order[Len(order)]) /\ Len(order) > 0
    BY <1>0 DEF SortingSound
  <2>2. Len(order') > 0 /\ rest' \subseteq Children(order[Len(order)])'
    BY <1>0, <1>1, <2>1 DEF Children
  <2>3. ASSUME NEW n \in Ids, inDegree'[n] >= 1 PROVE n \notin ToSet(Found')
    <3>1. inDegree[n] >= 1 => n \notin ToSet(Found)
      BY <1>0 DEF SortingSound
    <3>2. n = c => inDegree[c] # 1 /\ inDegree[n] >= 1
      BY <1>0, <1>2, <1>3, <2>3
    <3>3. n # c => inDegree[n] >= 1
      BY <1>0, <1>2, <1>3, <2>3
    <3>. QED BY <1>4, <1>5, <3>1, <3>2, <3>3
  <2>. QED BY <1>0, <2>2, <2>3 DEF SortingSound
<1>10. InDegreeSound'
  <2>. SUFFICES ASSUME Distinct PROVE InDegreeSound'
    BY <1>1 DEF InDegreeSound
  <2> DEFINE last == order[Len(order)]
  <2>1. c = p
    BY <1>2 DEF Distinct, c
  <2>2. last \in ToSet(order) /\ last \in dependsOn[p]
    <3>1. p \in Children(last) /\ Len(order) > 0 /\ Len(order) \in Nat
      BY <1>0, <1>2, <1>3, LenProperties DEF SortingSound
    <3>2. Len(order) \in 1..Len(order)
      BY <3>1
    <3>3. ToSet(order) = {order[i] : i \in 1..Len(order)}
      BY <1>3, QueueView
    <3>. QED BY <3>1, <3>2, <3>3 DEF Children
  <2>3. ASSUME NEW n \in Ids
        PROVE  Open(n)' = IF n = p THEN Open(n) \ {last} ELSE Open(n)
    <3>1. Open(n) = {d \in dependsOn[n] : d \notin ToSet(order) \/ (n \in rest /\ d = last)}
      BY <1>0 DEF Open
    <3>2. Open(n)' = {d \in dependsOn[n] : d \notin ToSet(order) \/ (n \in rest' /\ d = last)}
      BY <1>0, <1>1 DEF Open
    <3>. QED BY <1>0, <1>2, <2>2, <3>1, <3>2
  <2>4. last \in Open(p)
    BY <1>0, <1>2, <2>2 DEF Open
  <2>5. /\ Cardinality(Open(p) \ {last}) = Cardinality(Open(p)) - 1
        /\ inDegree[p] = Cardinality(Open(p))
        /\ inDegree[p] >= 1
    <3>1. /\ IsFiniteSet(Open(p)) /\ Cardinality(Open(p)) \in Nat
          /\ Cardinality(Open(p)) = 0 <=> Open(p) = {}
      BY <1>0, <1>2, <2>1, OpenFinite
    <3>2. Cardinality(Open(p) \ {last}) = Cardinality(Open(p)) - 1
      BY <2>4, <3>1, FS_RemoveElement
    <3>3. inDegree[p] = Cardinality(Open(p))
      BY <1>0, <1>2, <2>1 DEF InDegreeSound
    <3>. QED BY <2>4, <3>1, <3>2, <3>3
  <2>6. ASSUME NEW n \in Ids PROVE inDegree'[n] = Cardinality(Open(n)')
    <3>1. CASE n = p
      BY <1>0, <1>2, <1>3, <2>1, <2>3, <2>5, <3>1
    <3>2. CASE n # p
      <4>1. inDegree[n] = Cardinality(Open(n))
        BY <1>0 DEF InDegreeSound
      <4>. QED BY <1>0, <1>2, <1>3, <2>1, <2>3, <3>2, <4>1
    <3>. QED BY <3>1, <3>2
  <2>7. ASSUME NEW n \in Ids PROVE n \in ToSet(Found') <=> inDegree'[n] = 0
    <3>1. n \in ToSet(Found) <=> inDegree[n] = 0
      BY <1>0 DEF InDegreeSound
    <3>2. CASE n = p
      <4>1. inDegree'[n] = inDegree[n] - 1 /\ inDegree[n] \in Int
        BY <1>0, <1>3, <2>1, <3>2
      <4>2. n \notin ToSet(Found)
        BY <2>5, <3>1, <3>2
      <4>. QED BY <1>4, <1>5, <2>1, <3>2, <4>1, <4>2
    <3>3. CASE n # p
      <4>1. inDegree'[n] = inDegree[n]
        BY <1>0, <1>3, <2>1, <3>3
      <4>. QED BY <1>4, <1>5, <2>1, <3>1, <3>3, <4>1
    <3>. QED BY <3>2, <3>3
  <2>8. \A j \in 1..Len(order) : \A d \in dependsOn[order[j]] : \E i \in 1..(j - 1) : order[i] = d
    BY <1>0 DEF InDegreeSound
  <2>. QED BY <1>0, <1>1, <2>6, <2>7, <2>8 DEF InDegreeSound
<1>. QED BY <1>0, <1>6, <1>8, <1>9, <1>10, ScoresKept DEF IInv

\* An order as long as the request has every id, as each entry stands for another subtask.
LEMMA FullOrder ==
  ASSUME TypeOK, NEW w, Witness(w, order), Len(order) = NumSubtasks
  PROVE  ToSet(order) = Named /\ \A p \in Positions : \E i \in Positions : w[i] = p
<1>1. /\ w \in [Positions -> Positions]
      /\ \A i, j \in Positions : w[i] = w[j] => i = j
      /\ \A i \in Positions : id[w[i]] = order[i]
  BY DEF Witness, Positions
<1>2. w \in Injection(Positions, Positions) /\ IsFiniteSet(Positions)
  BY <1>1, NamedFacts DEF Injection, IsInjective, Ids
<1>3. w \in Surjection(Positions, Positions)
  BY <1>2, FS_Injection
<1>4. ToSet(order) = {order[i] : i \in Positions}
  BY QueueView DEF TypeOK, Positions
<1>. QED BY <1>1, <1>3, <1>4 DEF Surjection, Named

LEMMA SoundOrderFull ==
  ASSUME TypeOK, OrderSound, phase = "aggregating"
  PROVE  Len(order) = NumSubtasks /\ ToSet(order) = Named
<1>1. Len(order) = NumSubtasks
  BY DEF OrderSound
<1>2. PICK f \in [Positions -> Positions] : /\ \A i, j \in Positions : f[i] = f[j] => i = j
                                           /\ \A i \in Positions : order[i] = id[f[i]]
  BY DEF OrderSound
<1>3. Witness(f, order)
  BY <1>1, <1>2 DEF Witness, Positions
<1>. QED BY <1>1, <1>3, FullOrder

LEMMA SortedKeeps ==
  ASSUME IInv, Sorted
  PROVE  IInv'
<1>0. /\ TypeOK /\ FoundOnce /\ SortingSound /\ InDegreeSound /\ NothingYet /\ ScoresSound
      /\ phase # "aggregating" /\ rest = {} /\ queue = <<>> /\ phase' = "aggregating"
      /\ order' = IF Len(order) = NumSubtasks THEN order ELSE id
      /\ UNCHANGED <<request, sorting, scoring>>
  BY DEF IInv, Sorted
<1>1. /\ Named' = Named /\ (Distinct' <=> Distinct) /\ (Acyclic' <=> Acyclic)
      /\ \A n : Definition(n)' = Definition(n)
      /\ id' = id /\ dependsOn' = dependsOn /\ kind' = kind
      /\ inDegree' = inDegree /\ queue' = queue /\ rest' = rest
      /\ next' = next /\ overall' = overall /\ results' = results /\ score' = score
  BY <1>0, RequestKept DEF sorting, scoring
<1>2. NumSubtasks \in Nat /\ NumSubtasks > 0 /\ id \in [Positions -> Positions]
      /\ order \in Seq(Named) /\ Len(order) \in Nat
  BY <1>0, SubtasksAssumption, FoundType DEF TypeOK
<1>3. id \in Seq(Named) /\ Len(id) = NumSubtasks
  <2>1. id \in [1..NumSubtasks -> Named]
    BY <1>2 DEF Named, Positions
  <2>. QED BY <1>2, <2>1
<1>4. order' \in Seq(Named) /\ Len(order') = NumSubtasks
  BY <1>0, <1>2, <1>3
<1>5. Found = order /\ Found' = order'
  BY <1>0, <1>1, <1>2, <1>4, ConcatEmptySeq DEF Found
<1>6. PICK w \in [1..Len(order) -> Positions] : Witness(w, order)
  BY <1>0, <1>5 DEF FoundOnce
<1>7. TypeOK'
  BY <1>0, <1>1, <1>4 DEF TypeOK, scoring
<1>8. \E v \in [1..Len(order') -> Positions] : Witness(v, order')
  <2>1. CASE Len(order) = NumSubtasks
    BY <1>0, <1>6, <2>1
  <2>2. CASE Len(order) # NumSubtasks
    <3> DEFINE v == [i \in 1..NumSubtasks |-> i]
    <3>1. v \in [1..Len(order') -> Positions] /\ Witness(v, order')
      BY <1>0, <1>3, <2>2 DEF Witness, Positions
    <3>. QED BY <3>1
  <2>. QED BY <2>1, <2>2
<1>9. FoundOnce'
  BY <1>0, <1>1, <1>5, <1>8 DEF FoundOnce, Witness
<1>10. SortingSound' /\ InDegreeSound' /\ NothingYet'
  BY <1>0 DEF SortingSound, InDegreeSound, NothingYet
<1>12. ASSUME Distinct, Acyclic PROVE Len(order) = NumSubtasks
  <2> DEFINE S == Ids \ ToSet(order)
  <2>1. S = {}
    <3>. SUFFICES ASSUME S # {} PROVE FALSE
      OBVIOUS
    <3>1. PICK s \in S : dependsOn[s] \cap S = {}
      <4>1. S \in SUBSET Ids
        OBVIOUS
      <4> HIDE DEF S
      <4>. QED BY <1>12, <4>1 DEF Acyclic, AcyclicIn
    <3>2. dependsOn[s] \subseteq Ids /\ s \in Ids
      BY <1>0, NamedFacts DEF TypeOK, Ids
    <3>3. Open(s) = {}
      BY <1>0, <3>1, <3>2 DEF Open
    <3>4. inDegree[s] = 0
      BY <1>0, <1>12, <3>2, <3>3, OpenFinite DEF InDegreeSound
    <3>5. s \in ToSet(Found)
      BY <1>0, <1>12, <3>2, <3>4 DEF InDegreeSound
    <3>. QED BY <1>5, <3>5
  <2>2. /\ w \in [1..Len(order) -> Positions]
        /\ \A i, j \in 1..Len(order) : w[i] = w[j] => i = j
        /\ \A i \in 1..Len(order) : w[i] = order[i]
    BY <1>6, <1>12 DEF Witness, Distinct
  <2>3. ToSet(order) = {order[i] : i \in 1..Len(order)}
    BY <1>2, QueueView
  <2>4. w \in Surjection(1..Len(order), Positions) /\ w \in Injection(1..Len(order), Positions)
    BY <2>1, <2>2, <2>3 DEF Surjection, Injection, IsInjective, Ids
  <2>5. IsFiniteSet(1..Len(order)) /\ Cardinality(1..Len(order)) = Len(order)
    BY <1>2, UpTo
  <2>6. IsFiniteSet(1..NumSubtasks) /\ Cardinality(1..NumSubtasks) = NumSubtasks
    BY <1>2, UpTo
  <2>7. Cardinality(Positions) = Cardinality(1..Len(order))
    BY <2>4, <2>5, FS_Surjection
  <2>. QED BY <2>5, <2>6, <2>7 DEF Positions
<1>13. Distinct => \A i, j \in Ids : order'[i] = order'[j] => i = j
  BY <1>4, <1>8 DEF Witness, Distinct, Ids, Positions
<1>14. OrderSound'
  <2>1. ASSUME Distinct, Acyclic, NEW i \in Ids, NEW j \in Ids, order'[i] \in dependsOn[order'[j]]
        PROVE  i < j
    <3>1. Len(order) = NumSubtasks /\ order' = order
      BY <1>0, <1>12, <2>1
    <3>2. PICK k \in 1..(j - 1) : order[k] = order[i]
      BY <1>0, <2>1, <3>1 DEF InDegreeSound, Ids, Positions
    <3>3. k \in Ids /\ k < j
      BY <1>2, <3>2 DEF Ids, Positions
    <3>4. k = i
      BY <1>13, <2>1, <3>1, <3>2, <3>3
    <3>. QED BY <3>3, <3>4
  <2>2. \E f \in [Positions -> Positions] : /\ \A i, j \in Positions : f[i] = f[j] => i = j
                                           /\ \A i \in Positions : order'[i] = id[f[i]]
    BY <1>4, <1>8 DEF Witness, Positions
  <2>. QED BY <1>1, <1>4, <2>1, <2>2 DEF OrderSound
<1>15. next = 1 /\ overall = "OK" /\ (\A n \in Ids : score[n] = 0)
       /\ \A n \in Named : results[n] = kind[Definition(n)].results
  BY <1>0 DEF NothingYet
<1>16. \A j \in Ids : order'[j] \in Named /\ order'[j] \in Ids
  BY <1>0, <1>4, NamedFacts, ElementOfSeq DEF Ids, Positions
<1>17. InTurn'
  <2>. SUFFICES ASSUME Distinct PROVE InTurn'
    BY <1>1 DEF InTurn
  <2>1. \A j \in next..NumSubtasks : results[order'[j]] = kind[order'[j]].results
    BY <1>0, <1>15, <1>16, NamedFacts DEF Ids, Positions
  <2>2. \A j \in Ids : ~(score[order'[j]] > 0)
    BY <1>15, <1>16
  <2>. QED BY <1>1, <1>13, <2>1, <2>2 DEF InTurn
<1>18. Deserved' /\ VerdictSoFar'
  <2>1. 1..(next - 1) = {}
    BY <1>15
  <2>. QED BY <1>1, <1>15, <2>1 DEF Deserved, VerdictSoFar
<1>19. ScoresSound'
  BY <1>0, ScoresKept
<1>. QED BY <1>7, <1>9, <1>10, <1>14, <1>17, <1>18, <1>19 DEF IInv

\* What aggregating does to a subtask, and to the others; no score falls.
LEMMA AggregateStep ==
  ASSUME TypeOK, ScoresSound, OrderSound, Aggregate
  PROVE  LET n == order[next]
             k == kind[Definition(n)] IN
         /\ n \in Named /\ next \in Ids
         /\ score' \in [Ids -> Nat] /\ results' \in [Ids -> Seq(Outcome)]
         /\ status' \in [Ids -> Statuses \cup {"none"}] /\ overall' \in Statuses
         /\ \A m \in Ids : m # n => score'[m] = score[m] /\ results'[m] = results[m]
         /\ Skipped(n) => /\ score'[n] = 0 /\ overall' = overall
                          /\ \A i \in DOMAIN results'[n] : results'[n][i] = SkippedResult
         /\ ~Skipped(n) => /\ results' = results /\ score'[n] = ScoreOf(k, results[n])
                           /\ overall' = IF overall = "OK" THEN StatusOf(k, results[n]) ELSE overall
         /\ \A m \in Named : score[m] > 0 => score'[m] = score[m]
<1> DEFINE n == order[next]
           k == kind[Definition(n)]
<1>0. /\ phase = "aggregating" /\ next <= NumSubtasks
      /\ Skip(n) \/ Score(n)
  BY DEF Aggregate
<1>1. /\ score \in [Ids -> Nat] /\ results \in [Ids -> Seq(Outcome)] /\ overall \in Statuses
      /\ status \in [Ids -> Statuses \cup {"none"}] /\ next \in 1..(NumSubtasks + 1)
      /\ order \in Seq(Named) /\ NumSubtasks \in Nat
  BY SubtasksAssumption DEF TypeOK
<1>2. next \in Ids /\ next \in 1..Len(order)
  BY <1>0, <1>1 DEF OrderSound, Ids, Positions
<1>3. n \in Named /\ n \in Ids
  BY <1>1, <1>2, NamedFacts, ElementOfSeq
<1>4. k \in Kinds /\ results[n] \in Seq(Outcome)
  BY <1>1, <1>3, NamedFacts
<1> HIDE DEF n, k
<1>5. ASSUME Skip(n)
      PROVE  /\ Skipped(n) /\ overall' = overall
             /\ score' = [score EXCEPT ![n] = 0]
             /\ results' = [results EXCEPT ![n] = [i \in DOMAIN results[n] |-> SkippedResult]]
             /\ status' = [status EXCEPT ![n] = "SK"]
  BY <1>1, <1>3, <1>5 DEF Skip
<1>6. ASSUME Score(n)
      PROVE  /\ ~Skipped(n) /\ results' = results
             /\ score' = [score EXCEPT ![n] = ScoreOf(k, results[n])]
             /\ status' = [status EXCEPT ![n] = StatusOf(k, results[n])]
             /\ overall' = IF overall = "OK" THEN StatusOf(k, results[n]) ELSE overall
  BY <1>6 DEF Score, k
<1>7. ScoreOf(k, results[n]) \in Nat /\ StatusOf(k, results[n]) \in Statuses
  BY <1>4, ScoreOfBounds
<1>8. [i \in DOMAIN results[n] |-> SkippedResult] \in Seq(Outcome)
  <2>1. DOMAIN results[n] = 1..Len(results[n]) /\ Len(results[n]) \in Nat
    BY <1>4, LenProperties
  <2>2. SkippedResult \in Outcome
    BY DEF SkippedResult, Outcome, Statuses
  <2>. QED BY <2>1, <2>2
<1>9. score' \in [Ids -> Nat] /\ results' \in [Ids -> Seq(Outcome)]
  <2>1. CASE Skip(n)
    <3>0. score' = [score EXCEPT ![n] = 0]
      BY <1>5, <2>1
    <3>1. score' \in [Ids -> Nat]
      BY <1>1, <3>0
    <3>2. results' \in [Ids -> Seq(Outcome)]
      BY <1>1, <1>5, <1>8, <2>1
    <3>. QED BY <3>1, <3>2
  <2>2. CASE Score(n)
    BY <1>1, <1>6, <1>7, <2>2
  <2>. QED BY <1>0, <2>1, <2>2
<1>10. status' \in [Ids -> Statuses \cup {"none"}] /\ overall' \in Statuses
  <2>1. "SK" \in Statuses
    BY DEF Statuses
  <2>. QED BY <1>0, <1>1, <1>3, <1>5, <1>6, <1>7, <2>1
<1>11. \A m \in Ids : m # n => score'[m] = score[m] /\ results'[m] = results[m]
  BY <1>0, <1>1, <1>3, <1>5, <1>6
<1>12. Skipped(n) => /\ score'[n] = 0 /\ overall' = overall
                     /\ \A i \in DOMAIN results'[n] : results'[n][i] = SkippedResult
  BY <1>0, <1>1, <1>3, <1>5, <1>6
<1>13. ~Skipped(n) => /\ results' = results /\ score'[n] = ScoreOf(k, results[n])
                      /\ overall' = IF overall = "OK" THEN StatusOf(k, results[n]) ELSE overall
  BY <1>0, <1>1, <1>3, <1>5, <1>6
<1>14. ASSUME NEW m \in Named, score[m] > 0 PROVE score'[m] = score[m]
  <2>1. CASE m = n
    <3>1. /\ score[n] = ScoreOf(k, results[n])
          /\ \A d \in dependsOn[Definition(n)] : score[d] > 0
      BY <1>14, <2>1 DEF ScoresSound, k
    <3>2. dependsOn[Definition(n)] \subseteq Ids
      BY <1>3, NamedFacts
    <3>3. \A d \in dependsOn[Definition(n)] : ~(score[d] <= 0)
      BY <1>1, <3>1, <3>2
    <3>4. ~Skipped(n)
      BY <3>3 DEF Skipped
    <3>. QED BY <1>13, <2>1, <3>1, <3>4
  <2>2. CASE m # n
    BY <1>11, <2>2, NamedFacts
  <2>. QED BY <2>1, <2>2
<1>15. /\ n \in Named /\ next \in Ids
       /\ score' \in [Ids -> Nat] /\ results' \in [Ids -> Seq(Outcome)]
       /\ status' \in [Ids -> Statuses \cup {"none"}] /\ overall' \in Statuses
  BY <1>2, <1>3, <1>9, <1>10
<1>. QED BY <1>11, <1>12, <1>13, <1>14, <1>15 DEF n, k

LEMMA AggregateKeeps ==
  ASSUME IInv, Aggregate
  PROVE  IInv'
<1> DEFINE n == order[next]
           k == kind[Definition(n)]
<1>0. /\ TypeOK /\ FoundOnce /\ OrderSound /\ ScoresSound /\ InTurn /\ Deserved /\ VerdictSoFar
      /\ phase = "aggregating" /\ next <= NumSubtasks /\ next' = next + 1
      /\ UNCHANGED <<request, sorting, order, phase>>
  BY DEF IInv, Aggregate
<1>1. /\ Named' = Named /\ (Distinct' <=> Distinct) /\ (Acyclic' <=> Acyclic)
      /\ \A m : Definition(m)' = Definition(m)
      /\ id' = id /\ dependsOn' = dependsOn /\ kind' = kind
      /\ inDegree' = inDegree /\ queue' = queue /\ rest' = rest /\ Found' = Found
  BY <1>0, RequestKept DEF sorting, Found
<1>2. /\ score \in [Ids -> Nat] /\ results \in [Ids -> Seq(Outcome)] /\ overall \in Statuses
      /\ next \in 1..(NumSubtasks + 1) /\ next \in Nat /\ NumSubtasks \in Nat /\ Ids = 1..NumSubtasks
      /\ order \in Seq(Named) /\ Len(order) = NumSubtasks /\ ToSet(order) = Named
  <2>1. /\ score \in [Ids -> Nat] /\ results \in [Ids -> Seq(Outcome)] /\ overall \in Statuses
        /\ next \in 1..(NumSubtasks + 1) /\ order \in Seq(Named)
    BY <1>0 DEF TypeOK
  <2>2. NumSubtasks \in Nat /\ Ids = 1..NumSubtasks
    BY SubtasksAssumption DEF Ids, Positions
  <2>3. Len(order) = NumSubtasks /\ ToSet(order) = Named
    BY <1>0, SoundOrderFull
  <2>. QED BY <2>1, <2>2, <2>3
<1>3. /\ n \in Named /\ n \in Ids /\ next \in Ids
      /\ score' \in [Ids -> Nat] /\ results' \in [Ids -> Seq(Outcome)]
      /\ status' \in [Ids -> Statuses \cup {"none"}] /\ overall' \in Statuses
  BY <1>0, AggregateStep, NamedFacts
<1>4. \A m \in Ids : m # n => score'[m] = score[m] /\ results'[m] = results[m]
  BY <1>0, AggregateStep
<1>5. Skipped(n) => /\ score'[n] = 0 /\ overall' = overall
                    /\ \A i \in DOMAIN results'[n] : results'[n][i] = SkippedResult
  BY <1>0, AggregateStep
<1>6. ~Skipped(n) => /\ results' = results /\ score'[n] = ScoreOf(k, results[n])
                     /\ overall' = IF overall = "OK" THEN StatusOf(k, results[n]) ELSE overall
  BY <1>0, AggregateStep
<1>7. \A m \in Named : score[m] > 0 => score'[m] = score[m]
  BY <1>0, AggregateStep
<1>8. /\ k \in Kinds /\ dependsOn[Definition(n)] \subseteq Named /\ Named \subseteq Ids
      /\ Definition(n) \in Positions
      /\ \A j \in Ids : order[j] \in Named
      /\ \A m \in Named : \E j \in Ids : order[j] = m
  <2>1. ToSet(order) = {order[j] : j \in 1..Len(order)}
    BY <1>2, QueueView
  <2>2. /\ k \in Kinds /\ dependsOn[Definition(n)] \subseteq Named /\ Named \subseteq Ids
        /\ Definition(n) \in Positions
    BY <1>0, <1>3, NamedFacts
  <2>3. Named = {order[j] : j \in Ids}
    BY <1>2, <2>1
  <2> HIDE DEF n, k
  <2>. QED BY <2>2, <2>3
<1> HIDE DEF n, k
<1>9. Skipped(n) <=> ~ \A d \in dependsOn[Definition(n)] : score[d] > 0
  <2>1. \A d \in dependsOn[Definition(n)] : score[d] \in Nat
    BY <1>2, <1>8
  <2>2. \A d \in dependsOn[Definition(n)] : score[d] <= 0 <=> ~(score[d] > 0)
    BY <2>1
  <2>. QED BY <2>2 DEF Skipped
<1>10. TypeOK'
  <2>1. next' \in 1..(NumSubtasks + 1)
    BY <1>0, <1>2
  <2>. QED BY <1>0, <1>1, <1>3, <2>1 DEF TypeOK
<1>11. FoundOnce' /\ SortingSound' /\ InDegreeSound' /\ NothingYet'
  BY <1>0, <1>1 DEF FoundOnce, Witness, SortingSound, InDegreeSound, NothingYet
<1>12. OrderSound'
  BY <1>0, <1>1 DEF OrderSound
<1>13. ScoresSound'
  <2>1. \A m \in Ids \ Named : score'[m] = 0
    BY <1>0, <1>3, <1>4 DEF ScoresSound
  <2>2. results[n] = k.results \/ \A i \in DOMAIN results[n] : results[n][i] = SkippedResult
    BY <1>0, <1>3 DEF ScoresSound, k
  <2>3. ASSUME NEW m \in Named
        PROVE  \/ results'[m] = kind[Definition(m)].results
               \/ \A i \in DOMAIN results'[m] : results'[m][i] = SkippedResult
    <3>1. CASE m # n
      BY <1>0, <1>4, <1>8, <3>1 DEF ScoresSound
    <3>2. CASE m = n
      BY <1>5, <1>6, <2>2, <3>2 DEF k
    <3>. QED BY <3>1, <3>2
  <2>4. ASSUME NEW m \in Named, score'[m] > 0
        PROVE  /\ results'[m] = kind[Definition(m)].results
               /\ score'[m] = ScoreOf(kind[Definition(m)], results'[m])
               /\ \A d \in dependsOn[Definition(m)] : score'[d] > 0
    <3>1. dependsOn[Definition(m)] \subseteq Named
      BY <1>0, NamedFacts
    <3>2. CASE m # n
      <4>1. score'[m] = score[m] /\ results'[m] = results[m] /\ score[m] > 0
        BY <1>4, <1>8, <2>4, <3>2
      <4>2. /\ results[m] = kind[Definition(m)].results
            /\ score[m] = ScoreOf(kind[Definition(m)], results[m])
            /\ \A d \in dependsOn[Definition(m)] : score[d] > 0
        BY <1>0, <4>1 DEF ScoresSound
      <4>. QED BY <1>7, <3>1, <4>1, <4>2
    <3>3. CASE m = n
      <4>1. ~Skipped(n)
        BY <1>5, <2>4, <3>3
      <4>2. results' = results /\ score'[n] = ScoreOf(k, results[n]) /\ ScoreOf(k, results[n]) > 0
        BY <1>6, <2>4, <3>3, <4>1
      <4>3. results[n] = k.results
        <5>1. results[n] \in Seq(Outcome)
          BY <1>2, <1>3
        <5>2. (\A i \in DOMAIN results[n] : results[n][i] = SkippedResult) => ScoreOf(k, results[n]) = 0
          BY <1>8, <5>1, ScoreOfBounds
        <5>. QED BY <2>2, <4>2, <5>2
      <4>4. \A d \in dependsOn[Definition(m)] : score'[d] > 0
        BY <1>7, <1>9, <3>1, <3>3, <4>1
      <4>. QED BY <3>3, <4>2, <4>3, <4>4 DEF k
    <3>. QED BY <3>2, <3>3
  <2>. QED BY <1>1, <2>1, <2>3, <2>4 DEF ScoresSound
<1>14. ASSUME Distinct
       PROVE  /\ Named = Ids /\ Definition(n) = n /\ k = kind[n]
              /\ \A i, j \in Ids : order[i] = order[j] => i = j
              /\ \A j \in next..NumSubtasks : results[order[j]] = kind[order[j]].results
              /\ \A j \in Ids : score[order[j]] > 0 =>
                   j < next /\ \A d \in dependsOn[order[j]] : \E i \in 1..(j - 1) : order[i] = d
              /\ results[n] = kind[n].results
  <2>1. Named = Ids /\ Definition(n) = n
    BY <1>0, <1>3, <1>14, NamedFacts
  <2>2. /\ \A i, j \in Ids : order[i] = order[j] => i = j
        /\ \A j \in next..NumSubtasks : results[order[j]] = kind[order[j]].results
        /\ \A j \in Ids : score[order[j]] > 0 =>
             j < next /\ \A d \in dependsOn[order[j]] : \E i \in 1..(j - 1) : order[i] = d
    BY <1>0, <1>14 DEF InTurn
  <2>3. results[n] = kind[n].results
    BY <1>0, <1>2, <2>2 DEF n
  <2>. QED BY <2>1, <2>2, <2>3 DEF k
<1>15. InTurn'
  <2>. SUFFICES ASSUME Distinct PROVE InTurn'
    BY <1>1 DEF InTurn
  <2>1. ASSUME NEW j \in (next + 1)..NumSubtasks PROVE results'[order[j]] = kind[order[j]].results
    <3>1. j \in Ids /\ j # next /\ j \in next..NumSubtasks
      BY <1>2
    <3>2. order[j] # n
      BY <1>3, <1>14, <3>1 DEF n
    <3>. QED BY <1>4, <1>8, <1>14, <3>1, <3>2
  <2>2. ASSUME NEW j \in Ids, score'[order[j]] > 0
        PROVE  j < next + 1 /\ \A d \in dependsOn[order[j]] : \E i \in 1..(j - 1) : order[i] = d
    <3>1. CASE order[j] # n
      <4>1. score[order[j]] > 0
        BY <1>4, <1>8, <2>2, <3>1
      <4>2. j < next /\ \A d \in dependsOn[order[j]] : \E i \in 1..(j - 1) : order[i] = d
        BY <1>14, <4>1
      <4>3. j < next + 1
        BY <1>2, <4>2
      <4>. QED BY <4>2, <4>3
    <3>2. CASE order[j] = n
      <4>1. j = next
        BY <1>3, <1>14, <3>2 DEF n
      <4>2. \A d \in dependsOn[n] : score[d] > 0 /\ d \in Named
        BY <1>5, <1>8, <1>9, <1>14, <2>2, <3>2
      <4>3. ASSUME NEW d \in dependsOn[n] PROVE \E i \in 1..(j - 1) : order[i] = d
        <5>1. PICK i \in Ids : order[i] = d
          BY <1>8, <4>2
        <5>2. i < next
          BY <1>14, <4>2, <5>1
        <5>. QED BY <1>2, <4>1, <5>1, <5>2
      <4>. QED BY <1>2, <3>2, <4>1, <4>3
    <3>. QED BY <3>1, <3>2
  <2>. QED BY <1>0, <1>1, <1>14, <2>1, <2>2 DEF InTurn
<1>16. ASSUME Distinct, Acyclic, NEW j \in 1..next
       PROVE  n \notin dependsOn[order[j]]
  <2>1. j \in Ids /\ ~(next < j)
    BY <1>2, <1>3
  <2>. QED BY <1>0, <1>3, <1>16, <2>1 DEF OrderSound, n
<1>17. Deserved'
  <2>. SUFFICES ASSUME Distinct, Acyclic PROVE Deserved'
    BY <1>1 DEF Deserved
  <2>1. ASSUME NEW j \in 1..next, \A d \in dependsOn[order[j]] : score'[d] > 0
        PROVE  score'[order[j]] = Worth(kind[order[j]])
    <3>0. j \in Ids /\ order[j] \in Ids /\ dependsOn[order[j]] \subseteq Ids
      <4>1. j \in Ids
        BY <1>2, <1>3
      <4>2. dependsOn \in [Positions -> SUBSET Named] /\ Positions = Ids
        BY <1>0 DEF TypeOK, Ids
      <4>. QED BY <1>8, <4>1, <4>2
    <3>1. \A d \in dependsOn[order[j]] : score[d] > 0
      BY <1>4, <1>16, <2>1, <3>0
    <3>2. CASE j < next
      <4>0. j # next /\ j \in 1..(next - 1)
        BY <1>2, <3>2
      <4>1. order[j] # n
        BY <1>3, <1>14, <3>0, <4>0 DEF n
      <4>2. score[order[j]] = Worth(kind[order[j]])
        BY <1>0, <3>1, <4>0 DEF Deserved
      <4>. QED BY <1>4, <3>0, <4>1, <4>2
    <3>3. CASE j = next
      <4>1. ~Skipped(n)
        BY <1>9, <1>14, <3>1, <3>3 DEF n
      <4>2. score'[n] = Worth(k)
        BY <1>6, <1>8, <1>14, <4>1, ScoreOfIsWorth
      <4>. QED BY <1>14, <3>3, <4>2 DEF n
    <3>. QED BY <1>2, <3>2, <3>3
  <2>2. next' - 1 = next
    BY <1>0, <1>2
  <2>. QED BY <1>0, <1>1, <2>1, <2>2 DEF Deserved
<1>18. VerdictSoFar'
  <2>. SUFFICES ASSUME Distinct, Acyclic, \A s \in Ids : Pointed(kind[s]) PROVE VerdictSoFar'
    BY <1>1 DEF VerdictSoFar
  <2>0. next' - 1 = next
    BY <1>0, <1>2
  <2>1. CASE \A j \in 1..(next - 1) : Good(kind[order[j]])
    <3>1. overall = "OK" /\ \A j \in 1..(next - 1) : score[order[j]] > 0
      BY <1>0, <2>1 DEF VerdictSoFar
    <3>2. ASSUME NEW d \in dependsOn[n] PROVE score[d] > 0
      <4>1. PICK i \in Ids : order[i] = d
        BY <1>8, <1>14
      <4>2. i < next
        BY <1>0, <1>3, <4>1 DEF OrderSound, n
      <4>. QED BY <1>2, <3>1, <4>1, <4>2
    <3>3. /\ score'[n] = ScoreOf(k, k.results)
          /\ overall' = StatusOf(k, k.results)
      BY <1>6, <1>9, <1>14, <3>1, <3>2
    <3>4. /\ Good(k) => score'[n] > 0 /\ overall' = "OK"
          /\ ~Good(k) => overall' # "OK"
      <4>1. Pointed(k)
        BY <1>3, <1>14
      <4>2. /\ Good(k) => ScoreOf(k, k.results) > 0 /\ StatusOf(k, k.results) = "OK"
            /\ ~Good(k) => StatusOf(k, k.results) # "OK"
        BY <1>8, <4>1, GoodKinds
      <4>. QED BY <3>3, <4>2
    <3>5. ASSUME NEW j \in 1..(next - 1) PROVE score'[order[j]] > 0
      <4>1. j \in Ids
        BY <1>2
      <4>2. score[order[j]] > 0 /\ order[j] \in Named
        BY <1>8, <3>1, <4>1
      <4>. QED BY <1>7, <4>2
    <3>6. \A j \in 1..next : j \in 1..(next - 1) \/ j = next
      BY <1>2
    <3>7. k = kind[order[next]] /\ next \in 1..next
      BY <1>2, <1>14 DEF n
    <3>8. IF \A j \in 1..next : Good(kind[order[j]])
          THEN overall' = "OK" /\ \A j \in 1..next : score'[order[j]] > 0
          ELSE overall' # "OK"
      BY <2>1, <3>4, <3>5, <3>6, <3>7 DEF n
    <3>. QED BY <1>0, <1>1, <2>0, <3>8 DEF VerdictSoFar
  <2>2. CASE ~ \A j \in 1..(next - 1) : Good(kind[order[j]])
    <3>1. overall # "OK"
      BY <1>0, <2>2 DEF VerdictSoFar
    <3>2. overall' # "OK"
      BY <1>5, <1>6, <3>1
    <3>3. ~ \A j \in 1..next : Good(kind[order[j]])
      BY <1>2, <2>2
    <3>. QED BY <1>0, <1>1, <2>0, <3>2, <3>3 DEF VerdictSoFar
  <2>. QED BY <2>1, <2>2
<1>. QED BY <1>10, <1>11, <1>12, <1>13, <1>15, <1>17, <1>18 DEF IInv

LEMMA NextKeeps ==
  ASSUME IInv, [Next]_vars
  PROVE  IInv'
<1>1. CASE Enqueue
  BY <1>1, EnqueueKeeps
<1>2. CASE Pop
  BY <1>2, PopKeeps
<1>3. CASE Visit
  BY <1>3, VisitKeeps
<1>4. CASE Sorted
  BY <1>4, SortedKeeps
<1>5. CASE Aggregate
  BY <1>5, AggregateKeeps
<1>6. CASE UNCHANGED vars
  <2>1. /\ UNCHANGED <<request, inDegree, queue, rest, order, phase, next, results, score, status, overall>>
        /\ Found' = Found
    BY <1>6 DEF vars, sorting, scoring, Found
  <2>2. /\ Named' = Named /\ (Distinct' <=> Distinct) /\ (Acyclic' <=> Acyclic)
        /\ \A n : Definition(n)' = Definition(n) /\ Children(n)' = Children(n)
        /\ id' = id /\ dependsOn' = dependsOn /\ kind' = kind
    BY <2>1, RequestKept
  <2>3. TypeOK' /\ FoundOnce' /\ SortingSound'
    BY <2>1, <2>2 DEF IInv, TypeOK, FoundOnce, Witness, SortingSound, Children
  <2>4. InDegreeSound'
    <3>1. \A n : Open(n)' = Open(n)
      BY <2>1, <2>2 DEF Open
    <3>2. ASSUME Distinct, phase # "aggregating"
          PROVE  /\ \A n \in Ids : inDegree[n] = Cardinality(Open(n))
                 /\ \A n \in Ids : n \in ToSet(Found) <=>
                      inDegree[n] = 0 /\ (phase = "queueing" => n \notin rest)
                 /\ \A j \in 1..Len(order) : \A d \in dependsOn[order[j]] :
                      \E i \in 1..(j - 1) : order[i] = d
      BY <3>2 DEF IInv, InDegreeSound
    <3>3. ASSUME Distinct', (phase # "aggregating")' PROVE InDegreeSound'
      <4>1. Distinct /\ phase # "aggregating"
        BY <2>1, <2>2, <3>3
      <4>. QED BY <2>1, <2>2, <3>1, <3>2, <4>1 DEF InDegreeSound
    <3>. QED BY <3>3 DEF InDegreeSound
  <2>5. OrderSound' /\ NothingYet' /\ ScoresSound'
    BY <2>1, <2>2 DEF IInv, OrderSound, NothingYet, ScoresSound
  <2>6. InTurn' /\ Deserved' /\ VerdictSoFar'
    BY <2>1, <2>2 DEF IInv, InTurn, Deserved, VerdictSoFar
  <2>. QED BY <2>3, <2>4, <2>5, <2>6 DEF IInv
<1>. QED BY <1>1, <1>2, <1>3, <1>4, <1>5, <1>6 DEF Next

\* The inductive invariant: what was found and what in_degree still counts, and the
\* scores, results and verdict of the subtasks that were aggregated.
THEOREM Invariance == Spec => []IInv
BY InitHolds, NextKeeps, PTL DEF Spec

-----------------------------------------------------------------------------
(* What the invariant says.                                                *)

LEMMA ScoresFollow ==
  ASSUME IInv
  PROVE  ScoresByTheRules
<1>. SUFFICES ASSUME Finished, Distinct, NEW s \in Ids
              PROVE  /\ s \notin Scoring => score[s] = 0
                     /\ s \in Scoring /\ Acyclic => score[s] = Worth(kind[s])
  BY DEF ScoresByTheRules
<1>0. /\ TypeOK /\ OrderSound /\ ScoresSound /\ InTurn /\ Deserved
      /\ phase = "aggregating" /\ next > NumSubtasks
  BY DEF IInv, Finished
<1>1. /\ score \in [Ids -> Nat] /\ next \in Nat /\ NumSubtasks \in Nat /\ Ids = 1..NumSubtasks
      /\ dependsOn \in [Ids -> SUBSET Ids] /\ kind \in [Ids -> Kinds]
  <2>1. /\ score \in [Ids -> Nat] /\ next \in 1..(NumSubtasks + 1)
        /\ dependsOn \in [Ids -> SUBSET Named] /\ kind \in [Ids -> Kinds]
    BY <1>0 DEF TypeOK, Ids
  <2>2. NumSubtasks \in Nat /\ Ids = 1..NumSubtasks
    BY SubtasksAssumption DEF Ids, Positions
  <2>3. Named = Ids
    BY <1>0, NamedFacts
  <2>. QED BY <2>1, <2>2, <2>3
<1>2. \A n \in Ids : \E j \in Ids : order[j] = n
  <2>0. order \in Seq(Named)
    BY <1>0 DEF TypeOK
  <2>1. ToSet(order) = {order[j] : j \in 1..Len(order)}
    BY <2>0, QueueView
  <2>2. ToSet(order) = Ids /\ Len(order) = NumSubtasks
    BY <1>0, NamedFacts, SoundOrderFull
  <2>. QED BY <1>1, <2>1, <2>2
<1>3. ASSUME s \notin Scoring PROVE score[s] = 0
  <2>. SUFFICES ASSUME score[s] # 0 PROVE s \in Scoring
    BY <1>3
  <2> DEFINE P == {n \in Ids : score[n] > 0}
  <2>1. s \in P
    BY <1>1
  <2>2. ASSUME NEW n \in P PROVE Worth(kind[n]) > 0 /\ dependsOn[n] \subseteq P
    <3>1. n \in Named /\ Definition(n) = n /\ score[n] > 0
      BY <1>0, NamedFacts
    <3>2. /\ results[n] = kind[n].results /\ score[n] = ScoreOf(kind[n], results[n])
          /\ \A d \in dependsOn[n] : score[d] > 0
      BY <1>0, <3>1 DEF ScoresSound
    <3>3. ScoreOf(kind[n], kind[n].results) = Worth(kind[n])
      BY <1>1, ScoreOfIsWorth
    <3>. QED BY <1>1, <3>1, <3>2, <3>3
  <2>3. AcyclicIn(P)
    <3>. SUFFICES ASSUME NEW S \in SUBSET P, S # {}
                  PROVE  \E n \in S : dependsOn[n] \cap S = {}
      BY DEF AcyclicIn
    <3> DEFINE J == {j \in Ids : order[j] \in S}
    <3>1. J # {} /\ J \subseteq Nat
      <4>1. PICK n \in S : n \in Ids
        OBVIOUS
      <4>2. PICK j \in Ids : order[j] = n
        BY <1>2, <4>1
      <4>3. j \in J
        BY <4>1, <4>2
      <4>4. J \subseteq Ids
        OBVIOUS
      <4> HIDE DEF J
      <4>. QED BY <1>1, <4>3, <4>4
    <3>2. PICK j \in J : \A i \in J : j <= i
      BY <3>1, LeastElement
    <3>3. ASSUME NEW d \in dependsOn[order[j]], d \in S PROVE FALSE
      <4>1. PICK i \in 1..(j - 1) : order[i] = d
        BY <1>0, <3>3 DEF InTurn
      <4>2. i \in Ids /\ i < j /\ j \in Nat
        BY <1>1, <4>1
      <4>3. i \in J
        BY <3>3, <4>1, <4>2
      <4>. QED BY <3>2, <4>2, <4>3
    <3>. QED BY <3>2, <3>3
  <2>4. P \in {S \in SUBSET Ids : /\ AcyclicIn(S)
                                  /\ \A n \in S : Worth(kind[n]) > 0 /\ dependsOn[n] \subseteq S}
    <3>1. P \in SUBSET Ids
      OBVIOUS
    <3> HIDE DEF P
    <3>. QED BY <2>2, <2>3, <3>1
  <2> HIDE DEF P
  <2>. QED BY <2>1, <2>4 DEF Scoring
<1>4. ASSUME s \in Scoring, Acyclic PROVE score[s] = Worth(kind[s])
  <2>1. PICK S \in SUBSET Ids : /\ AcyclicIn(S) /\ s \in S
                                /\ \A n \in S : Worth(kind[n]) > 0 /\ dependsOn[n] \subseteq S
    BY <1>4 DEF Scoring
  <2>2. ASSUME NEW n \in Ids, \A d \in dependsOn[n] : score[d] > 0
        PROVE  score[n] = Worth(kind[n])
    <3>1. PICK j \in Ids : order[j] = n
      BY <1>2
    <3>2. j \in 1..(next - 1)
      BY <1>0, <1>1
    <3>. QED BY <1>0, <1>4, <2>2, <3>1, <3>2 DEF Deserved
  <2> DEFINE B == {n \in S : ~(score[n] > 0)}
  <2>3. B = {}
    <3>. SUFFICES ASSUME B # {} PROVE FALSE
      OBVIOUS
    <3>1. PICK n \in B : dependsOn[n] \cap B = {}
      <4>1. B \in SUBSET S
        OBVIOUS
      <4> HIDE DEF B
      <4>. QED BY <2>1, <4>1 DEF AcyclicIn
    <3>2. \A d \in dependsOn[n] : score[d] > 0
      BY <2>1, <3>1
    <3>3. score[n] = Worth(kind[n]) /\ Worth(kind[n]) > 0
      BY <2>1, <2>2, <3>2
    <3>. QED BY <3>3
  <2>. QED BY <2>1, <2>2, <2>3
<1>. QED BY <1>3, <1>4

LEMMA PointsFollow ==
  ASSUME IInv
  PROVE  PointsDeserved
<1>0. TypeOK /\ ScoresSound
  BY DEF IInv
<1>1. /\ score \in [Ids -> Nat] /\ kind \in [Positions -> Kinds]
      /\ results \in [Ids -> Seq(Outcome)]
      /\ IsFiniteSet(Ids) /\ IsFiniteSet(Positions) /\ Named \subseteq Ids
  BY <1>0, NamedFacts DEF TypeOK, Ids
<1>2. \A n \in Named : /\ Definition(n) \in Positions /\ id[Definition(n)] = n
                       /\ kind[Definition(n)] \in Kinds
  BY <1>0, NamedFacts
<1>3. ASSUME NEW n \in Named PROVE score[n] <= kind[Definition(n)].max
  <2>1. results[n] \in Seq(Outcome) /\ score[n] \in Nat /\ kind[Definition(n)].max \in Nat
    BY <1>1, <1>2, KindType
  <2>2. ScoreOf(kind[Definition(n)], results[n]) <= kind[Definition(n)].max
    BY <1>2, <2>1, ScoreOfBounds
  <2>3. score[n] > 0 => score[n] = ScoreOf(kind[Definition(n)], results[n])
    BY <1>0 DEF ScoresSound
  <2>. QED BY <2>1, <2>2, <2>3
<1>4. Finished => \A n \in Named : score[n] > 0 => \A d \in dependsOn[Definition(n)] : score[d] > 0
  BY <1>0 DEF ScoresSound
<1>5. \A n \in Named : \E p \in Positions : id[p] = n /\ score[n] <= kind[p].max
  BY <1>2, <1>3
<1>6. SumFunction(score) <= SumFunction([p \in Positions |-> kind[p].max])
  <2> DEFINE top == [p \in Positions |-> kind[p].max]
             def == [n \in Named |-> Definition(n)]
  <2>1. SumFunction(score) = SumFunctionOnSet(score, Ids)
    BY <1>1 DEF SumFunction
  <2>2. SumFunction(top) = SumFunctionOnSet(top, Positions)
    BY DEF SumFunction
  <2>3. SumFunctionOnSet(score, Ids) = SumFunctionOnSet(score, Named)
    <3>1. (\A n \in Ids : score[n] \in Nat) /\ (\A n \in Ids \ Named : score[n] = 0)
      BY <1>0, <1>1 DEF ScoresSound
    <3>. QED BY <1>1, <3>1, SumDropZeros
  <2>4. /\ def \in [Named -> Positions]
        /\ \A m, n \in Named : def[m] = def[n] => m = n
        /\ \A n \in Named : score[n] \in Nat /\ score[n] <= top[def[n]]
    BY <1>1, <1>2, <1>3
  <2>5. \A p \in Positions : top[p] \in Nat
    BY <1>1, KindType
  <2>6. IsFiniteSet(Named)
    BY <1>1, FS_Subset
  <2> HIDE DEF top, def
  <2>7. SumFunctionOnSet(score, Named) <= SumFunctionOnSet(top, Positions)
    BY <1>1, <2>4, <2>5, <2>6, SumBounded
  <2>. QED BY <2>1, <2>2, <2>3, <2>7 DEF top
<1>. QED BY <1>4, <1>5, <1>6 DEF PointsDeserved

LEMMA VerdictFollows ==
  ASSUME IInv
  PROVE  VerdictSound
<1>. SUFFICES ASSUME Finished, Distinct, Acyclic, \A s \in Ids : Pointed(kind[s])
              PROVE  overall = "OK" <=> \A s \in Ids : Good(kind[s])
  BY DEF VerdictSound, Good
<1>0. /\ TypeOK /\ OrderSound /\ VerdictSoFar
      /\ phase = "aggregating" /\ next > NumSubtasks
  BY DEF IInv, Finished
<1>1. next \in 1..(NumSubtasks + 1) /\ NumSubtasks \in Nat /\ Ids = 1..NumSubtasks
  BY <1>0, SubtasksAssumption DEF TypeOK, Ids, Positions
<1>2. 1..(next - 1) = Ids
  BY <1>0, <1>1
<1>3. IF \A j \in Ids : Good(kind[order[j]]) THEN overall = "OK" ELSE overall # "OK"
  BY <1>0, <1>2 DEF VerdictSoFar
<1>4. {order[j] : j \in Ids} = Ids
  <2>0. order \in Seq(Named)
    BY <1>0 DEF TypeOK
  <2>1. ToSet(order) = {order[j] : j \in 1..Len(order)}
    BY <2>0, QueueView
  <2>2. ToSet(order) = Ids /\ Len(order) = NumSubtasks
    BY <1>0, NamedFacts, SoundOrderFull
  <2>. QED BY <1>1, <2>1, <2>2
<1>5. (\A j \in Ids : Good(kind[order[j]])) <=> \A s \in Ids : Good(kind[s])
  BY <1>4
<1>. QED BY <1>3, <1>5

\* _toposort_subtasks() returns every id as often as the request has it, and distinct
\* ones behind all they depend on: the order is that of the request just for a cycle.
THEOREM OrderIsSound == Spec => []OrderSound
<1>1. IInv => OrderSound
  BY DEF IInv
<1>. QED BY <1>1, Invariance, PTL

\* The scores are those of the rules, whatever order _toposort_subtasks() chose.
THEOREM ScoresAreByTheRules == Spec => []ScoresByTheRules
BY Invariance, ScoresFollow, PTL

\* No points behind a dependency without any, nor above the maxima, though a subtask
\* with the id of another is aggregated twice.
THEOREM PointsAreDeserved == Spec => []PointsDeserved
BY Invariance, PointsFollow, PTL

\* A submission whose tests all point is OK just if all of them passed.
THEOREM VerdictIsSound == Spec => []VerdictSound
BY Invariance, VerdictFollows, PTL

-----------------------------------------------------------------------------
(* What OutputCheck's texts are made of.                                   *)

\* The characters of a text.
Chars == STRING

\* Tokens are of one character at least.
NonEmpty == Seq(Chars) \ {<<>>}

\* A word ends at a character.
EndsAt(s, i) == i = Len(s) \/ s[i+1] \in Blank

\* How str.split() goes on at a character, from the end of the text.
TokenBefore(s, i, q) ==
  IF s[i] \in Blank THEN q
  ELSE IF EndsAt(s, i) THEN << <<s[i]>> >> \o q
  ELSE [q EXCEPT ![1] = <<s[i]>> \o @]

TokenTable(t, s) ==
  /\ t \in [1..(Len(s) + 1) -> Seq(NonEmpty)]
  /\ t[Len(s) + 1] = <<>>
  /\ \A i \in 1..Len(s) : t[i] = TokenBefore(s, i, t[i+1])

\* And how str.split("\n") does.
LineBefore(s, i, q) ==
  IF s[i] = Newline THEN << <<>> >> \o q ELSE [q EXCEPT ![1] = <<s[i]>> \o @]

LineTable(t, s) ==
  /\ t \in [1..(Len(s) + 1) -> Seq(Seq(Chars)) \ {<<>>}]
  /\ t[Len(s) + 1] = << <<>> >>
  /\ \A i \in 1..Len(s) : t[i] = LineBefore(s, i, t[i+1])

\* And how the elements at some positions are taken.
ElementBefore(r, at, i, q) == IF i \in at THEN <<r[i]>> \o q ELSE q

ElementTable(t, r, at, S) ==
  /\ t \in [1..(Len(r) + 1) -> Seq(S)]
  /\ t[Len(r) + 1] = <<>>
  /\ \A i \in 1..Len(r) : t[i] = ElementBefore(r, at, i, t[i+1])

\* Each of the three has a table of its values, and these are of its type.
LEMMA ElementsFrom ==
  ASSUME NEW S, NEW r \in Seq(S), NEW at
  PROVE  \E t : ElementTable(t, r, at, S) /\ ElementsAt(r, at) = t[1]
<1> DEFINE N == Len(r)
           step == [p \in (1..N) \X Seq(S) |-> ElementBefore(r, at, p[1], p[2])]
           Def(F) == F = [i \in 1..(N + 1) |->
                           IF i = N + 1 THEN <<>>
                           ELSE IF i \in at THEN <<r[i]>> \o F[i+1]
                           ELSE F[i+1]]
           c == CHOOSE F : Def(F)
<1>1. N \in Nat /\ <<>> \in Seq(S) /\ \A i \in 1..N : r[i] \in S
  BY LenProperties
<1>2. step \in [(1..N) \X Seq(S) -> Seq(S)]
  <2>1. \A i \in 1..N, q \in Seq(S) : ElementBefore(r, at, i, q) \in Seq(S)
    BY <1>1, PrependType DEF ElementBefore
  <2>. QED BY <2>1
<1>3. \A i \in 1..N, q \in Seq(S) : step[<<i, q>>] = ElementBefore(r, at, i, q)
  OBVIOUS
<1> HIDE DEF step
<1>4. PICK F \in [1..(N+1) -> Seq(S)] : FromEnd(F, N, <<>>, step)
  BY <1>1, <1>2, FromEndExists
<1>5. F[N+1] = <<>> /\ \A i \in 1..N : F[i] = ElementBefore(r, at, i, F[i+1])
  <2>1. \A i \in 1..N : F[i+1] \in Seq(S)
    OBVIOUS
  <2>. QED BY <1>3, <1>4, <2>1 DEF FromEnd
<1>6. Def(F)
  <2>1. \A i \in 1..(N+1) : i # N + 1 => i \in 1..N
    BY <1>1
  <2>. QED BY <1>5, <2>1 DEF ElementBefore
<1>7. Def(c) /\ ElementsAt(r, at) = c[1]
  BY <1>6 DEF ElementsAt
<1> HIDE DEF c
<1>8. c[N+1] = <<>> /\ \A i \in 1..N : c[i] = ElementBefore(r, at, i, c[i+1])
  <2>1. N + 1 \in 1..(N+1) /\ \A i \in 1..N : i \in 1..(N+1) /\ i # N + 1
    BY <1>1
  <2>. QED BY <1>7, <2>1 DEF ElementBefore
<1>9. c[1] = F[1]
  BY <1>1, <1>5, <1>8, SameFromEnd
<1>. QED BY <1>5, <1>7, <1>9 DEF ElementTable

LEMMA TokensFrom ==
  ASSUME NEW s \in Seq(Chars)
  PROVE  \E t : TokenTable(t, s) /\ Tokens(s) = t[1]
<1> DEFINE N == Len(s)
           T == Seq(NonEmpty)
           step == [p \in (1..N) \X T |-> TokenBefore(s, p[1], p[2])]
           Def(F) == F = [i \in 1..(N + 1) |->
                           IF i = N + 1 THEN <<>>
                           ELSE IF s[i] \in Blank THEN F[i+1]
                           ELSE IF i = Len(s) \/ s[i+1] \in Blank THEN << <<s[i]>> >> \o F[i+1]
                           ELSE [F[i+1] EXCEPT ![1] = <<s[i]>> \o @]]
           c == CHOOSE F : Def(F)
<1>1. N \in Nat /\ <<>> \in T /\ \A i \in 1..N : s[i] \in Chars
  BY LenProperties
<1>2. step \in [(1..N) \X T -> T]
  <2>. SUFFICES ASSUME NEW i \in 1..N, NEW q \in T PROVE TokenBefore(s, i, q) \in T
    OBVIOUS
  <2>1. <<s[i]>> \in NonEmpty
    BY <1>1 DEF NonEmpty
  <2>2. << <<s[i]>> >> \o q \in T
    BY <2>1, PrependType
  <2>3. ASSUME 1 \in 1..Len(q) PROVE <<s[i]>> \o q[1] \in NonEmpty
    <3>1. q[1] \in Seq(Chars)
      BY <2>3 DEF NonEmpty
    <3>. QED BY <1>1, <3>1, PrependType DEF NonEmpty
  <2>4. [q EXCEPT ![1] = <<s[i]>> \o @] \in T
    BY <2>3, ExceptType
  <2>. QED BY <2>2, <2>4 DEF TokenBefore
<1>3. \A i \in 1..N, q \in T : step[<<i, q>>] = TokenBefore(s, i, q)
  OBVIOUS
<1> HIDE DEF step, T
<1>4. PICK F \in [1..(N+1) -> T] : FromEnd(F, N, <<>>, step)
  BY <1>1, <1>2, FromEndExists
<1>5. F[N+1] = <<>> /\ \A i \in 1..N : F[i] = TokenBefore(s, i, F[i+1])
  <2>1. \A i \in 1..N : F[i+1] \in T
    OBVIOUS
  <2>. QED BY <1>3, <1>4, <2>1 DEF FromEnd
<1>6. Def(F)
  <2>1. \A i \in 1..(N+1) : i # N + 1 => i \in 1..N
    BY <1>1
  <2>. QED BY <1>5, <2>1 DEF TokenBefore, EndsAt
<1>7. Def(c) /\ Tokens(s) = c[1]
  BY <1>6 DEF Tokens
<1> HIDE DEF c
<1>8. c[N+1] = <<>> /\ \A i \in 1..N : c[i] = TokenBefore(s, i, c[i+1])
  <2>1. N + 1 \in 1..(N+1) /\ \A i \in 1..N : i \in 1..(N+1) /\ i # N + 1
    BY <1>1
  <2>. QED BY <1>7, <2>1 DEF TokenBefore, EndsAt
<1>9. c[1] = F[1]
  BY <1>1, <1>5, <1>8, SameFromEnd
<1>. QED BY <1>5, <1>7, <1>9 DEF TokenTable, T

LEMMA LinesFrom ==
  ASSUME NEW s \in Seq(Chars)
  PROVE  \E t : LineTable(t, s) /\ Lines(s) = t[1]
<1> DEFINE N == Len(s)
           T == Seq(Seq(Chars)) \ {<<>>}
           step == [p \in (1..N) \X T |-> LineBefore(s, p[1], p[2])]
           Def(F) == F = [i \in 1..(N + 1) |->
                           IF i = N + 1 THEN << <<>> >>
                           ELSE IF s[i] = Newline THEN << <<>> >> \o F[i+1]
                           ELSE [F[i+1] EXCEPT ![1] = <<s[i]>> \o @]]
           c == CHOOSE F : Def(F)
<1>1. N \in Nat /\ << <<>> >> \in T /\ \A i \in 1..N : s[i] \in Chars
  BY LenProperties
<1>2. step \in [(1..N) \X T -> T]
  <2>. SUFFICES ASSUME NEW i \in 1..N, NEW q \in T PROVE LineBefore(s, i, q) \in T
    OBVIOUS
  <2>1. q \in Seq(Seq(Chars)) /\ 1 \in 1..Len(q) /\ q[1] \in Seq(Chars)
    OBVIOUS
  <2>2. <<>> \in Seq(Chars) /\ << <<>> >> \o q \in T
    BY <2>1, PrependType
  <2>3. <<s[i]>> \o q[1] \in Seq(Chars)
    BY <1>1, <2>1, PrependType
  <2>4. [q EXCEPT ![1] = <<s[i]>> \o @] \in Seq(Seq(Chars))
    BY <2>1, <2>3, ExceptType
  <2>5. [q EXCEPT ![1] = <<s[i]>> \o @] # <<>>
    BY <2>1
  <2>. QED BY <2>2, <2>4, <2>5 DEF LineBefore
<1>3. \A i \in 1..N, q \in T : step[<<i, q>>] = LineBefore(s, i, q)
  OBVIOUS
<1> HIDE DEF step, T
<1>4. PICK F \in [1..(N+1) -> T] : FromEnd(F, N, << <<>> >>, step)
  BY <1>1, <1>2, FromEndExists
<1>5. F[N+1] = << <<>> >> /\ \A i \in 1..N : F[i] = LineBefore(s, i, F[i+1])
  <2>1. \A i \in 1..N : F[i+1] \in T
    OBVIOUS
  <2>. QED BY <1>3, <1>4, <2>1 DEF FromEnd
<1>6. Def(F)
  <2>1. \A i \in 1..(N+1) : i # N + 1 => i \in 1..N
    BY <1>1
  <2>. QED BY <1>5, <2>1 DEF LineBefore
<1>7. Def(c) /\ Lines(s) = c[1]
  BY <1>6 DEF Lines
<1> HIDE DEF c
<1>8. c[N+1] = << <<>> >> /\ \A i \in 1..N : c[i] = LineBefore(s, i, c[i+1])
  <2>1. N + 1 \in 1..(N+1) /\ \A i \in 1..N : i \in 1..(N+1) /\ i # N + 1
    BY <1>1
  <2>. QED BY <1>7, <2>1 DEF LineBefore
<1>9. c[1] = F[1]
  <2>1. c[N+1] = F[N+1] /\ \A i \in 1..N : c[i+1] = F[i+1] => c[i] = F[i]
    BY <1>5, <1>8
  <2>2. N \in Nat
    BY <1>1
  <2> HIDE DEF N, Def
  <2>. QED BY ONLY <2>1, <2>2, SameFromEnd
<1>. QED BY <1>5, <1>7, <1>9 DEF LineTable, T

\* A character that ends a word, and one that does not.
Begun(c, q) == << <<c>> >> \o q

Extended(c, q) == [q EXCEPT ![1] = <<c>> \o @]

LEMMA BegunType ==
  ASSUME NEW c \in Chars, NEW q \in Seq(NonEmpty)
  PROVE  /\ <<c>> \in NonEmpty
         /\ Begun(c, q) \in Seq(NonEmpty) /\ Begun(c, q) # <<>>
         /\ Begun(c, q)[1] = <<c>>
<1>1. <<c>> \in NonEmpty
  <2>1. <<c>> \in Seq(Chars)
    OBVIOUS
  <2>2. <<c>> # <<>>
    OBVIOUS
  <2>. QED BY <2>1, <2>2 DEF NonEmpty
<1> DEFINE e == <<c>>
<1> HIDE DEF e
<1>2. <<e>> \o q \in Seq(NonEmpty) /\ <<e>> \o q # <<>> /\ (<<e>> \o q)[1] = e
  BY <1>1, PrependType DEF e
<1>. QED BY <1>1, <1>2 DEF Begun, e

LEMMA ExtendedType ==
  ASSUME NEW c \in Chars, NEW q \in Seq(NonEmpty), q # <<>>
  PROVE  /\ q[1] \in Seq(Chars) /\ Len(q[1]) > 0 /\ Len(q[1]) \in Nat
         /\ Len(Extended(c, q)) = Len(q) /\ Len(q) \in Nat /\ Len(q) > 0
         /\ Extended(c, q) # <<>>
         /\ Extended(c, q)[1] = <<c>> \o q[1]
         /\ Len(Extended(c, q)[1]) = Len(q[1]) + 1
         /\ \A i \in 2..Len(q) : Extended(c, q)[i] = q[i]
<1>1. Len(q) \in Nat /\ Len(q) > 0 /\ 1 \in 1..Len(q) /\ q[1] \in NonEmpty
  OBVIOUS
<1>2. q[1] \in Seq(Chars) /\ Len(q[1]) > 0 /\ Len(q[1]) \in Nat
  BY <1>1 DEF NonEmpty
<1>3. Len(Extended(c, q)) = Len(q) /\ Extended(c, q)[1] = <<c>> \o q[1]
  BY <1>1 DEF Extended
<1>4. \A i \in 2..Len(q) : Extended(c, q)[i] = q[i]
  BY <1>1 DEF Extended
<1>5. Len(<<c>> \o q[1]) = Len(q[1]) + 1
  BY <1>2, PrependType
<1>6. Extended(c, q) # <<>>
  <2>1. Len(Extended(c, q)) # 0
    BY <1>1, <1>3
  <2>. QED BY <2>1
<1>. QED BY <1>1, <1>2, <1>3, <1>4, <1>5, <1>6

\* Different tokens come of different characters or of different tokens after them.
LEMMA TokensInjective ==
  ASSUME NEW c \in Chars, NEW d \in Chars, NEW p \in Seq(NonEmpty), NEW q \in Seq(NonEmpty)
  PROVE  /\ Begun(c, p) = Begun(d, q) => c = d /\ p = q
         /\ p # <<>> /\ q # <<>> => (Extended(c, p) = Extended(d, q) => c = d /\ p = q)
         /\ q # <<>> => Begun(c, p) # Extended(d, q)
<1>1. ASSUME Begun(c, p) = Begun(d, q) PROVE c = d /\ p = q
  <2> DEFINE x == <<c>>
             y == <<d>>
  <2>1. x \in NonEmpty /\ y \in NonEmpty /\ (x = y => c = d)
    BY BegunType
  <2>2. <<x>> \o p = <<y>> \o q
    BY <1>1 DEF Begun
  <2> HIDE DEF x, y
  <2>3. x = y /\ p = q
    BY <2>1, <2>2, PrependInjective
  <2>. QED BY <2>1, <2>3
<1>2. ASSUME p # <<>>, q # <<>>, Extended(c, p) = Extended(d, q) PROVE c = d /\ p = q
  <2> DEFINE v == p[1]
             w == q[1]
  <2> DEFINE P == Extended(c, p)
             Q == Extended(d, q)
  <2>1. /\ v \in Seq(Chars) /\ P[1] = <<c>> \o v
        /\ Len(P) = Len(p) /\ Len(p) \in Nat
        /\ \A i \in 2..Len(p) : P[i] = p[i]
    BY <1>2, ExtendedType
  <2>2. /\ w \in Seq(Chars) /\ Q[1] = <<d>> \o w
        /\ Len(Q) = Len(q)
        /\ \A i \in 2..Len(q) : Q[i] = q[i]
    BY <1>2, ExtendedType
  <2>3. P = Q
    BY <1>2
  <2> HIDE DEF v, w, P, Q
  <2>4. <<c>> \o v = <<d>> \o w /\ Len(p) = Len(q) /\ \A i \in 2..Len(p) : p[i] = q[i]
    BY <2>1, <2>2, <2>3
  <2>5. c = d /\ v = w
    <3>1. c \in Chars /\ d \in Chars /\ v \in Seq(Chars) /\ w \in Seq(Chars)
      BY <2>1, <2>2
    <3>2. <<c>> \o v = <<d>> \o w
      BY <2>4
    <3>. QED BY ONLY <3>1, <3>2, PrependInjective
  <2>6. \A i \in 1..Len(p) : p[i] = q[i]
    BY <2>1, <2>4, <2>5 DEF v, w
  <2>7. p = q
    BY <2>4, <2>6, SeqEqual
  <2>. QED BY <2>5, <2>7
<1>3. ASSUME q # <<>> PROVE Begun(c, p) # Extended(d, q)
  <2>1. Begun(c, p)[1] = <<c>> /\ Len(<<c>>) = 1
    BY BegunType
  <2>2. Len(Extended(d, q)[1]) = Len(q[1]) + 1 /\ Len(q[1]) > 0 /\ Len(q[1]) \in Nat
    BY <1>3, ExtendedType
  <2>3. Len(Begun(c, p)[1]) # Len(Extended(d, q)[1])
    BY <2>1, <2>2
  <2>. QED BY <2>3
<1>. QED BY <1>1, <1>2, <1>3

\* The positions of the words, and what Words() takes there.
Inked(s) == {i \in DOMAIN s : s[i] \notin Blank}

Letters(s) == [i \in DOMAIN s |-> <<s[i], EndsAt(s, i)>>]

\* A token table changes at the characters of words.
LEMMA TokensGrow ==
  ASSUME NEW s \in Seq(Chars), NEW t, TokenTable(t, s)
  PROVE  /\ \A i \in (1..Len(s)) \ Inked(s) : t[i] = t[i+1]
         /\ \A i \in Inked(s) :
              /\ t[i] # <<>>
              /\ EndsAt(s, i) => t[i] = Begun(s[i], t[i+1])
              /\ ~EndsAt(s, i) => t[i+1] # <<>> /\ t[i] = Extended(s[i], t[i+1])
<1>1. /\ Len(s) \in Nat /\ DOMAIN s = 1..Len(s) /\ \A i \in 1..Len(s) : s[i] \in Chars
      /\ \A i \in 1..(Len(s)+1) : t[i] \in Seq(NonEmpty)
      /\ \A i \in 1..Len(s) : t[i] = TokenBefore(s, i, t[i+1])
  BY LenProperties DEF TokenTable
<1>2. \A i \in (1..Len(s)) \ Inked(s) : t[i] = t[i+1]
  BY <1>1 DEF TokenBefore, Inked
<1>3. \A i \in Inked(s) : /\ i \in 1..Len(s)
                          /\ EndsAt(s, i) => t[i] = Begun(s[i], t[i+1])
                          /\ ~EndsAt(s, i) => t[i] = Extended(s[i], t[i+1])
  BY <1>1 DEF TokenBefore, Inked, Begun, Extended
<1> DEFINE Fine == {i \in 1..(Len(s)+1) : i \in Inked(s) => t[i] # <<>>}
<1>4. ASSUME NEW i \in 1..Len(s), i + 1 \in Fine
      PROVE  /\ i \in Fine
             /\ i \in Inked(s) => (~EndsAt(s, i) => t[i+1] # <<>>)
  <2>1. i \in 1..(Len(s)+1) /\ i + 1 \in 1..(Len(s)+1)
    BY <1>1
  <2>2. ASSUME i \in Inked(s), ~EndsAt(s, i) PROVE t[i+1] # <<>>
    <3>1. i + 1 \in Inked(s)
      BY <1>1, <2>2 DEF EndsAt, Inked
    <3>. QED BY <1>4, <3>1
  <2>3. ASSUME i \in Inked(s) PROVE t[i] # <<>>
    <3>1. s[i] \in Chars /\ t[i+1] \in Seq(NonEmpty)
      BY <1>1, <2>1
    <3>2. CASE EndsAt(s, i)
      <4>1. Begun(s[i], t[i+1]) # <<>>
        BY <3>1, BegunType
      <4>. QED BY <1>3, <2>3, <3>2, <4>1
    <3>3. CASE ~EndsAt(s, i)
      <4>1. Extended(s[i], t[i+1]) # <<>>
        BY <3>1, <2>2, <2>3, <3>3, ExtendedType
      <4>. QED BY <1>3, <2>3, <3>3, <4>1
    <3>. QED BY <3>2, <3>3
  <2>. QED BY <2>1, <2>2, <2>3
<1>5. Len(s) + 1 \in Fine
  BY <1>1 DEF Inked
<1> HIDE DEF Fine
<1>6. \A i \in 1..(Len(s)+1) : i \in Fine
  BY <1>1, <1>4, <1>5, AllFromEnd
<1>7. \A i \in Inked(s) : i \in 1..Len(s) /\ i + 1 \in Fine /\ i \in Fine
  BY <1>1, <1>3, <1>6
<1>8. \A i \in Inked(s) : t[i] # <<>>
  BY <1>7 DEF Fine
<1>. QED BY <1>2, <1>3, <1>4, <1>7, <1>8

\* A table of elements changes at their positions.
LEMMA ElementsGrow ==
  ASSUME NEW S, NEW r \in Seq(S), NEW at \in SUBSET (1..Len(r)), NEW t, ElementTable(t, r, at, S)
  PROVE  /\ t[Len(r) + 1] = <<>>
         /\ \A i \in (1..Len(r)) \ at : t[i] = t[i+1]
         /\ \A i \in at : t[i] = <<r[i]>> \o t[i+1] /\ t[i] # <<>>
         /\ \A i \in at : r[i] \in S /\ t[i+1] \in Seq(S)
<1>1. /\ t[Len(r) + 1] = <<>>
      /\ \A i \in 1..(Len(r) + 1) : t[i] \in Seq(S)
      /\ \A i \in 1..Len(r) : t[i] = ElementBefore(r, at, i, t[i+1])
      /\ Len(r) \in Nat /\ \A i \in 1..Len(r) : r[i] \in S
  BY LenProperties DEF ElementTable
<1>2. ASSUME NEW i \in at
      PROVE  t[i] = <<r[i]>> \o t[i+1] /\ t[i] # <<>> /\ r[i] \in S /\ t[i+1] \in Seq(S)
  <2>1. i \in 1..Len(r) /\ i + 1 \in 1..(Len(r) + 1)
    BY <1>1
  <2>2. r[i] \in S /\ t[i+1] \in Seq(S) /\ t[i] = <<r[i]>> \o t[i+1]
    BY <1>1, <2>1 DEF ElementBefore
  <2> DEFINE e == r[i]
             q == t[i+1]
  <2>3. e \in S /\ q \in Seq(S)
    BY <2>2
  <2> HIDE DEF e, q
  <2>4. <<e>> \o q # <<>>
    BY <2>3, PrependType
  <2>. QED BY <2>2, <2>4 DEF e, q
<1>3. \A i \in (1..Len(r)) \ at : t[i] = t[i+1]
  BY <1>1 DEF ElementBefore
<1>. QED BY <1>1, <1>2, <1>3

\* Texts of the same tokens are those of the same words.
LEMMA TokensAreWords ==
  ASSUME NEW a \in Seq(Chars), NEW e \in Seq(Chars)
  PROVE  Tokens(a) = Tokens(e) <=> Words(a) = Words(e)
<1> DEFINE n == Len(a)
           m == Len(e)
           la == Letters(a)
           le == Letters(e)
           S == Chars \X BOOLEAN
<1>1. /\ n \in Nat /\ m \in Nat
      /\ DOMAIN a = 1..n /\ DOMAIN e = 1..m
      /\ Inked(a) \in SUBSET (1..n) /\ Inked(e) \in SUBSET (1..m)
  BY LenProperties DEF Inked
<1>2. /\ la \in Seq(S) /\ Len(la) = n
      /\ le \in Seq(S) /\ Len(le) = m
  <2>1. \A i \in 1..n : la[i] \in S
    <3>. SUFFICES ASSUME NEW i \in 1..n PROVE la[i] \in S
      OBVIOUS
    <3>1. la[i] = <<a[i], EndsAt(a, i)>> /\ a[i] \in Chars
      BY <1>1 DEF Letters
    <3>2. EndsAt(a, i) \in BOOLEAN
      BY DEF EndsAt
    <3>. QED BY <3>1, <3>2
  <2>2. \A i \in 1..m : le[i] \in S
    <3>. SUFFICES ASSUME NEW i \in 1..m PROVE le[i] \in S
      OBVIOUS
    <3>1. le[i] = <<e[i], EndsAt(e, i)>> /\ e[i] \in Chars
      BY <1>1 DEF Letters
    <3>2. EndsAt(e, i) \in BOOLEAN
      BY DEF EndsAt
    <3>. QED BY <3>1, <3>2
  <2>3. DOMAIN la = 1..n /\ la = [i \in 1..n |-> la[i]]
    BY <1>1 DEF Letters
  <2>4. DOMAIN le = 1..m /\ le = [i \in 1..m |-> le[i]]
    BY <1>1 DEF Letters
  <2> HIDE DEF la, le, n, m, S
  <2>5. la \in [1..n -> S] /\ le \in [1..m -> S]
    BY <2>1, <2>2, <2>3, <2>4
  <2>. QED BY <1>1, <2>5, LenProperties
<1>3. Words(a) = ElementsAt(la, Inked(a)) /\ Words(e) = ElementsAt(le, Inked(e))
  BY DEF Words, Letters, Inked, EndsAt
<1>4. PICK ta : TokenTable(ta, a) /\ Tokens(a) = ta[1]
  BY TokensFrom
<1>5. PICK te : TokenTable(te, e) /\ Tokens(e) = te[1]
  BY TokensFrom
<1>6. PICK wa : ElementTable(wa, la, Inked(a), S) /\ Words(a) = wa[1]
  BY <1>2, <1>3, ElementsFrom
<1>7. PICK we : ElementTable(we, le, Inked(e), S) /\ Words(e) = we[1]
  BY <1>2, <1>3, ElementsFrom
<1>8. ASSUME NEW i \in Inked(a), NEW j \in Inked(e)
      PROVE  /\ i \in 1..n /\ j \in 1..m
             /\ la[i] = le[j] <=> a[i] = e[j] /\ (EndsAt(a, i) <=> EndsAt(e, j))
  <2>1. i \in 1..n /\ j \in 1..m
    BY <1>1
  <2>2. la[i] = <<a[i], EndsAt(a, i)>> /\ le[j] = <<e[j], EndsAt(e, j)>>
    BY <1>1, <2>1 DEF Letters
  <2>3. EndsAt(a, i) \in BOOLEAN /\ EndsAt(e, j) \in BOOLEAN
    BY DEF EndsAt
  <2>. QED BY <2>1, <2>2, <2>3
<1> HIDE DEF la, le, n, m, S
<1>9. /\ \A i \in (1..n) \ Inked(a) : ta[i] = ta[i+1]
      /\ \A i \in Inked(a) : /\ ta[i] # <<>>
                             /\ EndsAt(a, i) => ta[i] = Begun(a[i], ta[i+1])
                             /\ ~EndsAt(a, i) => ta[i+1] # <<>> /\ ta[i] = Extended(a[i], ta[i+1])
  BY <1>4, TokensGrow DEF n
<1>10. /\ \A j \in (1..m) \ Inked(e) : te[j] = te[j+1]
       /\ \A j \in Inked(e) : /\ te[j] # <<>>
                              /\ EndsAt(e, j) => te[j] = Begun(e[j], te[j+1])
                              /\ ~EndsAt(e, j) => te[j+1] # <<>> /\ te[j] = Extended(e[j], te[j+1])
  BY <1>5, TokensGrow DEF m
<1>11. /\ wa[n+1] = <<>>
       /\ \A i \in (1..n) \ Inked(a) : wa[i] = wa[i+1]
       /\ \A i \in Inked(a) : /\ wa[i] = <<la[i]>> \o wa[i+1] /\ wa[i] # <<>>
                              /\ la[i] \in S /\ wa[i+1] \in Seq(S)
  <2>1. Inked(a) \in SUBSET (1..Len(la)) /\ Len(la) = n
    BY <1>1, <1>2
  <2>2. /\ wa[Len(la)+1] = <<>>
        /\ \A i \in (1..Len(la)) \ Inked(a) : wa[i] = wa[i+1]
        /\ \A i \in Inked(a) : wa[i] = <<la[i]>> \o wa[i+1] /\ wa[i] # <<>>
        /\ \A i \in Inked(a) : la[i] \in S /\ wa[i+1] \in Seq(S)
    BY <1>2, <1>6, <2>1, ElementsGrow
  <2>. QED BY <2>1, <2>2
<1>12. /\ we[m+1] = <<>>
       /\ \A j \in (1..m) \ Inked(e) : we[j] = we[j+1]
       /\ \A j \in Inked(e) : /\ we[j] = <<le[j]>> \o we[j+1] /\ we[j] # <<>>
                              /\ le[j] \in S /\ we[j+1] \in Seq(S)
  <2>1. Inked(e) \in SUBSET (1..Len(le)) /\ Len(le) = m
    BY <1>1, <1>2
  <2>2. /\ we[Len(le)+1] = <<>>
        /\ \A i \in (1..Len(le)) \ Inked(e) : we[i] = we[i+1]
        /\ \A i \in Inked(e) : we[i] = <<le[i]>> \o we[i+1] /\ we[i] # <<>>
        /\ \A i \in Inked(e) : le[i] \in S /\ we[i+1] \in Seq(S)
    BY <1>2, <1>7, <2>1, ElementsGrow
  <2>. QED BY <2>1, <2>2
<1>13. ta[n+1] = <<>> /\ te[m+1] = <<>>
  BY <1>4, <1>5 DEF TokenTable, n, m
<1>14. ASSUME NEW i \in Inked(a), NEW j \in Inked(e)
       PROVE  ta[i] = te[j] <=> la[i] = le[j] /\ ta[i+1] = te[j+1]
  <2> DEFINE c == a[i]
             d == e[j]
             p == ta[i+1]
             q == te[j+1]
  <2>1. c \in Chars /\ d \in Chars /\ p \in Seq(NonEmpty) /\ q \in Seq(NonEmpty)
    <3>1. i + 1 \in 1..(n+1) /\ j + 1 \in 1..(m+1) /\ i \in 1..n /\ j \in 1..m
      BY <1>1, <1>8
    <3>2. c \in Chars /\ d \in Chars
      BY <3>1 DEF n, m
    <3>3. p \in Seq(NonEmpty)
      BY <1>4, <3>1 DEF TokenTable, n
    <3>4. q \in Seq(NonEmpty)
      BY <1>5, <3>1 DEF TokenTable, m
    <3>. QED BY <3>2, <3>3, <3>4
  <2>2. /\ EndsAt(a, i) => ta[i] = Begun(c, p)
        /\ ~EndsAt(a, i) => p # <<>> /\ ta[i] = Extended(c, p)
    BY <1>9
  <2>3. /\ EndsAt(e, j) => te[j] = Begun(d, q)
        /\ ~EndsAt(e, j) => q # <<>> /\ te[j] = Extended(d, q)
    BY <1>10
  <2>4. la[i] = le[j] <=> c = d /\ (EndsAt(a, i) <=> EndsAt(e, j))
    BY <1>8
  <2> HIDE DEF c, d, p, q
  <2>5. /\ Begun(c, p) = Begun(d, q) => c = d /\ p = q
        /\ p # <<>> /\ q # <<>> => (Extended(c, p) = Extended(d, q) => c = d /\ p = q)
        /\ q # <<>> => Begun(c, p) # Extended(d, q)
    BY ONLY <2>1, TokensInjective
  <2>6. p # <<>> => Begun(d, q) # Extended(c, p)
    BY ONLY <2>1, TokensInjective
  <2>7. ta[i] = te[j] <=> c = d /\ (EndsAt(a, i) <=> EndsAt(e, j)) /\ p = q
    BY <2>2, <2>3, <2>5, <2>6
  <2>. QED BY <2>4, <2>7 DEF p, q
<1>15. ASSUME NEW i \in Inked(a), NEW j \in Inked(e)
       PROVE  wa[i] = we[j] <=> la[i] = le[j] /\ wa[i+1] = we[j+1]
  <2> DEFINE c == la[i]
             d == le[j]
             p == wa[i+1]
             q == we[j+1]
  <2>1. c \in S /\ d \in S /\ p \in Seq(S) /\ q \in Seq(S)
    BY <1>11, <1>12
  <2>2. wa[i] = <<c>> \o p /\ we[j] = <<d>> \o q
    BY <1>11, <1>12
  <2> HIDE DEF c, d, p, q
  <2>3. ASSUME <<c>> \o p = <<d>> \o q PROVE c = d /\ p = q
    BY ONLY <2>1, <2>3, PrependInjective
  <2>4. wa[i] = we[j] <=> c = d /\ p = q
    BY <2>2, <2>3
  <2>. QED BY <2>4 DEF c, d, p, q
<1>16. ta[1] = te[1] <=> wa[1] = we[1]
  <2>1. /\ \A i \in Inked(a) : ta[i] # ta[n+1] /\ wa[i] # wa[n+1]
        /\ \A j \in Inked(e) : te[j] # te[m+1] /\ we[j] # we[m+1]
        /\ ta[n+1] = te[m+1] /\ wa[n+1] = we[m+1]
    BY <1>9, <1>10, <1>11, <1>12, <1>13
  <2>2. /\ \A i \in (1..n) \ Inked(a) : ta[i] = ta[i+1] /\ wa[i] = wa[i+1]
        /\ \A j \in (1..m) \ Inked(e) : te[j] = te[j+1] /\ we[j] = we[j+1]
    BY <1>9, <1>10, <1>11, <1>12
  <2>3. \A i \in Inked(a), j \in Inked(e) :
          /\ ta[i] = te[j] <=> la[i] = le[j] /\ ta[i+1] = te[j+1]
          /\ wa[i] = we[j] <=> la[i] = le[j] /\ wa[i+1] = we[j+1]
    BY <1>14, <1>15
  <2>4. TwinRows(n, ta, wa, la, Inked(a), m, te, we, le, Inked(e))
    BY ONLY <1>1, <2>1, <2>2, <2>3 DEF TwinRows
  <2>. QED BY ONLY <2>4, Twins
<1>. QED BY <1>4, <1>5, <1>6, <1>7, <1>16

\* However a text is split, no token is empty.
LEMMA TokensType ==
  ASSUME NEW s \in Seq(STRING)
  PROVE  Tokens(s) \in Seq(NonEmpty)
<1>1. s \in Seq(Chars)
  BY DEF Chars
<1>2. PICK t : TokenTable(t, s) /\ Tokens(s) = t[1]
  BY <1>1, TokensFrom
<1>3. 1 \in 1..(Len(s) + 1)
  BY <1>1, LenProperties
<1>. QED BY <1>2, <1>3 DEF TokenTable

-----------------------------------------------------------------------------
(* What a text shows.                                                      *)

\* k is where a sequence ends without what is dropped at its end.
KeptUpTo(q, D, k) ==
  /\ k \in 0..Len(q)
  /\ k = 0 \/ q[k] \notin D
  /\ \A i \in (k + 1)..Len(q) : q[i] \in D

\* There is one such place.
LEMMA StrippedIs ==
  ASSUME NEW S, NEW q \in Seq(S), NEW D
  PROVE  /\ \E k : KeptUpTo(q, D, k)
         /\ \A k : KeptUpTo(q, D, k) => Stripped(q, D) = SubSeq(q, 1, k)
<1> DEFINE K == {0} \cup {i \in DOMAIN q : q[i] \notin D}
<1>1. Len(q) \in Nat /\ DOMAIN q = 1..Len(q)
  BY LenProperties
<1>2. K \subseteq 0..Len(q) /\ K # {}
  BY <1>1
<1>3. Max(K) \in K /\ \A i \in K : i <= Max(K)
  <2> HIDE DEF K
  <2>. QED BY <1>1, <1>2, MaxOfSet
<1> DEFINE x == Max(K)
<1> HIDE DEF x
<1>4. x \in K /\ \A i \in K : i <= x
  BY <1>3 DEF x
<1>5. KeptUpTo(q, D, x)
  <2>1. x \in 0..Len(q) /\ (x = 0 \/ q[x] \notin D)
    BY <1>1, <1>4
  <2>2. ASSUME NEW i \in (x + 1)..Len(q) PROVE q[i] \in D
    <3>1. i \in DOMAIN q /\ ~(i <= x)
      BY <1>1, <2>1
    <3>. QED BY <1>4, <3>1
  <2>. QED BY <2>1, <2>2 DEF KeptUpTo
<1>6. ASSUME NEW k, KeptUpTo(q, D, k) PROVE k = x
  <2>1. /\ k \in 0..Len(q) /\ (k = 0 \/ q[k] \notin D)
        /\ \A i \in (k + 1)..Len(q) : q[i] \in D
    BY <1>6 DEF KeptUpTo
  <2>2. k \in K
    BY <1>1, <2>1
  <2>3. k <= x /\ x \in 0..Len(q)
    BY <1>2, <1>4, <2>2
  <2>4. ~(k < x)
    <3>. SUFFICES ASSUME k < x PROVE FALSE
      OBVIOUS
    <3>1. x \in (k + 1)..Len(q) /\ x # 0
      BY <1>1, <2>1, <2>3
    <3>2. q[x] \notin D
      BY <1>4, <3>1
    <3>. QED BY <2>1, <3>1, <3>2
  <2>. QED BY <2>1, <2>3, <2>4
<1>7. Stripped(q, D) = SubSeq(q, 1, x)
  BY DEF Stripped, x
<1>. QED BY <1>5, <1>6, <1>7

LEMMA StrippedType ==
  ASSUME NEW S, NEW q \in Seq(S), NEW D
  PROVE  Stripped(q, D) \in Seq(S)
<1>1. PICK k : KeptUpTo(q, D, k) /\ Stripped(q, D) = SubSeq(q, 1, k)
  BY StrippedIs
<1>2. k \in 0..Len(q) /\ Len(q) \in Nat
  BY <1>1, LenProperties DEF KeptUpTo
<1>3. \A i \in 1..k : q[i] \in S
  BY <1>2
<1>. QED BY <1>1, <1>2, <1>3, SubSeqProperties

LEMMA StrippedEmpty ==
  ASSUME NEW D
  PROVE  Stripped(<<>>, D) = <<>>
<1>1. KeptUpTo(<<>>, D, 0) /\ <<>> \in Seq({})
  BY DEF KeptUpTo
<1>2. Stripped(<<>>, D) = SubSeq(<<>>, 1, 0)
  BY <1>1, StrippedIs
<1>. QED BY <1>2, SubSeqEmpty

\* What is before a sequence is kept if something after it is, or it is not to be dropped.
LEMMA StrippedPrepend ==
  ASSUME NEW S, NEW c \in S, NEW q \in Seq(S), NEW D
  PROVE  Stripped(<<c>> \o q, D) =
           IF Stripped(q, D) # <<>> \/ c \notin D THEN <<c>> \o Stripped(q, D) ELSE <<>>
<1> DEFINE r == <<c>> \o q
<1>1. /\ r \in Seq(S) /\ Len(r) = Len(q) + 1 /\ r[1] = c
      /\ \A i \in 1..Len(q) : r[i+1] = q[i]
  BY PrependType
<1> HIDE DEF r
<1>2. PICK k : KeptUpTo(q, D, k) /\ Stripped(q, D) = SubSeq(q, 1, k)
  BY StrippedIs
<1>3. /\ k \in 0..Len(q) /\ Len(q) \in Nat
      /\ k = 0 \/ q[k] \notin D
      /\ \A i \in (k + 1)..Len(q) : q[i] \in D
  BY <1>2, LenProperties DEF KeptUpTo
<1> DEFINE b == SubSeq(q, 1, k)
<1>4. /\ b \in Seq(S) /\ Len(b) = k /\ \A i \in 1..k : b[i] = q[i]
  <2>1. \A i \in 1..k : q[i] \in S
    BY <1>3
  <2>2. /\ b \in Seq(S)
        /\ Len(b) = IF 1 <= k THEN k - 1 + 1 ELSE 0
        /\ \A i \in 1..(k - 1 + 1) : b[i] = q[1 + i - 1]
    BY <1>3, <2>1, SubSeqProperties
  <2> HIDE DEF b
  <2>3. k - 1 + 1 = k /\ \A i \in 1..k : 1 + i - 1 = i
    BY <1>3
  <2>. QED BY <1>3, <2>2, <2>3
<1> HIDE DEF b
<1>5. b # <<>> <=> k > 0
  BY <1>3, <1>4
<1>6. CASE k > 0 \/ c \notin D
  <2>1. KeptUpTo(r, D, k + 1)
    <3>1. k + 1 \in 0..Len(r)
      BY <1>1, <1>3
    <3>2. r[k+1] \notin D
      <4>1. CASE k > 0
        <5>1. k \in 1..Len(q)
          BY <1>3, <4>1
        <5>. QED BY <1>1, <1>3, <4>1, <5>1
      <4>2. CASE k = 0
        BY <1>1, <1>6, <4>2
      <4>. QED BY <1>3, <4>1, <4>2
    <3>3. ASSUME NEW i \in ((k + 1) + 1)..Len(r) PROVE r[i] \in D
      <4>1. i - 1 \in (k + 1)..Len(q) /\ i - 1 \in 1..Len(q) /\ (i - 1) + 1 = i
        BY <1>1, <1>3
      <4>. QED BY <1>1, <1>3, <4>1
    <3>. QED BY <3>1, <3>2, <3>3 DEF KeptUpTo
  <2>2. Stripped(r, D) = SubSeq(r, 1, k + 1)
    BY <1>1, <2>1, StrippedIs
  <2> DEFINE u == SubSeq(r, 1, k + 1)
             v == <<c>> \o b
  <2>3. /\ u \in Seq(S) /\ Len(u) = k + 1 /\ \A i \in 1..(k + 1) : u[i] = r[i]
    <3>1. \A i \in 1..(k + 1) : r[i] \in S
      BY <1>1, <1>3
    <3>2. /\ u \in Seq(S)
          /\ Len(u) = IF 1 <= k + 1 THEN (k + 1) - 1 + 1 ELSE 0
          /\ \A i \in 1..((k + 1) - 1 + 1) : u[i] = r[1 + i - 1]
      BY <1>3, <3>1, SubSeqProperties
    <3> HIDE DEF u
    <3>3. (k + 1) - 1 + 1 = k + 1 /\ 1 <= k + 1 /\ \A i \in 1..(k + 1) : 1 + i - 1 = i
      BY <1>3
    <3>. QED BY <1>3, <3>2, <3>3
  <2>4. /\ v \in Seq(S) /\ Len(v) = k + 1 /\ v[1] = c /\ \A i \in 1..k : v[i+1] = b[i]
    BY <1>4, PrependType
  <2> HIDE DEF u, v
  <2>5. ASSUME NEW i \in 1..(k + 1) PROVE u[i] = v[i]
    <3>1. CASE i = 1
      BY <1>1, <1>3, <2>3, <2>4, <3>1
    <3>2. CASE i # 1
      <4>1. i - 1 \in 1..k /\ i - 1 \in 1..Len(q) /\ (i - 1) + 1 = i
        BY <1>3, <3>2
      <4>2. u[i] = q[i-1]
        BY <1>1, <2>3, <4>1
      <4>3. v[i] = q[i-1]
        BY <1>4, <2>4, <4>1
      <4>. QED BY <4>2, <4>3
    <3>. QED BY <3>1, <3>2
  <2>6. u = v
    BY <2>3, <2>4, <2>5, SeqEqual
  <2>. QED BY <1>2, <1>5, <1>6, <2>2, <2>6 DEF r, b, u, v
<1>7. CASE k = 0 /\ c \in D
  <2>1. KeptUpTo(r, D, 0)
    <3>1. ASSUME NEW i \in (0 + 1)..Len(r) PROVE r[i] \in D
      <4>1. CASE i = 1
        BY <1>1, <1>7, <4>1
      <4>2. CASE i # 1
        <5>1. i - 1 \in (k + 1)..Len(q) /\ i - 1 \in 1..Len(q) /\ (i - 1) + 1 = i
          BY <1>1, <1>3, <1>7, <4>2
        <5>. QED BY <1>1, <1>3, <5>1
      <4>. QED BY <4>1, <4>2
    <3>2. 0 \in 0..Len(r)
      BY <1>1, <1>3
    <3>. QED BY <3>1, <3>2 DEF KeptUpTo
  <2>2. Stripped(r, D) = SubSeq(r, 1, 0)
    BY <1>1, <2>1, StrippedIs
  <2>3. SubSeq(r, 1, 0) = <<>>
    BY SubSeqEmpty
  <2>. QED BY <1>2, <1>5, <1>7, <2>2, <2>3 DEF r, b
<1>. QED BY <1>3, <1>6, <1>7

\* rstrip() of each line; and what is shown of the first line, and of the others.
StripAll(q) == [k \in DOMAIN q |-> Stripped(q[k], Blank)]

FirstLine(q) == Stripped(q[1], Blank)

MoreLines(q) == Stripped(StripAll(Tail(q)), {<<>>})

Joined(h, r) == IF h # <<>> \/ r # <<>> THEN <<h>> \o r ELSE <<>>

LEMMA StripAllType ==
  ASSUME NEW q \in Seq(Seq(Chars))
  PROVE  /\ StripAll(q) \in Seq(Seq(Chars)) /\ Len(StripAll(q)) = Len(q)
         /\ \A k \in 1..Len(q) : StripAll(q)[k] = Stripped(q[k], Blank)
<1>1. DOMAIN q = 1..Len(q) /\ Len(q) \in Nat
  BY LenProperties
<1>2. \A k \in 1..Len(q) : StripAll(q)[k] = Stripped(q[k], Blank)
  BY <1>1 DEF StripAll
<1>3. \A k \in 1..Len(q) : Stripped(q[k], Blank) \in Seq(Chars)
  <2>. SUFFICES ASSUME NEW k \in 1..Len(q) PROVE Stripped(q[k], Blank) \in Seq(Chars)
    OBVIOUS
  <2>1. q[k] \in Seq(Chars)
    OBVIOUS
  <2>. QED BY <2>1, StrippedType
<1>4. StripAll(q) \in [1..Len(q) -> Seq(Chars)]
  BY <1>1, <1>3 DEF StripAll
<1> DEFINE u == StripAll(q)
           n == Len(q)
           S == Seq(Chars)
<1>5. u \in [1..n -> S] /\ n \in Nat
  BY <1>1, <1>4
<1> HIDE DEF u, n, S
<1>6. u \in Seq(S) /\ Len(u) = n
  BY <1>5, LenProperties
<1>. QED BY <1>2, <1>6 DEF u, n, S

\* A text without what _normalize_strict() drops is its first line and the others.
LEMMA LinesStripped ==
  ASSUME NEW q \in Seq(Seq(Chars)), q # <<>>
  PROVE  /\ FirstLine(q) \in Seq(Chars) /\ MoreLines(q) \in Seq(Seq(Chars))
         /\ Stripped(StripAll(q), {<<>>}) = Joined(FirstLine(q), MoreLines(q))
<1>1. q[1] \in Seq(Chars) /\ Tail(q) \in Seq(Seq(Chars)) /\ q = <<q[1]>> \o Tail(q)
  BY FirstAndRest
<1> DEFINE e == FirstLine(q)
           u == StripAll(Tail(q))
           w == StripAll(q)
           v == <<e>> \o u
<1>2. e \in Seq(Chars)
  BY <1>1, StrippedType DEF FirstLine
<1>3. /\ u \in Seq(Seq(Chars)) /\ Len(u) = Len(Tail(q))
      /\ \A k \in 1..Len(Tail(q)) : u[k] = Stripped(Tail(q)[k], Blank)
  BY <1>1, StripAllType
<1>4. /\ w \in Seq(Seq(Chars)) /\ Len(w) = Len(q)
      /\ \A k \in 1..Len(q) : w[k] = Stripped(q[k], Blank)
  BY StripAllType
<1>5. /\ Len(Tail(q)) = Len(q) - 1 /\ Len(q) \in Nat /\ Len(q) > 0
      /\ \A i \in 1..Len(Tail(q)) : Tail(q)[i] = q[i+1]
  BY HeadTailProperties
<1>6. e = Stripped(q[1], Blank)
  BY DEF FirstLine
<1> HIDE DEF e, u, w
<1>7. v \in Seq(Seq(Chars)) /\ Len(v) = Len(u) + 1 /\ v[1] = e /\ \A i \in 1..Len(u) : v[i+1] = u[i]
  BY <1>2, <1>3, PrependType
<1> HIDE DEF v
<1>8. ASSUME NEW i \in 1..Len(q) PROVE w[i] = v[i]
  <2>1. CASE i = 1
    BY <1>4, <1>6, <1>7, <2>1
  <2>2. CASE i # 1
    <3>1. i - 1 \in 1..Len(Tail(q)) /\ i - 1 \in 1..Len(u) /\ (i - 1) + 1 = i
      BY <1>3, <1>5, <2>2
    <3>. QED BY <1>3, <1>4, <1>5, <1>7, <3>1
  <2>. QED BY <2>1, <2>2
<1>9. w = v
  <2>1. Len(w) = Len(v)
    BY <1>3, <1>4, <1>5, <1>7
  <2>. QED BY <1>4, <1>7, <1>8, <2>1, SeqEqual
<1> DEFINE x == Stripped(u, {<<>>})
<1>10. x \in Seq(Seq(Chars))
  BY <1>3, StrippedType
<1>11. Stripped(<<e>> \o u, {<<>>}) =
         IF x # <<>> \/ e \notin {<<>>} THEN <<e>> \o x ELSE <<>>
  BY <1>2, <1>3, StrippedPrepend
<1>12. MoreLines(q) = x
  BY DEF MoreLines, u
<1> HIDE DEF x
<1>13. Stripped(w, {<<>>}) = Joined(e, x)
  BY <1>9, <1>11 DEF v, Joined
<1>. QED BY <1>2, <1>10, <1>12, <1>13 DEF e, w

\* What _normalize_strict() leaves of the text from a position on: of the line there,
\* and of those after it.
LayoutRows(s, h, r) ==
  /\ h \in [1..(Len(s) + 1) -> Seq(Chars)]
  /\ r \in [1..(Len(s) + 1) -> Seq(Seq(Chars))]
  /\ h[Len(s) + 1] = <<>> /\ r[Len(s) + 1] = <<>>
  /\ \A i \in 1..Len(s) :
       s[i] = Newline => h[i] = <<>> /\ r[i] = Joined(h[i+1], r[i+1])
  /\ \A i \in 1..Len(s) :
       s[i] # Newline =>
         /\ r[i] = r[i+1]
         /\ h[i] = IF h[i+1] # <<>> \/ s[i] \notin Blank THEN <<s[i]>> \o h[i+1] ELSE <<>>

\* Every text has such a layout, and _normalize_strict() returns it.
LEMMA LayoutOf ==
  ASSUME NEW s \in Seq(Chars)
  PROVE  \E h, r : LayoutRows(s, h, r) /\ Normalize(s) = Joined(h[1], r[1])
<1> DEFINE N == Len(s)
           LL == Seq(Seq(Chars)) \ {<<>>}
<1>1. PICK t : LineTable(t, s) /\ Lines(s) = t[1]
  BY LinesFrom
<1>2. /\ N \in Nat /\ \A i \in 1..N : s[i] \in Chars
      /\ \A i \in 1..(N+1) : t[i] \in LL
      /\ t[N+1] = << <<>> >>
      /\ \A i \in 1..N : t[i] = LineBefore(s, i, t[i+1])
  BY <1>1, LenProperties DEF LineTable
<1> DEFINE h == [i \in 1..(N+1) |-> FirstLine(t[i])]
           r == [i \in 1..(N+1) |-> MoreLines(t[i])]
<1>3. ASSUME NEW q \in LL
      PROVE  /\ FirstLine(q) \in Seq(Chars) /\ MoreLines(q) \in Seq(Seq(Chars))
             /\ Stripped(StripAll(q), {<<>>}) = Joined(FirstLine(q), MoreLines(q))
  BY LinesStripped
<1>4. \A i \in 1..(N+1) : h[i] = FirstLine(t[i]) /\ r[i] = MoreLines(t[i])
  OBVIOUS
<1>5. h \in [1..(N+1) -> Seq(Chars)] /\ r \in [1..(N+1) -> Seq(Seq(Chars))]
  BY <1>2, <1>3
<1>6. Normalize(s) = Joined(h[1], r[1])
  <2>1. 1 \in 1..(N+1)
    BY <1>2
  <2>2. Normalize(s) = Stripped(StripAll(t[1]), {<<>>})
    BY <1>1 DEF Normalize, StripAll
  <2> HIDE DEF h, r
  <2>. QED BY <1>2, <1>3, <1>4, <2>1, <2>2
<1>7. h[N+1] = <<>> /\ r[N+1] = <<>>
  <2>1. FirstLine(<< <<>> >>) = <<>>
    BY StrippedEmpty DEF FirstLine
  <2>2. Tail(<< <<>> >>) = <<>> /\ StripAll(<<>>) = <<>>
    BY DEF StripAll
  <2>3. MoreLines(<< <<>> >>) = <<>>
    BY <2>2, StrippedEmpty DEF MoreLines
  <2>4. N + 1 \in 1..(N+1)
    BY <1>2
  <2> HIDE DEF h, r
  <2>. QED BY <1>2, <1>4, <2>1, <2>3, <2>4
<1> HIDE DEF h, r
<1>8. ASSUME NEW i \in 1..N, s[i] = Newline
      PROVE  h[i] = <<>> /\ r[i] = Joined(h[i+1], r[i+1])
  <2>1. i \in 1..(N+1) /\ i + 1 \in 1..(N+1)
    BY <1>2
  <2> DEFINE q == t[i+1]
             e == <<>>
  <2>2. q \in LL /\ t[i] = <<e>> \o q
    BY <1>2, <1>8, <2>1 DEF LineBefore
  <2>3. e \in Seq(Chars) /\ q \in Seq(Seq(Chars))
    BY <2>2
  <2> HIDE DEF q
  <2>4. t[i][1] = e /\ Tail(t[i]) = q
    <3> HIDE DEF e
    <3>1. (<<e>> \o q)[1] = e /\ Tail(<<e>> \o q) = q
      BY <2>3, PrependedParts
    <3>. QED BY <2>2, <3>1
  <2>5. FirstLine(t[i]) = <<>>
    BY <2>4, StrippedEmpty DEF FirstLine
  <2>6. MoreLines(t[i]) = Stripped(StripAll(q), {<<>>})
    BY <2>4 DEF MoreLines
  <2>7. Stripped(StripAll(q), {<<>>}) = Joined(FirstLine(q), MoreLines(q))
    BY <1>3, <2>2
  <2>. QED BY <1>4, <2>1, <2>5, <2>6, <2>7 DEF q
<1>9. ASSUME NEW i \in 1..N, s[i] # Newline
      PROVE  /\ r[i] = r[i+1]
             /\ h[i] = IF h[i+1] # <<>> \/ s[i] \notin Blank THEN <<s[i]>> \o h[i+1] ELSE <<>>
  <2>1. i \in 1..(N+1) /\ i + 1 \in 1..(N+1)
    BY <1>2
  <2> DEFINE q == t[i+1]
             c == s[i]
             e == <<c>> \o q[1]
  <2>2. q \in LL /\ t[i] = [q EXCEPT ![1] = e]
    BY <1>2, <1>9, <2>1 DEF LineBefore
  <2>3. c \in Chars
    BY <1>2
  <2> HIDE DEF q, c
  <2>4. q \in Seq(Seq(Chars)) /\ Len(q) \in Nat /\ 1 \in 1..Len(q) /\ q[1] \in Seq(Chars)
    BY <2>2
  <2>5. e \in Seq(Chars)
    BY <2>3, <2>4, PrependType
  <2>6. FirstLine(t[i]) = IF FirstLine(q) # <<>> \/ c \notin Blank
                          THEN <<c>> \o FirstLine(q) ELSE <<>>
    <3>1. t[i][1] = e
      <4> HIDE DEF e
      <4>. QED BY <2>2, <2>4
    <3>2. Stripped(e, Blank) = IF Stripped(q[1], Blank) # <<>> \/ c \notin Blank
                               THEN <<c>> \o Stripped(q[1], Blank) ELSE <<>>
      <4> DEFINE v == q[1]
      <4>1. v \in Seq(Chars)
        BY <2>4
      <4> HIDE DEF v
      <4>2. Stripped(<<c>> \o v, Blank) = IF Stripped(v, Blank) # <<>> \/ c \notin Blank
                                          THEN <<c>> \o Stripped(v, Blank) ELSE <<>>
        BY ONLY <2>3, <4>1, StrippedPrepend
      <4>. QED BY <4>2 DEF v
    <3>. QED BY <3>1, <3>2 DEF FirstLine
  <2> HIDE DEF e
  <2>7. Tail(t[i]) = Tail(q)
    <3> DEFINE p == t[i]
    <3>1. p \in Seq(Seq(Chars)) /\ Len(p) = Len(q) /\ \A k \in 2..Len(q) : p[k] = q[k]
      <4>1. p \in Seq(Seq(Chars))
        BY <2>2, <2>4, <2>5, ExceptType
      <4>2. Len(p) = Len(q) /\ \A k \in 2..Len(q) : p[k] = q[k]
        BY <2>2, <2>4
      <4>. QED BY <4>1, <4>2
    <3> HIDE DEF p
    <3>2. p # <<>> /\ q # <<>>
      BY <2>4, <3>1
    <3>3. /\ Tail(p) \in Seq(Seq(Chars)) /\ Len(Tail(p)) = Len(p) - 1
          /\ \A k \in 1..Len(Tail(p)) : Tail(p)[k] = p[k+1]
      BY <3>1, <3>2, HeadTailProperties
    <3>4. /\ Tail(q) \in Seq(Seq(Chars)) /\ Len(Tail(q)) = Len(q) - 1
          /\ \A k \in 1..Len(Tail(q)) : Tail(q)[k] = q[k+1]
      BY <2>4, <3>2, HeadTailProperties
    <3> DEFINE u == Tail(p)
               v == Tail(q)
    <3> HIDE DEF u, v
    <3>5. u \in Seq(Seq(Chars)) /\ v \in Seq(Seq(Chars)) /\ Len(u) = Len(v)
      BY <3>1, <3>3, <3>4 DEF u, v
    <3>6. ASSUME NEW k \in 1..Len(u) PROVE u[k] = v[k]
      <4>1. k \in 1..Len(Tail(p)) /\ k \in 1..Len(Tail(q))
        BY <3>5 DEF u, v
      <4>2. k + 1 \in 2..Len(q)
        BY <2>4, <3>4, <4>1
      <4>. QED BY <3>1, <3>3, <3>4, <4>1, <4>2 DEF u, v
    <3>7. u = v
      BY <3>5, <3>6, SeqEqual
    <3>. QED BY <3>7 DEF u, v, p
  <2>8. MoreLines(t[i]) = MoreLines(q)
    BY <2>7 DEF MoreLines
  <2>. QED BY <1>4, <2>1, <2>6, <2>8 DEF q, c
<1>10. LayoutRows(s, h, r)
  BY <1>5, <1>7, <1>8, <1>9 DEF LayoutRows
<1>. QED BY <1>6, <1>10

\* A word follows in the text, and in the line.
HasWord(s, i) == \E j \in i..Len(s) : s[j] \notin Blank

HasWordInLine(s, i) ==
  \E j \in i..Len(s) : s[j] \notin Blank /\ \A k \in i..j : s[k] # Newline

\* What is left of a line, or of the lines, is what has a word before its end.
LEMMA WordsAreLeft ==
  ASSUME NEW s \in Seq(Chars), NEW h, NEW r, LayoutRows(s, h, r)
  PROVE  \A i \in 1..(Len(s) + 1) : /\ h[i] # <<>> <=> HasWordInLine(s, i)
                                    /\ h[i] # <<>> \/ r[i] # <<>> <=> HasWord(s, i)
<1> DEFINE N == Len(s)
           Fine == {i \in 1..(N+1) : /\ h[i] # <<>> <=> HasWordInLine(s, i)
                                     /\ h[i] # <<>> \/ r[i] # <<>> <=> HasWord(s, i)}
<1>1. N \in Nat /\ \A i \in 1..N : s[i] \in Chars
  BY LenProperties
<1>2. /\ \A i \in 1..(N+1) : h[i] \in Seq(Chars) /\ r[i] \in Seq(Seq(Chars))
      /\ h[N+1] = <<>> /\ r[N+1] = <<>>
      /\ \A i \in 1..N : s[i] = Newline => h[i] = <<>> /\ r[i] = Joined(h[i+1], r[i+1])
      /\ \A i \in 1..N : s[i] # Newline =>
           /\ r[i] = r[i+1]
           /\ h[i] = IF h[i+1] # <<>> \/ s[i] \notin Blank THEN <<s[i]>> \o h[i+1] ELSE <<>>
  BY DEF LayoutRows
<1>3. N + 1 \in Fine
  BY <1>1, <1>2 DEF HasWord, HasWordInLine
<1>4. ASSUME NEW i \in 1..N, i + 1 \in Fine PROVE i \in Fine
  <2>1. i \in 1..(N+1) /\ i + 1 \in 1..(N+1)
    BY <1>1
  <2>2. h[i+1] # <<>> <=> HasWordInLine(s, i+1)
    BY <1>4
  <2>3. h[i+1] # <<>> \/ r[i+1] # <<>> <=> HasWord(s, i+1)
    BY <1>4
  <2>4. HasWord(s, i) <=> s[i] \notin Blank \/ HasWord(s, i+1)
    BY <1>1 DEF HasWord
  <2>5. ASSUME s[i] \notin Blank PROVE HasWordInLine(s, i)
    <3>1. i \in i..N /\ \A k \in i..i : k = i
      BY <1>1
    <3>2. s[i] # Newline
      BY <2>5 DEF Blank
    <3>. QED BY <2>5, <3>1, <3>2 DEF HasWordInLine
  <2>6. s[i] = Newline => ~HasWordInLine(s, i)
    BY <1>1 DEF HasWordInLine
  <2>7. ASSUME s[i] # Newline, HasWordInLine(s, i+1) PROVE HasWordInLine(s, i)
    <3>1. PICK j \in (i+1)..N : s[j] \notin Blank /\ \A k \in (i+1)..j : s[k] # Newline
      BY <2>7 DEF HasWordInLine
    <3>2. j \in i..N
      BY <1>1, <3>1
    <3>3. ASSUME NEW k \in i..j PROVE s[k] # Newline
      <4>1. k = i \/ k \in (i+1)..j
        BY <1>1, <3>1
      <4>. QED BY <2>7, <3>1, <4>1
    <3>. QED BY <3>1, <3>2, <3>3 DEF HasWordInLine
  <2>8. ASSUME s[i] \in Blank, HasWordInLine(s, i) PROVE HasWordInLine(s, i+1)
    <3>1. PICK j \in i..N : s[j] \notin Blank /\ \A k \in i..j : s[k] # Newline
      BY <2>8 DEF HasWordInLine
    <3>2. j # i
      BY <2>8, <3>1
    <3>3. j \in (i+1)..N /\ \A k \in (i+1)..j : k \in i..j
      BY <1>1, <3>1, <3>2
    <3>. QED BY <3>1, <3>3 DEF HasWordInLine
  <2>9. ASSUME NEW q \in Seq(Chars) PROVE <<s[i]>> \o q # <<>>
    BY <1>1, PrependType
  <2>10. ASSUME NEW e \in Seq(Chars), NEW q \in Seq(Seq(Chars)) PROVE <<e>> \o q # <<>>
    BY PrependType
  <2> HIDE DEF Fine
  <2>11. CASE s[i] = Newline
    <3>1. h[i] = <<>> /\ r[i] = Joined(h[i+1], r[i+1])
      BY <1>2, <2>11
    <3>2. r[i] # <<>> <=> h[i+1] # <<>> \/ r[i+1] # <<>>
      <4> DEFINE e == h[i+1]
                 q == r[i+1]
      <4>1. e \in Seq(Chars) /\ q \in Seq(Seq(Chars))
        BY <1>2, <2>1
      <4> HIDE DEF e, q
      <4>2. Joined(e, q) # <<>> <=> e # <<>> \/ q # <<>>
        BY <2>10, <4>1 DEF Joined
      <4>. QED BY <3>1, <4>2 DEF e, q
    <3>3. s[i] \in Blank
      BY <2>11 DEF Blank
    <3>4. h[i] # <<>> <=> HasWordInLine(s, i)
      BY <2>6, <2>11, <3>1
    <3>5. h[i] # <<>> \/ r[i] # <<>> <=> HasWord(s, i)
      BY <2>3, <2>4, <3>1, <3>2, <3>3
    <3>. QED BY <2>1, <3>4, <3>5 DEF Fine
  <2>12. CASE s[i] # Newline
    <3>1. /\ r[i] = r[i+1]
          /\ h[i] = IF h[i+1] # <<>> \/ s[i] \notin Blank THEN <<s[i]>> \o h[i+1] ELSE <<>>
      BY <1>2, <2>12
    <3>2. h[i] # <<>> <=> h[i+1] # <<>> \/ s[i] \notin Blank
      <4>1. <<s[i]>> \o h[i+1] # <<>>
        BY <1>2, <2>1, <2>9
      <4>. QED BY <3>1, <4>1
    <3>3. h[i] # <<>> <=> HasWordInLine(s, i)
      BY <2>2, <2>5, <2>7, <2>8, <2>12, <3>2
    <3>4. h[i] # <<>> \/ r[i] # <<>> <=> HasWord(s, i)
      BY <2>3, <2>4, <3>1, <3>2
    <3>. QED BY <2>1, <3>3, <3>4 DEF Fine
  <2>. QED BY <2>11, <2>12
<1> HIDE DEF Fine
<1>5. \A i \in 1..(N+1) : i \in Fine
  BY <1>1, <1>3, <1>4, AllFromEnd
<1>. QED BY <1>5 DEF Fine

\* A character is shown just if it adds to the layout.
LEMMA WhatIsShown ==
  ASSUME NEW s \in Seq(Chars), NEW h, NEW r, LayoutRows(s, h, r), NEW i \in 1..Len(s)
  PROVE  Shown(s, i) <=> IF s[i] = Newline THEN h[i+1] # <<>> \/ r[i+1] # <<>>
                         ELSE h[i+1] # <<>> \/ s[i] \notin Blank
<1>1. Len(s) \in Nat /\ i \in 1..(Len(s)+1) /\ i + 1 \in 1..(Len(s)+1)
  BY LenProperties
<1>2. /\ h[i] # <<>> <=> HasWordInLine(s, i)
      /\ h[i+1] # <<>> <=> HasWordInLine(s, i+1)
      /\ h[i+1] # <<>> \/ r[i+1] # <<>> <=> HasWord(s, i+1)
  BY <1>1, WordsAreLeft
<1>3. CASE s[i] = Newline
  <2>1. Shown(s, i) <=> HasWord(s, i)
    BY <1>3 DEF Shown, HasWord
  <2>2. s[i] \in Blank
    BY <1>3 DEF Blank
  <2>3. HasWord(s, i) <=> HasWord(s, i+1)
    BY <1>1, <2>2 DEF HasWord
  <2>. QED BY <1>2, <1>3, <2>1, <2>3
<1>4. CASE s[i] # Newline
  <2>1. Shown(s, i) <=> HasWordInLine(s, i)
    BY <1>4 DEF Shown, HasWordInLine
  <2>2. h[i] = IF h[i+1] # <<>> \/ s[i] \notin Blank THEN <<s[i]>> \o h[i+1] ELSE <<>>
    BY <1>4 DEF LayoutRows
  <2>3. <<s[i]>> \o h[i+1] # <<>>
    <3>1. h \in [1..(Len(s) + 1) -> Seq(Chars)]
      BY DEF LayoutRows
    <3>2. s[i] \in Chars /\ h[i+1] \in Seq(Chars)
      BY <1>1, <3>1
    <3>. QED BY <3>2, PrependType
  <2>. QED BY <1>2, <1>4, <2>1, <2>2, <2>3
<1>. QED BY <1>3, <1>4

\* The lines of a layout are its own.
LEMMA JoinedInjective ==
  ASSUME NEW h \in Seq(Chars), NEW r \in Seq(Seq(Chars)),
         NEW g \in Seq(Chars), NEW q \in Seq(Seq(Chars)),
         Joined(h, r) = Joined(g, q)
  PROVE  h = g /\ r = q
<1>1. <<h>> \o r # <<>> /\ <<g>> \o q # <<>>
  BY PrependType
<1>2. CASE h # <<>> \/ r # <<>>
  <2>1. <<h>> \o r = <<g>> \o q
    BY <1>1, <1>2 DEF Joined
  <2>2. (<<h>> \o r)[1] = h /\ Tail(<<h>> \o r) = r
    BY PrependedParts
  <2>3. (<<g>> \o q)[1] = g /\ Tail(<<g>> \o q) = q
    BY PrependedParts
  <2>. QED BY <2>1, <2>2, <2>3
<1>3. CASE h = <<>> /\ r = <<>>
  <2>1. g = <<>> /\ q = <<>>
    BY <1>1, <1>3 DEF Joined
  <2>. QED BY <1>3, <2>1
<1>. QED BY <1>2, <1>3

\* One more position: what is shown is added to a layout, and nothing else changes it.
LayoutStep(s, h, r, i) ==
  /\ ~Shown(s, i) => h[i] = h[i+1] /\ r[i] = r[i+1]
  /\ Shown(s, i) => h[i] # <<>> \/ r[i] # <<>>
  /\ Shown(s, i) /\ s[i] = Newline => h[i] = <<>> /\ r[i] = Joined(h[i+1], r[i+1])
  /\ Shown(s, i) /\ s[i] # Newline => /\ h[i] = <<s[i]>> \o h[i+1] /\ h[i] # <<>>
                                      /\ r[i] = r[i+1]

LEMMA LayoutGrows ==
  ASSUME NEW s \in Seq(Chars), NEW h, NEW r, LayoutRows(s, h, r), NEW i \in 1..Len(s)
  PROVE  LayoutStep(s, h, r, i)
<1>1. Len(s) \in Nat /\ i \in 1..(Len(s)+1) /\ i + 1 \in 1..(Len(s)+1) /\ s[i] \in Chars
  BY LenProperties
<1> DEFINE e == h[i+1]
           q == r[i+1]
<1>2. /\ e \in Seq(Chars) /\ q \in Seq(Seq(Chars))
      /\ s[i] = Newline => h[i] = <<>> /\ r[i] = Joined(e, q)
      /\ s[i] # Newline =>
           r[i] = q /\ h[i] = IF e # <<>> \/ s[i] \notin Blank THEN <<s[i]>> \o e ELSE <<>>
  BY <1>1 DEF LayoutRows
<1>3. Shown(s, i) <=> IF s[i] = Newline THEN e # <<>> \/ q # <<>>
                      ELSE e # <<>> \/ s[i] \notin Blank
  BY WhatIsShown
<1> HIDE DEF e, q
<1>4. <<s[i]>> \o e # <<>> /\ <<e>> \o q # <<>>
  BY <1>1, <1>2, PrependType
<1>5. CASE s[i] = Newline
  <2>1. Joined(e, q) = IF e # <<>> \/ q # <<>> THEN <<e>> \o q ELSE <<>>
    BY DEF Joined
  <2>2. ~Shown(s, i) => h[i] = e /\ r[i] = q
    BY <1>2, <1>3, <1>5, <2>1
  <2>3. Shown(s, i) => r[i] # <<>>
    BY <1>2, <1>3, <1>4, <1>5, <2>1
  <2>. QED BY <1>2, <1>5, <2>2, <2>3 DEF e, q, LayoutStep
<1>6. CASE s[i] # Newline
  <2>1. ~Shown(s, i) => h[i] = e /\ r[i] = q
    BY <1>2, <1>3, <1>6
  <2>2. Shown(s, i) => h[i] = <<s[i]>> \o e /\ h[i] # <<>> /\ r[i] = q
    BY <1>2, <1>3, <1>4, <1>6
  <2>. QED BY <1>6, <2>1, <2>2 DEF e, q, LayoutStep
<1>. QED BY <1>5, <1>6

\* The positions of what is shown.
ShownAt(s) == {i \in DOMAIN s : Shown(s, i)}

\* Two layouts of one more position each.
LEMMA LayoutsInjective ==
  ASSUME NEW a \in Seq(Chars), NEW ha, NEW ra, LayoutRows(a, ha, ra),
         NEW e \in Seq(Chars), NEW he, NEW re, LayoutRows(e, he, re),
         NEW i \in ShownAt(a), NEW j \in ShownAt(e)
  PROVE  (ha[i] = he[j] /\ ra[i] = re[j])
           <=> (a[i] = e[j] /\ ha[i+1] = he[j+1] /\ ra[i+1] = re[j+1])
<1>1. /\ i \in 1..Len(a) /\ j \in 1..Len(e) /\ Shown(a, i) /\ Shown(e, j)
      /\ Len(a) \in Nat /\ Len(e) \in Nat
  BY LenProperties DEF ShownAt
<1>2. i + 1 \in 1..(Len(a)+1) /\ j + 1 \in 1..(Len(e)+1)
  BY <1>1
<1> DEFINE h == ha[i+1]
           r == ra[i+1]
           g == he[j+1]
           q == re[j+1]
           c == a[i]
           d == e[j]
<1>3. h \in Seq(Chars) /\ r \in Seq(Seq(Chars)) /\ c \in Chars
  <2>1. ha \in [1..(Len(a) + 1) -> Seq(Chars)] /\ ra \in [1..(Len(a) + 1) -> Seq(Seq(Chars))]
    BY DEF LayoutRows
  <2>2. h \in Seq(Chars) /\ r \in Seq(Seq(Chars))
    BY <1>2, <2>1
  <2>3. c \in Chars
    BY <1>1
  <2>. QED BY <2>2, <2>3
<1>4. g \in Seq(Chars) /\ q \in Seq(Seq(Chars)) /\ d \in Chars
  <2>1. he \in [1..(Len(e) + 1) -> Seq(Chars)] /\ re \in [1..(Len(e) + 1) -> Seq(Seq(Chars))]
    BY DEF LayoutRows
  <2>2. g \in Seq(Chars) /\ q \in Seq(Seq(Chars))
    BY <1>2, <2>1
  <2>3. d \in Chars
    BY <1>1
  <2>. QED BY <2>2, <2>3
<1>5. /\ c = Newline => ha[i] = <<>> /\ ra[i] = Joined(h, r)
      /\ c # Newline => ha[i] = <<c>> \o h /\ ha[i] # <<>> /\ ra[i] = r
  BY <1>1, LayoutGrows DEF LayoutStep
<1>6. /\ d = Newline => he[j] = <<>> /\ re[j] = Joined(g, q)
      /\ d # Newline => he[j] = <<d>> \o g /\ he[j] # <<>> /\ re[j] = q
  BY <1>1, LayoutGrows DEF LayoutStep
<1> HIDE DEF h, r, g, q, c, d
<1>7. ASSUME Joined(h, r) = Joined(g, q) PROVE h = g /\ r = q
  BY ONLY <1>3, <1>4, <1>7, JoinedInjective
<1>8. ASSUME <<c>> \o h = <<d>> \o g PROVE c = d /\ h = g
  <2>1. c \in Chars /\ d \in Chars /\ h \in Seq(Chars) /\ g \in Seq(Chars)
    BY <1>3, <1>4
  <2>2. <<c>> \o h = <<d>> \o g
    BY <1>8
  <2>. QED BY ONLY <2>1, <2>2, PrependInjective
<1>9. (ha[i] = he[j] /\ ra[i] = re[j]) <=> (c = d /\ h = g /\ r = q)
  <2>1. CASE c = Newline /\ d = Newline
    BY <1>5, <1>6, <1>7, <2>1
  <2>2. CASE c # Newline /\ d # Newline
    BY <1>5, <1>6, <1>8, <2>2
  <2>3. CASE ~(c = Newline <=> d = Newline)
    BY <1>5, <1>6, <2>3
  <2>. QED BY <2>1, <2>2, <2>3
<1>. QED BY <1>9 DEF h, r, g, q, c, d

\* Texts of the same layout are those of which the same is shown.
LEMMA LayoutIsShown ==
  ASSUME NEW a \in Seq(Chars), NEW e \in Seq(Chars)
  PROVE  Normalize(a) = Normalize(e) <=> ShownText(a) = ShownText(e)
<1> DEFINE n == Len(a)
           m == Len(e)
           A == ShownAt(a)
           E == ShownAt(e)
<1>1. /\ n \in Nat /\ m \in Nat
      /\ DOMAIN a = 1..n /\ DOMAIN e = 1..m
      /\ A \in SUBSET (1..n) /\ E \in SUBSET (1..m)
  BY LenProperties DEF ShownAt
<1>2. PICK ha, ra : LayoutRows(a, ha, ra) /\ Normalize(a) = Joined(ha[1], ra[1])
  BY LayoutOf
<1>3. PICK he, re : LayoutRows(e, he, re) /\ Normalize(e) = Joined(he[1], re[1])
  BY LayoutOf
<1>4. ShownText(a) = ElementsAt(a, A) /\ ShownText(e) = ElementsAt(e, E)
  BY DEF ShownText, ShownAt
<1>5. PICK wa : ElementTable(wa, a, A, Chars) /\ ShownText(a) = wa[1]
  BY <1>4, ElementsFrom
<1>6. PICK we : ElementTable(we, e, E, Chars) /\ ShownText(e) = we[1]
  BY <1>4, ElementsFrom
<1> DEFINE ya == [i \in 1..(n+1) |-> <<ha[i], ra[i]>>]
           ye == [j \in 1..(m+1) |-> <<he[j], re[j]>>]
<1>7. /\ \A i \in 1..(n+1) : ya[i] = <<ha[i], ra[i]>>
      /\ \A j \in 1..(m+1) : ye[j] = <<he[j], re[j]>>
  OBVIOUS
<1>8. /\ ha \in [1..(n+1) -> Seq(Chars)] /\ ra \in [1..(n+1) -> Seq(Seq(Chars))]
      /\ he \in [1..(m+1) -> Seq(Chars)] /\ re \in [1..(m+1) -> Seq(Seq(Chars))]
      /\ ha[n+1] = <<>> /\ ra[n+1] = <<>> /\ he[m+1] = <<>> /\ re[m+1] = <<>>
  BY <1>2, <1>3 DEF LayoutRows
<1>9. /\ wa[n+1] = <<>>
      /\ \A i \in (1..n) \ A : wa[i] = wa[i+1]
      /\ \A i \in A : /\ wa[i] = <<a[i]>> \o wa[i+1] /\ wa[i] # <<>>
                      /\ a[i] \in Chars /\ wa[i+1] \in Seq(Chars)
  <2>1. /\ wa[Len(a)+1] = <<>>
        /\ \A i \in (1..Len(a)) \ A : wa[i] = wa[i+1]
        /\ \A i \in A : wa[i] = <<a[i]>> \o wa[i+1] /\ wa[i] # <<>>
        /\ \A i \in A : a[i] \in Chars /\ wa[i+1] \in Seq(Chars)
    <3>1. A \in SUBSET (1..Len(a))
      BY <1>1
    <3> HIDE DEF A
    <3>. QED BY <1>5, <3>1, ElementsGrow
  <2>. QED BY <2>1
<1>10. /\ we[m+1] = <<>>
       /\ \A j \in (1..m) \ E : we[j] = we[j+1]
       /\ \A j \in E : /\ we[j] = <<e[j]>> \o we[j+1] /\ we[j] # <<>>
                       /\ e[j] \in Chars /\ we[j+1] \in Seq(Chars)
  <2>1. /\ we[Len(e)+1] = <<>>
        /\ \A j \in (1..Len(e)) \ E : we[j] = we[j+1]
        /\ \A j \in E : we[j] = <<e[j]>> \o we[j+1] /\ we[j] # <<>>
        /\ \A j \in E : e[j] \in Chars /\ we[j+1] \in Seq(Chars)
    <3>1. E \in SUBSET (1..Len(e))
      BY <1>1
    <3> HIDE DEF E
    <3>. QED BY <1>6, <3>1, ElementsGrow
  <2>. QED BY <2>1
<1>11. /\ \A i \in (1..n) \ A : ~Shown(a, i)
       /\ \A i \in A : Shown(a, i)
       /\ \A j \in (1..m) \ E : ~Shown(e, j)
       /\ \A j \in E : Shown(e, j)
  BY <1>1 DEF ShownAt
<1>12. /\ \A i \in (1..n) \ A : ha[i] = ha[i+1] /\ ra[i] = ra[i+1]
       /\ \A i \in A : ha[i] # <<>> \/ ra[i] # <<>>
  <2>1. LayoutRows(a, ha, ra)
    BY <1>2
  <2>2. \A i \in 1..Len(a) : LayoutStep(a, ha, ra, i)
    BY <2>1, LayoutGrows
  <2>3. \A i \in 1..Len(a) : /\ ~Shown(a, i) => ha[i] = ha[i+1] /\ ra[i] = ra[i+1]
                             /\ Shown(a, i) => ha[i] # <<>> \/ ra[i] # <<>>
    BY <2>2 DEF LayoutStep
  <2> HIDE DEF A
  <2>. QED BY <1>1, <1>11, <2>3
<1>13. /\ \A j \in (1..m) \ E : he[j] = he[j+1] /\ re[j] = re[j+1]
       /\ \A j \in E : he[j] # <<>> \/ re[j] # <<>>
  <2>1. LayoutRows(e, he, re)
    BY <1>3
  <2>2. \A j \in 1..Len(e) : LayoutStep(e, he, re, j)
    BY <2>1, LayoutGrows
  <2>3. \A j \in 1..Len(e) : /\ ~Shown(e, j) => he[j] = he[j+1] /\ re[j] = re[j+1]
                             /\ Shown(e, j) => he[j] # <<>> \/ re[j] # <<>>
    BY <2>2 DEF LayoutStep
  <2> HIDE DEF E
  <2>. QED BY <1>1, <1>11, <2>3
<1>14. \A i \in A, j \in E : (ha[i] = he[j] /\ ra[i] = re[j])
           <=> (a[i] = e[j] /\ ha[i+1] = he[j+1] /\ ra[i+1] = re[j+1])
  BY <1>2, <1>3, LayoutsInjective
<1>15. ASSUME NEW i \in A, NEW j \in E
       PROVE  wa[i] = we[j] <=> a[i] = e[j] /\ wa[i+1] = we[j+1]
  <2> DEFINE c == a[i]
             d == e[j]
             p == wa[i+1]
             q == we[j+1]
  <2>1. c \in Chars /\ d \in Chars /\ p \in Seq(Chars) /\ q \in Seq(Chars)
    BY <1>9, <1>10
  <2>2. wa[i] = <<c>> \o p /\ we[j] = <<d>> \o q
    BY <1>9, <1>10
  <2> HIDE DEF c, d, p, q
  <2>3. ASSUME <<c>> \o p = <<d>> \o q PROVE c = d /\ p = q
    BY ONLY <2>1, <2>3, PrependInjective
  <2>4. wa[i] = we[j] <=> c = d /\ p = q
    BY <2>2, <2>3
  <2>. QED BY <2>4 DEF c, d, p, q
<1> HIDE DEF ya, ye, n, m, A, E
<1>16. \A i \in 1..n : i \in 1..(n+1) /\ i + 1 \in 1..(n+1)
  BY <1>1
<1>17. \A j \in 1..m : j \in 1..(m+1) /\ j + 1 \in 1..(m+1)
  BY <1>1
<1>18. 1 \in 1..(n+1) /\ n + 1 \in 1..(n+1) /\ 1 \in 1..(m+1) /\ m + 1 \in 1..(m+1)
  BY <1>1
<1>19. wa[1] = we[1] <=> ya[1] = ye[1]
  <2>1. /\ wa[n+1] = we[m+1] /\ ya[n+1] = ye[m+1]
        /\ ya[n+1] = << <<>>, <<>> >> /\ ye[m+1] = << <<>>, <<>> >>
    <3>1. ya[n+1] = <<ha[n+1], ra[n+1]>> /\ ye[m+1] = <<he[m+1], re[m+1]>>
      BY <1>7, <1>18
    <3>2. ha[n+1] = <<>> /\ ra[n+1] = <<>> /\ he[m+1] = <<>> /\ re[m+1] = <<>>
      BY <1>8
    <3>3. ya[n+1] = << <<>>, <<>> >> /\ ye[m+1] = << <<>>, <<>> >>
      BY <3>1, <3>2
    <3>. QED BY <1>9, <1>10, <3>3
  <2>2. /\ \A i \in (1..n) \ A : wa[i] = wa[i+1] /\ ya[i] = ya[i+1]
        /\ \A j \in (1..m) \ E : we[j] = we[j+1] /\ ye[j] = ye[j+1]
    <3>1. \A i \in (1..n) \ A : ya[i] = ya[i+1]
      BY <1>7, <1>12, <1>16
    <3>2. \A j \in (1..m) \ E : ye[j] = ye[j+1]
      BY <1>7, <1>13, <1>17
    <3>. QED BY <1>9, <1>10, <3>1, <3>2
  <2>3. /\ \A i \in A : wa[i] # wa[n+1] /\ ya[i] # ya[n+1]
        /\ \A j \in E : we[j] # we[m+1] /\ ye[j] # ye[m+1]
    <3>1. \A i \in A : ya[i] # << <<>>, <<>> >>
      BY <1>1, <1>7, <1>12, <1>16
    <3>2. \A j \in E : ye[j] # << <<>>, <<>> >>
      BY <1>1, <1>7, <1>13, <1>17
    <3>. QED BY <1>9, <1>10, <2>1, <3>1, <3>2
  <2>4. \A i \in A, j \in E :
          /\ wa[i] = we[j] <=> a[i] = e[j] /\ wa[i+1] = we[j+1]
          /\ ya[i] = ye[j] <=> a[i] = e[j] /\ ya[i+1] = ye[j+1]
    <3>. SUFFICES ASSUME NEW i \in A, NEW j \in E
                  PROVE  ya[i] = ye[j] <=> a[i] = e[j] /\ ya[i+1] = ye[j+1]
      BY <1>15
    <3>1. i \in 1..(n+1) /\ i + 1 \in 1..(n+1) /\ j \in 1..(m+1) /\ j + 1 \in 1..(m+1)
      BY <1>1, <1>16, <1>17
    <3>2. /\ ya[i] = <<ha[i], ra[i]>> /\ ya[i+1] = <<ha[i+1], ra[i+1]>>
          /\ ye[j] = <<he[j], re[j]>> /\ ye[j+1] = <<he[j+1], re[j+1]>>
      BY <1>7, <3>1
    <3>3. (ha[i] = he[j] /\ ra[i] = re[j])
            <=> (a[i] = e[j] /\ ha[i+1] = he[j+1] /\ ra[i+1] = re[j+1])
      BY <1>14
    <3>. QED BY <3>2, <3>3
  <2>5. TwinRows(n, wa, ya, a, A, m, we, ye, e, E)
    BY ONLY <1>1, <2>1, <2>2, <2>3, <2>4 DEF TwinRows
  <2>. QED BY ONLY <2>5, Twins
<1>20. Joined(ha[1], ra[1]) = Joined(he[1], re[1]) <=> ya[1] = ye[1]
  <2> DEFINE h == ha[1]
             r == ra[1]
             g == he[1]
             q == re[1]
  <2>1. h \in Seq(Chars) /\ r \in Seq(Seq(Chars)) /\ g \in Seq(Chars) /\ q \in Seq(Seq(Chars))
    BY <1>8, <1>18
  <2>2. ya[1] = <<h, r>> /\ ye[1] = <<g, q>>
    BY <1>7, <1>18
  <2> HIDE DEF h, r, g, q
  <2>3. ASSUME Joined(h, r) = Joined(g, q) PROVE h = g /\ r = q
    BY ONLY <2>1, <2>3, JoinedInjective
  <2>4. Joined(h, r) = Joined(g, q) <=> ya[1] = ye[1]
    BY <2>2, <2>3
  <2>. QED BY <2>4 DEF h, r, g, q
<1>. QED BY <1>2, <1>3, <1>5, <1>6, <1>19, <1>20

-----------------------------------------------------------------------------
(* What a checker is given, and numbers.                                   *)

\* What a checker may read: characters, the second half of a wide one, and lengths.
Bytes == STRING \cup {"continued", Newline} \cup Int

\* How str.encode() goes on at a character.
EncodeStep(s) == [p \in (1..Len(s)) \X Seq(Bytes) |->
                   p[2] \o (IF s[p[1]] \in Wide THEN <<s[p[1]], "continued">> ELSE <<s[p[1]]>>)]

\* A text is encoded as bytes.
LEMMA EncodeType ==
  ASSUME NEW s \in Seq(STRING)
  PROVE  Encode(s) \in Seq(Bytes)
<1> DEFINE N == Len(s)
           Byte(n) == IF s[n] \in Wide THEN <<s[n], "continued">> ELSE <<s[n]>>
           Def(F) == F = [n \in 0..N |-> IF n = 0 THEN <<>> ELSE F[n-1] \o Byte(n)]
<1>1. N \in Nat /\ N \in 0..N /\ <<>> \in Seq(Bytes)
  OBVIOUS
<1>2. \A n \in 1..N, q \in Seq(Bytes) : q \o Byte(n) \in Seq(Bytes)
  <2>. SUFFICES ASSUME NEW n \in 1..N, NEW q \in Seq(Bytes) PROVE q \o Byte(n) \in Seq(Bytes)
    OBVIOUS
  <2>1. s[n] \in Bytes /\ "continued" \in Bytes
    BY DEF Bytes
  <2>2. Byte(n) \in Seq(Bytes)
    <3>1. <<s[n]>> \in Seq(Bytes)
      BY <2>1
    <3>2. <<s[n], "continued">> \in Seq(Bytes)
      BY <2>1
    <3>. QED BY <3>1, <3>2
  <2>. QED BY <2>2, ConcatProperties
<1>3. EncodeStep(s) \in [(1..N) \X Seq(Bytes) -> Seq(Bytes)]
  BY <1>2 DEF EncodeStep
<1>4. \A F \in [0..N -> Seq(Bytes)] : Recursive(F, N, <<>>, EncodeStep(s)) => Def(F)
  <2>. TAKE F \in [0..N -> Seq(Bytes)]
  <2>1. ASSUME NEW n \in 0..N, n # 0 PROVE EncodeStep(s)[<<n, F[n-1]>>] = F[n-1] \o Byte(n)
    <3>1. n \in 1..N /\ n - 1 \in 0..N
      BY <2>1
    <3>2. <<n, F[n-1]>> \in (1..N) \X Seq(Bytes)
      BY <3>1
    <3>. QED BY <3>2 DEF EncodeStep
  <2>. QED BY <2>1 DEF Recursive
<1>5. \E F : Def(F)
  BY <1>1, <1>3, <1>4, RecursiveExists
<1> DEFINE b == CHOOSE F : Def(F)
<1>6. Def(b) /\ Encode(s) = b[N]
  BY <1>5 DEF Encode
<1> HIDE DEF b
<1>7. \A n \in 0..N : b[n] = IF n = 0 THEN <<>> ELSE b[n-1] \o Byte(n)
  BY <1>6
<1>8. \A n \in 0..N : b[n] \in Seq(Bytes)
  <2>1. \A n \in 1..N : b[n-1] \in Seq(Bytes) => b[n] \in Seq(Bytes)
    <3>. SUFFICES ASSUME NEW n \in 1..N, b[n-1] \in Seq(Bytes) PROVE b[n] \in Seq(Bytes)
      OBVIOUS
    <3>1. n \in 0..N /\ n # 0
      OBVIOUS
    <3> HIDE DEF Byte
    <3>. QED BY <1>2, <1>7, <3>1
  <2>2. b[0] = <<>>
    <3> HIDE DEF Byte
    <3>. QED BY <1>1, <1>7
  <2>3. b[0] \in Seq(Bytes)
    BY <1>1, <2>2
  <2>. QED BY <1>1, <2>1, <2>3, ValuesUpTo
<1>. QED BY <1>1, <1>6, <1>8

NumberKinds == {"word", "nan", "inf", "finite"}

\* float() of a token is a number of one of the kinds, of no value if it is none.
LEMMA FloatType ==
  ASSUME NEW t \in NonEmpty
  PROVE  \E k \in NumberKinds, v \in Int :
           /\ Float(t) = Number(k, v)
           /\ k \in {"word", "nan"} => v = 0
<1> DEFINE sign == IF t[1] = "-" THEN -1 ELSE 1
           body == IF t[1] = "-" THEN Tail(t) ELSE t
           N == Len(body)
           Def(F) == F = [n \in 0..N |-> IF n = 0 THEN 0 ELSE 10 * F[n-1] + Digit[body[n]]]
           d == CHOOSE F : Def(F)
<1>1. body \in Seq(STRING) /\ sign \in Int
  <2>1. t \in Seq(STRING) /\ t # <<>>
    BY DEF NonEmpty, Chars
  <2>2. Tail(t) \in Seq(STRING)
    BY <2>1, HeadTailProperties
  <2>3. body \in Seq(STRING)
    BY <2>1, <2>2
  <2> HIDE DEF body
  <2>. QED BY <2>3
<1>2. Float(t) = IF body = <<"nan">> THEN Number("nan", 0)
                 ELSE IF body = <<"inf">> THEN Number("inf", sign)
                 ELSE IF body = <<>> \/ ~ToSet(body) \subseteq DOMAIN Digit THEN Number("word", 0)
                 ELSE IF d[N] > MaxFloat THEN Number("inf", sign)
                 ELSE Number("finite", sign * d[N])
  BY DEF Float
<1> HIDE DEF sign
<1>3. ASSUME ToSet(body) \subseteq DOMAIN Digit PROVE d[N] \in Nat
  <2> HIDE DEF body
  <2> DEFINE step == [p \in (1..N) \X Nat |-> 10 * p[2] + Digit[body[p[1]]]]
  <2>1. N \in Nat /\ N \in 0..N
    BY <1>1
  <2>2. \A n \in 1..N : Digit[body[n]] \in Nat
    <3>1. \A n \in 1..N : body[n] \in DOMAIN Digit
      BY <1>1, <1>3, QueueView
    <3>2. \A c \in DOMAIN Digit : Digit[c] \in Nat
      BY DEF Digit
    <3>. QED BY <3>1, <3>2
  <2>3. step \in [(1..N) \X Nat -> Nat]
    BY <2>2
  <2>4. \A F \in [0..N -> Nat] : Recursive(F, N, 0, step) => Def(F)
    <3>. TAKE F \in [0..N -> Nat]
    <3>1. ASSUME NEW n \in 0..N, n # 0 PROVE step[<<n, F[n-1]>>] = 10 * F[n-1] + Digit[body[n]]
      <4>1. n \in 1..N /\ n - 1 \in 0..N
        BY <3>1, <2>1
      <4>2. <<n, F[n-1]>> \in (1..N) \X Nat
        BY <4>1
      <4>. QED BY <4>2
    <3> HIDE DEF step
    <3>. QED BY <3>1 DEF Recursive
  <2> HIDE DEF step
  <2>5. \E F : Def(F)
    BY <2>1, <2>3, <2>4, RecursiveExists
  <2>6. Def(d)
    BY <2>5
  <2> HIDE DEF d
  <2>7. \A n \in 0..N : d[n] = IF n = 0 THEN 0 ELSE 10 * d[n-1] + Digit[body[n]]
    BY <2>6
  <2>8. \A n \in 1..N : d[n-1] \in Nat => d[n] \in Nat
    <3>. SUFFICES ASSUME NEW n \in 1..N, d[n-1] \in Nat PROVE d[n] \in Nat
      OBVIOUS
    <3>1. n \in 0..N /\ n # 0
      BY <2>1
    <3>2. d[n] = 10 * d[n-1] + Digit[body[n]] /\ Digit[body[n]] \in Nat
      BY <2>2, <2>7, <3>1
    <3>. QED BY <3>2
  <2>9. d[0] \in Nat
    BY <2>1, <2>7
  <2>. QED BY <2>1, <2>8, <2>9, ValuesUpTo
<1> HIDE DEF d, body
<1>4. CASE body # <<>> /\ ToSet(body) \subseteq DOMAIN Digit
  <2>1. d[N] \in Nat
    BY <1>3, <1>4
  <2>2. sign * d[N] \in Int
    BY <1>1, <2>1
  <2>. QED BY <1>1, <1>2, <1>4, <2>2 DEF NumberKinds
<1>5. CASE ~(body # <<>> /\ ToSet(body) \subseteq DOMAIN Digit)
  BY <1>1, <1>2, <1>5 DEF NumberKinds
<1>. QED BY <1>4, <1>5

\* The two tests of compare_float() are the two tolerances.
LEMMA CloseIsTolerance ==
  ASSUME NEW a \in Int, NEW e \in Int
  PROVE  Close(a, e) <=> WithinTolerance(a, e)
<1>1. EpsNum \in Int /\ EpsDen \in Nat /\ EpsDen > 0
  BY OutputCheckAssumption DEF OutputCheckAssumption
<1> DEFINE A == a * EpsDen
           B == e * EpsDen
           R == EpsNum * Abs(e)
<1>2. A \in Int /\ B \in Int /\ R \in Int
  BY <1>1 DEF Abs
<1>3. Abs(a - e) * EpsDen = Abs(A - B)
  <2>1. (a - e) * EpsDen = A - B
    BY <1>1
  <2>2. CASE a - e < 0
    <3>1. A - B < 0 /\ (-(a - e)) * EpsDen = -(A - B)
      BY <1>1, <2>1, <2>2
    <3>. QED BY <2>2, <3>1 DEF Abs
  <2>3. CASE a - e >= 0
    <3>1. A - B >= 0
      BY <1>1, <2>1, <2>3
    <3>2. Abs(A - B) = A - B
      BY <1>2, <3>1 DEF Abs
    <3>3. Abs(a - e) = a - e
      BY <2>3 DEF Abs
    <3>. QED BY <2>1, <3>2, <3>3
  <2>. QED BY <2>2, <2>3
<1>4. Close(a, e) <=> \/ Abs(A - B) <= EpsNum
                      \/ e # 0 /\ Abs(A - B) <= R
  BY <1>3 DEF Close, Abs
<1>5. WithinTolerance(a, e) <=>
        \/ B - EpsNum <= A /\ A <= B + EpsNum
        \/ e # 0 /\ B - R <= A /\ A <= B + R
  BY DEF WithinTolerance
<1> HIDE DEF A, B, R
<1>. QED BY <1>1, <1>2, <1>4, <1>5 DEF Abs

\* What FloatsNear says of one token, and of all.
NearToken(act, exp) ==
  LET x == Float(act)
      y == Float(exp)
  IN IF x.kind = "finite" /\ y.kind = "finite"
     THEN WithinTolerance(x.value, y.value)
     ELSE x = y /\ (x.kind = "word" => act = exp)

\* One round of compare_float()'s loop does as FloatsNear says.
LEMMA MatchesIsNear ==
  ASSUME NEW act \in NonEmpty, NEW exp \in NonEmpty
  PROVE  Matches(act, exp) <=> NearToken(act, exp)
<1>1. PICK ka \in NumberKinds, va \in Int :
        Float(act) = Number(ka, va) /\ (ka \in {"word", "nan"} => va = 0)
  BY FloatType
<1>2. PICK ke \in NumberKinds, ve \in Int :
        Float(exp) = Number(ke, ve) /\ (ke \in {"word", "nan"} => ve = 0)
  BY FloatType
<1>3. /\ Float(act).kind = ka /\ Float(act).value = va
      /\ Float(exp).kind = ke /\ Float(exp).value = ve
      /\ Float(act) = Float(exp) <=> (ka = ke /\ va = ve)
  BY <1>1, <1>2 DEF Number
<1>4. Close(va, ve) <=> WithinTolerance(va, ve)
  BY CloseIsTolerance
<1>5. act = exp => ka = ke /\ va = ve
  BY <1>3
<1>6. Matches(act, exp) <=>
        \/ "word" \in {ka, ke} /\ act = exp
        \/ {ka, ke} = {"nan"}
        \/ {ka, ke} = {"inf"} /\ va = ve
        \/ {ka, ke} = {"finite"} /\ Close(va, ve)
  BY <1>3 DEF Matches
<1>7. NearToken(act, exp) <=>
        IF ka = "finite" /\ ke = "finite" THEN WithinTolerance(va, ve)
        ELSE ka = ke /\ va = ve /\ (ka = "word" => act = exp)
  BY <1>3 DEF NearToken
<1>. QED BY <1>1, <1>2, <1>4, <1>5, <1>6, <1>7 DEF NumberKinds

\* So does the whole loop.
LEMMA FloatsAreNear ==
  ASSUME NEW act \in Seq(STRING), NEW exp \in Seq(STRING)
  PROVE  CompareFloat(act, exp) <=>
           LET a == Tokens(act)
               e == Tokens(exp)
           IN Len(a) = Len(e) /\ \A i \in DOMAIN e : NearToken(a[i], e[i])
<1> DEFINE a == Tokens(act)
           e == Tokens(exp)
<1>1. a \in Seq(NonEmpty) /\ e \in Seq(NonEmpty)
  BY TokensType
<1>2. CompareFloat(act, exp) <=> Len(a) = Len(e) /\ \A i \in DOMAIN a : Matches(a[i], e[i])
  BY DEF CompareFloat
<1> HIDE DEF a, e
<1>3. CASE Len(a) = Len(e)
  <2>1. DOMAIN a = DOMAIN e /\ \A i \in DOMAIN a : a[i] \in NonEmpty /\ e[i] \in NonEmpty
    BY <1>1, <1>3
  <2>2. \A i \in DOMAIN a : Matches(a[i], e[i]) <=> NearToken(a[i], e[i])
    BY <2>1, MatchesIsNear
  <2>. QED BY <1>2, <1>3, <2>1, <2>2 DEF a, e
<1>4. CASE Len(a) # Len(e)
  BY <1>2, <1>4 DEF a, e
<1>. QED BY <1>3, <1>4

-----------------------------------------------------------------------------
(* The verdict of one test.                                                *)

\* The input of a checker.
AllSections == Section(input) \o Section(expected) \o Section(actual)

\* The case does not change; a verdict is that of the comparison or of the checker.
CheckTypeOK ==
  /\ config \in Configs
  /\ input \in Inputs
  /\ actual \in Outputs[config.type]
  /\ expected \in Outputs[config.type]
  /\ checker \in {"none", "running", "raised"} \cup Ends
Grounded ==
  /\ checker = "none" => verdict = "none" \/ (~Custom /\ verdict = Compared)
  /\ checker # "none" => Custom /\ stdin = AllSections
  /\ checker = "running" => verdict = "none"
  /\ checker = "raised" => verdict = "IE"
  /\ checker \in Ends => verdict = VerdictOfExit(ExitOf(checker))
CheckIInv == CheckTypeOK /\ Grounded

\* Nothing is checked yet.
LEMMA CheckInitHolds ==
  ASSUME CheckInit
  PROVE  CheckIInv
BY DEF CheckInit, CheckIInv, CheckTypeOK, Grounded, Ends

\* Every step leaves a verdict that has its ground.
LEMMA CheckStepKeeps ==
  ASSUME CheckIInv, [CheckNext]_checkVars
  PROVE  CheckIInv'
<1>. USE DEF CheckIInv
<1>0. ASSUME UNCHANGED <<config, input, actual, expected>>
      PROVE  /\ Custom' = Custom /\ Compared' = Compared /\ AllSections' = AllSections
             /\ (checker' \in {"none", "running", "raised"} \cup Ends => CheckTypeOK')
  BY <1>0 DEF Custom, Compared, AllSections, CheckTypeOK
<1>1. CASE Compare
  <2>1. UNCHANGED <<config, input, actual, expected>> /\ checker' = checker /\ stdin' = stdin
    BY <1>1 DEF Compare
  <2>2. /\ Custom' = Custom /\ Compared' = Compared /\ AllSections' = AllSections
        /\ CheckTypeOK'
    BY <1>0, <2>1 DEF CheckTypeOK
  <2>3. verdict = "none" /\ ~Custom /\ verdict' = Compared
    BY <1>1 DEF Compare
  <2>4. checker = "none"
    BY <2>3 DEF Grounded
  <2>. QED BY <2>1, <2>2, <2>3, <2>4 DEF Grounded, Ends
<1>2. CASE RunChecker
  BY <1>0, <1>2 DEF RunChecker, Grounded, CheckTypeOK, Ends, AllSections
<1>3. ASSUME NEW what \in Ends, CheckerEnds(what) PROVE CheckIInv'
  BY <1>0, <1>3 DEF CheckerEnds, Grounded, CheckTypeOK, Ends
<1>4. CASE CheckerRaises
  BY <1>0, <1>4 DEF CheckerRaises, Grounded, CheckTypeOK, Ends
<1>5. CASE UNCHANGED checkVars
  BY <1>0, <1>5 DEF checkVars, Grounded, CheckTypeOK
<1>. QED BY <1>1, <1>2, <1>3, <1>4, <1>5 DEF CheckNext

\* A verdict of _check_output() is the comparison's or the checker's, and a checker is
\* given the three sections.
THEOREM CheckInvariance == CheckSpec => []CheckIInv
BY CheckInitHolds, CheckStepKeeps, PTL DEF CheckSpec

\* compare_float() accepts what is near enough, token by token, and nothing else, for
\* every epsilon, negative ones too.
THEOREM FloatComparisonIsNear == CheckSpec => []FloatsNear
<1>1. ASSUME CheckIInv PROVE FloatsNear
  <2>. SUFFICES ASSUME Judged, config.type = "float"
                PROVE  verdict = IF CompareFloat(actual, expected) THEN "OK" ELSE "WA"
    <3>1. actual \in Seq(STRING) /\ expected \in Seq(STRING)
      BY <1>1, OutputCheckAssumption DEF CheckIInv, CheckTypeOK, OutputCheckAssumption
    <3>2. CompareFloat(actual, expected) <=>
            LET a == Tokens(actual)
                e == Tokens(expected)
            IN Len(a) = Len(e) /\ \A i \in DOMAIN e : NearToken(a[i], e[i])
      BY <3>1, FloatsAreNear
    <3>. QED BY <3>2 DEF FloatsNear, NearToken
  <2>1. ~Custom
    BY DEF Custom
  <2>2. verdict = Compared
    BY <1>1, <2>1 DEF CheckIInv, Grounded, Judged
  <2>3. Compared = IF CompareFloat(actual, expected) THEN "OK" ELSE "WA"
    BY DEF Compared
  <2>. QED BY <2>2, <2>3
<1>. QED BY <1>1, CheckInvariance, PTL

\* _check_output() with the built-in comparison tells texts apart by what they show,
\* however long these are.
THEOREM ComparisonIsByWhatShows == CheckSpec => []TextsAgree
<1>1. ASSUME CheckIInv PROVE TextsAgree
  <2>. SUFFICES ASSUME Judged, ~Custom, config.type # "float"
                PROVE  verdict = IF Words(actual) # Words(expected) THEN "WA"
                                 ELSE IF config.type = "tokens" \/ ShownText(actual) = ShownText(expected)
                                      THEN "OK" ELSE "PE"
    BY DEF TextsAgree
  <2>1. actual \in Seq(Chars) /\ expected \in Seq(Chars)
    BY <1>1, OutputCheckAssumption DEF CheckIInv, CheckTypeOK, OutputCheckAssumption, Chars
  <2>2. Tokens(actual) = Tokens(expected) <=> Words(actual) = Words(expected)
    BY <2>1, TokensAreWords
  <2>3. Normalize(actual) = Normalize(expected) <=> ShownText(actual) = ShownText(expected)
    BY <2>1, LayoutIsShown
  <2>4. verdict = Compared
    BY <1>1 DEF CheckIInv, Grounded, Judged
  <2>5. Compared = IF config.type = "tokens"
                   THEN IF Tokens(actual) = Tokens(expected) THEN "OK" ELSE "WA"
                   ELSE IF Tokens(actual) # Tokens(expected) THEN "WA"
                   ELSE IF Normalize(actual) = Normalize(expected) THEN "OK" ELSE "PE"
    BY DEF Compared, CompareTokens, CompareStandard
  <2>. QED BY <2>2, <2>3, <2>4, <2>5
<1>. QED BY <1>1, CheckInvariance, PTL

\* _run_custom_checker() accepts only what the checker accepts, however it ends.
THEOREM CheckerHasTheLastWord == CheckSpec => []CheckerDecides
<1>1. ASSUME CheckIInv PROVE CheckerDecides
  <2>. SUFFICES ASSUME Judged, Custom
                PROVE  /\ verdict = "OK" <=> checker = "accepts"
                       /\ verdict = "PE" <=> checker = "misformatted"
    BY DEF CheckerDecides
  <2>1. checker \in {"raised"} \cup Ends
    BY <1>1 DEF CheckIInv, CheckTypeOK, Grounded, Judged
  <2>2. /\ checker = "raised" => verdict = "IE"
        /\ checker \in Ends => verdict = VerdictOfExit(ExitOf(checker))
    BY <1>1 DEF CheckIInv, Grounded
  <2>3. ASSUME NEW what \in Ends
        PROVE  LET said == VerdictOfExit(ExitOf(what))
               IN (said = "OK" <=> what = "accepts") /\ (said = "PE" <=> what = "misformatted")
    <3>1. CASE what = "accepts"
      BY <3>1 DEF ExitOf, VerdictOfExit
    <3>2. CASE what = "misformatted"
      BY <3>2 DEF ExitOf, VerdictOfExit
    <3>3. CASE what \notin {"accepts", "misformatted"}
      <4>1. ExitOf(what) \in {1, 3, 124, 139}
        BY <3>3 DEF ExitOf, Ends
      <4>2. VerdictOfExit(ExitOf(what)) = "WA"
        BY <4>1 DEF VerdictOfExit
      <4>. QED BY <3>3, <4>2
    <3>. QED BY <3>1, <3>2, <3>3
  <2>. QED BY <2>1, <2>2, <2>3 DEF Ends
<1>. QED BY <1>1, CheckInvariance, PTL

\* What is between two parts of a text is read back by its place.
LEMMA ReadSection ==
  ASSUME NEW front \in Seq(Bytes), NEW data \in Seq(Bytes), NEW behind \in Seq(Bytes)
  PROVE  LET text == front \o ((<<Len(data)>> \o data \o <<Newline>>) \o behind)
             at == Len(front) + 1
         IN /\ text[at] = Len(data)
            /\ SubSeq(text, at + 1, at + text[at]) = data
            /\ at + text[at] + 2 = Len(front \o (<<Len(data)>> \o data \o <<Newline>>)) + 1
<1> DEFINE n == Len(data)
           section == <<n>> \o data \o <<Newline>>
           text == front \o (section \o behind)
           at == Len(front) + 1
<1>1. n \in Nat /\ Len(front) \in Nat /\ n \in Bytes /\ Newline \in Bytes
  BY DEF Bytes
<1>2. <<n>> \in Seq(Bytes) /\ <<Newline>> \in Seq(Bytes)
  BY <1>1
<1>3. /\ <<n>> \o data \in Seq(Bytes)
      /\ Len(<<n>> \o data) = 1 + n
      /\ \A i \in 1..(1 + n) : (<<n>> \o data)[i] = IF i <= 1 THEN <<n>>[i] ELSE data[i - 1]
  BY <1>1, <1>2, ConcatProperties
<1>4. /\ section \in Seq(Bytes)
      /\ Len(section) = n + 2
      /\ \A i \in 1..(n + 2) :
           section[i] = IF i <= 1 + n THEN (<<n>> \o data)[i] ELSE <<Newline>>[i - (1 + n)]
  BY <1>1, <1>2, <1>3, ConcatProperties
<1>5. section[1] = n /\ \A i \in 1..n : section[i + 1] = data[i]
  <2>1. section[1] = (<<n>> \o data)[1] /\ (<<n>> \o data)[1] = n
    BY <1>1, <1>3, <1>4
  <2>2. ASSUME NEW i \in 1..n PROVE section[i + 1] = data[i]
    <3>1. i + 1 \in 1..(n + 2) /\ i + 1 <= 1 + n /\ i + 1 \in 1..(1 + n) /\ ~(i + 1 <= 1)
      BY <1>1
    <3> HIDE DEF section, n
    <3>2. section[i + 1] = (<<n>> \o data)[i + 1]
      BY <1>4, <3>1
    <3>3. (<<n>> \o data)[i + 1] = data[(i + 1) - 1]
      BY <1>3, <3>1
    <3>4. (i + 1) - 1 = i
      OBVIOUS
    <3>. QED BY <3>2, <3>3, <3>4
  <2>. QED BY <2>1, <2>2
<1> HIDE DEF section
<1> HIDE DEF n
<1>6. /\ section \o behind \in Seq(Bytes)
      /\ Len(section \o behind) = n + 2 + Len(behind) /\ Len(behind) \in Nat
      /\ \A i \in 1..(n + 2 + Len(behind)) :
           (section \o behind)[i] = IF i <= n + 2 THEN section[i] ELSE behind[i - (n + 2)]
  <2>1. /\ section \o behind \in Seq(Bytes)
        /\ Len(section \o behind) = Len(section) + Len(behind)
        /\ \A i \in 1..(Len(section) + Len(behind)) :
             (section \o behind)[i] = IF i <= Len(section) THEN section[i] ELSE behind[i - Len(section)]
    BY <1>4, ConcatProperties
  <2>2. Len(section) = n + 2 /\ Len(behind) \in Nat
    BY <1>4, LenProperties
  <2>. QED BY <2>1, <2>2
<1>7. /\ text \in Seq(Bytes)
      /\ Len(text) = Len(front) + (n + 2 + Len(behind))
      /\ \A i \in 1..(Len(front) + (n + 2 + Len(behind))) :
           text[i] = IF i <= Len(front) THEN front[i] ELSE (section \o behind)[i - Len(front)]
  <2> DEFINE back == section \o behind
  <2>1. back \in Seq(Bytes) /\ Len(back) = n + 2 + Len(behind)
    BY <1>6
  <2> HIDE DEF back, text
  <2>2. /\ front \o back \in Seq(Bytes)
        /\ Len(front \o back) = Len(front) + Len(back)
        /\ \A i \in 1..(Len(front) + Len(back)) :
             (front \o back)[i] = IF i <= Len(front) THEN front[i] ELSE back[i - Len(front)]
    <3>1. front \in Seq(Bytes) /\ back \in Seq(Bytes)
      BY <2>1
    <3>. QED BY ONLY <3>1, ConcatProperties
  <2>. QED BY <2>1, <2>2 DEF back, text
<1> HIDE DEF text
<1>8. ASSUME NEW i \in 1..(n + 2) PROVE text[Len(front) + i] = section[i]
  <2>1. /\ Len(front) + i \in 1..(Len(front) + (n + 2 + Len(behind)))
        /\ ~(Len(front) + i <= Len(front)) /\ (Len(front) + i) - Len(front) = i
        /\ i \in 1..(n + 2 + Len(behind)) /\ i <= n + 2
    BY <1>1, <1>6
  <2> HIDE DEF n
  <2>2. text[Len(front) + i] = (section \o behind)[i]
    BY <1>7, <2>1
  <2>. QED BY <1>6, <2>1, <2>2
<1>9. text[at] = n
  <2>1. 1 \in 1..(n + 2)
    BY <1>1
  <2>. QED BY <1>5, <1>8, <2>1
<1>10. SubSeq(text, at + 1, at + n) = data
  <2>1. ASSUME NEW i \in 1..n PROVE text[at + i] = data[i]
    <3>1. i + 1 \in 1..(n + 2) /\ Len(front) + (i + 1) = at + i
      BY <1>1
    <3>. QED BY <1>5, <1>8, <3>1
  <2> DEFINE b == SubSeq(text, at + 1, at + n)
  <2>2. \A j \in (at + 1)..(at + n) : text[j] \in Bytes
    BY <1>1, <1>6, <1>7
  <2>3. /\ b \in Seq(Bytes)
        /\ Len(b) = IF at + 1 <= at + n THEN (at + n) - (at + 1) + 1 ELSE 0
        /\ \A i \in 1..((at + n) - (at + 1) + 1) : b[i] = text[(at + 1) + i - 1]
    BY <1>1, <2>2, SubSeqProperties
  <2>4. Len(b) = n /\ (at + n) - (at + 1) + 1 = n
    BY <1>1, <2>3
  <2>5. \A i \in 1..n : b[i] = data[i]
    <3>. SUFFICES ASSUME NEW i \in 1..n PROVE b[i] = data[i]
      OBVIOUS
    <3>1. (at + 1) + i - 1 = at + i
      BY <1>1
    <3>. QED BY <2>1, <2>3, <2>4, <3>1
  <2> HIDE DEF b
  <2>6. b = data
    <3>1. Len(b) = Len(data) /\ \A i \in 1..Len(b) : b[i] = data[i]
      BY <2>4, <2>5 DEF n
    <3>. QED BY <2>3, <3>1, SeqEqual
  <2>. QED BY <2>6 DEF b
<1>11. at + n + 2 = Len(front \o section) + 1
  <2>1. Len(front \o section) = Len(front) + Len(section) /\ Len(section) = n + 2
    BY <1>4, ConcatProperties
  <2>. QED BY <1>1, <2>1
<1>. QED BY <1>9, <1>10, <1>11 DEF text, section, n

\* A section is bytes.
LEMMA SectionType ==
  ASSUME NEW s \in Seq(STRING)
  PROVE  Section(s) \in Seq(Bytes)
<1>1. Encode(s) \in Seq(Bytes) /\ Len(Encode(s)) \in Bytes /\ Newline \in Bytes
  BY EncodeType, LenProperties DEF Bytes
<1>2. <<Len(Encode(s))>> \in Seq(Bytes) /\ <<Newline>> \in Seq(Bytes)
  BY <1>1
<1>3. <<Len(Encode(s))>> \o Encode(s) \in Seq(Bytes)
  BY <1>1, <1>2, ConcatProperties
<1>. QED BY <1>2, <1>3, ConcatProperties DEF Section

\* A checker that is at a section reads its data, and is then at what follows.
LEMMA SectionBehind ==
  ASSUME NEW front \in Seq(Bytes), NEW s \in Seq(STRING), NEW behind \in Seq(Bytes),
         stdin = front \o (Section(s) \o behind)
  PROVE  /\ Data(Len(front) + 1) = Encode(s)
         /\ After(Len(front) + 1) = Len(front \o Section(s)) + 1
<1>1. Encode(s) \in Seq(Bytes)
  BY EncodeType
<1>2. /\ stdin[Len(front) + 1] = Len(Encode(s))
      /\ SubSeq(stdin, (Len(front) + 1) + 1, (Len(front) + 1) + stdin[Len(front) + 1]) = Encode(s)
      /\ (Len(front) + 1) + stdin[Len(front) + 1] + 2 = Len(front \o Section(s)) + 1
  BY <1>1, ReadSection DEF Section
<1>. QED BY <1>2 DEF Data, After

\* What _section() writes a checker reads back, for every text and every encoding of
\* characters in one byte or two.
THEOREM SectionsAreReadBack == CheckSpec => []SectionsReadBack
<1>1. ASSUME CheckIInv PROVE SectionsReadBack
  <2>. SUFFICES ASSUME checker # "none"
                PROVE  /\ Data(1) = Encode(input)
                       /\ Data(After(1)) = Encode(expected)
                       /\ Data(After(After(1))) = Encode(actual)
                       /\ After(After(After(1))) = Len(stdin) + 1
    BY DEF SectionsReadBack
  <2>1. input \in Seq(STRING) /\ actual \in Seq(STRING) /\ expected \in Seq(STRING)
    BY <1>1, OutputCheckAssumption DEF CheckIInv, CheckTypeOK, OutputCheckAssumption
  <2> DEFINE A == Section(input)
             B == Section(expected)
             C == Section(actual)
  <2>2. A \in Seq(Bytes) /\ B \in Seq(Bytes) /\ C \in Seq(Bytes) /\ <<>> \in Seq(Bytes)
    BY <2>1, SectionType
  <2>3. stdin = (A \o B) \o C
    BY <1>1 DEF CheckIInv, Grounded, AllSections
  <2> HIDE DEF A, B, C
  <2>4. A \o B \in Seq(Bytes) /\ B \o C \in Seq(Bytes)
    BY <2>2, ConcatProperties
  <2>5. stdin = A \o (B \o C)
    <3>1. (A \o B) \o C = A \o (B \o C)
      BY ONLY <2>2, ConcatAssociative
    <3>. QED BY <2>3, <3>1
  <2>6. stdin = <<>> \o (A \o (B \o C))
    <3>1. A \o (B \o C) \in Seq(Bytes)
      BY <2>2, <2>4, ConcatProperties
    <3>. QED BY <2>5, <3>1, ConcatEmptySeq
  <2>7. stdin = (A \o B) \o (C \o <<>>)
    BY <2>2, <2>3, ConcatEmptySeq
  <2>8. Data(Len(<<>>) + 1) = Encode(input) /\ After(Len(<<>>) + 1) = Len(<<>> \o A) + 1
    BY <2>1, <2>2, <2>4, <2>6, SectionBehind DEF A
  <2>9. Data(Len(A) + 1) = Encode(expected) /\ After(Len(A) + 1) = Len(A \o B) + 1
    BY <2>1, <2>2, <2>5, SectionBehind DEF B
  <2>10. Data(Len(A \o B) + 1) = Encode(actual) /\ After(Len(A \o B) + 1) = Len((A \o B) \o C) + 1
    BY <2>1, <2>2, <2>4, <2>7, SectionBehind DEF C
  <2>11. Data(1) = Encode(input) /\ After(1) = Len(A) + 1
    <3>1. Len(<<>>) + 1 = 1 /\ <<>> \o A = A
      BY <2>2, ConcatEmptySeq
    <3>. QED BY <2>8, <3>1
  <2>. QED BY <2>3, <2>9, <2>10, <2>11
<1>. QED BY <1>1, CheckInvariance, PTL
=============================================================================
