------------------------- MODULE JudgeServiceProofs -------------------------
(***************************************************************************)
(* Theorems about JudgeService: for every set of requests, every kind of   *)
(* submission, every number of tests and every limit, what a request took  *)
(* is given back exactly once, its tests keep their artifacts, and the     *)
(* failure it reports is that of the first failing test.                   *)
(***************************************************************************)
EXTENDS JudgeService, FiniteSetTheorems, WellFoundedInduction, TLAPS

-----------------------------------------------------------------------------
(* The inductive invariant.                                                *)

TypeOK ==
  /\ slots \in Int
  /\ inflight \in Int
  /\ stage \in [Requests -> Stages]
  /\ submission \in [Requests -> Submissions \cup {NoSubmission}]
  /\ dirs \subseteq Requests \X Roles
  /\ owed \subseteq Requests \X Roles
  /\ outcome \in [Requests -> [Tests -> Outcomes]]
  /\ response \in [Requests -> Statuses]
  /\ raised \in Nat
  /\ orphans \in Nat
  /\ lostRefs \in Nat

Passes(s, o) == o \in Finished /\ VerdictOf(s, o) = "OK"

\* What has been compiled when a request is at its stage.
Prepared(q) ==
  /\ stage[q] = "checker" => "submission" \in Bound(q)
  /\ stage[q] = "interactor" => Needed(submission[q]) \ {"interactor"} \subseteq Bound(q)
  /\ stage[q] = "testing" => Needed(submission[q]) \subseteq Bound(q)

\* No test runs before the compilations or after the answer.
TestsInTime(q) ==
  /\ stage[q] \in Roles => \A i \in Tests : outcome[q][i] = "none"
  /\ stage[q] = "stuck" => \A i \in Tests : outcome[q][i] = "none"
  /\ stage[q] = "idle" => \A i \in Tests : outcome[q][i] \notin Pending

\* A fail-fast judging has begun a test only if all before it have passed.
OneByOne(q) ==
  stage[q] = "testing" /\ submission[q].failFast =>
    \A i \in Tests : outcome[q][i] # "none" =>
      /\ \A j \in 1..(i - 1) : Passes(submission[q], outcome[q][j])
      /\ outcome[q][i] \in Pending \/ Passes(submission[q], outcome[q][i])

\* Why the answer to a request is right.
AnswerSound(q) ==
  (stage[q] = "idle" /\ response[q] \in Verdicts \ {"OK"} /\ Done(outcome[q]) # {}) =>
     \E i \in Tests :
       /\ outcome[q][i] \in Finished
       /\ VerdictOf(submission[q], outcome[q][i]) = response[q]
       /\ \A j \in 1..(i - 1) : Passes(submission[q], outcome[q][j])

RequestSound(q) == Prepared(q) /\ TestsInTime(q) /\ OneByOne(q) /\ AnswerSound(q)

IInv == TypeOK /\ GivenBack /\ \A q \in Requests : RequestSound(q)

-----------------------------------------------------------------------------
(* Lemmas.                                                                 *)

\* A set of tests has a first one.
LEMMA FirstTest ==
  ASSUME NEW S \in SUBSET Tests, S # {}
  PROVE  Min(S) \in S /\ \A i \in S : Min(S) <= i
<1> DEFINE Less == OpToRel(<, Nat)
<1>1. S \subseteq Nat
  BY ServiceAssumption DEF Tests, ServiceAssumption
<1>2. IsWellFoundedOn(Less, Nat)
  BY NatLessThanWellFounded
<1>3. \A a, b \in Nat : <<a, b>> \in Less <=> a < b
  BY DEF OpToRel
<1> HIDE DEF Less
<1>4. PICK x \in S : \A y \in S : ~(<<y, x>> \in Less)
  BY <1>1, <1>2, WFMin
<1>5. ASSUME NEW y \in S PROVE x <= y
  <2>1. ~(y < x) /\ x \in Nat /\ y \in Nat
    BY <1>1, <1>3, <1>4
  <2>. QED BY <2>1
<1>. QED BY <1>5 DEF Min

\* Every outcome has a verdict.
LEMMA VerdictType ==
  ASSUME NEW s, NEW o \in Finished
  PROVE  VerdictOf(s, o) \in Verdicts
BY DEF Finished, Outcomes, VerdictOf, Verdicts

\* The overall verdict is one of the tests, or OK if none has failed.
LEMMA OverallSound ==
  ASSUME NEW s, NEW o
  PROVE  /\ Overall(s, o) \in Verdicts
         /\ Overall(s, o) # "OK" =>
              \E i \in Failed(s, o) : /\ VerdictOf(s, o[i]) = Overall(s, o)
                                      /\ \A j \in Failed(s, o) : i <= j
<1>1. CASE Failed(s, o) = {}
  BY <1>1 DEF Overall, Verdicts
<1>2. CASE Failed(s, o) # {}
  <2>1. Failed(s, o) \subseteq Tests
    BY DEF Failed, Done
  <2>2. Min(Failed(s, o)) \in Failed(s, o) /\ \A j \in Failed(s, o) : Min(Failed(s, o)) <= j
    BY <1>2, <2>1, FirstTest
  <2>3. Overall(s, o) = VerdictOf(s, o[Min(Failed(s, o))])
    BY <1>2 DEF Overall
  <2>4. o[Min(Failed(s, o))] \in Finished
    BY <2>2 DEF Failed, Done
  <2>. QED BY <2>2, <2>3, <2>4, VerdictType
<1>. QED BY <1>1, <1>2

\* How many requests are being judged when one more is, or one less.
LEMMA ActiveGrows ==
  ASSUME TypeOK, NEW q \in Requests, stage[q] = "idle",
         NEW st \in Stages \ {"idle"}, stage' = [stage EXCEPT ![q] = st]
  PROVE  Cardinality(Active') = Cardinality(Active) + 1 /\ Cardinality(Active) \in Nat
<1>1. IsFiniteSet(Active) /\ Cardinality(Active) \in Nat
  <2>. Active \in SUBSET Requests /\ IsFiniteSet(Requests)
    BY ServiceAssumption DEF ServiceAssumption, Active
  <2>. QED BY FS_Subset, FS_CardinalityType
<1>2. Active' = Active \cup {q} /\ q \notin Active
  BY DEF Active, TypeOK
<1>. QED BY <1>1, <1>2, FS_AddElement

LEMMA ActiveShrinks ==
  ASSUME TypeOK, NEW q \in Requests, stage[q] # "idle", stage' = [stage EXCEPT ![q] = "idle"]
  PROVE  Cardinality(Active') = Cardinality(Active) - 1 /\ Cardinality(Active) \in Nat
<1>1. IsFiniteSet(Active) /\ Cardinality(Active) \in Nat
  <2>. Active \in SUBSET Requests /\ IsFiniteSet(Requests)
    BY ServiceAssumption DEF ServiceAssumption, Active
  <2>. QED BY FS_Subset, FS_CardinalityType
<1>2. Active' = Active \ {q} /\ q \in Active
  BY DEF Active, TypeOK, Stages
<1>. QED BY <1>1, <1>2, FS_RemoveElement

\* What a step says of one request says nothing of the others.
LEMMA OthersSound ==
  ASSUME NEW p \in Requests, RequestSound(p),
         stage'[p] = stage[p], submission'[p] = submission[p],
         outcome'[p] = outcome[p], response'[p] = response[p],
         Bound(p)' = Bound(p)
  PROVE  RequestSound(p)'
<1>1. Prepared(p)'
  BY DEF RequestSound, Prepared
<1>2. TestsInTime(p)' /\ OneByOne(p)'
  BY DEF RequestSound, TestsInTime, OneByOne
<1>3. AnswerSound(p)'
  BY DEF RequestSound, AnswerSound
<1>. QED BY <1>1, <1>2, <1>3 DEF RequestSound

-----------------------------------------------------------------------------
(* The steps by what they do to a request.                                 *)

\* A request that is turned away.
Turned(q) ==
  /\ stage[q] = "idle"
  /\ \E status \in {"503", "IE"} : NewRequest(q, NoSubmission, status)
  /\ UNCHANGED <<slots, inflight, stage, dirs, owed, leaks>>

\* What an exception of compile_once() may lose.
Loses ==
  /\ raised' = raised + 1
  /\ \E dir, ref \in {0, 1} : orphans' = orphans + dir /\ lostRefs' = lostRefs + ref

\* A request that ends with a compilation.
EndsEarly(q) ==
  /\ stage[q] \in Roles
  /\ \E status \in {"IE", "CE"} : Answer(q, status)
  /\ UNCHANGED outcome
  /\ UNCHANGED leaks \/ Loses

\* A compilation that never ends, and a test.
StuckCompiling(q) ==
  /\ stage[q] \in Roles
  /\ stage' = [stage EXCEPT ![q] = "stuck"]
  /\ UNCHANGED <<slots, inflight, submission, dirs, owed, outcome, response, leaks>>
StuckTesting(q, i) ==
  /\ stage[q] = "testing"
  /\ outcome[q][i] = "running"
  /\ outcome' = [outcome EXCEPT ![q] = [@ EXCEPT ![i] = "stuck"]]
  /\ UNCHANGED <<slots, inflight, stage, submission, dirs, owed, response, leaks>>

\* A test that ends, and with it the judging or not.
Ending(q, i, o) == stage[q] = "testing" /\ outcome[q][i] = "running" /\ o \in Finished
GoesOn(q, i, o) ==
  /\ Ending(q, i, o)
  /\ outcome' = [outcome EXCEPT ![q] = Recorded(q, i, o)]
  /\ ~Complete(submission[q], Recorded(q, i, o))
  /\ UNCHANGED <<slots, inflight, stage, submission, dirs, owed, response, leaks>>
LastTest(q, i, o) ==
  /\ Ending(q, i, o)
  /\ outcome' = [outcome EXCEPT ![q] = Recorded(q, i, o)]
  /\ Complete(submission[q], Recorded(q, i, o))
  /\ Answer(q, Overall(submission[q], Recorded(q, i, o)))
  /\ UNCHANGED leaks

LEMMA StepCases ==
  ASSUME [Next]_vars
  PROVE  \/ UNCHANGED vars
         \/ \E q \in Requests :
              \/ Turned(q)
              \/ \E s \in Submissions : Admit(q, s)
              \/ Compiled(q)
              \/ EndsEarly(q)
              \/ StuckCompiling(q)
              \/ \E i \in Tests : StuckTesting(q, i)
              \/ \E i \in Tests, o \in Finished : GoesOn(q, i, o) \/ LastTest(q, i, o)
<1>. SUFFICES ASSUME NEW q \in Requests,
                     \/ Reject(q) \/ TurnAway(q)
                     \/ \E s \in Submissions : Admit(q, s)
                     \/ Progress(q) \/ Stall(q)
              PROVE  \/ Turned(q)
                     \/ \E s \in Submissions : Admit(q, s)
                     \/ Compiled(q)
                     \/ EndsEarly(q)
                     \/ StuckCompiling(q)
                     \/ \E i \in Tests : StuckTesting(q, i)
                     \/ \E i \in Tests, o \in Finished : GoesOn(q, i, o) \/ LastTest(q, i, o)
  BY DEF Next
<1>1. CASE Reject(q) \/ TurnAway(q)
  <2>. Turned(q)
    BY <1>1 DEF Reject, TurnAway, Turned
  <2>. QED OBVIOUS
<1>2. CASE Refused(q) \/ NotCompiled(q) \/ Raised(q)
  <2>. EndsEarly(q)
    BY <1>2 DEF Refused, NotCompiled, Raised, EndsEarly, Loses
  <2>. QED OBVIOUS
<1>3. CASE \E i \in Tests, o \in Endings : TestDone(q, i, o)
  <2>1. PICK i \in Tests, o \in Endings : TestDone(q, i, o)
    BY <1>3
  <2>2. o \in Finished
    BY ServiceAssumption DEF ServiceAssumption
  <2>3. GoesOn(q, i, o) \/ LastTest(q, i, o)
    BY <2>1, <2>2 DEF TestDone, GoesOn, LastTest, Ending
  <2>. QED BY <2>2, <2>3
<1>4. CASE Stall(q)
  BY <1>4 DEF Stall, StuckCompiling, StuckTesting
<1>. QED BY <1>1, <1>2, <1>3, <1>4 DEF Progress

-----------------------------------------------------------------------------
(* What a step preserves.                                                  *)

LEMMA NewRequestType ==
  ASSUME TypeOK, NEW q \in Requests, NEW s \in Submissions \cup {NoSubmission},
         NEW status \in Statuses, NewRequest(q, s, status)
  PROVE  /\ submission' \in [Requests -> Submissions \cup {NoSubmission}]
         /\ outcome' \in [Requests -> [Tests -> Outcomes]]
         /\ response' \in [Requests -> Statuses]
BY DEF TypeOK, NewRequest, Outcomes

LEMMA AnswerType ==
  ASSUME TypeOK, NEW q \in Requests, NEW status \in Statuses, Answer(q, status)
  PROVE  /\ slots' \in Int /\ inflight' \in Int
         /\ stage' \in [Requests -> Stages]
         /\ submission' \in [Requests -> Submissions \cup {NoSubmission}]
         /\ dirs' \subseteq Requests \X Roles
         /\ owed' \subseteq Requests \X Roles
         /\ response' \in [Requests -> Statuses]
BY DEF TypeOK, Answer, Stages

LEMMA RecordedType ==
  ASSUME TypeOK, NEW q \in Requests, NEW i \in Tests, NEW o \in Finished
  PROVE  Recorded(q, i, o) \in [Tests -> Outcomes]
BY DEF TypeOK, Recorded, Finished, Pending, Outcomes

LEMMA StageType ==
  ASSUME NEW s, NEW done \in Roles, NextStage(s, done) # "refused"
  PROVE  NextStage(s, done) \in Stages \ {"idle"}
BY DEF NextStage, AfterChecker, Stages, Roles

\* What a judging records, starts with and says is well typed.
LEMMA TypeCorrectStep ==
  ASSUME IInv, [Next]_vars
  PROVE  TypeOK'
<1>. TypeOK
  BY DEF IInv
<1>1. CASE UNCHANGED vars
  BY <1>1 DEF TypeOK, vars
<1>2. ASSUME NEW q \in Requests, Turned(q) PROVE TypeOK'
  <2>1. PICK status \in {"503", "IE"} : NewRequest(q, NoSubmission, status)
    BY <1>2 DEF Turned
  <2>2. status \in Statuses
    BY DEF Statuses, Verdicts
  <2>. QED BY <1>2, <2>1, <2>2, NewRequestType DEF Turned, TypeOK, leaks
<1>3. ASSUME NEW q \in Requests, NEW s \in Submissions, Admit(q, s) PROVE TypeOK'
  <2>1. "none" \in Statuses /\ NewRequest(q, s, "none")
    BY <1>3 DEF Admit, Statuses
  <2>2. slots' \in Int /\ inflight' \in Int /\ stage' \in [Requests -> Stages]
    BY <1>3 DEF Admit, TypeOK, Stages, Roles
  <2>. QED BY <1>3, <2>1, <2>2, NewRequestType DEF Admit, TypeOK, leaks
<1>4. ASSUME NEW q \in Requests, Compiled(q) PROVE TypeOK'
  <2>1. stage' \in [Requests -> Stages]
    BY <1>4, StageType DEF Compiled, TypeOK
  <2>2. outcome' \in [Requests -> [Tests -> Outcomes]]
    <3>1. Started(submission[q]) \in [Tests -> Outcomes]
      BY DEF Started, Outcomes, Pending
    <3>. QED BY <1>4, <3>1 DEF Compiled, TypeOK
  <2>3. dirs' \subseteq Requests \X Roles /\ owed' \subseteq Requests \X Roles
    BY <1>4 DEF Compiled, TypeOK
  <2>. QED BY <1>4, <2>1, <2>2, <2>3 DEF Compiled, TypeOK, leaks
<1>5. ASSUME NEW q \in Requests, EndsEarly(q) PROVE TypeOK'
  <2>1. PICK status \in {"IE", "CE"} : Answer(q, status)
    BY <1>5 DEF EndsEarly
  <2>2. status \in Statuses
    BY DEF Statuses, Verdicts
  <2>3. raised' \in Nat /\ orphans' \in Nat /\ lostRefs' \in Nat
    BY <1>5 DEF EndsEarly, Loses, leaks, TypeOK
  <2>. QED BY <1>5, <2>1, <2>2, <2>3, AnswerType DEF EndsEarly, TypeOK
<1>6. ASSUME NEW q \in Requests, NEW i \in Tests, NEW o \in Finished, GoesOn(q, i, o)
      PROVE  TypeOK'
  BY <1>6, RecordedType DEF GoesOn, TypeOK, leaks
<1>7. ASSUME NEW q \in Requests, NEW i \in Tests, NEW o \in Finished, LastTest(q, i, o)
      PROVE  TypeOK'
  <2>1. Overall(submission[q], Recorded(q, i, o)) \in Statuses
    BY OverallSound DEF Statuses
  <2>2. outcome' \in [Requests -> [Tests -> Outcomes]]
    BY <1>7, RecordedType DEF LastTest, TypeOK
  <2>. QED BY <1>7, <2>1, <2>2, AnswerType DEF LastTest, TypeOK, leaks
<1>8. ASSUME NEW q \in Requests, StuckCompiling(q) PROVE TypeOK'
  BY <1>8 DEF StuckCompiling, TypeOK, leaks, Stages
<1>9. ASSUME NEW q \in Requests, NEW i \in Tests, StuckTesting(q, i) PROVE TypeOK'
  <2>1. outcome' \in [Requests -> [Tests -> Outcomes]]
    BY <1>9 DEF StuckTesting, TypeOK, Outcomes, Pending
  <2>. QED BY <1>9, <2>1 DEF StuckTesting, TypeOK, leaks
<1>. QED BY <1>1, <1>2, <1>3, <1>4, <1>5, <1>6, <1>7, <1>8, <1>9, StepCases

\* The slot, the gauge, the directories and the refs move together.
LEMMA GivenBackStep ==
  ASSUME IInv, [Next]_vars
  PROVE  GivenBack'
<1>. TypeOK /\ GivenBack
  BY DEF IInv
<1>a. MaxInflight \in Nat
  BY ServiceAssumption DEF ServiceAssumption
<1>b. ASSUME UNCHANGED <<slots, inflight, stage, dirs, owed, leaks>> PROVE GivenBack'
  BY <1>b DEF GivenBack, Active, leaks
<1>c. ASSUME NEW q \in Requests, NEW status, stage[q] # "idle", Answer(q, status),
             UNCHANGED leaks \/ Loses
      PROVE  GivenBack'
  <2>1. Cardinality(Active') = Cardinality(Active) - 1 /\ Cardinality(Active) \in Nat
    BY <1>c, ActiveShrinks DEF Answer
  <2>2. /\ inflight' = Cardinality(Active')
        /\ slots' + Cardinality(Active') = MaxInflight
    BY <1>a, <1>c, <2>1 DEF Answer, GivenBack, TypeOK
  <2>3. dirs' = owed'
    BY <1>c DEF Answer, GivenBack
  <2>4. ASSUME NEW x \in dirs' PROVE stage'[x[1]] # "idle"
    <3>1. x \in dirs /\ x[1] \in Requests /\ x[2] \in Roles /\ x = <<x[1], x[2]>>
      BY <1>c, <2>4 DEF Answer, TypeOK
    <3>2. x[1] # q
      BY <1>c, <2>4, <3>1 DEF Answer, Bound
    <3>. QED BY <1>c, <3>1, <3>2 DEF Answer, GivenBack, TypeOK
  <2>5. orphans' <= raised' /\ lostRefs' <= raised'
    BY <1>c DEF Loses, leaks, GivenBack, TypeOK
  <2>. QED BY <2>2, <2>3, <2>4, <2>5 DEF GivenBack
<1>1. CASE UNCHANGED vars
  BY <1>1, <1>b DEF vars, leaks
<1>2. ASSUME NEW q \in Requests, Turned(q) PROVE GivenBack'
  BY <1>2, <1>b DEF Turned
<1>3. ASSUME NEW q \in Requests, NEW s \in Submissions, Admit(q, s) PROVE GivenBack'
  <2>1. Cardinality(Active') = Cardinality(Active) + 1 /\ Cardinality(Active) \in Nat
    <3>. "submission" \in Stages \ {"idle"}
      BY DEF Stages, Roles
    <3>. QED BY <1>3, ActiveGrows DEF Admit
  <2>2. /\ inflight' = Cardinality(Active')
        /\ slots' + Cardinality(Active') = MaxInflight
    BY <1>a, <1>3, <2>1 DEF Admit, GivenBack, TypeOK
  <2>3. \A x \in dirs' : stage'[x[1]] # "idle"
    BY <1>3 DEF Admit, GivenBack, TypeOK
  <2>. QED BY <1>3, <2>2, <2>3 DEF Admit, GivenBack, leaks
<1>4. ASSUME NEW q \in Requests, Compiled(q) PROVE GivenBack'
  <2>1. PICK st \in Stages \ {"idle"} : stage' = [stage EXCEPT ![q] = st]
    BY <1>4, StageType DEF Compiled
  <2>2. stage[q] # "idle"
    BY <1>4 DEF Compiled, Roles
  <2>3. Active' = Active
    BY <2>1, <2>2 DEF Active, TypeOK
  <2>4. \A x \in dirs' : stage'[x[1]] # "idle"
    BY <1>4, <2>1 DEF Compiled, GivenBack, TypeOK
  <2>. QED BY <1>4, <2>3, <2>4 DEF Compiled, GivenBack, leaks
<1>5. ASSUME NEW q \in Requests, EndsEarly(q) PROVE GivenBack'
  BY <1>5, <1>c DEF EndsEarly, Roles
<1>6. ASSUME NEW q \in Requests, NEW i \in Tests, NEW o \in Finished, GoesOn(q, i, o)
      PROVE  GivenBack'
  BY <1>6, <1>b DEF GoesOn
<1>7. ASSUME NEW q \in Requests, NEW i \in Tests, NEW o \in Finished, LastTest(q, i, o)
      PROVE  GivenBack'
  BY <1>7, <1>c DEF LastTest, Ending
<1>8. ASSUME NEW q \in Requests, StuckCompiling(q) PROVE GivenBack'
  <2>1. stage[q] # "idle"
    BY <1>8 DEF StuckCompiling, Roles
  <2>2. Active' = Active
    BY <1>8, <2>1 DEF StuckCompiling, Active, TypeOK
  <2>3. \A x \in dirs' : stage'[x[1]] # "idle"
    BY <1>8 DEF StuckCompiling, GivenBack, TypeOK
  <2>. QED BY <1>8, <2>2, <2>3 DEF StuckCompiling, GivenBack, leaks
<1>9. ASSUME NEW q \in Requests, NEW i \in Tests, StuckTesting(q, i) PROVE GivenBack'
  BY <1>9, <1>b DEF StuckTesting
<1>. QED BY <1>1, <1>2, <1>3, <1>4, <1>5, <1>6, <1>7, <1>8, <1>9, StepCases

\* The artifacts of a request are there when it goes on to its next stage.
LEMMA CompiledPrepares ==
  ASSUME TypeOK, NEW q \in Requests, Prepared(q), Compiled(q)
  PROVE  Prepared(q)'
<1> DEFINE s == submission[q]
<1>1. "none" \notin Known
  BY ServiceAssumption DEF ServiceAssumption
<1>2. Bound(q)' = Bound(q) \cup {stage[q]} /\ stage'[q] = NextStage(s, stage[q]) /\ submission' = submission
  BY DEF Compiled, Bound, TypeOK
<1>3. NextStage(s, stage[q]) # "refused" /\ stage[q] \in Roles
  BY DEF Compiled
<1>4. CASE stage[q] = "submission"
  BY <1>1, <1>2, <1>3, <1>4 DEF Prepared, NextStage, AfterChecker, Needed, HasChecker, HasInteractor
<1>5. CASE stage[q] = "checker"
  BY <1>1, <1>2, <1>3, <1>5 DEF Prepared, NextStage, AfterChecker, Needed, HasInteractor
<1>6. CASE stage[q] = "interactor"
  BY <1>2, <1>6 DEF Prepared, NextStage
<1>. QED BY <1>3, <1>4, <1>5, <1>6 DEF Roles

\* A test that ends, in a fail-fast judging: it was the only one that ran, those
\* before it have passed, and those behind it are not begun.
LEMMA OnlyOneRuns ==
  ASSUME TypeOK, NEW q \in Requests, OneByOne(q), submission[q].failFast,
         NEW i \in Tests, NEW o \in Finished, Ending(q, i, o)
  PROVE  \A j \in Tests : /\ j < i => Passes(submission[q], outcome[q][j])
                          /\ i < j => outcome[q][j] = "none"
<1>1. ASSUME NEW j \in Tests, j < i PROVE Passes(submission[q], outcome[q][j])
  <2>1. j \in 1..(i - 1)
    BY <1>1 DEF Tests
  <2>. QED BY <2>1 DEF OneByOne, Ending
<1>2. ASSUME NEW j \in Tests, i < j, outcome[q][j] # "none" PROVE FALSE
  <2>1. i \in 1..(j - 1)
    BY <1>2 DEF Tests
  <2>2. Passes(submission[q], outcome[q][i])
    BY <1>2, <2>1 DEF OneByOne, Ending
  <2>. QED BY <2>2 DEF Ending, Passes, Finished
<1>. QED BY <1>1, <1>2

\* So it is the only one that may fail.
LEMMA OnlyOneFails ==
  ASSUME TypeOK, NEW q \in Requests, OneByOne(q), submission[q].failFast,
         NEW i \in Tests, NEW o \in Finished, Ending(q, i, o)
  PROVE  Failed(submission[q], Recorded(q, i, o)) =
           IF VerdictOf(submission[q], o) = "OK" THEN {} ELSE {i}
<1> DEFINE r == Recorded(q, i, o)
<1>1. ASSUME NEW j \in Tests, j # i, r[j] \in Finished
      PROVE  VerdictOf(submission[q], r[j]) = "OK"
  <2>1. r[j] = outcome[q][j]
    BY <1>1 DEF Recorded, Finished
  <2>2. i < j => outcome[q][j] = "none"
    BY OnlyOneRuns
  <2>3. j < i
    <3>1. ~(i < j)
      BY <1>1, <2>1, <2>2 DEF Finished
    <3>. QED BY <1>1, <3>1 DEF Tests
  <2>. QED BY <2>1, <2>3, OnlyOneRuns DEF Passes
<1>2. r[i] = o
  BY DEF Recorded
<1>. QED BY <1>1, <1>2 DEF Failed, Done

\* A fail-fast judging that goes on: the test has passed, and the next one begins.
LEMMA GoesOnOneByOne ==
  ASSUME TypeOK, NEW q \in Requests, OneByOne(q),
         NEW i \in Tests, NEW o \in Finished, GoesOn(q, i, o)
  PROVE  OneByOne(q)'
<1> DEFINE s == submission[q]
           r == Recorded(q, i, o)
<1>. SUFFICES ASSUME s.failFast
              PROVE  \A k \in Tests : r[k] # "none" =>
                       /\ \A j \in 1..(k - 1) : Passes(s, r[j])
                       /\ r[k] \in Pending \/ Passes(s, r[k])
  BY DEF OneByOne, GoesOn, TypeOK
<1>1. Ending(q, i, o) /\ VerdictOf(s, o) = "OK"
  <2>1. Ending(q, i, o) /\ Failed(s, r) = {}
    BY DEF GoesOn, Complete
  <2>2. Failed(s, r) = IF VerdictOf(s, o) = "OK" THEN {} ELSE {i}
    BY <2>1, OnlyOneFails
  <2>. QED BY <2>1, <2>2
<1>2. r[i] = o /\ Passes(s, r[i])
  BY <1>1 DEF Recorded, Passes
<1>3. ASSUME NEW j \in Tests, j < i PROVE Passes(s, r[j])
  <2>1. r[j] = outcome[q][j]
    BY <1>3 DEF Recorded, Tests
  <2>. QED BY <1>1, <1>3, <2>1, OnlyOneRuns
<1>4. ASSUME NEW k \in Tests, i < k, r[k] # "none" PROVE k = i + 1 /\ r[k] = "running"
  <2>1. outcome[q][k] = "none"
    BY <1>1, <1>4, OnlyOneRuns
  <2>. QED BY <1>4, <2>1 DEF Recorded, Tests, Finished
<1>5. \A k \in Tests : \A j \in 1..(k - 1) : j \in Tests /\ j < k
  BY ServiceAssumption DEF Tests, ServiceAssumption
<1>6. \A j, k \in Tests : j \in Int /\ (j < k \/ j = k \/ k < j)
  BY DEF Tests
<1>7. ASSUME NEW k \in Tests, r[k] # "none"
      PROVE  /\ \A j \in 1..(k - 1) : Passes(s, r[j])
             /\ r[k] \in Pending \/ Passes(s, r[k])
  <2>1. k < i \/ k = i \/ (k = i + 1 /\ r[k] = "running")
    BY <1>4, <1>6, <1>7
  <2>2. ASSUME NEW j \in 1..(k - 1) PROVE Passes(s, r[j])
    <3>1. j \in Tests /\ j < k
      BY <1>5
    <3>2. j < i \/ j = i
      BY <2>1, <3>1, <1>6
    <3>. QED BY <1>2, <1>3, <3>1, <3>2
  <2>. QED BY <1>2, <1>3, <2>1, <2>2 DEF Pending
<1>. QED BY <1>7

\* So does one whose test is stuck: nothing begins behind it.
LEMMA StuckOneByOne ==
  ASSUME NEW q \in Requests, OneByOne(q), stage[q] = "testing", submission' = submission,
         NEW i \in Tests, outcome[q][i] = "running",
         \A j \in Tests : outcome'[q][j] = IF j = i THEN "stuck" ELSE outcome[q][j]
  PROVE  OneByOne(q)'
<1>. SUFFICES ASSUME submission[q].failFast, NEW k \in Tests, outcome'[q][k] # "none"
              PROVE  /\ \A j \in 1..(k - 1) : Passes(submission[q], outcome'[q][j])
                     /\ outcome'[q][k] \in Pending \/ Passes(submission[q], outcome'[q][k])
  BY DEF OneByOne
<1>1. outcome[q][k] # "none"
  OBVIOUS
<1>2. /\ \A j \in 1..(k - 1) : Passes(submission[q], outcome[q][j])
      /\ outcome[q][k] \in Pending \/ Passes(submission[q], outcome[q][k])
  BY <1>1 DEF OneByOne
<1>3. ~Passes(submission[q], outcome[q][i])
  BY DEF Passes, Finished
<1>4. ASSUME NEW j \in 1..(k - 1) PROVE Passes(submission[q], outcome'[q][j])
  <2>1. j \in Tests
    BY ServiceAssumption DEF Tests, ServiceAssumption
  <2>2. j # i
    BY <1>2, <1>3
  <2>. QED BY <1>2, <2>1, <2>2
<1>. QED BY <1>2, <1>4 DEF Pending

\* When a judging ends no test is left running.
LEMMA NoneLeftRunning ==
  ASSUME TypeOK, NEW q \in Requests, OneByOne(q),
         NEW i \in Tests, NEW o \in Finished, LastTest(q, i, o), NEW j \in Tests
  PROVE  Recorded(q, i, o)[j] \notin Pending
<1> DEFINE s == submission[q]
           r == Recorded(q, i, o)
<1>1. CASE Done(r) = Tests
  BY <1>1 DEF Done, Finished, Pending
<1>2. CASE s.failFast /\ Failed(s, r) # {}
  <2>1. Ending(q, i, o) /\ VerdictOf(s, o) # "OK"
    BY <1>2, OnlyOneFails DEF LastTest
  <2>2. r[j] = IF j = i THEN o ELSE outcome[q][j]
    BY <2>1 DEF Recorded
  <2>3. j < i \/ j = i \/ i < j
    BY DEF Tests
  <2>4. (j < i => Passes(s, outcome[q][j])) /\ (i < j => outcome[q][j] = "none")
    BY <1>2, <2>1, OnlyOneRuns
  <2>. QED BY <2>2, <2>3, <2>4 DEF Passes, Finished, Pending
<1>. QED BY <1>1, <1>2 DEF LastTest, Complete

\* The answer to a judging that ends is that of its first test that fails.
LEMMA LastAnswerSound ==
  ASSUME TypeOK, NEW q \in Requests, OneByOne(q),
         NEW i \in Tests, NEW o \in Finished, LastTest(q, i, o)
  PROVE  AnswerSound(q)'
<1> DEFINE s == submission[q]
           r == Recorded(q, i, o)
<1>1. outcome'[q] = r /\ response'[q] = Overall(s, r) /\ submission'[q] = s
  BY DEF LastTest, Answer, TypeOK
<1>. SUFFICES ASSUME Overall(s, r) # "OK"
              PROVE  \E k \in Tests : /\ r[k] \in Finished
                                      /\ VerdictOf(s, r[k]) = Overall(s, r)
                                      /\ \A j \in 1..(k - 1) : Passes(s, r[j])
  BY <1>1 DEF AnswerSound
<1>2. PICK k \in Failed(s, r) : /\ VerdictOf(s, r[k]) = Overall(s, r)
                               /\ \A j \in Failed(s, r) : k <= j
  BY OverallSound
<1>3. k \in Tests /\ r[k] \in Finished
  BY DEF Failed, Done
<1>4. ASSUME NEW j \in 1..(k - 1) PROVE Passes(s, r[j])
  <2>1. j \in Tests /\ j < k /\ ~(k <= j)
    BY <1>3, ServiceAssumption DEF Tests, ServiceAssumption
  <2>2. j \notin Failed(s, r)
    BY <1>2, <2>1
  <2>3. r[j] \in Finished
    <3>1. CASE Done(r) = Tests
      BY <2>1, <3>1 DEF Done
    <3>2. CASE s.failFast /\ Failed(s, r) # {}
      <4>1. k = i
        <5>1. Failed(s, r) = IF VerdictOf(s, o) = "OK" THEN {} ELSE {i}
          BY <3>2, OnlyOneFails DEF LastTest
        <5>. QED BY <1>2, <5>1
      <4>2. r[j] = outcome[q][j]
        BY <2>1, <4>1 DEF Recorded, Tests, LastTest, Ending, Passes, Finished
      <4>3. Passes(s, outcome[q][j])
        BY <2>1, <3>2, <4>1, OnlyOneRuns DEF LastTest
      <4>. QED BY <4>2, <4>3 DEF Passes
    <3>. QED BY <3>1, <3>2 DEF LastTest, Complete
  <2>. QED BY <2>1, <2>2, <2>3 DEF Passes, Failed, Done
<1>. QED BY <1>2, <1>3, <1>4

LEMMA RequestStep ==
  ASSUME IInv, [Next]_vars, NEW p \in Requests
  PROVE  RequestSound(p)'
<1>. TypeOK /\ RequestSound(p)
  BY DEF IInv
<1>1. CASE UNCHANGED vars
  BY <1>1, OthersSound DEF vars, Bound
<1>2. ASSUME NEW q \in Requests, Turned(q) PROVE RequestSound(p)'
  <2>1. CASE p # q
    BY <1>2, <2>1, OthersSound DEF Turned, NewRequest, TypeOK, Bound
  <2>2. CASE p = q
    <3>1. stage'[p] = "idle" /\ \A i \in Tests : outcome'[p][i] = "none"
      BY <1>2, <2>2 DEF Turned, NewRequest, TypeOK
    <3>. QED BY <3>1 DEF RequestSound, Prepared, TestsInTime, OneByOne, AnswerSound, Done, Finished, Pending, Roles
  <2>. QED BY <2>1, <2>2
<1>3. ASSUME NEW q \in Requests, NEW s \in Submissions, Admit(q, s) PROVE RequestSound(p)'
  <2>1. CASE p # q
    BY <1>3, <2>1, OthersSound DEF Admit, NewRequest, TypeOK, Bound
  <2>2. CASE p = q
    <3>1. stage'[p] = "submission" /\ \A i \in Tests : outcome'[p][i] = "none"
      BY <1>3, <2>2 DEF Admit, NewRequest, TypeOK
    <3>. QED BY <3>1 DEF RequestSound, Prepared, TestsInTime, OneByOne, AnswerSound
  <2>. QED BY <2>1, <2>2
<1>4. ASSUME NEW q \in Requests, Compiled(q) PROVE RequestSound(p)'
  <2>1. CASE p # q
    BY <1>4, <2>1, OthersSound DEF Compiled, TypeOK, Bound
  <2>2. CASE p = q
    <3> DEFINE next == NextStage(submission[q], stage[q])
    <3>1. Prepared(p)'
      BY <1>4, <2>2, CompiledPrepares DEF RequestSound
    <3>2. stage'[p] = next /\ next \in Stages \ {"idle"} /\ submission' = submission
      BY <1>4, <2>2, StageType DEF Compiled, TypeOK
    <3>3. next # "testing" => outcome' = outcome
      BY <1>4 DEF Compiled
    <3>4. next = "testing" => outcome'[p] = Started(submission[p])
      BY <1>4, <2>2 DEF Compiled, TypeOK
    <3>5. stage[p] \in Roles
      BY <1>4, <2>2 DEF Compiled
    <3>6. TestsInTime(p)'
      BY <3>2, <3>3, <3>5 DEF RequestSound, TestsInTime, Roles
    <3>7. OneByOne(p)'
      <4>. SUFFICES ASSUME next = "testing", submission[p].failFast,
                           NEW i \in Tests, Started(submission[p])[i] # "none"
                    PROVE  i = 1 /\ Started(submission[p])[i] = "running"
        BY <3>2, <3>4 DEF OneByOne, Pending
      <4>. QED BY DEF Started
    <3>8. AnswerSound(p)'
      BY <3>2 DEF AnswerSound
    <3>. QED BY <3>1, <3>6, <3>7, <3>8 DEF RequestSound
  <2>. QED BY <2>1, <2>2
<1>5. ASSUME NEW q \in Requests, EndsEarly(q) PROVE RequestSound(p)'
  <2>1. CASE p # q
    BY <1>5, <2>1, OthersSound DEF EndsEarly, Answer, TypeOK, Bound
  <2>2. CASE p = q
    <3>1. stage'[p] = "idle" /\ \A i \in Tests : outcome'[p][i] = "none"
      BY <1>5, <2>2 DEF EndsEarly, Answer, TypeOK, RequestSound, TestsInTime
    <3>. QED BY <3>1 DEF RequestSound, Prepared, TestsInTime, OneByOne, AnswerSound, Done, Finished, Pending, Roles
  <2>. QED BY <2>1, <2>2
<1>6. ASSUME NEW q \in Requests, NEW i \in Tests, NEW o \in Finished, GoesOn(q, i, o)
      PROVE  RequestSound(p)'
  <2>1. CASE p # q
    BY <1>6, <2>1, OthersSound DEF GoesOn, TypeOK, Bound
  <2>2. CASE p = q
    <3>1. OneByOne(p)'
      BY <1>6, <2>2, GoesOnOneByOne DEF RequestSound
    <3>2. stage'[p] = "testing"
      BY <1>6, <2>2 DEF GoesOn, Ending
    <3>3. Prepared(p)'
      BY <1>6 DEF GoesOn, RequestSound, Prepared, Bound
    <3>. QED BY <3>1, <3>2, <3>3 DEF RequestSound, TestsInTime, AnswerSound, Roles
  <2>. QED BY <2>1, <2>2
<1>7. ASSUME NEW q \in Requests, NEW i \in Tests, NEW o \in Finished, LastTest(q, i, o)
      PROVE  RequestSound(p)'
  <2>1. CASE p # q
    BY <1>7, <2>1, OthersSound DEF LastTest, Answer, TypeOK, Bound
  <2>2. CASE p = q
    <3>1. stage'[p] = "idle" /\ outcome'[p] = Recorded(q, i, o)
      BY <1>7, <2>2 DEF LastTest, Answer, TypeOK
    <3>2. AnswerSound(p)'
      BY <1>7, <2>2, LastAnswerSound DEF RequestSound
    <3>3. TestsInTime(p)'
      BY <1>7, <2>2, <3>1, NoneLeftRunning DEF RequestSound, TestsInTime, Roles
    <3>. QED BY <3>1, <3>2, <3>3 DEF RequestSound, Prepared, OneByOne
  <2>. QED BY <2>1, <2>2
<1>8. ASSUME NEW q \in Requests, StuckCompiling(q) PROVE RequestSound(p)'
  <2>1. CASE p # q
    BY <1>8, <2>1, OthersSound DEF StuckCompiling, TypeOK, Bound
  <2>2. CASE p = q
    <3>1. stage'[p] = "stuck" /\ stage[p] \in Roles /\ outcome' = outcome
      BY <1>8, <2>2 DEF StuckCompiling, TypeOK
    <3>. QED BY <3>1 DEF RequestSound, Prepared, TestsInTime, OneByOne, AnswerSound, Roles
  <2>. QED BY <2>1, <2>2
<1>9. ASSUME NEW q \in Requests, NEW i \in Tests, StuckTesting(q, i) PROVE RequestSound(p)'
  <2>1. CASE p # q
    BY <1>9, <2>1, OthersSound DEF StuckTesting, TypeOK, Bound
  <2>2. CASE p = q
    <3>1. stage'[p] = "testing" /\ submission' = submission
      BY <1>9, <2>2 DEF StuckTesting
    <3>2. \A j \in Tests : outcome'[p][j] = IF j = i THEN "stuck" ELSE outcome[p][j]
      BY <1>9, <2>2 DEF StuckTesting, TypeOK
    <3>3. outcome[p][i] = "running" /\ stage[p] = "testing"
      BY <1>9, <2>2 DEF StuckTesting
    <3>4. Prepared(p)'
      BY <1>9 DEF StuckTesting, RequestSound, Prepared, Bound
    <3>5. OneByOne(p)'
      BY <3>1, <3>2, <3>3, StuckOneByOne DEF RequestSound
    <3>. QED BY <3>1, <3>4, <3>5 DEF RequestSound, TestsInTime, AnswerSound, Roles
  <2>. QED BY <2>1, <2>2
<1>. QED BY <1>1, <1>2, <1>3, <1>4, <1>5, <1>6, <1>7, <1>8, <1>9, StepCases

-----------------------------------------------------------------------------
(* The theorems.                                                           *)

LEMMA InitIInv == Init => IInv
<1>. SUFFICES ASSUME Init PROVE IInv
  OBVIOUS
<1>1. TypeOK
  BY ServiceAssumption DEF ServiceAssumption, Init, TypeOK, Stages, Outcomes, Statuses
<1>2. GivenBack
  <2>1. Active = {}
    BY DEF Init, Active
  <2>. QED BY <2>1, FS_EmptySet, ServiceAssumption DEF ServiceAssumption, Init, GivenBack
<1>3. \A q \in Requests : RequestSound(q)
  BY DEF Init, RequestSound, Prepared, TestsInTime, OneByOne, AnswerSound, Done, Finished, Pending, Roles
<1>. QED BY <1>1, <1>2, <1>3 DEF IInv

\* The inductive invariant of judge() and judge_submission().
THEOREM Invariance == Spec => []IInv
<1>1. IInv /\ [Next]_vars => IInv'
  BY TypeCorrectStep, GivenBackStep, RequestStep DEF IInv
<1>. QED BY <1>1, InitIInv, PTL DEF Spec

\* On every way out of judge() and judge_submission() the slot, the gauge, the
\* directories and the refs of the compilations that returned are given back
\* exactly once; an exception of compile_once() loses one of each at the most.
THEOREM AllGivenBack == Spec => []GivenBack
<1>1. IInv => GivenBack
  BY DEF IInv
<1>. QED BY <1>1, Invariance, PTL

\* No test of _run_all_tests() runs without the artifacts it needs.
THEOREM NoneTakenAway == Spec => []ArtifactsInPlace
<1>1. IInv => ArtifactsInPlace
  <2>. SUFFICES ASSUME IInv, NEW q \in Requests, NEW i \in Tests, outcome[q][i] \in Pending
                PROVE  stage[q] = "testing" /\ Needed(submission[q]) \subseteq Bound(q)
    BY DEF ArtifactsInPlace
  <2>1. RequestSound(q) /\ stage[q] \in Stages
    BY DEF IInv, TypeOK
  <2>2. stage[q] = "testing"
    BY <2>1 DEF RequestSound, TestsInTime, Stages, Pending
  <2>. QED BY <2>1, <2>2 DEF RequestSound, Prepared
<1>. QED BY <1>1, Invariance, PTL

\* _aggregate_flat() reports the failure of the first test that fails, one by one
\* or all at once.
THEOREM FirstFailureIsTheAnswer == Spec => []FirstFailureReported
<1>1. IInv => FirstFailureReported
  BY DEF IInv, RequestSound, AnswerSound, Passes, FirstFailureReported
<1>. QED BY <1>1, Invariance, PTL
=============================================================================
