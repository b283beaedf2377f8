------------------------- MODULE SandboxSlotsProofs -------------------------
(***************************************************************************)
(* Proofs about SandboxSlots, for any number of coroutines, languages and  *)
(* slots and any mix of jobs.                                              *)
(***************************************************************************)
EXTENDS SandboxSlots, CommonLemmas, FiniteSetTheorems, WellFoundedInduction

\* A path is the global semaphore followed by one or two languages' own.
LEMMA PathFacts ==
  ASSUME NEW j \in Jobs
  PROVE  /\ Len(Path(j)) \in {2, 3}
         /\ Path(j)[1] = Global
         /\ \A i \in 1..Len(Path(j)) : Path(j)[i] \in Sems
         /\ \A i \in 2..Len(Path(j)) : Path(j)[i] \in Languages
<1>1. j.lang \in Languages /\ j.interactor \in Languages \cup {None}
  BY SlotsAssumption
<1>2. CASE j.interactor = None
  BY <1>1, <1>2 DEF Path, Sems
<1>3. CASE j.interactor # None /\ j.lang > j.interactor
  BY <1>1, <1>3 DEF Path, Sems
<1>4. CASE j.interactor # None /\ ~(j.lang > j.interactor)
  BY <1>1, <1>4 DEF Path, Sems
<1> QED
  BY <1>2, <1>3, <1>4

\* A task that waits, or may still acquire, has a next semaphore; one that
\* releases has a last one.
LEMMA NextSemType ==
  ASSUME TypeOK, PathSound, NEW t \in Tasks
  PROVE  /\ pc[t] \notin {"idle"} => job[t] \in Jobs
         /\ pc[t] \in {"acquiring", "waiting"} /\ got[t] < Len(Path(job[t]))
              => NextSem(t) \in Sems /\ got[t] + 1 \in 1..3
         /\ pc[t] = "releasing" /\ got[t] > 0
              => LastSem(t) \in Sems /\ got[t] \in 1..3
<1>1. pc[t] # "idle" => job[t] \in Jobs
  BY DEF TypeOK, PathSound
<1>2. ASSUME pc[t] # "idle"
      PROVE  /\ got[t] \in 0..3
             /\ Len(Path(job[t])) \in {2, 3}
             /\ \A i \in 1..Len(Path(job[t])) : Path(job[t])[i] \in Sems
  BY <1>1, <1>2, PathFacts DEF TypeOK
<1>3. ASSUME pc[t] \in {"acquiring", "waiting"}, got[t] < Len(Path(job[t]))
      PROVE  NextSem(t) \in Sems /\ got[t] + 1 \in 1..3
  BY <1>2, <1>3 DEF NextSem
<1>4. ASSUME pc[t] = "releasing", got[t] > 0
      PROVE  LastSem(t) \in Sems /\ got[t] \in 1..3
  BY <1>2, <1>4 DEF LastSem, PathSound
<1> QED
  BY <1>1, <1>3, <1>4

\* The slots in use, and those handed over, can be counted.
LEMMA SlotSetsFinite ==
  ASSUME TypeOK, NEW s
  PROVE  /\ IsFiniteSet(Held(s)) /\ Cardinality(Held(s)) \in Nat
         /\ IsFiniteSet(Granted(s)) /\ Cardinality(Granted(s)) \in Nat
<1>1. IsFiniteSet(Tasks \X (1..3))
  <2>1. IsFiniteSet(1..3)
    <3>1. 1 \in Int /\ 3 \in Int
      OBVIOUS
    <3> QED
      BY <3>1, FS_Interval, Zenon
  <2>2. IsFiniteSet(Tasks)
    BY SlotsAssumption
  <2> QED
    BY <2>1, <2>2, FS_Product
<1>2. Held(s) \in SUBSET (Tasks \X (1..3)) /\ Granted(s) \in SUBSET Tasks
  BY DEF Held, Granted, TypeOK
<1> QED
  BY <1>1, <1>2, SlotsAssumption, FS_Subset, FS_CardinalityType

\* The first waiter without a result, if there is one.
LEMMA FirstPendingFacts ==
  ASSUME TypeOK, QueueSound, NEW s \in Sems, Pending(s) # {}
  PROVE  LET u == queue[s][FirstPending(s)] IN
         /\ u \in Tasks /\ u \notin granted
         /\ pc[u] = "waiting" /\ NextSem(u) = s
<1>1. queue[s] \in Seq(Tasks) /\ Len(queue[s]) \in Nat
  BY LenProperties DEF TypeOK
<1>2. Pending(s) \subseteq Nat
  BY <1>1, LenProperties DEF Pending
<1>3. \E i \in Pending(s) : \A k \in Pending(s) : i <= k
  BY <1>2, LeastElement
<1>4. FirstPending(s) \in Pending(s)
  BY <1>3 DEF FirstPending
<1>5. FirstPending(s) \in DOMAIN queue[s] /\ queue[s][FirstPending(s)] \notin granted
  BY <1>4 DEF Pending
<1>6. queue[s][FirstPending(s)] \in ToSet(queue[s])
  BY <1>5 DEF ToSet
<1> QED
  BY <1>5, <1>6 DEF QueueSound

-----------------------------------------------------------------------------
(***************************************************************************)
(* What a step does to the three sets of slots, by the kind of step.       *)
(***************************************************************************)

\* A step that leaves the semaphores alone, makes nobody wait, and changes the
\* job of no task that holds a slot or waits.
Quiet == /\ UNCHANGED <<value, queue, granted, got>>
         /\ \A u \in Tasks : pc'[u] = "waiting" <=> pc[u] = "waiting"
         /\ \A u \in Tasks : got[u] > 0 \/ pc[u] = "waiting" => job'[u] = job[u]

\* A quiet step leaves the slots of every semaphore with whom they are.
LEMMA QuietSlots ==
  ASSUME TypeOK, QueueSound, Quiet
  PROVE  \A s \in Sems : /\ Held(s)' = Held(s)
                         /\ Granted(s)' = Granted(s)
                         /\ Pending(s)' = Pending(s)
<1> SUFFICES ASSUME NEW s \in Sems
             PROVE  /\ Held(s)' = Held(s)
                    /\ Granted(s)' = Granted(s)
                    /\ Pending(s)' = Pending(s)
  OBVIOUS
<1>1. \A h \in Tasks \X (1..3) : h[2] <= got[h[1]] => job'[h[1]] = job[h[1]]
  <2>1. ASSUME NEW u \in Tasks, NEW i \in 1..3, i <= got[u]
        PROVE  job'[u] = job[u]
    <3>0. got[u] \in 0..3
      BY DEF TypeOK
    <3>1. got[u] > 0
      BY <2>1, <3>0
    <3> QED
      BY <3>1 DEF Quiet
  <2> QED
    BY <2>1
<1>2. Held(s)' = Held(s)
  BY <1>1 DEF Held, Quiet
<1>3. \A t \in granted : job'[t] = job[t] /\ got'[t] = got[t]
  BY DEF Quiet, TypeOK, QueueSound
<1>4. Granted(s)' = Granted(s)
  BY <1>3 DEF Granted, NextSem, Quiet
<1>5. Pending(s)' = Pending(s)
  BY DEF Pending, Quiet
<1> QED
  BY <1>2, <1>4, <1>5

\* A task acquires the next semaphore of its path.
LEMMA HeldGrows ==
  ASSUME TypeOK, NEW t \in Tasks, UNCHANGED job,
         got' = [got EXCEPT ![t] = @ + 1], got[t] + 1 \in 1..3
  PROVE  \A s \in Sems :
           /\ s = NextSem(t) => /\ Held(s)' = Held(s) \cup {<<t, got[t] + 1>>}
                               /\ <<t, got[t] + 1>> \notin Held(s)
           /\ s # NextSem(t) => Held(s)' = Held(s)
<1>0. got \in [Tasks -> 0..3]
  BY DEF TypeOK
<1>1. \A h \in Tasks \X (1..3) :
        h[2] <= got'[h[1]] <=> h[2] <= got[h[1]] \/ h = <<t, got[t] + 1>>
  <2>1. ASSUME NEW u \in Tasks, NEW i \in 1..3
        PROVE  i <= got'[u] <=> i <= got[u] \/ <<u, i>> = <<t, got[t] + 1>>
    BY <1>0
  <2> QED
    BY <2>1
<1>2. <<t, got[t] + 1>> \in Tasks \X (1..3)
  OBVIOUS
<1>3. ~(got[t] + 1 <= got[t])
  <2>1. got[t] \in Int
    BY <1>0
  <2> QED
    BY <2>1
<1> QED
  BY <1>1, <1>2, <1>3 DEF Held, NextSem

\* A task releases the last semaphore it acquired.
LEMMA HeldShrinks ==
  ASSUME TypeOK, NEW t \in Tasks, UNCHANGED job, got[t] > 0,
         got' = [got EXCEPT ![t] = @ - 1]
  PROVE  \A s \in Sems :
           /\ s = LastSem(t) => /\ Held(s)' = Held(s) \ {<<t, got[t]>>}
                               /\ <<t, got[t]>> \in Held(s)
           /\ s # LastSem(t) => Held(s)' = Held(s)
<1>1. \A h \in Tasks \X (1..3) :
        h[2] <= got'[h[1]] <=> h[2] <= got[h[1]] /\ h # <<t, got[t]>>
  <2>1. ASSUME NEW u \in Tasks, NEW i \in 1..3
        PROVE  i <= got'[u] <=> i <= got[u] /\ <<u, i>> # <<t, got[t]>>
    BY DEF TypeOK
  <2> QED
    BY <2>1
<1>2. <<t, got[t]>> \in Tasks \X (1..3)
  BY DEF TypeOK
<1> QED
  BY <1>1, <1>2 DEF Held, LastSem, TypeOK

\* The waiters handed a slot of s, when the grants of `done` become those of s
\* plus, if some waiter is still pending, the first of them.
LEMMA WakeUpFacts ==
  ASSUME TypeOK, QueueSound, NEW s \in Sems, NEW v \in Nat \ {0}, NEW done \in SUBSET granted,
         WakeUpNext(s, v, done)
  PROVE  \/ /\ Pending(s) = {} /\ granted' = done
            /\ value' = [value EXCEPT ![s] = v]
         \/ \E u \in Tasks \ granted :
              /\ pc[u] = "waiting" /\ NextSem(u) = s
              /\ granted' = done \cup {u}
              /\ value' = [value EXCEPT ![s] = v - 1]
<1>1. CASE Pending(s) = {}
  BY <1>1 DEF WakeUpNext
<1>2. CASE Pending(s) # {}
  <2> DEFINE u == queue[s][FirstPending(s)]
  <2>1. u \in Tasks \ granted /\ pc[u] = "waiting" /\ NextSem(u) = s
    BY <1>2, FirstPendingFacts
  <2>2. granted' = done \cup {u} /\ value' = [value EXCEPT ![s] = v - 1]
    BY <1>2 DEF WakeUpNext
  <2> QED
    BY <2>1, <2>2
<1> QED
  BY <1>1, <1>2

-----------------------------------------------------------------------------
\* A quiet step keeps the queues sound and the slots conserved.
LEMMA QuietInvariant ==
  ASSUME IInv, Quiet
  PROVE  QueueSound' /\ SlotsConserved' /\ NoLostWakeup'
<1>1. QueueSound'
  <2>1. \A u \in Tasks : pc'[u] = "waiting" => NextSem(u)' = NextSem(u)
    BY DEF Quiet, NextSem
  <2> QED
    BY <2>1 DEF Quiet, QueueSound, IInv, TypeOK
<1>2. SlotsConserved'
  BY QuietSlots DEF IInv, SlotsConserved, Quiet
<1>3. NoLostWakeup'
  BY QuietSlots DEF IInv, NoLostWakeup, Quiet
<1> QED
  BY <1>1, <1>2, <1>3

\* The actions that touch no semaphore.
LEMMA ArriveInvariant ==
  ASSUME IInv, NEW t \in Tasks, NEW j \in Jobs, Arrive(t, j)
  PROVE  IInv'
<1>1. TypeOK'
  BY DEF IInv, TypeOK, Arrive
<1>2. PathSound'
  BY PathFacts, SlotsAssumption DEF IInv, TypeOK, PathSound, Arrive
<1>3. Quiet
  BY DEF IInv, TypeOK, PathSound, Arrive, Quiet
<1> QED
  BY <1>1, <1>2, <1>3, QuietInvariant DEF IInv

\* A task that has its whole path starts its jails.
LEMMA EnterInvariant ==
  ASSUME IInv, NEW t \in Tasks, Enter(t)
  PROVE  IInv'
<1>1. TypeOK'
  BY DEF IInv, TypeOK, Enter
<1>2. PathSound'
  BY SlotsAssumption DEF IInv, TypeOK, PathSound, Enter
<1>3. Quiet
  BY DEF IInv, TypeOK, PathSound, Enter, Quiet
<1> QED
  BY <1>1, <1>2, <1>3, QuietInvariant DEF IInv

\* The jails have ended; the slots are still held.
LEMMA FinishInvariant ==
  ASSUME IInv, NEW t \in Tasks, Finish(t)
  PROVE  IInv'
<1>1. TypeOK'
  BY DEF IInv, TypeOK, Finish
<1>2. PathSound'
  BY SlotsAssumption DEF IInv, TypeOK, PathSound, Finish
<1>3. Quiet
  BY DEF IInv, TypeOK, PathSound, Finish, Quiet
<1> QED
  BY <1>1, <1>2, <1>3, QuietInvariant DEF IInv

\* A task that has released its whole path is idle again.
LEMMA LeaveInvariant ==
  ASSUME IInv, NEW t \in Tasks, Leave(t)
  PROVE  IInv'
<1>1. TypeOK'
  BY DEF IInv, TypeOK, Leave
<1>2. PathSound'
  BY SlotsAssumption DEF IInv, TypeOK, PathSound, Leave
<1>3. Quiet
  BY DEF IInv, TypeOK, PathSound, Leave, Quiet
<1> QED
  BY <1>1, <1>2, <1>3, QuietInvariant DEF IInv

-----------------------------------------------------------------------------
\* The actions that do.

\* The grants of s in the next state, when those of `done` stay and those of
\* `new` are added, and t alone moves along its path.
LEMMA GrantedAfter ==
  ASSUME IInv, NEW t \in Tasks, NEW done \in SUBSET granted, NEW new \in SUBSET Tasks,
         t \notin done, t \notin new, granted' = done \cup new, UNCHANGED job,
         \A u \in Tasks \ {t} : got'[u] = got[u],
         NEW s \in Sems
  PROVE  Granted(s)' = {u \in done : NextSem(u) = s} \cup {u \in new : NextSem(u) = s}
<1>1. \A u \in done \cup new : NextSem(u)' = NextSem(u)
  BY DEF NextSem, IInv, TypeOK
<1> QED
  BY <1>1 DEF Granted

\* The fast path takes one free slot, and nobody was waiting for it.
LEMMA AcquireInvariant ==
  ASSUME IInv, NEW t \in Tasks, Acquire(t)
  PROVE  IInv'
<1> DEFINE s0 == NextSem(t)
<1>1. s0 \in Sems /\ got[t] + 1 \in 1..3 /\ job[t] \in Jobs
  BY NextSemType DEF IInv, Acquire
<1>2. value[s0] \in Nat \ {0} /\ queue[s0] = <<>>
  BY <1>1 DEF Acquire, Locked, IInv, TypeOK
<1>3. TypeOK'
  BY <1>1, <1>2 DEF IInv, TypeOK, Acquire
<1>4. PathSound'
  <2>1. Len(Path(job[t])) \in {2, 3} /\ got[t] \in 0..3
    BY <1>1, PathFacts DEF IInv, TypeOK
  <2>2. got[t] + 1 <= Len(Path(job[t]))
    BY <2>1 DEF Acquire
  <2> QED
    BY <2>2 DEF IInv, TypeOK, PathSound, Acquire
<1>5. t \notin granted /\ pc[t] # "waiting"
  BY DEF Acquire, IInv, QueueSound
<1>6. \A u \in Tasks \ {t} : got'[u] = got[u] /\ NextSem(u)' = NextSem(u)
  BY DEF Acquire, NextSem, IInv, TypeOK
<1>7. QueueSound'
  BY <1>5, <1>6 DEF IInv, QueueSound, Acquire
<1>8. \A s \in Sems : Granted(s)' = Granted(s) /\ Pending(s)' = Pending(s)
  BY <1>5, <1>6 DEF Granted, Pending, Acquire, IInv, TypeOK
<1>9. SlotsConserved'
  <2> SUFFICES ASSUME NEW s \in Sems
               PROVE  value'[s] + Cardinality(Held(s)') + Cardinality(Granted(s)') = Capacity(s)
    BY DEF SlotsConserved, Capacity
  <2>1. /\ IsFiniteSet(Held(s)) /\ Cardinality(Held(s)) \in Nat
        /\ Cardinality(Granted(s)) \in Nat
    BY SlotSetsFinite DEF IInv
  <2>2. value[s] + Cardinality(Held(s)) + Cardinality(Granted(s)) = Capacity(s)
    BY DEF IInv, SlotsConserved
  <2>3. CASE s = s0
    <3>1. Held(s)' = Held(s) \cup {<<t, got[t] + 1>>} /\ <<t, got[t] + 1>> \notin Held(s)
      BY <2>3, <1>1, HeldGrows DEF IInv, Acquire
    <3>2. Cardinality(Held(s)') = Cardinality(Held(s)) + 1
      BY <3>1, <2>1, FS_AddElement
    <3>3. value'[s] = value[s] - 1 /\ value[s] \in Nat
      BY <2>3, <1>1 DEF Acquire, IInv, TypeOK
    <3> QED
      BY <3>2, <3>3, <2>1, <2>2, <1>8
  <2>4. CASE s # s0
    <3>1. Held(s)' = Held(s)
      BY <2>4, <1>1, HeldGrows DEF IInv, Acquire
    <3>2. value'[s] = value[s]
      BY <2>4 DEF Acquire, IInv, TypeOK
    <3> QED
      BY <3>1, <3>2, <2>2, <1>8
  <2> QED
    BY <2>3, <2>4
<1>10. NoLostWakeup'
  <2> SUFFICES ASSUME NEW s \in Sems, value'[s] > 0, Pending(s)' # {}
               PROVE  Granted(s)' # {}
    BY DEF NoLostWakeup
  <2>1. s # s0
    BY <1>2, <1>8 DEF Pending
  <2>2. value'[s] = value[s]
    BY <2>1 DEF Acquire, IInv, TypeOK
  <2> QED
    BY <2>2, <1>8 DEF IInv, NoLostWakeup
<1> QED
  BY <1>3, <1>4, <1>7, <1>9, <1>10 DEF IInv

\* The slow path joins a queue whose semaphore has no free slot, or has a waiter with a grant.
LEMMA WaitInvariant ==
  ASSUME IInv, NEW t \in Tasks, Wait(t)
  PROVE  IInv'
<1> DEFINE s0 == NextSem(t)
<1>1. s0 \in Sems /\ got[t] + 1 \in 1..3 /\ job[t] \in Jobs
  BY NextSemType DEF IInv, Wait
<1>2. \A s \in Sems : t \notin ToSet(queue[s]) /\ queue[s] \in Seq(Tasks)
  BY DEF Wait, IInv, TypeOK, QueueSound
<1>3. /\ queue'[s0] \in Seq(Tasks) /\ IsInjective(queue'[s0])
      /\ ToSet(queue'[s0]) = ToSet(queue[s0]) \cup {t}
  <2>1. IsInjective(queue[s0]) /\ queue'[s0] = Append(queue[s0], t)
    BY <1>1 DEF Wait, IInv, TypeOK, QueueSound
  <2> QED
    BY <2>1, <1>1, <1>2, AppendElements
<1>4. \A s \in Sems \ {s0} : queue'[s] = queue[s]
  BY DEF Wait, IInv, TypeOK
<1>5. TypeOK'
  <2>1. queue' \in [Sems -> Seq(Tasks)]
    BY <1>1, <1>3, <1>4 DEF Wait, IInv, TypeOK
  <2> QED
    BY <2>1 DEF IInv, TypeOK, Wait
<1>6. PathSound'
  BY SlotsAssumption DEF IInv, TypeOK, PathSound, Wait
<1>7. \A u \in Tasks : NextSem(u)' = NextSem(u)
  BY DEF NextSem, Wait
<1>8. QueueSound'
  <2>1. \A u \in Tasks : pc'[u] = "waiting" <=> pc[u] = "waiting" \/ u = t
    BY DEF Wait, IInv, TypeOK
  <2>2. ASSUME NEW s \in Sems
        PROVE  /\ IsInjective(queue'[s])
               /\ ToSet(queue'[s]) = {u \in Tasks : pc'[u] = "waiting" /\ NextSem(u)' = s}
    <3>1. CASE s = s0
      BY <3>1, <1>3, <1>7, <2>1 DEF IInv, QueueSound
    <3>2. CASE s # s0
      BY <3>2, <1>4, <1>7, <2>1 DEF IInv, QueueSound
    <3> QED
      BY <3>1, <3>2
  <2>3. \A u \in granted' : pc'[u] = "waiting"
    BY <2>1 DEF Wait, IInv, TypeOK, QueueSound
  <2> QED
    BY <2>2, <2>3 DEF QueueSound
<1>9. \A s \in Sems : Held(s)' = Held(s) /\ Granted(s)' = Granted(s)
  BY <1>7 DEF Held, Granted, Wait, IInv, TypeOK
<1>10. SlotsConserved'
  BY <1>9 DEF IInv, SlotsConserved, Wait
<1>11. NoLostWakeup'
  <2> SUFFICES ASSUME NEW s \in Sems, value[s] > 0, Pending(s)' # {}
               PROVE  Granted(s) # {}
    BY <1>9 DEF NoLostWakeup, Wait
  <2>1. CASE s # s0
    BY <2>1, <1>4 DEF Pending, Wait, IInv, NoLostWakeup
  <2>2. CASE s = s0
    <3>1. queue[s] # <<>> /\ queue[s] \in Seq(Tasks)
      BY <2>2, <1>1 DEF Wait, Locked, IInv, TypeOK
    <3>2. 1 \in DOMAIN queue[s]
      BY <3>1, EmptySeq, LenProperties
    <3>3. CASE queue[s][1] \in granted
      <4>1. queue[s][1] \in ToSet(queue[s])
        BY <3>2 DEF ToSet
      <4> QED
        BY <3>3, <4>1 DEF Granted, IInv, QueueSound
    <3>4. CASE queue[s][1] \notin granted
      BY <3>2, <3>4 DEF Pending, IInv, NoLostWakeup
    <3> QED
      BY <3>3, <3>4
  <2> QED
    BY <2>1, <2>2
<1> QED
  BY <1>5, <1>6, <1>8, <1>10, <1>11 DEF IInv

\* A release frees one slot or hands it to the first pending waiter.
LEMMA ReleaseInvariant ==
  ASSUME IInv, NEW t \in Tasks, Release(t)
  PROVE  IInv'
<1> DEFINE s0 == LastSem(t)
<1>1. s0 \in Sems /\ got[t] \in 1..3 /\ job[t] \in Jobs
  BY NextSemType DEF IInv, Release
<1>2. value[s0] \in Nat /\ value[s0] + 1 \in Nat \ {0}
  BY <1>1 DEF IInv, TypeOK
<1>3. t \notin granted /\ pc[t] # "waiting"
  BY DEF Release, IInv, QueueSound
<1>4. PICK new \in SUBSET Tasks :
        /\ granted' = granted \cup new
        /\ \/ /\ new = {} /\ Pending(s0) = {}
              /\ value' = [value EXCEPT ![s0] = value[s0] + 1]
           \/ \E u \in Tasks \ granted :
                /\ new = {u} /\ pc[u] = "waiting" /\ NextSem(u) = s0
                /\ value' = [value EXCEPT ![s0] = (value[s0] + 1) - 1]
  <2>1. WakeUpNext(s0, value[s0] + 1, granted)
    BY DEF Release
  <2>2. CASE Pending(s0) = {} /\ granted' = granted
             /\ value' = [value EXCEPT ![s0] = value[s0] + 1]
    <3>1. granted' = granted \cup {}
      BY <2>2
    <3> QED
      BY <3>1, <2>2
  <2>3. CASE \E u \in Tasks \ granted :
               /\ pc[u] = "waiting" /\ NextSem(u) = s0
               /\ granted' = granted \cup {u}
               /\ value' = [value EXCEPT ![s0] = (value[s0] + 1) - 1]
    <3>1. PICK u \in Tasks \ granted :
               /\ pc[u] = "waiting" /\ NextSem(u) = s0
               /\ granted' = granted \cup {u}
               /\ value' = [value EXCEPT ![s0] = (value[s0] + 1) - 1]
      BY <2>3
    <3>2. {u} \in SUBSET Tasks
      OBVIOUS
    <3> QED
      BY <3>1, <3>2
  <2> QED
    BY <2>1, <2>2, <2>3, <1>1, <1>2, WakeUpFacts DEF IInv
<1>5. \A u \in new : pc[u] = "waiting" /\ NextSem(u) = s0 /\ u # t /\ u \notin granted
  BY <1>3, <1>4
<1>6. TypeOK'
  <2>1. value' \in [Sems -> Nat]
    <3>1. value \in [Sems -> Nat] /\ (value[s0] + 1) - 1 \in Nat
      BY <1>1, <1>2 DEF IInv, TypeOK
    <3>2. \/ value' = [value EXCEPT ![s0] = value[s0] + 1]
          \/ value' = [value EXCEPT ![s0] = (value[s0] + 1) - 1]
      BY <1>4
    <3> QED
      BY <3>1, <3>2, <1>2
  <2>2. got' \in [Tasks -> 0..3]
    BY <1>1 DEF Release, IInv, TypeOK
  <2> QED
    BY <2>1, <2>2, <1>4 DEF IInv, TypeOK, Release
<1>7. PathSound'
  <2>1. Len(Path(job[t])) \in {2, 3} /\ got[t] \in 0..3
    BY <1>1, PathFacts DEF IInv, TypeOK
  <2>2. got[t] <= Len(Path(job[t]))
    BY DEF Release, IInv, PathSound
  <2>3. got[t] - 1 <= Len(Path(job[t]))
    BY <2>1, <2>2
  <2> QED
    BY <2>3 DEF IInv, TypeOK, PathSound, Release
<1>8. \A u \in Tasks \ {t} : got'[u] = got[u] /\ NextSem(u)' = NextSem(u)
  BY DEF Release, NextSem, IInv, TypeOK
<1>9. QueueSound'
  <2>1. \A u \in granted' : pc'[u] = "waiting"
    BY <1>4, <1>5 DEF IInv, QueueSound, Release
  <2>2. \A s \in Sems : ToSet(queue[s]) = {u \in Tasks : pc[u] = "waiting" /\ NextSem(u)' = s}
    BY <1>3, <1>8 DEF IInv, QueueSound
  <2> QED
    BY <2>1, <2>2 DEF IInv, QueueSound, Release
<1>10. \A s \in Sems : Granted(s)' = Granted(s) \cup (IF s = s0 THEN new ELSE {})
  <2>1. \A u \in granted : NextSem(u)' = NextSem(u)
    BY <1>3, <1>8 DEF IInv, TypeOK
  <2>2. \A u \in new : NextSem(u)' = s0
    BY <1>5, <1>8
  <2> QED
    BY <2>1, <2>2, <1>4 DEF Granted
<1>11. SlotsConserved'
  <2> SUFFICES ASSUME NEW s \in Sems
               PROVE  value'[s] + Cardinality(Held(s)') + Cardinality(Granted(s)') = Capacity(s)
    BY DEF SlotsConserved, Capacity
  <2>1. /\ IsFiniteSet(Held(s)) /\ Cardinality(Held(s)) \in Nat
        /\ IsFiniteSet(Granted(s)) /\ Cardinality(Granted(s)) \in Nat
    BY SlotSetsFinite DEF IInv
  <2>2. value[s] + Cardinality(Held(s)) + Cardinality(Granted(s)) = Capacity(s)
    BY DEF IInv, SlotsConserved
  <2>3. CASE s = s0
    <3>1. Held(s)' = Held(s) \ {<<t, got[t]>>} /\ <<t, got[t]>> \in Held(s)
      BY <2>3, <1>1, HeldShrinks DEF IInv, Release
    <3>2. Cardinality(Held(s)') = Cardinality(Held(s)) - 1
      <4> DEFINE h == <<t, got[t]>>
      <4>1. Cardinality(Held(s) \ {h}) =
              IF h \in Held(s) THEN Cardinality(Held(s)) - 1 ELSE Cardinality(Held(s))
        BY <2>1, FS_RemoveElement
      <4> QED
        BY <4>1, <3>1
    <3>3. CASE new = {} /\ value' = [value EXCEPT ![s0] = value[s0] + 1]
      <4>1. Granted(s)' = Granted(s)
        BY <3>3, <1>10
      <4>2. value'[s] = value[s] + 1
        BY <3>3, <2>3, <1>1 DEF IInv, TypeOK
      <4> QED
        BY <4>1, <4>2, <3>2, <2>1, <2>2, <2>3, <1>2
    <3>4. CASE \E u \in Tasks \ granted :
                 new = {u} /\ value' = [value EXCEPT ![s0] = (value[s0] + 1) - 1]
      <4>1. PICK u \in Tasks \ granted :
                 new = {u} /\ value' = [value EXCEPT ![s0] = (value[s0] + 1) - 1]
        BY <3>4
      <4>2. Granted(s)' = Granted(s) \cup {u} /\ u \notin Granted(s)
        BY <4>1, <2>3, <1>10 DEF Granted
      <4>3. Cardinality(Granted(s)') = Cardinality(Granted(s)) + 1
        BY <4>2, <2>1, FS_AddElement
      <4>4. value'[s] = value[s]
        BY <4>1, <2>3, <1>1, <1>2 DEF IInv, TypeOK
      <4> QED
        BY <4>3, <4>4, <3>2, <2>1, <2>2, <2>3, <1>2
    <3> QED
      BY <3>3, <3>4, <1>4
  <2>4. CASE s # s0
    <3>1. Held(s)' = Held(s)
      BY <2>4, <1>1, HeldShrinks DEF IInv, Release
    <3>2. value'[s] = value[s]
      BY <2>4, <1>4 DEF IInv, TypeOK
    <3>3. Granted(s)' = Granted(s)
      BY <2>4, <1>10
    <3> QED
      BY <3>1, <3>2, <3>3, <2>2
  <2> QED
    BY <2>3, <2>4
<1>12. NoLostWakeup'
  <2> SUFFICES ASSUME NEW s \in Sems, value'[s] > 0, Pending(s)' # {}
               PROVE  Granted(s)' # {}
    BY DEF NoLostWakeup
  <2>1. Pending(s)' \subseteq Pending(s)
    BY <1>4 DEF Pending, Release
  <2>2. CASE s = s0 /\ new = {}
    BY <2>1, <2>2, <1>4
  <2>3. CASE s = s0 /\ new # {}
    BY <2>3, <1>10
  <2>4. CASE s # s0
    <3>1. value'[s] = value[s]
      BY <2>4, <1>4 DEF IInv, TypeOK
    <3> QED
      BY <3>1, <2>1, <2>4, <1>10 DEF IInv, NoLostWakeup
  <2> QED
    BY <2>2, <2>3, <2>4
<1> QED
  BY <1>6, <1>7, <1>9, <1>11, <1>12 DEF IInv

\* A waiter turns its grant into a held slot and passes the wake-up on.
LEMMA ResumeInvariant ==
  ASSUME IInv, NEW t \in Tasks, Resume(t)
  PROVE  IInv'
<1> DEFINE s0 == NextSem(t)
           done == granted \ {t}
<1>1. s0 \in Sems /\ got[t] + 1 \in 1..3 /\ job[t] \in Jobs
  <2>1. got[t] < Len(Path(job[t]))
    BY DEF Resume, IInv, PathSound
  <2> QED
    BY <2>1, NextSemType DEF IInv, Resume
<1>2. value[s0] \in Nat
  BY <1>1 DEF IInv, TypeOK
<1>3. PICK new \in SUBSET Tasks :
        /\ granted' = done \cup new
        /\ \/ /\ new = {} /\ (Pending(s0) = {} \/ value[s0] = 0)
              /\ value' = value
           \/ \E u \in Tasks \ granted :
                /\ new = {u} /\ pc[u] = "waiting" /\ NextSem(u) = s0 /\ value[s0] > 0
                /\ value' = [value EXCEPT ![s0] = value[s0] - 1]
  <2>1. CASE ~(value[s0] > 0)
    <3>1. granted' = done \cup {} /\ value' = value /\ value[s0] = 0
      BY <2>1, <1>2 DEF Resume
    <3> QED
      BY <3>1
  <2>2. CASE value[s0] > 0
    <3>1. WakeUpNext(s0, value[s0], done) /\ value[s0] \in Nat \ {0}
      BY <2>2, <1>2 DEF Resume
    <3>2. done \in SUBSET granted
      OBVIOUS
    <3>3. CASE Pending(s0) = {} /\ granted' = done /\ value' = [value EXCEPT ![s0] = value[s0]]
      <4>1. granted' = done \cup {} /\ value' = value
        BY <3>3, <1>1 DEF IInv, TypeOK
      <4> QED
        BY <4>1, <3>3
    <3>4. CASE \E u \in Tasks \ granted :
                 /\ pc[u] = "waiting" /\ NextSem(u) = s0
                 /\ granted' = done \cup {u}
                 /\ value' = [value EXCEPT ![s0] = value[s0] - 1]
      <4>1. PICK u \in Tasks \ granted :
                 /\ pc[u] = "waiting" /\ NextSem(u) = s0
                 /\ granted' = done \cup {u}
                 /\ value' = [value EXCEPT ![s0] = value[s0] - 1]
        BY <3>4
      <4>2. {u} \in SUBSET Tasks
        OBVIOUS
      <4> QED
        BY <4>1, <4>2, <2>2
    <3> QED
      BY <3>1, <3>2, <3>3, <3>4, <1>1, WakeUpFacts DEF IInv
  <2> QED
    BY <2>1, <2>2
<1>4. t \in granted /\ pc[t] = "waiting"
  BY DEF Resume
<1>5. \A u \in new : pc[u] = "waiting" /\ NextSem(u) = s0 /\ u # t /\ u \notin granted
  BY <1>3, <1>4
<1>6. \A s \in Sems : value'[s] \in Nat /\ (s # s0 => value'[s] = value[s])
  <2>1. value \in [Sems -> Nat]
    BY DEF IInv, TypeOK
  <2>2. \/ value' = value
        \/ value' = [value EXCEPT ![s0] = value[s0] - 1] /\ value[s0] > 0
    BY <1>3
  <2> QED
    BY <1>1, <2>1, <2>2
<1>7. ASSUME NEW s \in Sems
      PROVE  /\ queue'[s] \in Seq(Tasks) /\ IsInjective(queue'[s])
             /\ ToSet(queue'[s]) = ToSet(queue[s]) \ {t}
             /\ s # s0 => queue'[s] = queue[s]
  <2>1. IsInjective(queue[s]) /\ queue[s] \in Seq(Tasks)
    BY DEF IInv, TypeOK, QueueSound
  <2>2. CASE s = s0
    <3>1. queue'[s] = RemoveFirst(queue[s], t)
      BY <2>2, <1>1 DEF Resume, IInv, TypeOK
    <3> QED
      BY <2>1, <2>2, <3>1, RemoveFirstElements
  <2>3. CASE s # s0
    <3>1. queue'[s] = queue[s]
      BY <2>3 DEF Resume, IInv, TypeOK
    <3>2. t \notin ToSet(queue[s])
      BY <2>3 DEF IInv, QueueSound
    <3> QED
      BY <2>1, <2>3, <3>1, <3>2
  <2> QED
    BY <2>2, <2>3
<1>8. TypeOK'
  <2>1. value' \in [Sems -> Nat]
    <3>1. value' \in [Sems -> Nat] \/ value' = [value EXCEPT ![s0] = value[s0] - 1]
      BY <1>3 DEF IInv, TypeOK
    <3> QED
      BY <3>1, <1>1, <1>6 DEF IInv, TypeOK
  <2>2. queue' \in [Sems -> Seq(Tasks)]
    BY <1>7 DEF Resume, IInv, TypeOK
  <2>3. got' \in [Tasks -> 0..3]
    BY <1>1 DEF Resume, IInv, TypeOK
  <2> QED
    BY <2>1, <2>2, <2>3, <1>3 DEF IInv, TypeOK, Resume
<1>9. PathSound'
  <2>1. Len(Path(job[t])) \in {2, 3} /\ got[t] \in 0..3
    BY <1>1, PathFacts DEF IInv, TypeOK
  <2>2. got[t] + 1 <= Len(Path(job[t]))
    BY <2>1, <1>4 DEF IInv, PathSound
  <2> QED
    BY <2>2, SlotsAssumption DEF IInv, TypeOK, PathSound, Resume
<1>10. \A u \in Tasks \ {t} : /\ NextSem(u)' = NextSem(u)
                              /\ pc'[u] = pc[u]
  BY DEF Resume, NextSem, IInv, TypeOK
<1>11. pc'[t] # "waiting"
  BY DEF Resume, IInv, TypeOK
<1>12. QueueSound'
  <2>1. \A u \in granted' : pc'[u] = "waiting"
    BY <1>3, <1>5, <1>10 DEF IInv, TypeOK, QueueSound
  <2>2. ASSUME NEW s \in Sems
        PROVE  ToSet(queue'[s]) = {u \in Tasks : pc'[u] = "waiting" /\ NextSem(u)' = s}
    <3>1. ToSet(queue'[s]) = {u \in Tasks : pc[u] = "waiting" /\ NextSem(u) = s} \ {t}
      BY <1>7 DEF IInv, QueueSound
    <3> QED
      BY <3>1, <1>10, <1>11
  <2> QED
    BY <2>1, <2>2, <1>7 DEF QueueSound
<1>13. ASSUME NEW s \in Sems
       PROVE  Granted(s)' = (Granted(s) \ {t}) \cup (IF s = s0 THEN new ELSE {})
  <2>1. \A u \in done : NextSem(u)' = NextSem(u)
    BY <1>10 DEF IInv, TypeOK
  <2>2. \A u \in new : NextSem(u)' = s0
    BY <1>5, <1>10
  <2> QED
    BY <2>1, <2>2, <1>3 DEF Granted
<1>14. SlotsConserved'
  <2> SUFFICES ASSUME NEW s \in Sems
               PROVE  value'[s] + Cardinality(Held(s)') + Cardinality(Granted(s)') = Capacity(s)
    BY DEF SlotsConserved, Capacity
  <2>1. /\ IsFiniteSet(Held(s)) /\ Cardinality(Held(s)) \in Nat
        /\ IsFiniteSet(Granted(s)) /\ Cardinality(Granted(s)) \in Nat
    BY SlotSetsFinite DEF IInv
  <2>2. value[s] + Cardinality(Held(s)) + Cardinality(Granted(s)) = Capacity(s)
    BY DEF IInv, SlotsConserved
  <2>3. CASE s = s0
    <3>1. Cardinality(Held(s)') = Cardinality(Held(s)) + 1
      <4> DEFINE h == <<t, got[t] + 1>>
      <4>1. Held(s)' = Held(s) \cup {h} /\ h \notin Held(s)
        BY <2>3, <1>1, HeldGrows DEF IInv, Resume
      <4> QED
        BY <4>1, <2>1, FS_AddElement
    <3>2. t \in Granted(s)
      BY <2>3, <1>4 DEF Granted
    <3>3. /\ IsFiniteSet(Granted(s) \ {t})
          /\ Cardinality(Granted(s) \ {t}) = Cardinality(Granted(s)) - 1
      BY <3>2, <2>1, FS_RemoveElement
    <3>4. CASE new = {} /\ value' = value
      <4>1. Granted(s)' = Granted(s) \ {t}
        BY <3>4, <1>13
      <4> QED
        BY <4>1, <3>1, <3>3, <3>4, <2>1, <2>2, <2>3, <1>2
    <3>5. CASE \E u \in Tasks \ granted :
                 new = {u} /\ value' = [value EXCEPT ![s0] = value[s0] - 1]
      <4>1. PICK u \in Tasks \ granted :
                 new = {u} /\ value' = [value EXCEPT ![s0] = value[s0] - 1]
        BY <3>5
      <4>2. /\ Granted(s)' = (Granted(s) \ {t}) \cup {u}
            /\ u \notin Granted(s) \ {t}
        BY <4>1, <2>3, <1>13 DEF Granted
      <4>3. Cardinality(Granted(s)') = Cardinality(Granted(s) \ {t}) + 1
        BY <4>2, <3>3, FS_AddElement
      <4>4. value'[s] = value[s] - 1
        BY <4>1, <2>3, <1>1 DEF IInv, TypeOK
      <4> QED
        BY <4>3, <4>4, <3>1, <3>3, <2>1, <2>2, <2>3, <1>2
    <3> QED
      BY <3>4, <3>5, <1>3
  <2>4. CASE s # s0
    <3>1. Held(s)' = Held(s)
      BY <2>4, <1>1, HeldGrows DEF IInv, Resume
    <3>2. Granted(s)' = Granted(s)
      BY <2>4, <1>13 DEF Granted
    <3> QED
      BY <3>1, <3>2, <2>2, <2>4, <1>6
  <2> QED
    BY <2>3, <2>4
<1>15. NoLostWakeup'
  <2> SUFFICES ASSUME NEW s \in Sems, value'[s] > 0, Pending(s)' # {}
               PROVE  Granted(s)' # {}
    BY DEF NoLostWakeup
  <2>1. PICK v \in ToSet(queue'[s]) : v \notin granted'
    BY DEF Pending, ToSet
  <2>2. v \in ToSet(queue[s]) /\ v # t /\ v \notin granted
    BY <2>1, <1>3, <1>7
  <2>3. Pending(s) # {}
    BY <2>2 DEF Pending, ToSet
  <2>4. CASE s = s0
    <3>1. CASE new = {}
      BY <3>1, <2>3, <2>4, <1>2, <1>3
    <3>2. CASE new # {}
      BY <3>2, <2>4, <1>13
    <3> QED
      BY <3>1, <3>2
  <2>5. CASE s # s0
    <3>1. t \notin Granted(s)
      BY <2>5 DEF Granted
    <3> QED
      BY <3>1, <2>3, <2>5, <1>6, <1>13 DEF IInv, NoLostWakeup
  <2> QED
    BY <2>4, <2>5
<1> QED
  BY <1>8, <1>9, <1>12, <1>14, <1>15 DEF IInv

\* All slots are free and nobody waits.
LEMMA InitInvariant == Init => IInv
<1> SUFFICES ASSUME Init PROVE IInv
  OBVIOUS
<1>1. TypeOK
  <2>1. <<>> \in Seq(Tasks)
    BY EmptySeq
  <2> QED
    BY <2>1, SlotsAssumption DEF Init, TypeOK, Capacity
<1>2. PathSound
  BY SlotsAssumption DEF Init, PathSound
<1>3. QueueSound
  <2>1. \A s \in Sems : queue[s] = <<>> /\ ToSet(queue[s]) = {} /\ IsInjective(queue[s])
    BY DEF Init, ToSet, IsInjective
  <2> QED
    BY <2>1 DEF Init, QueueSound
<1>4. \A s \in Sems : Held(s) = {} /\ Granted(s) = {} /\ value[s] = Capacity(s)
  BY DEF Init, Held, Granted
<1>5. SlotsConserved
  BY <1>4, FS_EmptySet, SlotsAssumption DEF SlotsConserved, Capacity
<1>6. NoLostWakeup
  BY DEF Init, NoLostWakeup, Pending
<1> QED
  BY <1>1, <1>2, <1>3, <1>5, <1>6 DEF IInv

\* A step that changes nothing.
LEMMA StutterInvariant ==
  ASSUME IInv, UNCHANGED vars
  PROVE  IInv'
<1>1. TypeOK' /\ PathSound'
  BY DEF IInv, vars, TypeOK, PathSound
<1>2. Quiet
  BY DEF vars, Quiet
<1> QED
  BY <1>1, <1>2, QuietInvariant DEF IInv

\* The invariant is inductive.
LEMMA StepInvariant == IInv /\ [Next]_vars => IInv'
<1> SUFFICES ASSUME IInv, Next PROVE IInv'
  BY StutterInvariant
<1>1. PICK t \in Tasks : (\E j \in Jobs : Arrive(t, j)) \/ Step(t)
  BY DEF Next
<1>2. CASE \E j \in Jobs : Arrive(t, j)
  BY <1>2, ArriveInvariant
<1>3. CASE Step(t)
  BY <1>3, AcquireInvariant, WaitInvariant, ResumeInvariant,
     EnterInvariant, FinishInvariant, ReleaseInvariant, LeaveInvariant DEF Step
<1> QED
  BY <1>1, <1>2, <1>3

\* Whatever the arrivals and their order, the runner's semaphores stay well
\* typed; no slot is lost or invented; and no waiting coroutine is forgotten
\* while slots of its semaphore are free.
THEOREM InvariantHolds == Spec => []IInv
  BY InitInvariant, StepInvariant, PTL DEF Spec

\* The types: a semaphore's value is never negative, whatever is acquired and
\* released in whatever order.
THEOREM TypeCorrect == Spec => []TypeOK
<1>1. IInv => TypeOK
  BY DEF IInv
<1> QED
  BY <1>1, InvariantHolds, PTL

\* No slot is lost or invented: free, held and handed-over slots of a semaphore
\* always add up to its capacity.
THEOREM SlotsAreConserved == Spec => []SlotsConserved
<1>1. IInv => SlotsConserved
  BY DEF IInv
<1> QED
  BY <1>1, InvariantHolds, PTL

\* Free slots never go unnoticed: while a task waits for them without a grant,
\* another in its queue has one and will pass the wake-up on.
THEOREM NoWakeupIsLost == Spec => []NoLostWakeup
<1>1. IInv => NoLostWakeup
  BY DEF IInv
<1> QED
  BY <1>1, InvariantHolds, PTL

-----------------------------------------------------------------------------
(***************************************************************************)
(* Freedom from deadlock.  If no coroutine is executing, running or about  *)
(* to be resumed, every semaphore that is waited for is used up by tasks   *)
(* that wait further on along their path.  Paths ascend, when no job runs  *)
(* a program against an interactor of its own language; so the greatest    *)
(* semaphore that is waited for has no such holder.                        *)
(***************************************************************************)
DistinctLanguages == \A j \in Jobs : j.lang # j.interactor

\* The semaphores of a path ascend.
LEMMA PathsAscend ==
  ASSUME DistinctLanguages, NEW j \in Jobs,
         NEW a \in 1..Len(Path(j)), NEW b \in 1..Len(Path(j)), a < b
  PROVE  Path(j)[a] < Path(j)[b]
<1>1. /\ j.lang \in Languages /\ j.interactor \in Languages \cup {None}
      /\ j.lang # j.interactor
  BY SlotsAssumption DEF DistinctLanguages
<1>2. j.lang \in Nat \ {0} /\ j.interactor \in Nat
  BY <1>1, SlotsAssumption DEF Languages, None
<1>3. CASE j.interactor = None
  <2>1. Path(j) = <<0, j.lang>> /\ a = 1 /\ b = 2
    BY <1>3 DEF Path, Global
  <2> QED
    BY <2>1, <1>2
<1>4. CASE j.interactor # None /\ j.lang > j.interactor
  <2>1. Path(j) = <<0, j.interactor, j.lang>> /\ j.interactor > 0
    BY <1>2, <1>4 DEF Path, Global, None
  <2>2. a \in {1, 2, 3} /\ b \in {1, 2, 3}
    BY <2>1
  <2> QED
    BY <2>1, <2>2, <1>2, <1>4
<1>5. CASE j.interactor # None /\ ~(j.lang > j.interactor)
  <2>1. /\ Path(j) = <<0, j.lang, j.interactor>>
        /\ j.lang > 0 /\ j.lang < j.interactor
    BY <1>1, <1>2, <1>5 DEF Path, Global, None
  <2>2. a \in {1, 2, 3} /\ b \in {1, 2, 3}
    BY <2>1
  <2> QED
    BY <2>1, <2>2, <1>2, <1>5
<1> QED
  BY <1>3, <1>4, <1>5

\* A semaphore that is waited for while nobody moves is held by a task that
\* waits for a greater one.
LEMMA WaitedForByHolder ==
  ASSUME IInv, DistinctLanguages, NEW t \in Tasks, pc[t] = "waiting",
         turn = Nobody, granted = {}, \A u \in Tasks : pc[u] # "running"
  PROVE  \E u \in Tasks : pc[u] = "waiting" /\ NextSem(t) < NextSem(u)
<1> DEFINE s == NextSem(t)
<1>1. s \in Sems
  BY NextSemType DEF IInv, PathSound
<1>2. PICK i \in DOMAIN queue[s] : queue[s][i] = t
  BY <1>1 DEF IInv, QueueSound, ToSet
<1>3. Granted(s) = {} /\ i \in Pending(s)
  BY <1>2 DEF Granted, Pending
<1>4. value[s] = 0
  <2>1. value[s] \in Nat
    BY <1>1 DEF IInv, TypeOK
  <2>2. ~(value[s] > 0)
    BY <1>1, <1>3 DEF IInv, NoLostWakeup
  <2> QED
    BY <2>1, <2>2
<1>5. Cardinality(Held(s)) # 0
  <2>1. value[s] + Cardinality(Held(s)) + Cardinality(Granted(s)) = Capacity(s)
    BY <1>1 DEF IInv, SlotsConserved
  <2>2. Cardinality(Granted(s)) = 0 /\ Capacity(s) # 0
    BY <1>3, FS_EmptySet, SlotsAssumption DEF Capacity
  <2>3. Cardinality(Held(s)) \in Nat
    BY SlotSetsFinite DEF IInv
  <2> QED
    BY <1>4, <2>1, <2>2, <2>3
<1>6. PICK u \in Tasks, k \in 1..3 : k <= got[u] /\ Path(job[u])[k] = s
  <2>1. Held(s) # {}
    BY <1>5, FS_EmptySet
  <2> QED
    BY <2>1 DEF Held
<1>7. got[u] \in 0..3 /\ got[u] # 0 /\ turn # u
  BY <1>6, SlotsAssumption DEF IInv, TypeOK
<1>8. pc[u] = "waiting"
  BY <1>7 DEF IInv, TypeOK, PathSound
<1>9. job[u] \in Jobs /\ got[u] < Len(Path(job[u])) /\ Len(Path(job[u])) \in {2, 3}
  BY <1>8, NextSemType, PathFacts DEF IInv, PathSound
<1>10. /\ k \in 1..Len(Path(job[u])) /\ got[u] + 1 \in 1..Len(Path(job[u]))
       /\ k < got[u] + 1
  BY <1>6, <1>7, <1>9
<1>11. s < NextSem(u)
  BY <1>6, <1>9, <1>10, PathsAscend DEF NextSem
<1> QED
  BY <1>8, <1>11

\* No deadlock, for any number of coroutines, languages and slots, as long as
\* no job uses one language in both roles.
THEOREM NoDeadlock == DistinctLanguages => (Spec => []SomebodyMoves)
<1> SUFFICES ASSUME DistinctLanguages PROVE Spec => []SomebodyMoves
  OBVIOUS
<1>1. IInv => SomebodyMoves
  <2> SUFFICES ASSUME IInv, ~SomebodyMoves PROVE FALSE
    OBVIOUS
  <2>1. turn = Nobody /\ granted = {} /\ \A u \in Tasks : pc[u] # "running"
    BY DEF SomebodyMoves
  <2> DEFINE W == {NextSem(t) : t \in {u \in Tasks : pc[u] = "waiting"}}
  <2>2. W # {}
    BY DEF SomebodyMoves
  <2>3. \A t \in Tasks : pc[t] = "waiting" => NextSem(t) \in Sems
    BY NextSemType DEF IInv, PathSound
  <2>4. W \subseteq 0..NumLanguages
    BY <2>3, SlotsAssumption DEF Sems, Languages, Global
  <2>5. PICK m \in W : \A x \in W : x <= m
    BY <2>2, <2>4, GreatestElement, SlotsAssumption
  <2>6. PICK t \in Tasks : pc[t] = "waiting" /\ m = NextSem(t)
    BY <2>5
  <2>7. PICK u \in Tasks : pc[u] = "waiting" /\ NextSem(t) < NextSem(u)
    BY <2>1, <2>6, WaitedForByHolder
  <2>8. NextSem(u) \in W
    BY <2>7
  <2>9. NextSem(u) <= NextSem(t) /\ NextSem(t) \in Nat /\ NextSem(u) \in Nat
    BY <2>4, <2>5, <2>6, <2>8
  <2> QED
    BY <2>7, <2>9
<1> QED
  BY <1>1, InvariantHolds, PTL

-----------------------------------------------------------------------------
(***************************************************************************)
(* The semaphores implement the bound on concurrent executions.            *)
(***************************************************************************)
Running == [t \in Tasks |-> IF pc[t] = "running" THEN job[t] ELSE NoJob]

\* Tasks that each hold a slot of s, one more than those of B, are no more than
\* the capacity of s.
LEMMA HoldersWithinCapacity ==
  ASSUME IInv, NEW s \in Sems, NEW B \in SUBSET Tasks, NEW t \in Tasks \ B,
         \A u \in B \cup {t} : \E k \in 1..3 : <<u, k>> \in Held(s)
  PROVE  Cardinality(B) < Capacity(s)
<1> DEFINE A == B \cup {t}
           f == [u \in A |-> CHOOSE h \in Held(s) : h[1] = u]
<1>1. ASSUME NEW u \in A
      PROVE  f[u] \in Held(s) /\ f[u][1] = u
  <2>1. PICK k \in 1..3 : <<u, k>> \in Held(s)
    OBVIOUS
  <2>2. \E h \in Held(s) : h[1] = u
    <3>1. <<u, k>>[1] = u
      OBVIOUS
    <3> QED
      BY <2>1, <3>1
  <2> QED
    BY <2>2
<1>2. f \in Injection(A, Held(s))
  <2>1. f \in [A -> Held(s)]
    BY <1>1
  <2>2. \A a, b \in A : f[a] = f[b] => a = b
    BY <1>1
  <2> QED
    BY <2>1, <2>2 DEF Injection, IsInjective
<1>3. IsFiniteSet(Held(s)) /\ Cardinality(Held(s)) \in Nat /\ Cardinality(Granted(s)) \in Nat
  BY SlotSetsFinite DEF IInv
<1>4. Cardinality(A) <= Cardinality(Held(s))
  BY <1>2, <1>3, FS_Injection
<1>5. IsFiniteSet(B) /\ Cardinality(B) \in Nat
  BY SlotsAssumption, FS_Subset, FS_CardinalityType
<1>6. Cardinality(A) = Cardinality(B) + 1
  BY <1>5, FS_AddElement
<1>7. value[s] + Cardinality(Held(s)) + Cardinality(Granted(s)) = Capacity(s) /\ value[s] \in Nat
  BY DEF IInv, SlotsConserved, TypeOK
<1> QED
  BY <1>3, <1>4, <1>5, <1>6, <1>7

\* A task that has acquired its whole path holds a slot of every semaphore on it.
LEMMA HoldsItsPath ==
  ASSUME IInv, NEW u \in Tasks, job[u] \in Jobs, got[u] = Len(Path(job[u]))
  PROVE  /\ \E k \in 1..3 : <<u, k>> \in Held(Global)
         /\ \A l \in Languages : Uses(job[u], l) => \E k \in 1..3 : <<u, k>> \in Held(l)
<1>1. /\ Len(Path(job[u])) \in {2, 3} /\ Path(job[u])[1] = Global
  BY PathFacts
<1>2. <<u, 1>> \in Held(Global)
  BY <1>1 DEF Held
<1>3. ASSUME NEW l \in Languages, Uses(job[u], l)
      PROVE  \E k \in 1..3 : <<u, k>> \in Held(l)
  <2>1. l # None
    BY SlotsAssumption DEF Languages, None
  <2>2. \E k \in 1..Len(Path(job[u])) : Path(job[u])[k] = l
    BY <1>3, <2>1 DEF Path, Uses
  <2>3. PICK k \in 1..3 : k <= got[u] /\ Path(job[u])[k] = l
    BY <1>1, <2>2
  <2>4. <<u, k>> \in Held(l)
    BY <2>3 DEF Held
  <2> QED
    BY <2>4
<1> QED
  BY <1>2, <1>3

\* Entering the `async with` starts an execution within the bounds.
LEMMA EnterStarts ==
  ASSUME IInv, NEW t \in Tasks, Enter(t), NEW j \in Jobs, job[t] = j
  PROVE  Sandbox!Start(t, j)
<1>1. job[t] \in Jobs /\ pc[t] = "acquiring" /\ got[t] = Len(Path(job[t]))
  BY NextSemType DEF IInv, Enter
<1>2. \A u \in Tasks : pc[u] = "running" => job[u] \in Jobs /\ got[u] = Len(Path(job[u]))
  BY NextSemType DEF IInv, PathSound
<1>3. Sandbox!Busy \subseteq Tasks \ {t} /\ \A u \in Sandbox!Busy : pc[u] = "running"
  BY <1>1 DEF Sandbox!Busy
<1>4. Cardinality(Sandbox!Busy) < GlobalSlots
  <2>1. \A u \in Sandbox!Busy \cup {t} : \E k \in 1..3 : <<u, k>> \in Held(Global)
    BY <1>1, <1>2, <1>3, HoldsItsPath
  <2>2. Global \in Sems /\ Capacity(Global) = GlobalSlots
    BY DEF Sems, Capacity
  <2> QED
    BY <1>3, <2>1, <2>2, HoldersWithinCapacity
<1>5. ASSUME NEW l \in Languages, Uses(job[t], l)
      PROVE  Cardinality(Sandbox!BusyWith(l)) < LanguageSlots
  <2>1. /\ Sandbox!BusyWith(l) \subseteq Sandbox!Busy
        /\ \A u \in Sandbox!BusyWith(l) : Uses(job[u], l)
    BY <1>3 DEF Sandbox!BusyWith
  <2>2. \A u \in Sandbox!BusyWith(l) \cup {t} : \E k \in 1..3 : <<u, k>> \in Held(l)
    BY <2>1, <1>1, <1>2, <1>3, <1>5, HoldsItsPath
  <2>3. l \in Sems /\ Capacity(l) = LanguageSlots
    BY SlotsAssumption DEF Sems, Capacity, Languages, Global
  <2> QED
    BY <1>3, <2>1, <2>2, <2>3, HoldersWithinCapacity
<1>6. Running' = [Running EXCEPT ![t] = job[t]]
  BY DEF Running, Enter, IInv, TypeOK
<1>7. Running[t] = NoJob
  BY <1>1 DEF Running
<1>8. \A S : Sandbox!Cardinality(S) = Cardinality(S)
  BY Zenon DEF Sandbox!Cardinality, Cardinality
<1> QED
  BY <1>4, <1>5, <1>6, <1>7, <1>8 DEF Sandbox!Start, Running

\* Leaving it stops one.
LEMMA FinishStops ==
  ASSUME IInv, NEW t \in Tasks, Finish(t)
  PROVE  Sandbox!Stop(t)
<1>1. job[t] # NoJob /\ pc[t] = "running"
  BY NextSemType, SlotsAssumption DEF IInv, Finish
<1>2. Running' = [Running EXCEPT ![t] = NoJob]
  BY DEF Running, Finish, IInv, TypeOK
<1> QED
  BY <1>1, <1>2 DEF Sandbox!Stop, Running

\* No other action changes who is running.
LEMMA OthersStutter ==
  ASSUME IInv, NEW t \in Tasks,
         \/ \E j \in Jobs : Arrive(t, j)
         \/ Acquire(t) \/ Wait(t) \/ Resume(t) \/ Release(t) \/ Leave(t)
  PROVE  UNCHANGED Running
<1>1. CASE \E j \in Jobs : Arrive(t, j)
  BY <1>1 DEF Arrive, Running, IInv, TypeOK
<1>2. CASE Leave(t)
  BY <1>2 DEF Leave, Running, IInv, TypeOK
<1>3. CASE Acquire(t) \/ Release(t)
  BY <1>3 DEF Acquire, Release, Running
<1>4. CASE Wait(t) \/ Resume(t)
  BY <1>4 DEF Wait, Resume, Running, IInv, TypeOK
<1> QED
  BY <1>1, <1>2, <1>3, <1>4

\* Whatever the load, at most GlobalSlots tests execute, and at most
\* LanguageSlots of them in any one language, interactors included.
THEOREM BoundImplemented == Spec => ImplementsBound
<1>1. Init => Sandbox!Init
  BY DEF Init, Sandbox!Init
<1>2. IInv /\ [Next]_vars => [Sandbox!Next]_Running
  <2> SUFFICES ASSUME IInv, [Next]_vars
               PROVE  Sandbox!Next \/ UNCHANGED Running
    OBVIOUS
  <2>1. CASE UNCHANGED vars
    BY <2>1 DEF vars, Running
  <2>2. ASSUME NEW t \in Tasks, Enter(t)
        PROVE  Sandbox!Next
    <3>1. PICK j \in Jobs : job[t] = j
      BY <2>2, NextSemType DEF IInv, Enter
    <3>2. Sandbox!Start(t, j)
      BY <2>2, <3>1, EnterStarts
    <3> QED
      BY <3>2 DEF Sandbox!Next
  <2>3. ASSUME NEW t \in Tasks, Finish(t)
        PROVE  Sandbox!Next
    BY <2>3, FinishStops DEF Sandbox!Next
  <2> QED
    BY <2>1, <2>2, <2>3, OthersStutter DEF Next, Step
<1> QED
  BY <1>1, <1>2, InvariantHolds, PTL DEF Spec, ImplementsBound, Sandbox!Spec, Running

=============================================================================
