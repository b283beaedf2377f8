--------------------------- MODULE BoundedSandbox ---------------------------
(***************************************************************************)
(* What the runner's semaphores promise: however many test runs are asked  *)
(* for, no more than GlobalSlots execute at a time, and of those no more   *)
(* than LanguageSlots use any one language.                                *)
(***************************************************************************)
EXTENDS Integers, FiniteSets

CONSTANTS Tasks, Jobs, Languages, GlobalSlots, LanguageSlots, NoJob,
          Uses(_, _)   \* Uses(j, l): the execution of j runs a program in l

VARIABLE running       \* task -> the job it is executing, or NoJob

Init == running = [t \in Tasks |-> NoJob]

Busy == {t \in Tasks : running[t] # NoJob}
BusyWith(l) == {t \in Busy : Uses(running[t], l)}

Start(t, j) ==
  /\ running[t] = NoJob
  /\ Cardinality(Busy) < GlobalSlots
  /\ \A l \in Languages : Uses(j, l) => Cardinality(BusyWith(l)) < LanguageSlots
  /\ running' = [running EXCEPT ![t] = j]

Stop(t) ==
  /\ running[t] # NoJob
  /\ running' = [running EXCEPT ![t] = NoJob]

Next == \E t \in Tasks : Stop(t) \/ \E j \in Jobs : Start(t, j)

Spec == Init /\ [][Next]_running
=============================================================================
