--------------------------- MODULE MCSandboxSlots ---------------------------
(***************************************************************************)
(* Two languages, a standard job and the interactive ones in opposite      *)
(* roles.  SameLanguage is what the default interactor language makes the  *)
(* common case.                                                            *)
(***************************************************************************)
EXTENDS SandboxSlots

CONSTANTS t1, t2, t3, t4

MCTasks == {t1, t2, t3, t4}
ThreeTasks == {t1, t2, t3}
Job(l, i) == [lang |-> l, interactor |-> i]
MCJobs == {Job(1, None), Job(1, 2), Job(2, 1)}
SameLanguage == {Job(1, 1)}
MCSymmetry == Permutations(Tasks)
=============================================================================
