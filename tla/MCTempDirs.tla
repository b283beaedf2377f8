----------------------------- MODULE MCTempDirs -----------------------------
(***************************************************************************)
(* Two workers that share one directory; names for a compiled_dir, a       *)
(* work_dir and a cached one, and one more for a second judging.           *)
(***************************************************************************)
EXTENDS TempDirs

CONSTANTS w1, w2, j1, j2, d1, d2, d3, d4

MCWorkers == {w1, w2}
OneJob == {j1}
TwoJobs == {j1, j2}
ThreeDirs == {d1, d2, d3}
FourDirs == {d1, d2, d3, d4}

\* What a crash leaves behind is removed in the end as long as any worker lives,
\* started again or not: for d1, as the names differ in nothing.
LeftoversRemoved == LeftoverRemoved(d1)
=============================================================================
