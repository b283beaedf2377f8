--------------------------- MODULE MCJudgeService ---------------------------
(***************************************************************************)
(* Three requests for two slots, submissions of two tests.  "cobol" stands *)
(* for a language get_language() does not know, "py3" for one whose        *)
(* artifact is not ./solution.                                             *)
(***************************************************************************)
EXTENDS JudgeService, TLC

CONSTANTS q1, q2, q3

Judging(checker, interactor, failFast) ==
  [language |-> "cpp", checker |-> checker, interactor |-> interactor, failFast |-> failFast]

MCRequests == {q1, q2, q3}
\* A fail-fast one without programs of the problem's own; one with all three, its
\* tests at once; one whose interactor is refused.
MCSubmissions ==
  {Judging("none", "none", TRUE), Judging("cpp", "py3", FALSE), Judging("none", "cobol", TRUE)}
CheckerSubmissions ==
  [language : {"cpp", "cobol"}, checker : {"py3"}, interactor : {"none"}, failFast : {TRUE}]
\* The requests are alike: what holds of one holds of each.
Answered == RequestAnswered(q1)
=============================================================================
