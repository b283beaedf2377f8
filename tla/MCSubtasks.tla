----------------------------- MODULE MCSubtasks -----------------------------
(***************************************************************************)
(* All dependency graphs of three subtasks, with cycles and loops, and     *)
(* with ids that occur twice or three times.                               *)
(***************************************************************************)
EXTENDS Subtasks

Of(mode, max, outcomes) == [mode |-> mode, max |-> max, results |-> outcomes]
OK == [status |-> "OK", points |-> 2]
WA == [status |-> "WA", points |-> 2]
TLE == [status |-> "TLE", points |-> 2]

\* A subtask that passes, one that fails twice, one that scores and fails, one
\* whose tests have more points than the subtask, one without tests, and one that
\* fails with nothing to score.
MCKinds == {Of("min", 3, <<OK, OK>>), Of("all_or_nothing", 3, <<OK, WA, TLE>>),
            Of("sum", 3, <<TLE, OK>>), Of("sum", 3, <<OK, OK>>), Of("min", 3, <<>>),
            Of("min", 0, <<WA>>)}
=============================================================================
