---------------------------- MODULE MCExecution ----------------------------
(***************************************************************************)
(* Output and error output below, at and beyond caps of two, and so far    *)
(* beyond that the pipe fills; more input than a pipe holds.  A program    *)
(* ends with 0, fails with 1, or is ended by a segmentation fault, which   *)
(* may come late.                                                          *)
(***************************************************************************)
EXTENDS Execution

OutSizes == {1, 2, 3, 6}
ErrSizes == {0, 2, 3, 6}
Runs ==
  {p \in [kind : {"run"}, reads : {"first", "last", "never"}, out : OutSizes, err : ErrSizes,
          says : {"lines"}, time : {"tiny", "within", "over", "asleep"},
          memory : {"within", "over"}, code : {0, 1, 139}] :
     /\ p.time # "within" => p.out \in {1, 3}
     /\ p.time = "over" => p.code \in {0, 139}
     /\ p.time \in {"tiny", "asleep"} => p.code = 0 /\ p.memory = "within"
     /\ p.memory = "over" => p.code = 0}
\* What is on stderr is not whole lines of the program's own.
OddRuns ==
  [kind : {"run"}, reads : {"never"}, out : {1}, err : {1, 2, 3}, says : {"unended", "usage"},
   time : {"tiny", "within", "over"}, memory : {"within", "over"}, code : {0, 1}]
Compilers ==
  [kind : {"compiler"}, reads : {"never"}, out : OutSizes, err : ErrSizes, says : {"lines"},
   time : {"within", "asleep"}, memory : {"within"}, code : {0, 1}]
MCPrograms == Runs \cup OddRuns \cup Compilers
=============================================================================
