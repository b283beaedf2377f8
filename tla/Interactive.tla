----------------------------- MODULE Interactive -----------------------------
(***************************************************************************)
(* A submission and an interactor that talk through the judge: the relay   *)
(* of run_interactive() in app/sandbox/runner.py, and the verdict of       *)
(* _determine_interactive_status() in app/services/judge.py.               *)
(*                                                                         *)
(* A program sends a line, asks for one, or ends; nothing is known of what *)
(* it says.  The judge first writes the test input to the interactor; then *)
(* two relays carry the lines, each until its source ends, its destination *)
(* is gone, it has carried its share of output, or nothing has come for    *)
(* interactive_idle_timeout.                                               *)
(***************************************************************************)
EXTENDS Naturals

CONSTANTS Codes,      \* the exit codes of programs
          Header,     \* lines of the test input
          Buffer,     \* lines a pipe holds, and a relay before it has to drain
          MaxOutput,  \* max_output, in lines
          LineBound,  \* bound on the lines of a program
          MayIdle,    \* whether a program may take longer than the idle time-out
          Reaping,    \* whether the zombie reaper may run meanwhile
          MayFault    \* whether a jail may fail to start

Killed == 137
TimedOut == {124, 137, 152}

ASSUME InteractiveAssumption ==
  /\ Codes \subseteq Nat \ TimedOut
  /\ {Buffer, MaxOutput} \subseteq Nat \ {0}
  /\ {Header, LineBound} \subseteq Nat
  /\ {MayIdle, Reaping, MayFault} \subseteq BOOLEAN

Programs == {"submission", "interactor"}
Other(p) == IF p = "submission" THEN "interactor" ELSE "submission"

VARIABLES state,    \* program -> "working", "reading" a line, or "ended"
          code,     \* program -> its exit code
          written,  \* program -> lines in its stdout pipe
          stdin,    \* program -> lines in its stdin pipe
          header,   \* the test input: "unwritten", "written", or "done" with
          open,     \* the programs whose stdin is open
          relaying, \* the programs whose stdout is relayed
          lines,    \* program -> how many it has sent
          idled,    \* history: the programs whose relay gave up waiting
          exit,     \* program -> what the event loop knows of its exit
          result    \* the verdict

programs == <<state, code>>
pipes == <<written, stdin, header, open>>
vars == <<programs, pipes, relaying, lines, idled, exit, result>>

-----------------------------------------------------------------------------
Init ==
  /\ state = [p \in Programs |-> "working"]
  /\ code = [p \in Programs |-> 0]
  /\ written = [p \in Programs |-> 0]
  /\ stdin = [p \in Programs |-> 0]
  /\ header = "unwritten"
  /\ open = Programs
  /\ relaying = Programs
  /\ lines = [p \in Programs |-> 0]
  /\ idled = {}
  /\ exit = [p \in Programs |-> "unknown"]
  /\ result = "none"

-----------------------------------------------------------------------------
(* The programs.                                                           *)

Send(p) ==
  /\ state[p] = "working"
  /\ written[p] < Buffer
  /\ lines[p] < LineBound
  /\ written' = [written EXCEPT ![p] = @ + 1]
  /\ lines' = [lines EXCEPT ![p] = @ + 1]
  /\ UNCHANGED <<programs, stdin, header, open, relaying, idled, exit, result>>

Ask(p) ==
  /\ state[p] = "working"
  /\ state' = [state EXCEPT ![p] = "reading"]
  /\ UNCHANGED <<code, pipes, relaying, lines, idled, exit, result>>

Receive(p) ==
  /\ state[p] = "reading"
  /\ stdin[p] > 0
  /\ stdin' = [stdin EXCEPT ![p] = @ - 1]
  /\ state' = [state EXCEPT ![p] = "working"]
  /\ UNCHANGED <<code, written, header, open, relaying, lines, idled, exit, result>>

\* There is no line to read and never will be.
AtEof(p) == state[p] = "reading" /\ stdin[p] = 0 /\ p \notin open

Ends(p, c) ==
  /\ state' = [state EXCEPT ![p] = "ended"]
  /\ code' = [code EXCEPT ![p] = c]
  /\ UNCHANGED <<pipes, relaying, lines, idled, exit, result>>
End(p, c) == (state[p] = "working" \/ AtEof(p)) /\ Ends(p, c)
\* The time limit of its jail.
JailLimit(p) == state[p] # "ended" /\ Ends(p, Killed)

-----------------------------------------------------------------------------
(* The judge.                                                              *)

\* drain() has returned: there is room before the next line.
Drained(p) == stdin[Other(p)] <= Buffer

\* The test input goes to the interactor, all of it at once.
WriteHeader ==
  /\ result = "none"
  /\ header = "unwritten"
  /\ state["interactor"] # "ended"
  /\ header' = "written"
  /\ stdin' = [stdin EXCEPT !["interactor"] = Header]
  /\ UNCHANGED <<programs, written, open, relaying, lines, idled, exit, result>>

\* drain(), without an idle time-out: the interactor has read enough of it.
HeaderDrained ==
  /\ result = "none"
  /\ header = "written"
  /\ Drained("submission")
  /\ header' = "done"
  /\ UNCHANGED <<programs, written, stdin, open, relaying, lines, idled, exit, result>>

\* A slip to catch: a header that cannot be written is waited for.
HeaderWaits == FALSE /\ UNCHANGED vars
\* The interactor has ended: write() or drain() raises.
HeaderBroken ==
  /\ result = "none"
  /\ header # "done"
  /\ state["interactor"] = "ended"
  /\ header' = "done"
  /\ UNCHANGED <<programs, written, stdin, open, relaying, lines, idled, exit, result>>

Relaying(p) == p \in relaying /\ header = "done" /\ result = "none"
\* The lines a relay has carried.
Carried(p) == lines[p] - written[p]

\* A line from p to the other program.
Relay(p) ==
  /\ Relaying(p)
  /\ written[p] > 0
  /\ Drained(p)
  /\ Carried(p) < MaxOutput
  /\ state[Other(p)] # "ended"
  /\ written' = [written EXCEPT ![p] = @ - 1]
  /\ stdin' = [stdin EXCEPT ![Other(p)] = @ + 1]
  /\ UNCHANGED <<programs, header, open, relaying, lines, idled, exit, result>>

\* A slip to catch: a relay that ends and leaves its destination waiting.
StopsSilently(p) ==
  /\ relaying' = relaying \ {p}
  /\ UNCHANGED <<programs, pipes, lines, exit, result>>
\* The `finally` of _relay().
Stops(p) ==
  /\ relaying' = relaying \ {p}
  /\ open' = open \ {Other(p)}
  /\ UNCHANGED <<programs, written, stdin, header, lines, exit, result>>

\* A slip to catch: an end that is noticed before what is still in the pipe.
RelayEnded(p) == Relaying(p) /\ state[p] = "ended" /\ Stops(p) /\ UNCHANGED idled
\* p has ended and all it wrote is relayed.
RelayEof(p) ==
  /\ Relaying(p)
  /\ state[p] = "ended"
  /\ written[p] = 0
  /\ Drained(p)
  /\ Stops(p)
  /\ UNCHANGED idled

\* total >= max_bytes
RelayFull(p) ==
  /\ Relaying(p)
  /\ Drained(p)
  /\ Carried(p) >= MaxOutput
  /\ Stops(p)
  /\ UNCHANGED idled

\* The destination has ended: write() or drain() raises.
RelayBroken(p) ==
  /\ Relaying(p)
  /\ written[p] > 0 \/ ~Drained(p)
  /\ state[Other(p)] = "ended"
  /\ Stops(p)
  /\ UNCHANGED idled

\* Nothing came, or nothing drained, for the idle time-out.
RelayIdle(p) ==
  /\ MayIdle
  /\ Relaying(p)
  /\ (written[p] = 0 /\ state[p] # "ended") \/ ~Drained(p)
  /\ Stops(p)
  /\ idled' = idled \cup {p}

Says(int) == IF int = 0 THEN "OK" ELSE IF int = 2 THEN "PE" ELSE "WA"
\* _determine_interactive_status(): what the interactor says, unless the
\* submission ran into a limit or failed.  `over` is the limit that the measured
\* time or memory of the submission exceeds.
StatusOf(sub, int, over) ==
  IF sub \in TimedOut \/ over = "time" THEN "TLE"
  ELSE IF sub = 139 \/ over = "memory" THEN "MLE"
  ELSE IF sub # 0 /\ int \notin TimedOut THEN "RTE"
  ELSE Says(int)

\* What the loop hears of an exit: its status, unless _zombie_reaper_loop() gets it
\* first, from os.waitpid(-1); then nothing, as in Execution.
Hears(p, what) ==
  /\ state[p] = "ended"
  /\ exit[p] = "unknown"
  /\ result = "none"
  /\ exit' = [exit EXCEPT ![p] = what]
  /\ UNCHANGED <<programs, pipes, relaying, lines, idled, result>>
Notice(p) == Hears(p, "known")
Steal(p) == Reaping /\ Hears(p, "stolen")

\* The relays are done, and both proc.wait() return.  What time was measured is
\* anybody's guess: without CPU time it is the wall clock, with all the waiting.
Return ==
  /\ result = "none"
  /\ relaying = {}
  /\ \A p \in Programs : exit[p] = "known"
  /\ \E over \in {"none", "time", "memory"} :
       result' = StatusOf(code["submission"], code["interactor"], over)
  /\ UNCHANGED <<programs, pipes, relaying, lines, idled, exit>>

\* A slip to catch: one of the two is forgotten.
WallTimeoutSubmission ==
  /\ result = "none"
  /\ relaying # {}
  /\ \E p \in Programs : state[p] # "ended" \/ code[p] = Killed
  /\ result' = "TLE"
  /\ code' = [code EXCEPT !["submission"] = IF state["submission"] = "ended" THEN @ ELSE Killed]
  /\ state' = [state EXCEPT !["submission"] = "ended"]
  /\ UNCHANGED <<pipes, relaying, lines, idled, exit>>
\* wait_for() gives up on the relays, which only a jail beyond its limit allows.
WallTimeout ==
  /\ result = "none"
  /\ relaying # {}
  /\ \E p \in Programs : state[p] # "ended" \/ code[p] = Killed
  /\ result' = "TLE"
  /\ code' = [p \in Programs |-> IF state[p] = "ended" THEN code[p] ELSE Killed]
  /\ state' = [p \in Programs |-> "ended"]
  /\ UNCHANGED <<pipes, relaying, lines, idled, exit>>

\* The second create_subprocess_exec() raises: the test is IE, the interactor was
\* never there, and the submission is left to its jail.
SpawnFails ==
  /\ MayFault
  /\ result = "none"
  /\ header = "unwritten"
  /\ state["interactor"] = "working" /\ lines["interactor"] = 0
  /\ state' = [state EXCEPT !["interactor"] = "ended"]
  /\ relaying' = {}
  /\ result' = "IE"
  /\ UNCHANGED <<code, pipes, lines, idled, exit>>

-----------------------------------------------------------------------------
Program(p) == Send(p) \/ Ask(p) \/ Receive(p) \/ \E c \in Codes : End(p, c)
Carry(p) == Relay(p) \/ RelayEof(p) \/ RelayFull(p) \/ RelayBroken(p)

Next == \/ \E p \in Programs : Program(p) \/ JailLimit(p) \/ Carry(p) \/ RelayIdle(p)
        \/ \E p \in Programs : Notice(p) \/ Steal(p)
        \/ WriteHeader \/ HeaderDrained \/ HeaderBroken
        \/ Return
        \/ WallTimeout
        \/ SpawnFails

Spec == Init /\ [][Next]_vars

\* The loop turns, its idle time-outs fire, and a program goes on with a line it
\* waits for, or ends at the end of its input.
FairSpec == /\ Spec
            /\ WF_vars(WriteHeader \/ HeaderDrained \/ HeaderBroken)
            /\ \A p \in Programs :
                 /\ WF_vars(Carry(p))
                 /\ WF_vars(Notice(p))
                 /\ WF_vars(RelayIdle(p))
                 /\ WF_vars(Receive(p) \/ \E c \in Codes : AtEof(p) /\ End(p, c))
            /\ WF_vars(Return)

-----------------------------------------------------------------------------
\* No program is told there will be no more lines while the other may still send
\* one, unless that one idled or printed too much: what was sent before an end is
\* delivered before the end is.
NoEarlyEof ==
  \A p \in Programs :
    (p \notin open /\ state[p] # "ended" /\ Other(p) \notin idled /\ Carried(Other(p)) < MaxOutput)
      => state[Other(p)] = "ended" /\ written[Other(p)] = 0

\* When the slots are given back no program is left, but for the submission
\* whose interactor could not be started; and only a pair of programs that both
\* ended well is accepted, however the talk was cut short.
EndedWell ==
  result # "none" => \A p \in Programs :
    /\ state[p] = "ended" \/ (result = "IE" /\ p = "submission")
    /\ result = "OK" => code[p] = 0

\* Two programs that wait for each other, with nothing on its way to either.
MutualWait == header = "done" /\ \A p \in Programs : state[p] = "reading" /\ stdin[p] + written[p] = 0
\* A program that waits for a line of one that has ended is told so, without any
\* time limit; and two that wait for each other are told that there will be no
\* more by the idle time-out, and are not left to the limits of their jails.
NobodyLeftWaiting ==
  \A p \in Programs :
    (/\ state[p] = "reading"
     /\ state[Other(p)] = "ended" \/ (MayIdle /\ MutualWait)
     /\ result = "none")
      ~> (state[p] # "reading" \/ result # "none")

\* Once both programs have ended, which the time limits of their jails see to if
\* nothing else does, the relays end and there is a verdict, also when the test
\* input was never read; all but when the zombie reaper has taken an exit away: no
\* time-out ends the final wait for the exits.
Judged ==
  (\A p \in Programs : <>(state[p] = "ended")) =>
     <>(result # "none" \/ \E p \in Programs : exit[p] = "stolen")
=============================================================================
