-------------------------- MODULE ExecutionProofs --------------------------
(***************************************************************************)
(* Theorems about Execution: for every set of programs and all sizes of    *)
(* input, caps and buffers, what an execution says of a program is true of *)
(* it, whatever is read, cut, killed or thrown meanwhile.                  *)
(***************************************************************************)
EXTENDS Execution, TLAPS

-----------------------------------------------------------------------------
(* The inductive invariant.                                                *)

TypeOK ==
  /\ program \in Programs
  /\ wrote \in [Streams -> Nat]
  /\ read \in [Streams -> Nat]
  /\ usage \in BOOLEAN
  /\ code \in Nat
  /\ exit \in {"unknown", "known", "stolen"}

\* What a stream has in the end, with the usage.
Total(s) == Size(s) + IF s = "err" /\ program.kind = "run" THEN 1 ELSE 0

\* No more is read than was written, and no more written than there is.
Bounded ==
  \A s \in Streams : /\ read[s] <= wrote[s]
                     /\ wrote[s] <= Total(s)
                     /\ code = Running => wrote[s] <= Size(s)

\* What an exit status says: the program came to its end by itself, and with it
\* the usage, or was killed at its CPU limit or at the limit of the jail.
StatusSound ==
  /\ code \notin {Running, NotStarted, 137, 152} =>
       /\ code = program.code
       /\ program.time # "asleep"
       /\ \A s \in Streams : wrote[s] = Total(s)
       /\ program.kind = "run" => usage
  /\ code = NotStarted => result = Faulty
  /\ exit # "unknown" => code \notin {Running, NotStarted}

\* A reading ends beyond the cap, with all that there is, or with an exception.
ClosedSound ==
  \A s \in Streams \ open : code # NotStarted =>
    read[s] > Cap[s] \/ (code # Running /\ read[s] = wrote[s]) \/ s \in broken

\* A program within its limits, all of whose output is read.
Modest == /\ \A s \in Streams : Total(s) <= Cap[s]
          /\ program.time \in {"tiny", "within"}
          /\ program.code # 137
ModestLeftAlone == Modest /\ broken = {} => code \in {Running, NotStarted, program.code}

ResultSound ==
  /\ CutNeverCompared
  /\ InnocentJudgedByOutput
  /\ LimitsEnforced
  /\ PreviewAgrees
  /\ CompilerBelieved
  /\ NothingRunsOn

Flow == Bounded /\ StatusSound /\ ClosedSound /\ ModestLeftAlone

IInv == TypeOK /\ Flow /\ ResultSound

-----------------------------------------------------------------------------
(* Lemmas.                                                                 *)

LEMMA Constants ==
  /\ OutCap \in Nat \ {0} /\ ErrCap \in Nat \ {0} /\ Buffer \in Nat \ {0}
  /\ Cap["out"] = OutCap /\ Cap["err"] = ErrCap
  /\ "out" \in Streams /\ "err" \in Streams
BY ExecutionAssumption DEF ExecutionAssumption, Cap, Streams

LEMMA ProgramType ==
  ASSUME TypeOK
  PROVE  /\ program.kind \in {"run", "compiler"}
         /\ program.out \in Nat /\ program.err \in Nat
         /\ program.time \in {"tiny", "within", "over", "asleep"}
         /\ program.memory \in {"within", "over"}
         /\ program.code \in 0..255
         /\ \A s \in Streams : Size(s) \in Nat /\ Total(s) \in Nat
<1>1. program \in Program
  BY ExecutionAssumption DEF ExecutionAssumption, TypeOK
<1>2. /\ program.kind \in {"run", "compiler"}
      /\ program.out \in Nat /\ program.err \in Nat
      /\ program.time \in {"tiny", "within", "over", "asleep"}
      /\ program.memory \in {"within", "over"}
      /\ program.code \in 0..255
  BY <1>1 DEF Program
<1>. QED BY <1>2 DEF Size, Total

\* An outcome is a result.
LEMMA OutcomeIsResult ==
  ASSUME NEW status, NEW time, NEW memory, NEW late, NEW cut
  PROVE  Outcome(status, time, memory, late, cut) # NoResult
<1>1. /\ "code" \in DOMAIN Outcome(status, time, memory, late, cut)
      /\ "code" \notin DOMAIN NoResult
  BY DEF Outcome, NoResult
<1>. QED BY <1>1

LEMMA FaultyIsAResult == Faulty # NoResult
<1>1. Outcome(1, "within", "within", FALSE, FALSE) # NoResult
  BY OutcomeIsResult
<1>. QED BY <1>1 DEF Faulty

\* The jail of a modest program never comes to its limit.
LEMMA ModestNeverLate ==
  ASSUME TypeOK, Bounded, ClosedSound, ModestLeftAlone, Modest, broken = {}, code # NotStarted
  PROVE  ~Late
<1>1. ASSUME NEW s \in Streams \ open PROVE Room(s)
  <2>1. wrote[s] <= Total(s) /\ Total(s) <= Cap[s] /\ Total(s) \in Nat /\ Cap[s] \in Nat
    BY Constants, ProgramType DEF Bounded, Modest, Streams
  <2>2. read[s] \in Nat /\ wrote[s] \in Nat /\ read[s] <= wrote[s]
    BY DEF TypeOK, Bounded
  <2>3. read[s] > Cap[s] \/ read[s] = wrote[s]
    BY DEF ClosedSound
  <2>4. read[s] = wrote[s]
    BY <2>1, <2>2, <2>3
  <2>. QED BY <2>2, <2>4, Constants DEF Room
<1>2. code # 137
  BY DEF ModestLeftAlone, Modest, Running, NotStarted
<1>. QED BY <1>1, <1>2 DEF Late, Blocked, Modest

\* The types in the next state.
LEMMA TypeStep ==
  ASSUME TypeOK, [Next]_vars
  PROVE  TypeOK'
<1>. USE DEF TypeOK, jail, loop
<1>1. ASSUME Take PROVE TypeOK'
  BY <1>1 DEF Take
<1>2. ASSUME NEW s \in Streams, Write(s) PROVE TypeOK'
  BY <1>2 DEF Write
<1>3. ASSUME NEW status \in Nat, End(status) PROVE TypeOK'
  <2>1. CASE program.kind = "run"
    <3>1. wrote' = [wrote EXCEPT !["err"] = wrote["err"] + 1] /\ usage' = TRUE
      BY <1>3, <2>1 DEF End
    <3>. QED BY <1>3, <3>1, Constants DEF End
  <2>2. CASE program.kind # "run"
    BY <1>3, <2>2 DEF End
  <2>. QED BY <2>1, <2>2
<1>4. CASE Exit
  BY <1>3, <1>4, ProgramType DEF Exit
<1>5. CASE CpuLimit
  BY <1>3, <1>5 DEF CpuLimit
<1>6. CASE JailLimit
  BY <1>6 DEF JailLimit
<1>7. ASSUME NEW s \in Streams, NEW n \in Nat, Read(s, n) PROVE TypeOK'
  BY <1>7 DEF Read
<1>8. CASE Feed \/ FeedEnds \/ Notice \/ Steal \/ Return \/ FeedFails
  BY <1>8 DEF Feed, FeedEnds, Notice, Steal, Return, FeedFails
<1>13. ASSUME NEW s \in Streams, ReadFails(s) PROVE TypeOK'
  BY <1>13 DEF ReadFails
<1>9. ASSUME NEW s \in Streams, Eof(s) PROVE TypeOK'
  BY <1>9 DEF Eof
<1>10. CASE WallTimeout
  BY <1>10 DEF WallTimeout
<1>11. CASE SpawnFails
  BY <1>11 DEF SpawnFails, NotStarted
<1>12. CASE UNCHANGED vars
  BY <1>12 DEF vars
<1>. QED BY <1>1, <1>2, <1>4, <1>5, <1>6, <1>7, <1>8, <1>9, <1>10, <1>11, <1>12, <1>13, Constants
         DEF Next, Jail, Loop

\* A program is what it is.
LEMMA ProgramKept ==
  ASSUME [Next]_vars
  PROVE  /\ program' = program
         /\ \A s \in Streams : Size(s)' = Size(s) /\ Total(s)' = Total(s)
         /\ Modest' = Modest
<1>1. program' = program
  BY DEF Next, Jail, Loop, Take, Write, Exit, CpuLimit, End, JailLimit, Feed, FeedEnds, Read,
     Eof, Return, Notice, Steal, WallTimeout, SpawnFails, FeedFails, ReadFails, vars
<1>2. \A s \in Streams : Size(s)' = Size(s) /\ Total(s)' = Total(s)
  BY <1>1 DEF Size, Total
<1>3. Modest' = Modest
  BY <1>1, <1>2 DEF Modest
<1>. QED BY <1>1, <1>2, <1>3

\* A program writes no more than it has to say.
LEMMA WriteStep ==
  ASSUME TypeOK, Flow, [Next]_vars, NEW s \in Streams, Write(s)
  PROVE  Flow'
<1>1. /\ code = Running /\ code' = code /\ usage' = usage /\ exit' = exit
      /\ read' = read /\ open' = open /\ broken' = broken /\ result' = result
      /\ wrote[s] < Size(s)
      /\ wrote' = [wrote EXCEPT ![s] = wrote[s] + 1]
  BY DEF Write, loop
<1>2. /\ wrote'[s] = wrote[s] + 1
      /\ \A r \in Streams \ {s} : wrote'[r] = wrote[r]
  BY <1>1 DEF TypeOK
<1>3. ASSUME NEW r \in Streams
      PROVE  read'[r] <= wrote'[r] /\ wrote'[r] <= Size(r) /\ Size(r) <= Total(r)
  <2>1. read[r] \in Nat /\ wrote[r] \in Nat /\ read[r] <= wrote[r] /\ wrote[r] <= Size(r)
        /\ Size(r) \in Nat
    BY <1>1, ProgramType DEF Flow, Bounded, TypeOK
  <2>2. Size(r) <= Total(r)
    BY <2>1 DEF Total
  <2>. QED BY <1>1, <1>2, <2>1, <2>2
<1>4. Bounded'
  <2>. SUFFICES ASSUME NEW r \in Streams
                PROVE  /\ read'[r] <= wrote'[r]
                       /\ wrote'[r] <= Total(r)'
                       /\ code' = Running => wrote'[r] <= Size(r)'
    BY DEF Bounded
  <2>1. Size(r)' = Size(r) /\ Total(r)' = Total(r)
    BY ProgramKept
  <2>2. read'[r] \in Nat /\ wrote'[r] \in Nat /\ Size(r) \in Nat /\ Total(r) \in Nat
    <3>1. TypeOK'
      BY TypeStep
    <3>. QED BY <3>1, ProgramType DEF TypeOK
  <2>. QED BY <1>3, <2>1, <2>2
<1>5. StatusSound'
  BY <1>1 DEF Flow, StatusSound, Running, NotStarted
<1>6. ClosedSound'
  BY <1>1 DEF Flow, ClosedSound, Running, NotStarted
<1>7. ModestLeftAlone'
  BY <1>1, ProgramKept DEF ModestLeftAlone
<1>. QED BY <1>4, <1>5, <1>6, <1>7 DEF Flow

\* A program that ends has said all it has to say, unless it was killed.
LEMMA EndStep ==
  ASSUME TypeOK, Flow, [Next]_vars, NEW status \in 0..255, End(status),
         \/ status = 152 /\ program.time = "over"
         \/ status = program.code /\ program.time # "asleep" /\ Written
  PROVE  Flow'
<1>1. /\ code = Running /\ code' = status /\ exit' = exit
      /\ read' = read /\ open' = open /\ broken' = broken /\ result' = result
  BY DEF End, loop
<1>2. ASSUME NEW r \in Streams
      PROVE  /\ wrote'[r] \in Nat
             /\ wrote'[r] = wrote[r] + IF r = "err" /\ program.kind = "run" THEN 1 ELSE 0
  <2>1. CASE program.kind = "run"
    <3>1. wrote' = [wrote EXCEPT !["err"] = wrote["err"] + 1]
      BY <2>1 DEF End
    <3>2. wrote'["err"] = wrote["err"] + 1 /\ (r # "err" => wrote'[r] = wrote[r])
      BY <3>1, Constants DEF TypeOK
    <3>3. wrote[r] \in Nat /\ wrote["err"] \in Nat
      BY Constants DEF TypeOK
    <3>. QED BY <2>1, <3>2, <3>3
  <2>2. CASE program.kind # "run"
    <3>1. wrote' = wrote
      BY <2>2 DEF End
    <3>2. wrote[r] \in Nat
      BY DEF TypeOK
    <3>. QED BY <2>2, <3>1, <3>2
  <2>. QED BY <2>1, <2>2
<1>3. code' # Running /\ code' # NotStarted /\ exit = "unknown"
  BY <1>1 DEF Running, NotStarted, Flow, StatusSound, TypeOK
<1>4. Bounded'
  <2>. SUFFICES ASSUME NEW r \in Streams
                PROVE  read'[r] <= wrote'[r] /\ wrote'[r] <= Total(r)'
    BY <1>3 DEF Bounded
  <2>1. read[r] \in Nat /\ wrote[r] \in Nat /\ read[r] <= wrote[r] /\ wrote[r] <= Size(r)
        /\ Size(r) \in Nat
    BY <1>1, ProgramType DEF Flow, Bounded, TypeOK
  <2>2. wrote'[r] <= Total(r) /\ read[r] <= wrote'[r]
    BY <1>2, <2>1 DEF Total
  <2>3. Total(r)' = Total(r)
    BY ProgramKept
  <2>. QED BY <1>1, <2>2, <2>3
<1>5. StatusSound'
  <2>1. ASSUME code' \notin {137, 152}
        PROVE  /\ code' = program.code /\ program.time # "asleep"
               /\ \A r \in Streams : wrote'[r] = Total(r)
               /\ program.kind = "run" => usage'
    <3>1. status = program.code /\ program.time # "asleep" /\ Written
      BY <1>1, <2>1
    <3>2. ASSUME NEW r \in Streams PROVE wrote'[r] = Total(r)
      BY <1>2, <3>1 DEF Written, Total
    <3>3. program.kind = "run" => usage'
      BY DEF End
    <3>. QED BY <1>1, <3>1, <3>2, <3>3
  <2>2. program' = program /\ \A r \in Streams : Total(r)' = Total(r)
    BY ProgramKept
  <2>. QED BY <1>1, <1>3, <2>1, <2>2 DEF StatusSound
<1>6. ClosedSound'
  <2>. SUFFICES ASSUME NEW r \in Streams \ open' PROVE read'[r] > Cap[r] \/ r \in broken'
    BY DEF ClosedSound
  <2>1. read[r] > Cap[r] \/ r \in broken
    BY <1>1 DEF Flow, ClosedSound, Running, NotStarted
  <2>. QED BY <1>1, <2>1
<1>7. ModestLeftAlone'
  <2>1. program' = program /\ Modest' = Modest
    BY ProgramKept
  <2>2. Modest => program.time # "over"
    BY DEF Modest
  <2>. QED BY <1>1, <2>1, <2>2 DEF ModestLeftAlone
<1>. QED BY <1>4, <1>5, <1>6, <1>7 DEF Flow

\* A step that ends the program or not, but neither writes nor reads.
LEMMA KillStep ==
  ASSUME TypeOK, Flow, [Next]_vars,
         UNCHANGED <<wrote, read, usage, exit, broken>>,
         open' \cap Streams = open \cap Streams,
         code' = code \/ (code = Running /\ Late /\ code' = 137),
         code = NotStarted => result' = result
  PROVE  Flow'
<1>1. program' = program /\ Modest' = Modest
      /\ \A s \in Streams : Size(s)' = Size(s) /\ Total(s)' = Total(s)
  BY ProgramKept
<1>2. code' = code \/ (/\ code = Running /\ code' # Running /\ code' # NotStarted /\ code' = 137
                       /\ ~(Modest /\ broken = {}))
  BY ModestNeverLate DEF Flow, Running, NotStarted
<1>3. Bounded'
  BY <1>1, <1>2 DEF Flow, Bounded
<1>4. StatusSound'
  BY <1>1, <1>2 DEF Flow, StatusSound
<1>5. ClosedSound'
  <2>1. \A s \in Streams : s \in open' <=> s \in open
    OBVIOUS
  <2>. SUFFICES ASSUME NEW s \in Streams \ open', code' # NotStarted
                PROVE  read'[s] > Cap[s] \/ (code' # Running /\ read'[s] = wrote'[s]) \/ s \in broken'
    BY DEF ClosedSound
  <2>2. s \in Streams \ open /\ code # NotStarted
    BY <1>2, <2>1 DEF Running, NotStarted
  <2>3. read[s] > Cap[s] \/ (code # Running /\ read[s] = wrote[s]) \/ s \in broken
    BY <2>2 DEF Flow, ClosedSound
  <2>4. read' = read /\ wrote' = wrote /\ (code # Running => code' # Running)
    BY <1>2
  <2>. QED BY <2>3, <2>4
<1>6. ModestLeftAlone'
  BY <1>1, <1>2 DEF Flow, ModestLeftAlone
<1>. QED BY <1>3, <1>4, <1>5, <1>6 DEF Flow

\* An exception leaves a stream to itself.
LEMMA ReadFailsStep ==
  ASSUME TypeOK, Flow, [Next]_vars, NEW s \in Streams, ReadFails(s)
  PROVE  Flow'
<1>1. /\ UNCHANGED <<program, wrote, read, usage, code, exit, result>>
      /\ open' = open \ {s} /\ broken' = broken \cup {s}
  BY DEF ReadFails, jail
<1>2. Bounded' /\ StatusSound'
  BY <1>1, ProgramKept DEF Flow, Bounded, StatusSound
<1>3. ClosedSound' /\ ModestLeftAlone'
  BY <1>1 DEF Flow, ClosedSound, ModestLeftAlone
<1>. QED BY <1>2, <1>3 DEF Flow

\* What is read was written, and a reading only ends beyond the cap or at the end.
LEMMA ReadStep ==
  ASSUME TypeOK, Flow, [Next]_vars, NEW s \in Streams,
         Eof(s) \/ \E n \in 1..Buffer : Read(s, n)
  PROVE  Flow'
<1>1. /\ code' = code /\ wrote' = wrote /\ usage' = usage /\ exit' = exit /\ result' = result
      /\ program' = program /\ broken' = broken
  BY DEF Eof, Read, jail
<1>2. CASE Eof(s)
  <2>1. read' = read /\ open' = open \ {s} /\ code # Running /\ read[s] = wrote[s]
    BY <1>2 DEF Eof
  <2>2. Bounded'
    BY <1>1, <2>1, ProgramKept DEF Flow, Bounded
  <2>3. ClosedSound'
    BY <1>1, <2>1 DEF Flow, ClosedSound
  <2>4. StatusSound' /\ ModestLeftAlone'
    BY <1>1, ProgramKept DEF Flow, StatusSound, ModestLeftAlone
  <2>. QED BY <2>2, <2>3, <2>4 DEF Flow
<1>3. ASSUME NEW n \in 1..Buffer, Read(s, n) PROVE Flow'
  <2>1. /\ n \in 1..(wrote[s] - read[s])
        /\ read' = [read EXCEPT ![s] = read[s] + n]
        /\ open' = IF read[s] + n > Cap[s] THEN open \ {s} ELSE open
        /\ s \in open
    BY <1>3 DEF Read, Reads
  <2>2. /\ read'[s] = read[s] + n
        /\ \A r \in Streams \ {s} : read'[r] = read[r]
    BY <2>1 DEF TypeOK
  <2>3. read[s] \in Nat /\ wrote[s] \in Nat /\ n \in Nat /\ n <= wrote[s] - read[s]
    BY <2>1, Constants DEF TypeOK
  <2>4. \A r \in Streams : read'[r] <= wrote[r]
    BY <2>2, <2>3 DEF Flow, Bounded
  <2>5. Bounded'
    BY <1>1, <2>4, ProgramKept DEF Flow, Bounded
  <2>6. ClosedSound'
    <3>. SUFFICES ASSUME NEW r \in Streams \ open', code # NotStarted
                  PROVE  read'[r] > Cap[r] \/ (code # Running /\ read'[r] = wrote[r]) \/ r \in broken
      BY <1>1 DEF ClosedSound
    <3>1. CASE r = s
      BY <2>1, <2>2, <3>1
    <3>2. CASE r # s
      BY <2>1, <2>2, <3>2 DEF Flow, ClosedSound
    <3>. QED BY <3>1, <3>2
  <2>7. StatusSound' /\ ModestLeftAlone'
    BY <1>1, ProgramKept DEF Flow, StatusSound, ModestLeftAlone
  <2>. QED BY <2>5, <2>6, <2>7 DEF Flow
<1>. QED BY <1>2, <1>3

\* The loop hears of an exit only when there is one.
LEMMA NoticeStep ==
  ASSUME TypeOK, Flow, [Next]_vars, Notice \/ Steal
  PROVE  Flow'
<1>1. /\ code \notin {Running, NotStarted}
      /\ UNCHANGED <<program, wrote, read, open, broken, usage, code, result>>
  BY DEF Notice, Steal, jail
<1>2. Bounded' /\ ModestLeftAlone' /\ ClosedSound'
  BY <1>1, ProgramKept DEF Flow, Bounded, ModestLeftAlone, ClosedSound
<1>3. StatusSound'
  BY <1>1, ProgramKept DEF Flow, StatusSound
<1>. QED BY <1>2, <1>3 DEF Flow

\* A jail that does not start leaves nothing but its answer.
LEMMA SpawnFailsStep ==
  ASSUME TypeOK, Flow, [Next]_vars, SpawnFails
  PROVE  Flow'
<1>1. /\ code = Running /\ code' = NotStarted /\ result' = Faulty
      /\ UNCHANGED <<program, wrote, read, broken, usage, exit>>
  BY DEF SpawnFails
<1>2. Bounded' /\ ModestLeftAlone' /\ ClosedSound'
  BY <1>1, ProgramKept DEF Flow, Bounded, ModestLeftAlone, ClosedSound, Running, NotStarted
<1>3. StatusSound'
  <2>1. exit' = "unknown" /\ Faulty' = Faulty
    BY <1>1 DEF Flow, StatusSound, TypeOK, Faulty, Outcome
  <2>. QED BY <1>1, <2>1 DEF StatusSound
<1>. QED BY <1>2, <1>3 DEF Flow

LEMMA FlowStep ==
  ASSUME TypeOK, Flow, [Next]_vars
  PROVE  Flow'
<1>1. CASE Take
  <2>1. UNCHANGED <<wrote, read, usage, exit, open, broken, code, result>>
    BY <1>1 DEF Take, loop
  <2>. QED BY <2>1, KillStep
<1>2. CASE JailLimit
  <2>1. /\ UNCHANGED <<wrote, read, usage, exit, open, broken, result>>
        /\ code = Running /\ Late /\ code' = 137
    BY <1>2 DEF JailLimit, loop
  <2>. QED BY <2>1, KillStep
<1>3. CASE Feed
  <2>1. UNCHANGED <<wrote, read, usage, exit, open, broken, code, result>>
    BY <1>3 DEF Feed, loop
  <2>. QED BY <2>1, KillStep
<1>4. CASE FeedEnds \/ FeedFails
  <2>1. /\ UNCHANGED <<wrote, read, usage, exit, broken, code>> /\ open' = open \ {"in"}
        /\ FeedEnds => result' = result
        /\ FeedFails => result = NoResult
    BY <1>4 DEF FeedEnds, FeedFails, jail
  <2>2. open' \cap Streams = open \cap Streams
    BY <2>1 DEF Streams
  <2>3. FeedFails => code # NotStarted
    BY <2>1, FaultyIsAResult DEF Flow, StatusSound
  <2>. QED BY <1>4, <2>1, <2>2, <2>3, KillStep
<1>5. CASE Return \/ WallTimeout
  <2>1. /\ UNCHANGED <<wrote, read, usage, exit, open, broken>>
        /\ result = NoResult
        /\ code' = code \/ (code = Running /\ Late /\ code' = 137)
    BY <1>5 DEF Return, WallTimeout, jail
  <2>2. code # NotStarted
    BY <2>1, FaultyIsAResult DEF Flow, StatusSound
  <2>. QED BY <2>1, <2>2, KillStep
<1>6. CASE Exit
  <2>1. End(program.code) /\ program.time # "asleep" /\ Written
    BY <1>6 DEF Exit
  <2>. QED BY <2>1, EndStep, ProgramType
<1>7. CASE CpuLimit
  <2>1. End(152) /\ program.time = "over"
    BY <1>7 DEF CpuLimit
  <2>. QED BY <2>1, EndStep
<1>8. CASE UNCHANGED vars
  <2>1. UNCHANGED <<wrote, read, usage, exit, open, broken, code, result>>
    BY <1>8 DEF vars, jail, loop
  <2>. QED BY <2>1, KillStep
<1>. QED BY <1>1, <1>2, <1>3, <1>4, <1>5, <1>6, <1>7, <1>8,
            WriteStep, ReadStep, ReadFailsStep, NoticeStep, SpawnFailsStep DEF Next, Jail, Loop

-----------------------------------------------------------------------------
(* The results.                                                            *)

\* An exception says nothing of the program.
LEMMA FaultySound ==
  ASSUME result' = Faulty
  PROVE  ResultSound'
<1>1. /\ Faulty.code = 1 /\ Faulty.time = "within" /\ ~Faulty.timedOut
      /\ ~Faulty.memoryExceeded /\ ~Faulty.outputLimitExceeded
  <2>1. Faulty.code = 1 /\ Faulty.time = "within"
    BY DEF Faulty, Outcome
  <2>2. Faulty.timedOut = FALSE /\ Faulty.outputLimitExceeded = FALSE
    BY DEF Faulty, Outcome
  <2>3. ~Faulty.memoryExceeded
    <3>1. Faulty.memoryExceeded = (1 = 139)
      BY Zenon DEF Faulty, Outcome
    <3>2. (1 = 139) = FALSE
      OBVIOUS
    <3>. QED BY Zenon, <3>1, <3>2
  <2>. QED BY <2>1, <2>2, <2>3
<1>2. Verdict' = "RTE" /\ RunStatus(result') = "RTE" /\ Faulty' = Faulty
  <2>1. JudgeStatus(Faulty) = IF Faulty.memory = "over" THEN "MLE" ELSE "RTE"
    BY <1>1 DEF JudgeStatus
  <2>2. Faulty.memory = "within"
    BY DEF Faulty, Outcome
  <2>3. RunStatus(Faulty) = "RTE"
    BY <1>1 DEF RunStatus
  <2>. QED BY <2>1, <2>2, <2>3 DEF Verdict, Faulty, Outcome
<1>3. CutNeverCompared' /\ LimitsEnforced' /\ PreviewAgrees'
  BY <1>2 DEF CutNeverCompared, LimitsEnforced, PreviewAgrees
<1>4. InnocentJudgedByOutput'
  BY <1>2 DEF InnocentJudgedByOutput
<1>5. CompilerBelieved' /\ NothingRunsOn'
  BY <1>1, <1>2 DEF CompilerBelieved, NothingRunsOn
<1>. QED BY <1>3, <1>4, <1>5 DEF ResultSound

\* What an innocent run and a modest compiler have in common.
LEMMA InnocentIsModest ==
  ASSUME TypeOK, program.time \in {"tiny", "within"}, program.code # 137,
         \/ program.kind = "run" /\ program.out < OutCap /\ program.err < ErrCap
         \/ program.kind = "compiler" /\ program.out <= OutCap /\ program.err <= ErrCap
  PROVE  Modest
<1>. SUFFICES ASSUME NEW s \in Streams PROVE Total(s) <= Cap[s]
  BY DEF Modest
<1>1. CASE s = "out"
  BY <1>1, Constants, ProgramType DEF Total, Size
<1>2. CASE s = "err"
  BY <1>2, Constants, ProgramType DEF Total, Size
<1>. QED BY <1>1, <1>2 DEF Streams

\* A time-out is never a modest program's fault.
LEMMA WallTimeoutSound ==
  ASSUME TypeOK, Flow, [Next]_vars, WallTimeout
  PROVE  ResultSound'
<1>1. /\ program' = program /\ broken' = broken /\ result = NoResult /\ Late /\ code' # Running
      /\ result' = IF program.kind = "compiler" THEN CompileTimeout ELSE TimedOut
  BY DEF WallTimeout, Running
<1>2. code # NotStarted
  BY <1>1, FaultyIsAResult DEF Flow, StatusSound
<1>3. ~Modest \/ broken # {}
  BY <1>1, <1>2, ModestNeverLate DEF Flow
<1>4. CASE program.kind = "run"
  <2>1. result' = TimedOut
    BY <1>1, <1>4
  <2>2. Verdict' = "TLE" /\ RunStatus(result') = "TLE"
    BY <2>1 DEF Verdict, JudgeStatus, RunStatus, TimedOut, Outcome
  <2>3. CutNeverCompared' /\ LimitsEnforced' /\ PreviewAgrees' /\ CompilerBelieved' /\ NothingRunsOn'
    BY <1>1, <1>4, <2>2
    DEF CutNeverCompared, LimitsEnforced, PreviewAgrees, CompilerBelieved, NothingRunsOn
  <2>4. InnocentJudgedByOutput'
    <3>. SUFFICES ASSUME program.out < OutCap, program.err < ErrCap,
                         program.time \in {"tiny", "within"}, program.code < 124, broken = {}
                  PROVE  FALSE
      BY <1>1 DEF InnocentJudgedByOutput
    <3>. QED BY <1>3, <1>4, InnocentIsModest, ProgramType
  <2>. QED BY <2>3, <2>4 DEF ResultSound
<1>5. CASE program.kind = "compiler"
  <2>1. result'.code = 1 /\ ~Judged'
    BY <1>1, <1>5 DEF CompileTimeout, Outcome, Judged
  <2>2. CompilerBelieved'
    <3>. SUFFICES ASSUME program.out <= OutCap, program.err <= ErrCap,
                         program.time \in {"tiny", "within"}, program.code # 137, broken = {}
                  PROVE  FALSE
      BY <1>1, <2>1 DEF CompilerBelieved
    <3>. QED BY <1>3, <1>5, InnocentIsModest
  <2>. QED BY <1>1, <2>1, <2>2
       DEF ResultSound, CutNeverCompared, InnocentJudgedByOutput, LimitsEnforced, PreviewAgrees,
           NothingRunsOn
<1>. QED BY <1>4, <1>5, ProgramType

\* When a process has ended by itself and both readings have.
LEMMA ReadingsDone ==
  ASSUME TypeOK, Flow, Return, NEW s \in Streams
  PROVE  /\ code \notin {Running, NotStarted}
         /\ read[s] \in Nat /\ wrote[s] \in Nat /\ Cap[s] \in Nat
         /\ read[s] <= wrote[s] /\ wrote[s] <= Total(s)
         /\ read[s] > Cap[s] \/ read[s] = wrote[s] \/ s \in broken
<1>1. open = {} /\ exit = "known"
  BY DEF Return
<1>2. code \notin {Running, NotStarted}
  BY <1>1 DEF Flow, StatusSound
<1>. QED BY <1>1, <1>2, Constants DEF Flow, Bounded, ClosedSound, TypeOK, Streams

LEMMA CompiledSound ==
  ASSUME TypeOK, Flow, [Next]_vars, Return, program.kind = "compiler"
  PROVE  ResultSound'
<1>1. /\ program' = program /\ result'.code = code /\ code' = code /\ wrote' = wrote /\ ~Judged'
      /\ broken' = broken
  BY DEF Return, Compiled, Outcome, jail, Judged
<1>2. code \notin {Running, NotStarted}
  BY ReadingsDone, Constants
<1>3. code = 0 => Written
  BY <1>2, ProgramType DEF Flow, StatusSound, Running, NotStarted, Written, Total
<1>4. ASSUME program.out <= OutCap, program.err <= ErrCap,
             program.time \in {"tiny", "within"}, program.code # 137, broken = {}
      PROVE  code = program.code
  BY <1>2, <1>4, InnocentIsModest DEF Flow, ModestLeftAlone
<1>5. Written' = Written
  BY <1>1, ProgramKept DEF Written
<1>6. CompilerBelieved'
  BY <1>1, <1>3, <1>4, <1>5 DEF CompilerBelieved
<1>. QED BY <1>1, <1>2, <1>6
     DEF ResultSound, CutNeverCompared, InnocentJudgedByOutput, LimitsEnforced, PreviewAgrees,
         NothingRunsOn

LEMMA MeasuredSound ==
  ASSUME TypeOK, Flow, [Next]_vars, Return, program.kind = "run"
  PROVE  ResultSound'
<1>1. /\ program' = program /\ read' = read /\ code' = code /\ broken' = broken
      /\ result' \in IF TooMuch THEN OutputLimit ELSE Measured
  BY DEF Return, jail
<1>2. /\ code \notin {Running, NotStarted}
      /\ \A s \in Streams : /\ read[s] \in Nat /\ wrote[s] \in Nat /\ Cap[s] \in Nat
                            /\ read[s] <= wrote[s] /\ wrote[s] <= Total(s)
                            /\ read[s] > Cap[s] \/ read[s] = wrote[s] \/ s \in broken
  BY ReadingsDone, Constants
<1>3. Total("out") = program.out /\ Total("err") = program.err + 1
  BY ProgramType DEF Total, Size
<1>4. CASE TooMuch
  <2>1. PICK e \in Elapsed : result' = Outcome(1, e, "within", FALSE, TRUE)
    BY <1>1, <1>4 DEF OutputLimit
  <2>2. Verdict' = "OLE" /\ RunStatus(result') = "OLE"
    BY <2>1 DEF Verdict, JudgeStatus, RunStatus, Outcome
  <2>3. program.out >= OutCap
    <3>1. read["out"] >= OutCap
      BY <1>2, <1>4, Constants DEF TooMuch, Got
    <3>. QED BY <1>2, <1>3, <3>1, Constants, ProgramType
  <2>4. InnocentJudgedByOutput'
    BY <1>1, <2>3, Constants, ProgramType DEF InnocentJudgedByOutput
  <2>. QED BY <1>1, <1>2, <2>2, <2>4
       DEF ResultSound, CutNeverCompared, LimitsEnforced, PreviewAgrees, CompilerBelieved,
           NothingRunsOn
<1>5. CASE ~TooMuch
  <2>10. PICK m \in Readings :
          result' = Outcome(code, m.time, m.memory, code \in {137, 124, 152}, FALSE)
    <3>1. result' \in Measured
      BY <1>1, <1>5
    <3>. QED BY <3>1, Zenon DEF Measured
  <2>11. PICK u \in Parsed : /\ m.memory = u.memory
                            /\ IF u.time = "zero" THEN m.time \in Elapsed ELSE m.time = u.time
    BY <2>10 DEF Readings
  <2>1. /\ result'.code = code /\ result'.time = m.time
        /\ result'.memory = u.memory /\ result'.timedOut = (code \in {137, 124, 152})
        /\ result'.memoryExceeded = (code = 139) /\ ~result'.outputLimitExceeded
    BY <2>10, <2>11 DEF Outcome
  <2>2. read["out"] < OutCap /\ (read["out"] = wrote["out"] \/ "out" \in broken)
    <3>1. read["out"] < OutCap
      BY <1>2, <1>5, Constants DEF TooMuch, Got
    <3>. QED BY <1>2, <3>1, Constants
  <2>3. ASSUME code = 0
        PROVE  /\ program.time # "asleep" /\ usage
               /\ wrote["out"] = program.out /\ wrote["err"] = program.err + 1
    BY <1>2, <1>3, <2>3, Constants DEF Flow, StatusSound, Running, NotStarted
  <2>4. Verdict' = "compared" => code = 0 /\ result'.time # "over" /\ result'.memory # "over"
    BY <2>1 DEF Verdict, JudgeStatus
  <2>5. CutNeverCompared'
    BY <1>1, <2>2, <2>3, <2>4, Constants, ProgramType DEF CutNeverCompared
  <2>6. LimitsEnforced'
    <3>. SUFFICES ASSUME Verdict' = "compared",
                         ~(program.err >= ErrCap), "err" \notin broken
                  PROVE  /\ program.time # "over"
                         /\ program.memory = "over" => Joined
      <4>1. Verdict' = "compared" => program.time # "asleep"
        BY <2>3, <2>4
      <4>2. Joined' = Joined
        BY <1>1 DEF Joined
      <4>. QED BY <1>1, <4>1, <4>2 DEF LimitsEnforced
    <3>1. code = 0 /\ program.time # "asleep" /\ usage /\ wrote["err"] = program.err + 1
      BY <2>3, <2>4
    <3>2. UsageWhole
      <4>1. ~(read["err"] > ErrCap)
        BY <1>2, <1>3, Constants, ProgramType
      <4>. QED BY <1>2, <3>1, <4>1, Constants DEF UsageWhole
    <3>3. (u = NoUsage /\ Joined) \/ u = Used
      BY <2>11, <3>2 DEF Parsed
    <3>4. program.time # "over"
      <4>. SUFFICES ASSUME program.time = "over" PROVE FALSE
        OBVIOUS
      <4>1. Elapsed = {"over"}
        BY DEF Elapsed
      <4>2. u.time = "zero" \/ u.time = "over"
        BY <3>3 DEF NoUsage, Used
      <4>3. m.time = "over"
        BY <2>11, <4>1, <4>2
      <4>. QED BY <2>1, <2>4, <4>3
    <3>5. ASSUME program.memory = "over", ~Joined PROVE FALSE
      <4>1. u.memory = "over"
        BY <3>3, <3>5 DEF Used
      <4>. QED BY <2>1, <2>4, <4>1
    <3>. QED BY <3>4, <3>5
  <2>7. PreviewAgrees'
    <3>1. /\ result'.timedOut <=> code \in {137, 124, 152}
          /\ result'.memoryExceeded <=> code = 139
      BY <2>1
    <3>2. CASE code = 0
      <4>1. ~result'.timedOut /\ ~result'.memoryExceeded
        BY <3>1, <3>2
      <4>. QED BY <2>1, <3>2, <4>1 DEF PreviewAgrees, Verdict, JudgeStatus, RunStatus
    <3>3. CASE code # 0
      BY <2>1, <3>3 DEF PreviewAgrees, Verdict, JudgeStatus, RunStatus
    <3>. QED BY <3>2, <3>3
  <2>8. InnocentJudgedByOutput'
    <3>. SUFFICES ASSUME program.out < OutCap, program.err < ErrCap,
                         program.time \in {"tiny", "within"},
                         program.memory = "within", program.code < 124, broken = {}
                  PROVE  \/ Verdict' = IF program.code = 0 THEN "compared" ELSE "RTE"
                         \/ Verdict' = "TLE" /\ (program.time = "tiny" \/ Joined)
      <4>1. Joined' = Joined
        BY <1>1 DEF Joined
      <4>. QED BY <1>1, <4>1 DEF InnocentJudgedByOutput
    <3>1. Modest
      BY InnocentIsModest, ProgramType
    <3>2. code = program.code /\ code \notin {124, 137, 139, 152}
      BY <1>2, <3>1, ProgramType DEF Flow, ModestLeftAlone
    <3>3. UsageWhole
      <4>1. usage /\ wrote["err"] = program.err + 1
        BY <1>2, <1>3, <3>2, Constants DEF Flow, StatusSound
      <4>2. ~(read["err"] > ErrCap)
        BY <1>2, <1>3, Constants, ProgramType
      <4>. QED BY <1>2, <4>1, <4>2, Constants DEF UsageWhole
    <3>4. (u = NoUsage /\ Joined) \/ u = Used
      BY <2>11, <3>3 DEF Parsed
    <3>5. result'.memory = "within"
      BY <2>1, <3>4 DEF NoUsage, Used
    <3>6. result'.time = "within" \/ (result'.time = "over" /\ (program.time = "tiny" \/ Joined))
      <4>1. CASE u.time = "zero"
        <5>1. program.time = "tiny" \/ Joined
          BY <3>4, <4>1 DEF Used
        <5>2. m.time \in {"within", "over"}
          BY <2>11, <4>1 DEF Elapsed
        <5>. QED BY <2>1, <5>1, <5>2
      <4>2. CASE u.time # "zero"
        <5>1. u.time = "within"
          BY <3>4, <4>2 DEF NoUsage, Used
        <5>. QED BY <2>1, <2>11, <4>2, <5>1
      <4>. QED BY <4>1, <4>2
    <3>7. ~result'.timedOut /\ ~result'.memoryExceeded
      BY <2>1, <3>2
    <3>8. CASE result'.time = "within"
      BY <2>1, <3>2, <3>5, <3>7, <3>8 DEF Verdict, JudgeStatus
    <3>9. CASE result'.time = "over" /\ (program.time = "tiny" \/ Joined)
      BY <2>1, <3>9 DEF Verdict, JudgeStatus
    <3>. QED BY <3>6, <3>8, <3>9
  <2>. QED BY <1>1, <1>2, <2>5, <2>6, <2>7, <2>8
       DEF ResultSound, CompilerBelieved, NothingRunsOn
<1>. QED BY <1>4, <1>5

\* A result stays true: all that runs on afterwards is a process left behind by an
\* exception.
LEMMA KeptSound ==
  ASSUME TypeOK, Flow, ResultSound, [Next]_vars, result' = result
  PROVE  ResultSound'
<1>1. program' = program
  BY ProgramKept
<1>2. CASE result = Faulty
  BY <1>2, FaultySound
<1>3. CASE result = NoResult
  BY <1>3 DEF ResultSound, CutNeverCompared, InnocentJudgedByOutput, LimitsEnforced, PreviewAgrees,
         CompilerBelieved, NothingRunsOn, Judged, Finished, NoResult
<1>4. CASE result # Faulty /\ result # NoResult
  <2>1. code # Running
    BY <1>4 DEF ResultSound, NothingRunsOn, Finished
  <2>2. UNCHANGED <<code, wrote, read, broken>>
    BY <1>4, <2>1 DEF Next, Jail, Loop, Take, Write, Exit, CpuLimit, End, JailLimit, Feed, FeedEnds,
       Read, Reads, Eof, Return, Notice, Steal, WallTimeout, SpawnFails, FeedFails, ReadFails, vars,
       jail, loop
  <2>3. Written' = Written
    BY <2>2, ProgramKept DEF Written
  <2>. QED BY <1>1, <2>1, <2>2, <2>3
       DEF ResultSound, CutNeverCompared, InnocentJudgedByOutput, LimitsEnforced, PreviewAgrees,
           CompilerBelieved, NothingRunsOn, Judged, Finished, Verdict, NoResult, Faulty, Outcome,
           Joined
<1>. QED BY <1>2, <1>3, <1>4

LEMMA ResultStep ==
  ASSUME TypeOK, Flow, ResultSound, [Next]_vars
  PROVE  ResultSound'
<1>1. \/ Return \/ WallTimeout \/ SpawnFails \/ FeedFails \/ result' = result
  BY DEF Next, Jail, Loop, Take, Write, Exit, CpuLimit, End, JailLimit, Feed, FeedEnds, Read, Eof,
     ReadFails, Notice, Steal, vars, loop
<1>2. CASE Return
  BY <1>2, CompiledSound, MeasuredSound, ProgramType
<1>3. CASE SpawnFails \/ FeedFails
  BY <1>3, FaultySound DEF SpawnFails, FeedFails
<1>. QED BY <1>1, <1>2, <1>3, WallTimeoutSound, KeptSound

-----------------------------------------------------------------------------
(* The theorems.                                                           *)

LEMMA Initially ==
  ASSUME Init
  PROVE  TypeOK /\ Flow /\ ResultSound
<1>1. program \in Program
  BY ExecutionAssumption DEF Init, ExecutionAssumption
<1>2. TypeOK
  <2>1. wrote \in [Streams -> Nat] /\ read \in [Streams -> Nat]
    BY DEF Init
  <2>2. usage \in BOOLEAN
    BY Zenon DEF Init
  <2>. QED BY <2>1, <2>2 DEF Init, TypeOK, Running
<1>3. Flow
  BY <1>2, ProgramType, Constants
  DEF Init, Flow, Bounded, StatusSound, ClosedSound, ModestLeftAlone, Running, NotStarted, Streams
<1>4. ResultSound
  BY DEF Init, ResultSound, CutNeverCompared, InnocentJudgedByOutput, LimitsEnforced, PreviewAgrees,
     CompilerBelieved, NothingRunsOn, Judged, Finished
<1>. QED BY <1>2, <1>3, <1>4

\* The inductive invariant holds for every set of programs, every input, all caps
\* and buffers, with and without the zombie reaper and exceptions.
THEOREM Invariance == Spec => []IInv
<1>1. Init => IInv
  BY Initially DEF IInv
<1>2. IInv /\ [Next]_vars => IInv'
  BY TypeStep, FlowStep, ResultStep DEF IInv
<1>. QED BY <1>1, <1>2, PTL DEF Spec

\* Output that was cut is never compared.
THEOREM CutOutputNeverCompared == Spec => []CutNeverCompared
<1>1. IInv => CutNeverCompared
  BY DEF IInv, ResultSound
<1>. QED BY <1>1, Invariance, PTL

\* A program within its limits is judged by what it does, or by the wall clock if
\* /usr/bin/time says 0.00 or is not understood.
THEOREM InnocentsJudgedByOutput == Spec => []InnocentJudgedByOutput
<1>1. IInv => InnocentJudgedByOutput
  BY DEF IInv, ResultSound
<1>. QED BY <1>1, Invariance, PTL

\* Nothing beyond a limit is accepted, but what hides the usage: behind a full stderr,
\* a reading that failed, or, for memory, a last line without an end.
THEOREM LimitsAreEnforced == Spec => []LimitsEnforced
<1>1. IInv => LimitsEnforced
  BY DEF IInv, ResultSound
<1>. QED BY <1>1, Invariance, PTL

\* /run and /judge agree, but for memory.
THEOREM PreviewsAgree == Spec => []PreviewAgrees
<1>1. IInv => PreviewAgrees
  BY DEF IInv, ResultSound
<1>. QED BY <1>1, Invariance, PTL

\* A compilation succeeds just if the compiler says so.
THEOREM CompilersAreBelieved == Spec => []CompilerBelieved
<1>1. IInv => CompilerBelieved
  BY DEF IInv, ResultSound
<1>. QED BY <1>1, Invariance, PTL

\* An execution that has its result runs no more, but for an exception.
THEOREM NothingIsLeftRunning == Spec => []NothingRunsOn
<1>1. IInv => NothingRunsOn
  BY DEF IInv, ResultSound
<1>. QED BY <1>1, Invariance, PTL
=============================================================================
