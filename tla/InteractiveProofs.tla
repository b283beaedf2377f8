------------------------- MODULE InteractiveProofs -------------------------
(***************************************************************************)
(* Theorems about Interactive: for all exit codes, buffers and shares of   *)
(* output, no line is lost before the end of a program is passed on, and   *)
(* only two programs that ended well are accepted.                         *)
(***************************************************************************)
EXTENDS Interactive, TLAPS

-----------------------------------------------------------------------------
(* The inductive invariant.                                                *)

TypeOK ==
  /\ state \in [Programs -> {"working", "reading", "ended"}]
  /\ code \in [Programs -> Nat]
  /\ written \in [Programs -> Nat]
  /\ lines \in [Programs -> Nat]
  /\ exit \in [Programs -> {"unknown", "known", "stolen"}]

\* What is known of an exit, or lost, is that of a program that has ended.
HeardEnded == \A p \in Programs : exit[p] # "unknown" => state[p] = "ended"

IInv == TypeOK /\ HeardEnded /\ NoEarlyEof /\ EndedWell

-----------------------------------------------------------------------------
(* Lemmas.                                                                 *)

LEMMA Others ==
  /\ "submission" \in Programs /\ "interactor" \in Programs
  /\ Other("submission") = "interactor" /\ Other("interactor") = "submission"
  /\ \A p \in Programs : Other(p) \in Programs /\ Other(p) # p /\ Other(Other(p)) = p
BY DEF Programs, Other

LEMMA TypeStep ==
  ASSUME TypeOK, [Next]_vars
  PROVE  TypeOK'
<1>. USE DEF TypeOK, programs, pipes
<1>1. ASSUME NEW p \in Programs, Send(p) PROVE TypeOK'
  BY <1>1 DEF Send
<1>2. ASSUME NEW p \in Programs, Ask(p) \/ Receive(p) PROVE TypeOK'
  BY <1>2 DEF Ask, Receive
<1>3. ASSUME NEW p \in Programs, NEW c \in Nat, Ends(p, c) PROVE TypeOK'
  BY <1>3 DEF Ends
<1>4. ASSUME NEW p \in Programs, NEW c \in Codes, End(p, c) PROVE TypeOK'
  <2>1. c \in Nat
    BY InteractiveAssumption DEF InteractiveAssumption
  <2>. QED BY <1>3, <1>4, <2>1 DEF End
<1>5. ASSUME NEW p \in Programs, JailLimit(p) PROVE TypeOK'
  BY <1>3, <1>5 DEF JailLimit, Killed
<1>6. ASSUME NEW p \in Programs, Relay(p) PROVE TypeOK'
  <2>1. written[p] \in Nat /\ written[p] > 0 /\ written' = [written EXCEPT ![p] = written[p] - 1]
    BY <1>6 DEF Relay
  <2>2. written[p] - 1 \in Nat
    BY <2>1
  <2>. QED BY <1>6, <2>1, <2>2 DEF Relay
<1>7. ASSUME NEW p \in Programs, RelayEof(p) \/ RelayFull(p) \/ RelayBroken(p) \/ RelayIdle(p)
      PROVE  TypeOK'
  BY <1>7 DEF RelayEof, RelayFull, RelayBroken, RelayIdle, Stops
<1>8. CASE WriteHeader \/ HeaderDrained \/ HeaderBroken \/ Return
  BY <1>8 DEF WriteHeader, HeaderDrained, HeaderBroken, Return
<1>12. ASSUME NEW p \in Programs, Notice(p) \/ Steal(p) PROVE TypeOK'
  BY <1>12 DEF Notice, Steal, Hears
<1>9. CASE WallTimeout
  <2>1. code' \in [Programs -> Nat]
    BY <1>9 DEF WallTimeout, Killed
  <2>2. state' \in [Programs -> {"working", "reading", "ended"}]
    BY <1>9 DEF WallTimeout
  <2>. QED BY <1>9, <2>1, <2>2 DEF WallTimeout
<1>10. CASE SpawnFails
  BY <1>10 DEF SpawnFails
<1>11. CASE UNCHANGED vars
  BY <1>11 DEF vars
<1>. QED BY <1>1, <1>2, <1>4, <1>5, <1>6, <1>7, <1>8, <1>9, <1>10, <1>11, <1>12 DEF Next, Program, Carry

\* A program that has ended has ended for good, with its exit code; it sends nothing.
LEMMA EndedStays ==
  ASSUME TypeOK, [Next]_vars, NEW p \in Programs, state[p] = "ended"
  PROVE  /\ state'[p] = "ended" /\ code'[p] = code[p]
         /\ written[p] = 0 => written'[p] = 0
<1>1. ASSUME NEW q \in Programs, Program(q) \/ JailLimit(q)
      PROVE  q # p /\ state'[p] = state[p] /\ code'[p] = code[p] /\ written'[p] = written[p]
  BY <1>1 DEF TypeOK, Program, Send, Ask, Receive, End, Ends, AtEof, JailLimit, programs, pipes
<1>2. ASSUME NEW q \in Programs, Carry(q) \/ RelayIdle(q)
      PROVE  state' = state /\ code' = code /\ (written[p] = 0 => written'[p] = 0)
  BY <1>2 DEF TypeOK, Carry, Relay, RelayEof, RelayFull, RelayBroken, RelayIdle, Stops, programs
<1>3. CASE WriteHeader \/ HeaderDrained \/ HeaderBroken \/ Return \/ UNCHANGED vars
  BY <1>3 DEF WriteHeader, HeaderDrained, HeaderBroken, Return, vars, programs, pipes
<1>5. ASSUME NEW q \in Programs, Notice(q) \/ Steal(q) PROVE UNCHANGED <<programs, written>>
  BY <1>5 DEF Notice, Steal, Hears, pipes
<1>4. CASE WallTimeout \/ SpawnFails
  BY <1>4 DEF TypeOK, WallTimeout, SpawnFails, pipes, Programs
<1>. QED BY <1>1, <1>2, <1>3, <1>4, <1>5 DEF Next, programs

\* What a relay has carried never becomes less, and it only grows with a line that
\* was waiting.
LEMMA CarriedGrows ==
  ASSUME TypeOK, [Next]_vars, NEW p \in Programs
  PROVE  \/ Carried(p)' = Carried(p)
         \/ Relay(p) /\ written[p] > 0 /\ Carried(p)' = Carried(p) + 1
<1>. USE DEF TypeOK
<1>0. lines[p] \in Nat /\ written[p] \in Nat
  OBVIOUS
<1>1. ASSUME NEW q \in Programs, Send(q) PROVE Carried(p)' = Carried(p)
  <2>1. CASE q = p
    <3>1. lines'[p] = lines[p] + 1 /\ written'[p] = written[p] + 1
      BY <1>1, <2>1 DEF Send
    <3>. QED BY <1>0, <3>1 DEF Carried
  <2>2. CASE q # p
    BY <1>1, <2>2 DEF Send, Carried
  <2>. QED BY <2>1, <2>2
<1>2. ASSUME NEW q \in Programs, Relay(q)
      PROVE  \/ Carried(p)' = Carried(p)
             \/ Relay(p) /\ written[p] > 0 /\ Carried(p)' = Carried(p) + 1
  <2>1. CASE q = p
    <3>1. lines' = lines /\ written'[p] = written[p] - 1 /\ written[p] > 0
      BY <1>2, <2>1 DEF Relay
    <3>. QED BY <1>0, <1>2, <2>1, <3>1 DEF Carried
  <2>2. CASE q # p
    BY <1>2, <2>2 DEF Relay, Carried
  <2>. QED BY <2>1, <2>2
<1>3. ASSUME UNCHANGED <<lines, written>> PROVE Carried(p)' = Carried(p)
  BY <1>3 DEF Carried
<1>4. \/ \E q \in Programs : Send(q) \/ Relay(q)
      \/ UNCHANGED <<lines, written>>
  BY DEF Next, Program, Ask, Receive, End, Ends, JailLimit, Carry, RelayEof, RelayFull, RelayBroken,
     RelayIdle, Stops, WriteHeader, HeaderDrained, HeaderBroken, Return, Notice, Steal, Hears, WallTimeout, SpawnFails, vars, pipes
<1>. QED BY <1>1, <1>2, <1>3, <1>4

\* The stdin of a program is closed by a relay that has found the end of the other
\* program, or that one's share of output, or by one that idled, or because the
\* program itself has ended.
LEMMA WhyClosed ==
  ASSUME TypeOK, [Next]_vars, NEW p \in Programs, p \in open, p \notin open'
  PROVE  \/ state[Other(p)] = "ended" /\ written[Other(p)] = 0
         \/ Carried(Other(p)) >= MaxOutput
         \/ Other(p) \in idled'
         \/ state[p] = "ended"
<1>1. \E q \in Programs : /\ RelayEof(q) \/ RelayFull(q) \/ RelayBroken(q) \/ RelayIdle(q)
                          /\ p = Other(q)
  BY DEF Next, Program, Send, Ask, Receive, End, Ends, JailLimit, Carry, Relay, RelayEof, RelayFull,
     RelayBroken, RelayIdle, Stops, WriteHeader, HeaderDrained, HeaderBroken, Return, Notice, Steal, Hears, WallTimeout, SpawnFails, vars, pipes
<1>2. PICK q \in Programs : /\ RelayEof(q) \/ RelayFull(q) \/ RelayBroken(q) \/ RelayIdle(q)
                            /\ p = Other(q)
  BY <1>1
<1>3. Other(p) = q
  BY <1>2, Others
<1>. QED BY <1>2, <1>3 DEF RelayEof, RelayFull, RelayBroken, RelayIdle

LEMMA HeardStep ==
  ASSUME TypeOK, HeardEnded, [Next]_vars
  PROVE  HeardEnded'
<1>. SUFFICES ASSUME NEW p \in Programs, exit'[p] # "unknown" PROVE state'[p] = "ended"
  BY DEF HeardEnded
<1>1. CASE exit[p] # "unknown"
  BY <1>1, EndedStays DEF HeardEnded
<1>2. CASE exit[p] = "unknown"
  <2>1. \E q \in Programs : Notice(q) \/ Steal(q)
    BY <1>2 DEF Next, Program, Send, Ask, Receive, End, Ends, JailLimit, Carry, Relay, RelayEof,
       RelayFull, RelayBroken, RelayIdle, Stops, WriteHeader, HeaderDrained, HeaderBroken, Return,
       WallTimeout, SpawnFails, vars, pipes
  <2>2. PICK q \in Programs : Notice(q) \/ Steal(q)
    BY <2>1
  <2>3. state[q] = "ended" /\ state' = state /\ \E what : exit' = [exit EXCEPT ![q] = what]
    BY <2>2 DEF Notice, Steal, Hears, programs
  <2>4. p = q
    BY <1>2, <2>3 DEF TypeOK
  <2>. QED BY <2>3, <2>4
<1>. QED BY <1>1, <1>2

LEMMA EofStep ==
  ASSUME TypeOK, NoEarlyEof, [Next]_vars
  PROVE  NoEarlyEof'
<1>. SUFFICES ASSUME NEW p \in Programs, p \notin open', state'[p] # "ended",
                     Other(p) \notin idled', Carried(Other(p))' < MaxOutput
              PROVE  state'[Other(p)] = "ended" /\ written'[Other(p)] = 0
  BY DEF NoEarlyEof, Other
<1> DEFINE q == Other(p)
<1>1. q \in Programs
  BY Others
<1>2. state[p] # "ended"
  BY EndedStays
<1>3. q \notin idled
  BY DEF Next, Program, Send, Ask, Receive, End, Ends, JailLimit, Carry, Relay, RelayEof, RelayFull,
     RelayBroken, RelayIdle, Stops, WriteHeader, HeaderDrained, HeaderBroken, Return, Notice, Steal, Hears, WallTimeout, SpawnFails, vars
<1>4. Carried(q) < MaxOutput
  <2>1. Carried(q)' = Carried(q) \/ Carried(q)' = Carried(q) + 1
    BY <1>1, CarriedGrows
  <2>2. lines[q] \in Nat /\ written[q] \in Nat /\ MaxOutput \in Nat
    BY <1>1, InteractiveAssumption DEF InteractiveAssumption, TypeOK
  <2>3. Carried(q)' < MaxOutput
    OBVIOUS
  <2>. QED BY <2>1, <2>2, <2>3 DEF Carried
<1>5. state[q] = "ended" /\ written[q] = 0
  <2>1. CASE p \in open
    <3>1. ~(Carried(q) >= MaxOutput)
      <4>1. lines[q] \in Nat /\ written[q] \in Nat /\ MaxOutput \in Nat
        BY <1>1, InteractiveAssumption DEF InteractiveAssumption, TypeOK
      <4>. QED BY <1>4, <4>1 DEF Carried
    <3>. QED BY <1>2, <2>1, <3>1, WhyClosed
  <2>2. CASE p \notin open
    BY <1>2, <1>3, <1>4, <2>2 DEF NoEarlyEof
  <2>. QED BY <2>1, <2>2
<1>. QED BY <1>1, <1>5, EndedStays

\* What is accepted by _determine_interactive_status().
LEMMA OnlyZerosAccepted ==
  ASSUME NEW sub \in Nat, NEW int \in Nat, NEW over, StatusOf(sub, int, over) = "OK"
  PROVE  sub = 0 /\ int = 0
<1>1. int = 0
  BY DEF StatusOf, Says
<1>. QED BY <1>1 DEF StatusOf, TimedOut

LEMMA EndedWellStep ==
  ASSUME TypeOK, HeardEnded, EndedWell, [Next]_vars
  PROVE  EndedWell'
<1>1. CASE Return
  <2>1. /\ \A p \in Programs : state[p] = "ended"
        /\ state' = state /\ code' = code
    BY <1>1 DEF Return, HeardEnded, programs
  <2>2. ASSUME result' = "OK" PROVE \A p \in Programs : code[p] = 0
    <3>1. PICK over : result' = StatusOf(code["submission"], code["interactor"], over)
      BY <1>1 DEF Return
    <3>2. code["submission"] \in Nat /\ code["interactor"] \in Nat
      BY Others DEF TypeOK
    <3>3. code["submission"] = 0 /\ code["interactor"] = 0
      BY <2>2, <3>1, <3>2, OnlyZerosAccepted
    <3>. QED BY <3>3 DEF Programs
  <2>. QED BY <2>1, <2>2 DEF EndedWell
<1>2. CASE WallTimeout
  BY <1>2 DEF WallTimeout, EndedWell
<1>3. CASE SpawnFails
  <2>1. result' = "IE" /\ state' = [state EXCEPT !["interactor"] = "ended"]
    BY <1>3 DEF SpawnFails
  <2>2. state'["interactor"] = "ended"
    BY <2>1, Others DEF TypeOK
  <2>. QED BY <2>1, <2>2 DEF EndedWell, Programs
<1>4. CASE result' = result
  <2>. SUFFICES ASSUME result # "none", NEW p \in Programs
                PROVE  /\ state'[p] = "ended" \/ (result = "IE" /\ p = "submission")
                       /\ result = "OK" => code'[p] = 0
    BY <1>4 DEF EndedWell
  <2>1. CASE state[p] = "ended"
    BY <2>1, EndedStays DEF EndedWell
  <2>2. CASE state[p] # "ended"
    BY <2>2 DEF EndedWell
  <2>. QED BY <2>1, <2>2
<1>5. Return \/ WallTimeout \/ SpawnFails \/ result' = result
  BY DEF Next, Program, Send, Ask, Receive, End, Ends, JailLimit, Carry, Relay, RelayEof, RelayFull,
     RelayBroken, RelayIdle, Stops, WriteHeader, HeaderDrained, HeaderBroken, Notice, Steal, Hears, vars
<1>. QED BY <1>1, <1>2, <1>3, <1>4, <1>5

-----------------------------------------------------------------------------
(* The theorems.                                                           *)

LEMMA Initially == Init => IInv
<1>. SUFFICES ASSUME Init PROVE IInv
  OBVIOUS
<1>1. TypeOK
  BY DEF Init, TypeOK
<1>2. HeardEnded /\ NoEarlyEof /\ EndedWell
  BY DEF Init, HeardEnded, NoEarlyEof, EndedWell
<1>. QED BY <1>1, <1>2 DEF IInv

\* The inductive invariant of run_interactive().
THEOREM Invariance == Spec => []IInv
<1>1. IInv /\ [Next]_vars => IInv'
  BY TypeStep, HeardStep, EofStep, EndedWellStep DEF IInv
<1>. QED BY <1>1, Initially, PTL DEF Spec

\* _relay() delivers what a program sent before it passes on its end.
THEOREM NoLineLostBeforeTheEnd == Spec => []NoEarlyEof
<1>1. IInv => NoEarlyEof
  BY DEF IInv
<1>. QED BY <1>1, Invariance, PTL

\* run_interactive() leaves nobody behind when it gives the slots back, and only two
\* programs that ended well are accepted.
THEOREM OnlyBothWellAccepted == Spec => []EndedWell
<1>1. IInv => EndedWell
  BY DEF IInv
<1>. QED BY <1>1, Invariance, PTL
=============================================================================
