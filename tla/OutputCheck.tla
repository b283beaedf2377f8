---------------------------- MODULE OutputCheck ----------------------------
(***************************************************************************)
(* What becomes of an output that is within all limits: _check_output()    *)
(* and _run_custom_checker() of app/services/judge.py with                 *)
(* app/services/comparator.py.                                             *)
(*                                                                         *)
(* Outputs are sequences of characters: blanks, digits, a sign, letters,   *)
(* and "nan" and "inf" as one character each.  Numbers are integers        *)
(* compared exactly, where the code has doubles; what is beyond MaxFloat   *)
(* becomes infinite as it does there.                                      *)
(***************************************************************************)
EXTENDS Integers, Sequences, SequencesExt, FiniteSetsExt

CONSTANTS Configs,          \* the checkers of problems
          Outputs,          \* checker type -> the outputs to compare
          Inputs,           \* what the tests may be given
          Wide,             \* characters of two bytes
          EpsNum, EpsDen,   \* CheckerConfig.epsilon
          MaxFloat          \* the greatest number that is not infinite

Types == {"standard", "tokens", "float", "custom"}

ASSUME OutputCheckAssumption ==
  /\ Configs \subseteq [type : Types, compiled : BOOLEAN]
  /\ \A t \in Types : Outputs[t] \subseteq Seq(STRING)
  /\ Inputs \subseteq Seq(STRING)
  /\ EpsNum \in Int
  /\ EpsDen \in Nat \ {0}
  /\ MaxFloat \in Nat

VARIABLES config,    \* the checker's type, and whether there is a checker_dir
          input,     \* the input of the test
          actual,    \* what the program printed
          expected,  \* what was expected
          stdin,     \* what a custom checker was given, as bytes
          checker,   \* what a custom checker did
          verdict    \* the status of the test

checkVars == <<config, input, actual, expected, stdin, checker, verdict>>

-----------------------------------------------------------------------------
Newline == "\n"
Blank == {" ", Newline}
Digit == [c \in {"0", "1"} |-> IF c = "0" THEN 0 ELSE 1]

\* str.split(), of what is from i on: a character that is no blank is a token, or
\* the beginning of the one that follows.
Tokens(s) ==
  LET from[i \in 1..(Len(s) + 1)] ==
        IF i = Len(s) + 1 THEN <<>>
        ELSE IF s[i] \in Blank THEN from[i+1]
        ELSE IF i = Len(s) \/ s[i+1] \in Blank THEN << <<s[i]>> >> \o from[i+1]
        ELSE [from[i+1] EXCEPT ![1] = <<s[i]>> \o @]
  IN from[1]
\* str.split("\n")
Lines(s) ==
  LET from[i \in 1..(Len(s) + 1)] ==
        IF i = Len(s) + 1 THEN << <<>> >>
        ELSE IF s[i] = Newline THEN << <<>> >> \o from[i+1]
        ELSE [from[i+1] EXCEPT ![1] = <<s[i]>> \o @]
  IN from[1]

\* A sequence without the elements of `dropped` at its end.
Stripped(s, dropped) == SubSeq(s, 1, Max({0} \cup {i \in DOMAIN s : s[i] \notin dropped}))
\* A slip to catch: empty lines at the end stay.
NormalizeLines(s) == [i \in DOMAIN Lines(s) |-> Stripped(Lines(s)[i], Blank)]
\* _normalize_strict(): rstrip() of each line, without the empty ones at the end.
Normalize(s) == Stripped([i \in DOMAIN Lines(s) |-> Stripped(Lines(s)[i], Blank)], {<<>>})

CompareStandard(act, exp) ==
  IF Tokens(act) # Tokens(exp) THEN "WA"
  ELSE IF Normalize(act) = Normalize(exp) THEN "OK" ELSE "PE"

CompareTokens(act, exp) == Tokens(act) = Tokens(exp)

-----------------------------------------------------------------------------
Abs(n) == IF n < 0 THEN -n ELSE n
Number(kind, value) == [kind |-> kind, value |-> value]

\* float(), for what is not infinite a number of the kind "finite"; a "word"
\* where it raises ValueError.
Float(t) ==
  LET sign == IF t[1] = "-" THEN -1 ELSE 1
      body == IF t[1] = "-" THEN Tail(t) ELSE t
      digits[n \in 0..Len(body)] == IF n = 0 THEN 0 ELSE 10 * digits[n-1] + Digit[body[n]]
  IN IF body = <<"nan">> THEN Number("nan", 0)
     ELSE IF body = <<"inf">> THEN Number("inf", sign)
     ELSE IF body = <<>> \/ ~ToSet(body) \subseteq DOMAIN Digit THEN Number("word", 0)
     ELSE IF digits[Len(body)] > MaxFloat THEN Number("inf", sign)
     ELSE Number("finite", sign * digits[Len(body)])

\* diff <= epsilon, or diff / abs(e_val) <= epsilon
Close(a, e) ==
  LET diff == Abs(a - e) * EpsDen
  IN diff <= EpsNum \/ (Abs(e) > 0 /\ diff <= EpsNum * Abs(e))

\* A slip to catch: undefined numbers are left to the comparisons.
MatchesDefined(act, exp) ==
  LET a == Float(act)
      e == Float(exp)
      kinds == {a.kind, e.kind}
  IN \/ "word" \in kinds /\ act = exp
     \/ kinds = {"inf"} /\ a.value = e.value
     \/ kinds = {"finite"} /\ Close(a.value, e.value)
\* One round of the loop over the tokens; with nan every comparison is false.
Matches(act, exp) ==
  LET a == Float(act)
      e == Float(exp)
      kinds == {a.kind, e.kind}
  IN \/ "word" \in kinds /\ act = exp
     \/ kinds = {"nan"}
     \/ kinds = {"inf"} /\ a.value = e.value
     \/ kinds = {"finite"} /\ Close(a.value, e.value)

CompareFloat(act, exp) ==
  LET a == Tokens(act)
      e == Tokens(exp)
  IN Len(a) = Len(e) /\ \A i \in DOMAIN a : Matches(a[i], e[i])

-----------------------------------------------------------------------------
\* str.encode("utf-8", "replace")
Encode(s) ==
  LET bytes[n \in 0..Len(s)] ==
        IF n = 0 THEN <<>>
        ELSE bytes[n-1] \o (IF s[n] \in Wide THEN <<s[n], "continued">> ELSE <<s[n]>>)
  IN bytes[Len(s)]

\* A slip to catch: the length is that of the text.
SectionOfText(s) == <<Len(s)>> \o Encode(s) \o <<Newline>>
\* _section(): the length, which is a line of its own, the data, and a newline.
Section(s) == <<Len(Encode(s))>> \o Encode(s) \o <<Newline>>

\* A slip to catch: what is not a refusal is taken for a pass.
VerdictUnlessRefused(code) ==
  CASE code = 1 -> "WA"
    [] code = 2 -> "PE"
    [] code = 3 -> "WA"
    [] OTHER -> "OK"
\* Exit codes of a checker: 3, a partial answer, and unknown ones are WA.
VerdictOfExit(code) ==
  CASE code = 0 -> "OK"
    [] code = 2 -> "PE"
    [] OTHER -> "WA"

\* What run_test() may return of a checker: its own exit code, that of its
\* time-outs and signals, or the 1 of an execution that failed.
ExitOf(what) ==
  CASE what = "accepts" -> 0
    [] what = "rejects" -> 1
    [] what = "misformatted" -> 2
    [] what = "partial" -> 3
    [] what = "fails to run" -> 1
    [] what = "times out" -> 124
    [] what = "crashes" -> 139
Ends == {"accepts", "rejects", "misformatted", "partial", "fails to run", "times out", "crashes"}

CheckInit ==
  /\ config \in Configs
  /\ input \in Inputs
  /\ actual \in Outputs[config.type]
  /\ expected \in Outputs[config.type]
  /\ stdin = <<>>
  /\ checker = "none"
  /\ verdict = "none"

Custom == config.type = "custom" /\ config.compiled

Compared ==
  CASE config.type = "tokens" -> IF CompareTokens(actual, expected) THEN "OK" ELSE "WA"
    [] config.type = "float" -> IF CompareFloat(actual, expected) THEN "OK" ELSE "WA"
    [] OTHER -> CompareStandard(actual, expected)

\* _check_output() without a checker to run.
Compare ==
  /\ verdict = "none"
  /\ ~Custom
  /\ verdict' = Compared
  /\ UNCHANGED <<config, input, actual, expected, stdin, checker>>

\* _run_custom_checker() starts run_test().
RunChecker ==
  /\ verdict = "none"
  /\ Custom
  /\ checker = "none"
  /\ checker' = "running"
  /\ stdin' = Section(input) \o Section(expected) \o Section(actual)
  /\ UNCHANGED <<config, input, actual, expected, verdict>>

\* run_test() returns.
CheckerEnds(what) ==
  /\ checker = "running"
  /\ checker' = what
  /\ verdict' = VerdictOfExit(ExitOf(what))
  /\ UNCHANGED <<config, input, actual, expected, stdin>>

\* run_test() raises: its directory could not be made.
CheckerRaises ==
  /\ checker = "running"
  /\ checker' = "raised"
  /\ verdict' = "IE"
  /\ UNCHANGED <<config, input, actual, expected, stdin>>

CheckNext == Compare \/ RunChecker \/ (\E what \in Ends : CheckerEnds(what)) \/ CheckerRaises

CheckSpec == CheckInit /\ [][CheckNext]_checkVars

-----------------------------------------------------------------------------
Judged == verdict # "none"

\* The elements of q at the positions `at`, in order.
ElementsAt(q, at) ==
  LET from[i \in 1..(Len(q) + 1)] ==
        IF i = Len(q) + 1 THEN <<>>
        ELSE IF i \in at THEN <<q[i]>> \o from[i+1]
        ELSE from[i+1]
  IN from[1]
\* The characters of the words, each with whether a word ends there.
Words(s) ==
  ElementsAt([i \in DOMAIN s |-> <<s[i], i = Len(s) \/ s[i+1] \in Blank>>],
             {i \in DOMAIN s : s[i] \notin Blank})
\* A newline is shown if any word follows it, a blank if one follows in its line.
Shown(s, i) ==
  \E j \in i..Len(s) : s[j] \notin Blank /\ (s[i] = Newline \/ \A k \in i..j : s[k] # Newline)
ShownText(s) == ElementsAt(s, {i \in DOMAIN s : Shown(s, i)})

\* Texts are compared as they show: WA for other words; of the same words, PE for
\* another layout, which the comparison by tokens does not mind, and OK if only
\* what does not show differs.  A custom checker that was not compiled is the
\* standard comparison.
TextsAgree ==
  (Judged /\ ~Custom /\ config.type # "float") =>
     verdict = IF Words(actual) # Words(expected) THEN "WA"
               ELSE IF config.type = "tokens" \/ ShownText(actual) = ShownText(expected)
                    THEN "OK" ELSE "PE"

\* A number within the interval of absolute or, if it has one, of relative tolerance.
WithinTolerance(a, e) ==
  \E width \in {EpsNum} \cup (IF e = 0 THEN {} ELSE {EpsNum * Abs(e)}) :
    e * EpsDen - width <= a * EpsDen /\ a * EpsDen <= e * EpsDen + width

\* The float comparison accepts one word for each of the expected ones, all numbers
\* near enough, and the rest equal, and nothing else: no number is near an infinite
\* one or a word, and an undefined one is equal to itself.
FloatsNear ==
  (Judged /\ config.type = "float") =>
    LET a == Tokens(actual)
        e == Tokens(expected)
        near == /\ Len(a) = Len(e)
                /\ \A i \in DOMAIN e :
                     LET x == Float(a[i])
                         y == Float(e[i])
                     IN IF x.kind = "finite" /\ y.kind = "finite"
                        THEN WithinTolerance(x.value, y.value)
                        ELSE x = y /\ (x.kind = "word" => a[i] = e[i])
    IN verdict = IF near THEN "OK" ELSE "WA"

\* One section that begins at byte `at`.
Data(at) == SubSeq(stdin, at + 1, at + stdin[at])
After(at) == at + stdin[at] + 2

\* A custom checker that reads each section by its length gets the input, the
\* expected and the actual output, whatever characters these consist of.
SectionsReadBack ==
  checker # "none" =>
    /\ Data(1) = Encode(input)
    /\ Data(After(1)) = Encode(expected)
    /\ Data(After(After(1))) = Encode(actual)
    /\ After(After(After(1))) = Len(stdin) + 1

\* A problem's own checker has the last word, and one that fails, in whatever
\* way, does not accept: OK is said if it accepts and PE if it says so, also where
\* a comparison would have been content.
CheckerDecides ==
  (Judged /\ Custom) => /\ verdict = "OK" <=> checker = "accepts"
                        /\ verdict = "PE" <=> checker = "misformatted"
=============================================================================
