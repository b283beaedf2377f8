--------------------------- MODULE CompileService ---------------------------
(***************************************************************************)
(* What compile_once() and release_compiled() promise to a judge, whether  *)
(* or not a cache stands behind them: a request is answered either with a  *)
(* private directory that holds the artifacts of exactly the requested     *)
(* (language, source), or with a compile error, and the directory stays    *)
(* the caller's until it gives it back.                                    *)
(***************************************************************************)
CONSTANTS Tasks,     \* concurrent callers of compile_once()
          Requests,  \* the <<language, source>> pairs they ask for
          NoRequest  \* no request, no artifact

VARIABLES request,   \* what each task has asked for and not finished
          work       \* whose artifacts the task's private directory holds

vars == <<request, work>>

Init == /\ request = [t \in Tasks |-> NoRequest]
        /\ work = [t \in Tasks |-> NoRequest]

Ask(t, r) == /\ request[t] = NoRequest
             /\ request' = [request EXCEPT ![t] = r]
             /\ UNCHANGED work

Answer(t) == /\ request[t] # NoRequest
             /\ work[t] = NoRequest
             /\ work' = [work EXCEPT ![t] = request[t]]
             /\ UNCHANGED request

\* An answer the caller did not have to wait for: a cache hit, or a language
\* that is not compiled.
AnswerAtOnce(t, r) == /\ request[t] = NoRequest
                      /\ request' = [request EXCEPT ![t] = r]
                      /\ work' = [work EXCEPT ![t] = r]

Refuse(t) == /\ request[t] # NoRequest
             /\ work[t] = NoRequest
             /\ request' = [request EXCEPT ![t] = NoRequest]
             /\ UNCHANGED work

GiveBack(t) == /\ work[t] # NoRequest
               /\ request' = [request EXCEPT ![t] = NoRequest]
               /\ work' = [work EXCEPT ![t] = NoRequest]

Next == \E t \in Tasks :
          \/ \E r \in Requests : Ask(t, r) \/ AnswerAtOnce(t, r)
          \/ Answer(t)
          \/ Refuse(t)
          \/ GiveBack(t)

Spec == Init /\ [][Next]_vars
=============================================================================
