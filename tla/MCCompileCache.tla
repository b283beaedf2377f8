--------------------------- MODULE MCCompileCache ---------------------------
(***************************************************************************)
(* One source text in two compiled languages and an interpreted one, three *)
(* judges, a cache of one entry and a tmpfs with room for three cache      *)
(* directories: hits, expiry, eviction, replacement after two concurrent   *)
(* misses, and a full disk all occur.                                      *)
(***************************************************************************)
EXTENDS CompileCache

CONSTANTS t1, t2, t3, d1, d2, d3, cpp, c, py, s1

MCTasks == {t1, t2, t3}
MCRequests == {<<cpp, s1>>, <<c, s1>>, <<py, s1>>}
MCDirs == {d1, d2, d3}
MCSymmetry == Permutations(MCTasks) \cup Permutations(MCDirs)
=============================================================================
