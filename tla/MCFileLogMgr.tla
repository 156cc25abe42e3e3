---------------------------- MODULE MCFileLogMgr ----------------------------
(***************************************************************************)
(* Model-checking FileLogMgr: the threads and the lines are model values.  *)
(* The other operations name no thread, and no definition orders the lines *)
(* or the threads, so that both sets are symmetric.                        *)
(***************************************************************************)
EXTENDS FileLogMgr, TLC

Symmetry == Permutations(Lines) \cup Permutations(Apps) \cup Permutations(Callers)
=============================================================================
