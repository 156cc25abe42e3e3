----------------------------- MODULE MCRetention -----------------------------
(***************************************************************************)
(* Model-checking Retention: two file_log_mgrs, one of two file_logs, and  *)
(* two directories.  The two file_logs of the first are symmetric.         *)
(***************************************************************************)
EXTENDS Retention, TLC

CONSTANTS s1, s2, s3, m1, m2

Symmetry == Permutations({s1, s2})

MgrOfEach == (s1 :> m1) @@ (s2 :> m1) @@ (s3 :> m2)

\* The first logs to the working directory, the second there or below.
CwdAndBelow == {(m1 :> ".") @@ (m2 :> d) : d \in {".", "log"}}
=============================================================================
