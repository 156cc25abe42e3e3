------------------------------ MODULE MCLogMgr ------------------------------
(***************************************************************************)
(* Model-checking LogMgr.  Loggers are numbers and lines are counted, so   *)
(* that there is nothing to instantiate but the bounds.                    *)
(***************************************************************************)
EXTENDS LogMgr
=============================================================================
