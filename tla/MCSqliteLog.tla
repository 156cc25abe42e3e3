----------------------------- MODULE MCSqliteLog -----------------------------
(***************************************************************************)
(* Model-checking SqliteLog, with days of few hours.                       *)
(***************************************************************************)
EXTENDS SqliteLog, TLC

Symmetry == Permutations(Lines)
=============================================================================
