------------------------------- MODULE MCCsvLog ------------------------------
(***************************************************************************)
(* Model-checking CsvLog: the threads are model values.                    *)
(***************************************************************************)
EXTENDS CsvLog, TLC

Symmetry == Permutations(Apps)
=============================================================================
