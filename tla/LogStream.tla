------------------------------ MODULE LogStream ------------------------------
(***************************************************************************)
(* What a sink promises its callers, whatever its caches, locks and files. *)
(* Each stream is the sequence of lines log() accepted and the part of it  *)
(* that has reached stable storage.  Storage only ever grows, by the next  *)
(* lines of the accepted sequence: no line is lost, duplicated, reordered  *)
(* or rewritten on its way.  How far storage lags behind is not promised.  *)
(***************************************************************************)
EXTENDS Integers, Sequences

CONSTANTS
    Streams,    \* the independent streams (one per sub-logger)
    Lines       \* the lines that can be logged

VARIABLES
    accepted,   \* [Streams -> Seq(Lines)]: every line accepted so far
    stored      \* [Streams -> Seq(Lines)]: the lines in stable storage

streamVars == <<accepted, stored>>

StreamInit ==
    /\ accepted = [s \in Streams |-> <<>>]
    /\ stored   = [s \in Streams |-> <<>>]

Accept(s, line) ==
    /\ accepted' = [accepted EXCEPT ![s] = Append(@, line)]
    /\ UNCHANGED stored

\* The next lines of the stream, one or more, reach storage together.
Store(s) ==
    /\ \E n \in Len(stored[s]) + 1 .. Len(accepted[s]) :
          stored' = [stored EXCEPT ![s] = SubSeq(accepted[s], 1, n)]
    /\ UNCHANGED accepted

StreamNext ==
    \E s \in Streams : Store(s) \/ \E line \in Lines : Accept(s, line)

StreamSpec == StreamInit /\ [][StreamNext]_streamVars
=============================================================================
