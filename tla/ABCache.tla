------------------------------- MODULE ABCache -------------------------------
(***************************************************************************)
(* The pair of caches every sink of the library logs through:              *)
(* m_LogCacheA, m_LogCacheB and the selector m_ABNo of file_log, csv_log   *)
(* and sqlite_log.  log() appends to one cache while flush() empties the   *)
(* other, so that a line waits in memory for the flush after the next one. *)
(*                                                                         *)
(* This module has no state of its own.  A cache is a record; the sinks    *)
(* keep such records in their variables and say under which lock each of   *)
(* these operators runs.                                                   *)
(***************************************************************************)
EXTENDS Integers, Sequences

CacheType(Lines) == [abNo : {0, 1}, A : Seq(Lines), B : Seq(Lines)]

\* The constructor: both caches empty, m_ABNo = 0.
EmptyCache == [abNo |-> 0, A |-> <<>>, B |-> <<>>]

\* log(): the line goes to B while m_ABNo is 0 and to A while it is 1.
PushBack(c, line) ==
    IF c.abNo = 0
    THEN [c EXCEPT !.B = Append(@, line)]
    ELSE [c EXCEPT !.A = Append(@, line)]

\* flush(): the cache it takes, the one log() is not filling.
CurrentCache(c) == IF c.abNo = 0 THEN c.A ELSE c.B

\* Mutant of Swapped: m_ABNo++ in both branches of flush().
SwappedCountsUp(c) ==
    IF c.abNo = 0
    THEN [c EXCEPT !.A = <<>>, !.abNo = @ + 1]
    ELSE [c EXCEPT !.B = <<>>, !.abNo = @ + 1]

\* Mutant of Swapped: currentCache->clear() is missing.
SwappedKeepsLines(c) == [c EXCEPT !.abNo = 1 - @]

\* Mutant of Swapped: m_ABNo keeps its value.
SwappedKeepsRole(c) ==
    IF c.abNo = 0 THEN [c EXCEPT !.A = <<>>] ELSE [c EXCEPT !.B = <<>>]

\* flush(): the taken cache is cleared and the two change roles.
Swapped(c) ==
    IF c.abNo = 0
    THEN [abNo |-> 1, A |-> <<>>, B |-> c.B]
    ELSE [abNo |-> 0, A |-> c.A, B |-> <<>>]

-----------------------------------------------------------------------------
\* The cache log() is filling, and every buffered line, oldest first.
FillingCache(c) == IF c.abNo = 0 THEN c.B ELSE c.A
Buffered(c)     == CurrentCache(c) \o FillingCache(c)
=============================================================================
