---------------------------- MODULE LogMgrProofs -----------------------------
(***************************************************************************)
(* Proofs about LogMgr, for any number of loggers and lines.               *)
(*                                                                         *)
(* Inv is inductive by itself.  ThreadInv says where the three threads and *)
(* the locks may be at the same time, FileInv which files are open,        *)
(* CountInv that each line is cached, taken by a flush, or stored, and     *)
(* MarkInv how far the lines logged before stop() have come.               *)
(***************************************************************************)
EXTENDS LogMgr, ABCacheTheorems, WellFoundedInduction

AtLogger == {"flush", "write", "check", "size", "close", "rotate", "open"}

ThreadInv ==
    /\ dl \in AtLogger => dlAt \in m_log_map
    /\ cl = "clear" => clAt \in m_log_map
    /\ ctl \in {"flush", "write"} => ctlAt \in m_log_map
    /\ ctl = "idle" /\ ~m_logging_flag => dl = "none" /\ cl = "none"
    /\ ctl # "idle" => ~m_logging_flag
    /\ ctl \in {"joinClear", "drop", "dead"} => dl = "none"
    /\ ctl \in {"drop", "dead"} => cl = "none" /\ exiting
    /\ ctl = "idle" => ~exiting

LockInv ==
    \A g \in Loggers :
        /\ locker[g] = "dl"  <=> dl = "write" /\ dlAt = g
        /\ locker[g] = "ctl" <=> ctl = "write" /\ ctlAt = g

FileInv ==
    ctl # "dead" =>
        \A g \in m_log_map \ openFailed :
            opened[g] \/ (dl \in {"rotate", "open"} /\ dlAt = g)

\* The lines of g that a flush has taken and not yet written.
InBatch(g) == IF locker[g] = "none" THEN 0 ELSE batch[locker[g]]

\* The lines that have left the caches, and those the next flush takes.
Taken(g) == stored[g] + InBatch(g)
Ready(g) == Len(CurrentCache(cache[g]))
Fresh(g) == Len(FillingCache(cache[g]))

CountInv ==
    ctl # "dead" =>
        \A g \in Loggers :
            /\ accepted[g] = Taken(g) + Ready(g) + Fresh(g)
            /\ g \notin m_log_map => accepted[g] = 0
            /\ stopMark[g] <= accepted[g]

\* stop() has visited g, or does not have to.
Visited(g) ==
    \/ ctl \notin {"flush", "write"}
    \/ ctl = "flush" /\ g < ctlAt
    \/ ctl = "write" /\ g <= ctlAt

\* A logger that stop() has visited has no line from before the call in the
\* cache being filled; one that ~log_mgr() has visited too has none in either.
MarkInv ==
    \A g \in Loggers :
        /\ ctl # "dead" /\ (exiting \/ Visited(g)) => stopMark[g] <= Taken(g) + Ready(g)
        /\ ctl # "dead" /\ exiting /\ Visited(g) => stopMark[g] <= Taken(g)
        /\ ctl = "dead" => stopMark[g] <= stored[g]

Inv == /\ TypeOK /\ ThreadInv /\ LockInv /\ FileInv /\ CountInv /\ MarkInv
       /\ CrashExplained

-----------------------------------------------------------------------------
(***************************************************************************)
(* The iterator of a loop over m_log_map.                                  *)
(***************************************************************************)
LEMMA LeastOf ==
    ASSUME NEW S \in SUBSET Nat, S # {}
    PROVE  Min(S) \in S /\ \A x \in S : Min(S) <= x
  <1> DEFINE Less == {p \in Nat \X Nat : p[1] < p[2]}
  <1>1. IsWellFoundedOn(Less, Nat)
    BY NatLessThanWellFounded DEF OpToRel
  <1>2. PICK m \in S : \A x \in S : ~(<<x, m>> \in Less)
    <2> HIDE DEF Less
    <2> QED
      BY <1>1, WFMin
  <1>3. \A x \in S : m <= x
    <2> SUFFICES ASSUME NEW x \in S PROVE m <= x
      OBVIOUS
    <2>1. m \in Nat /\ x \in Nat
      OBVIOUS
    <2>2. ~(<<x, m>> \in Less)
      BY <1>2
    <2>3. <<x, m>> \in Nat \X Nat /\ <<x, m>>[1] = x /\ <<x, m>>[2] = m
      BY <2>1
    <2>4. ~(<<x, m>>[1] < <<x, m>>[2])
      BY <2>2, <2>3
    <2> QED
      BY <2>1, <2>3, <2>4
  <1> QED
    BY <1>3 DEF Min

LEMMA NextLoggerIs ==
    ASSUME TypeOK, NEW n \in 0..NumLoggers
    PROVE  /\ NextLogger(n) \in 0..NumLoggers
           /\ NextLogger(n) = 0 => \A g \in m_log_map : g <= n
           /\ NextLogger(n) # 0 =>
                 /\ NextLogger(n) \in m_log_map /\ NextLogger(n) > n
                 /\ \A g \in m_log_map : g > n => NextLogger(n) <= g
  <1> DEFINE S == {h \in m_log_map : h > n}
  <1>1. m_log_map \subseteq 1..NumLoggers /\ n \in Nat /\ NumLoggers \in Nat
    BY LogMgrAssumption DEF TypeOK, Loggers
  <1>0. S \in SUBSET Nat
    <2>1. \A h \in S : h \in 1..NumLoggers
      BY <1>1
    <2>2. \A h \in S : h \in Nat
      BY <1>1, <2>1
    <2> HIDE DEF S
    <2> QED
      BY <2>2
  <1>2. CASE S = {}
    BY <1>1, <1>2 DEF NextLogger
  <1>3. CASE S # {}
    <2>1. Min(S) \in S /\ \A x \in S : Min(S) <= x
      BY <1>0, <1>3, LeastOf
    <2>2. NextLogger(n) = Min(S)
      BY <1>3 DEF NextLogger
    <2>3. NextLogger(n) \in m_log_map /\ NextLogger(n) > n
      BY <2>1, <2>2
    <2>4. NextLogger(n) \in 1..NumLoggers
      BY <1>1, <2>3
    <2>5. ASSUME NEW g \in m_log_map, g > n
          PROVE  NextLogger(n) <= g
      BY <2>1, <2>2, <2>5
    <2> HIDE DEF NextLogger
    <2> QED
      BY <1>1, <2>3, <2>4, <2>5
  <1> QED
    BY <1>2, <1>3

-----------------------------------------------------------------------------
(***************************************************************************)
(* The counts.                                                             *)
(***************************************************************************)
LEMMA CacheCounts ==
    ASSUME TypeOK, LockInv, NEW g \in Loggers
    PROVE  /\ cache[g] \in CacheType({Line})
           /\ Ready(g) \in Nat /\ Fresh(g) \in Nat /\ InBatch(g) \in Nat
           /\ Taken(g) = stored[g] + InBatch(g) /\ stored[g] \in Nat
           /\ accepted[g] \in Nat /\ stopMark[g] \in Nat
  <1>1. cache[g] \in CacheType({Line})
    BY DEF TypeOK
  <1>2. Ready(g) \in Nat /\ Fresh(g) \in Nat
    BY <1>1, CacheParts, LenProperties DEF Ready, Fresh
  <1>3. InBatch(g) \in Nat
    BY DEF TypeOK, InBatch
  <1> QED
    BY <1>1, <1>2, <1>3 DEF Taken, TypeOK

\* A step that moves no line, and no stop().
LEMMA CountFrame ==
    ASSUME CountInv, MarkInv, m_log_map \subseteq m_log_map',
           UNCHANGED <<cache, stored, locker, batch, accepted, stopMark, exiting, ctl, ctlAt>>
    PROVE  CountInv' /\ MarkInv'
  <1>1. \A g \in Loggers : /\ Taken(g)' = Taken(g) /\ Ready(g)' = Ready(g)
                           /\ Fresh(g)' = Fresh(g) /\ (Visited(g)' <=> Visited(g))
    BY DEF Taken, Ready, Fresh, InBatch, Visited
  <1> QED
    BY <1>1 DEF CountInv, MarkInv

-----------------------------------------------------------------------------
(***************************************************************************)
(* Inv is inductive.                                                       *)
(***************************************************************************)
LEMMA InitInv == Init => Inv
  <1> SUFFICES ASSUME Init PROVE Inv
    OBVIOUS
  <1>1. /\ EmptyCache \in CacheType({Line}) /\ NumLoggers \in Nat /\ 0 \in 0..NumLoggers
        /\ 0 \in 0..MaxRenameErrors /\ CurrentCache(EmptyCache) = <<>>
        /\ FillingCache(EmptyCache) = <<>>
    BY EmptyCacheBuffers, LogMgrAssumption
  <1>2. TypeOK
    BY <1>1 DEF Init, TypeOK
  <1>3. ThreadInv /\ LockInv /\ FileInv /\ CrashExplained
    BY DEF Init, ThreadInv, LockInv, FileInv, CrashExplained, AtLogger
  <1>4. \A g \in Loggers : /\ Taken(g) = 0 /\ Ready(g) = 0 /\ Fresh(g) = 0
                           /\ accepted[g] = 0 /\ stopMark[g] = 0
    BY <1>1 DEF Init, Taken, InBatch, Ready, Fresh
  <1>5. CountInv /\ MarkInv
    <2>1. ctl = "idle"
      BY DEF Init
    <2> QED
      BY <1>4, <2>1 DEF CountInv, MarkInv
  <1> QED
    BY <1>2, <1>3, <1>5 DEF Inv

\* The steps of do_logging() that only decide what to do next.
LEMMA DecisionOfDL ==
    ASSUME Inv, Running, TypeOK',
           UNCHANGED <<logVars, fileVars, lockVars, flags, clVars, ctlVars, crashed>>,
           dl \notin {"none", "write", "rotate", "open"},
           dl' \notin {"none", "write", "rotate", "open"},
           dl' \in AtLogger => dlAt' \in m_log_map
    PROVE  Inv'
  <1> USE DEF logVars, fileVars, lockVars, flags, clVars, ctlVars
  <1>1. ThreadInv'
    BY DEF Inv, ThreadInv, AtLogger
  <1>2. LockInv'
    BY DEF Inv, LockInv
  <1>3. FileInv'
    BY DEF Inv, FileInv
  <1>4. CountInv' /\ MarkInv'
    BY CountFrame DEF Inv
  <1>5. CrashExplained'
    BY DEF Inv, Running, CrashExplained
  <1> QED
    BY <1>1, <1>2, <1>3, <1>4, <1>5 DEF Inv

\* ++it
LEMMA AdvanceOfDL ==
    ASSUME Inv, dl \in AtLogger, DLAdvance
    PROVE  /\ dlAt' \in 0..NumLoggers /\ dl' \in {"flush", "end"}
           /\ dl' = "flush" => dlAt' \in m_log_map
  <1>1. TypeOK /\ dlAt \in 0..NumLoggers
    BY DEF Inv, TypeOK
  <1> QED
    BY <1>1, NextLoggerIs DEF DLAdvance

LEMMA KeepsDecisions ==
    ASSUME Inv, DLTest \/ DLCheck \/ DLSize \/ DLEnd \/ DLSleep
    PROVE  Inv'
  <1>0. TypeOK /\ ThreadInv /\ 0 \in 0..NumLoggers
    BY LogMgrAssumption DEF Inv, TypeOK
  <1>1. CASE DLTest
    <2>1. /\ dlAt' \in 0..NumLoggers /\ dl' \in {"done", "end", "flush"}
          /\ dl' = "flush" => dlAt' \in m_log_map
      BY <1>0, <1>1, NextLoggerIs DEF DLTest
    <2>2. TypeOK'
      BY <1>0, <1>1, <2>1 DEF DLTest, TypeOK, logVars, fileVars, lockVars, flags, clVars, ctlVars
    <2> QED
      BY <1>1, <2>1, <2>2, DecisionOfDL DEF DLTest, AtLogger
  <1>2. CASE DLCheck
    <2>1. /\ dlAt' \in 0..NumLoggers /\ dl' \in {"end", "flush", "size"}
          /\ dl' \in {"flush", "size"} => dlAt' \in m_log_map
      BY <1>0, <1>2, AdvanceOfDL DEF DLCheck, ThreadInv, AtLogger, TypeOK
    <2>2. TypeOK'
      BY <1>0, <1>2, <2>1 DEF DLCheck, TypeOK, logVars, fileVars, lockVars, flags, clVars, ctlVars
    <2> QED
      BY <1>2, <2>1, <2>2, DecisionOfDL DEF DLCheck, AtLogger
  <1>3. CASE DLSize
    <2>1. /\ dlAt' \in 0..NumLoggers /\ dl' \in {"end", "flush", "close"}
          /\ dl' \in {"flush", "close"} => dlAt' \in m_log_map
      BY <1>0, <1>3, AdvanceOfDL DEF DLSize, ThreadInv, AtLogger, TypeOK
    <2>2. TypeOK'
      BY <1>0, <1>3, <2>1 DEF DLSize, TypeOK, logVars, fileVars, lockVars, flags, clVars, ctlVars
    <2> QED
      BY <1>3, <2>1, <2>2, DecisionOfDL DEF DLSize, AtLogger
  <1>4. CASE DLEnd \/ DLSleep
    <2>1. TypeOK'
      BY <1>0, <1>4 DEF DLEnd, DLSleep, DLAt, TypeOK, logVars, fileVars, lockVars, flags, clVars, ctlVars
    <2> QED
      BY <1>4, <2>1, DecisionOfDL DEF DLEnd, DLSleep, DLAt, AtLogger
  <1> QED
    BY <1>1, <1>2, <1>3, <1>4

-----------------------------------------------------------------------------
(***************************************************************************)
(* flush() moves lines on, from the cache being filled to the one taken    *)
(* next, and from that to the thread that writes it.                       *)
(***************************************************************************)
Threads == {"dl", "ctl"}

LEMMA TakesLines ==
    ASSUME TypeOK, LockInv, NEW t \in Threads, NEW g \in Loggers,
           \A h \in Loggers : locker[h] # t,
           TakeCache(t, g), UNCHANGED stored
    PROVE  /\ cache' \in [Loggers -> CacheType({Line})]
           /\ locker' \in [Loggers -> {"none", "dl", "ctl"}]
           /\ batch' \in [Threads -> Nat]
           /\ locker[g] = "none" /\ locker'[g] = t
           /\ \A h \in Loggers \ {g} : locker'[h] = locker[h]
           /\ Taken(g)' = Taken(g) + Ready(g)
           /\ Ready(g)' = Fresh(g) /\ Fresh(g)' = 0
           /\ \A h \in Loggers \ {g} :
                 Taken(h)' = Taken(h) /\ Ready(h)' = Ready(h) /\ Fresh(h)' = Fresh(h)
  <1>0. /\ cache \in [Loggers -> CacheType({Line})] /\ batch \in [Threads -> Nat]
        /\ locker \in [Loggers -> {"none", "dl", "ctl"}]
    BY DEF TypeOK, Threads
  <1>c. /\ cache[g] \in CacheType({Line}) /\ Ready(g) \in Nat /\ stored[g] \in Nat
        /\ Taken(g) = stored[g] + InBatch(g)
    BY CacheCounts
  <1>1. /\ Swapped(cache[g]) \in CacheType({Line})
        /\ CurrentCache(Swapped(cache[g])) = FillingCache(cache[g])
        /\ FillingCache(Swapped(cache[g])) = <<>>
    BY <1>c, SwappedSplits
  <1>2. /\ locker[g] = "none"
        /\ locker' = [locker EXCEPT ![g] = t]
        /\ batch'  = [batch EXCEPT ![t] = Ready(g)]
        /\ cache'  = [cache EXCEPT ![g] = Swapped(cache[g])]
    BY DEF TakeCache, Ready
  <1>3. cache' \in [Loggers -> CacheType({Line})]
    BY <1>0, <1>1, <1>2
  <1>4. batch' \in [Threads -> Nat] /\ batch'[t] = Ready(g)
    BY <1>0, <1>2, <1>c
  <1>5. locker' \in [Loggers -> {"none", "dl", "ctl"}] /\ locker'[g] = t
    BY <1>0, <1>2 DEF Threads
  <1>6. cache'[g] = Swapped(cache[g])
    BY <1>0, <1>2
  <1>7. \A h \in Loggers \ {g} : cache'[h] = cache[h] /\ locker'[h] = locker[h]
    BY <1>0, <1>2
  <1>8. Ready(g)' = Fresh(g) /\ Fresh(g)' = 0
    BY <1>1, <1>6 DEF Ready, Fresh
  <1>9. Taken(g)' = Taken(g) + Ready(g)
    <2>1. InBatch(g) = 0
      BY <1>2 DEF InBatch
    <2>2. InBatch(g)' = Ready(g)
      BY <1>4, <1>5 DEF InBatch, Threads
    <2>3. Taken(g)' = stored[g] + Ready(g)
      BY <2>2 DEF Taken
    <2> QED
      BY <2>1, <2>3, <1>c
  <1>10. ASSUME NEW h \in Loggers \ {g}
         PROVE  Taken(h)' = Taken(h) /\ Ready(h)' = Ready(h) /\ Fresh(h)' = Fresh(h)
    <2>1. locker[h] # "none" => locker[h] \in Threads \ {t}
      BY <1>0 DEF Threads
    <2>2. locker[h] # "none" => batch'[locker[h]] = batch[locker[h]]
      BY <1>0, <1>2, <2>1
    <2>3. InBatch(h)' = InBatch(h)
      BY <1>7, <2>2 DEF InBatch
    <2> QED
      BY <1>7, <2>3 DEF Taken, Ready, Fresh
  <1> QED
    BY <1>2, <1>3, <1>4, <1>5, <1>7, <1>8, <1>9, <1>10

LEMMA WritesLines ==
    ASSUME TypeOK, LockInv, NEW t \in Threads, NEW g \in Loggers,
           locker[g] = t, \A h \in Loggers \ {g} : locker[h] # t,
           WriteCache(t, g), UNCHANGED cache
    PROVE  /\ fileLines' \in [Loggers -> Nat] /\ stored' \in [Loggers -> Nat]
           /\ locker' \in [Loggers -> {"none", "dl", "ctl"}]
           /\ batch' \in [Threads -> Nat]
           /\ locker'[g] = "none"
           /\ \A h \in Loggers \ {g} : locker'[h] = locker[h]
           /\ \A h \in Loggers :
                 Taken(h)' = Taken(h) /\ Ready(h)' = Ready(h) /\ Fresh(h)' = Fresh(h)
  <1>0. /\ batch \in [Threads -> Nat] /\ locker \in [Loggers -> {"none", "dl", "ctl"}]
        /\ fileLines \in [Loggers -> Nat] /\ stored \in [Loggers -> Nat]
    BY DEF TypeOK, Threads
  <1>2. /\ locker'    = [locker EXCEPT ![g] = "none"]
        /\ batch'     = [batch EXCEPT ![t] = 0]
        /\ fileLines' = [fileLines EXCEPT ![g] = fileLines[g] + batch[t]]
        /\ stored'    = [stored EXCEPT ![g] = stored[g] + batch[t]]
    BY DEF WriteCache
  <1>b. batch[t] \in Nat /\ stored[g] \in Nat /\ fileLines[g] \in Nat
    BY <1>0
  <1>3. fileLines' \in [Loggers -> Nat]
    BY <1>0, <1>2, <1>b
  <1>4. stored' \in [Loggers -> Nat] /\ stored'[g] = stored[g] + batch[t]
    BY <1>0, <1>2, <1>b
  <1>5. locker' \in [Loggers -> {"none", "dl", "ctl"}] /\ locker'[g] = "none"
    BY <1>0, <1>2
  <1>6. batch' \in [Threads -> Nat]
    BY <1>0, <1>2
  <1>7. \A h \in Loggers \ {g} : stored'[h] = stored[h] /\ locker'[h] = locker[h]
    BY <1>0, <1>2
  <1>8. \A h \in Loggers : Ready(h)' = Ready(h) /\ Fresh(h)' = Fresh(h)
    BY DEF Ready, Fresh
  <1>9. Taken(g)' = Taken(g)
    <2>1. InBatch(g) = batch[t]
      BY DEF InBatch, Threads
    <2>2. InBatch(g)' = 0
      BY <1>5 DEF InBatch
    <2> QED
      BY <1>4, <1>b, <2>1, <2>2 DEF Taken
  <1>10. ASSUME NEW h \in Loggers \ {g}
         PROVE  Taken(h)' = Taken(h)
    <2>1. locker[h] # "none" => locker[h] \in Threads \ {t}
      BY <1>0 DEF Threads
    <2>2. locker[h] # "none" => batch'[locker[h]] = batch[locker[h]]
      BY <1>0, <1>2, <2>1
    <2>3. InBatch(h)' = InBatch(h)
      BY <1>7, <2>2 DEF InBatch
    <2> QED
      BY <1>7, <2>3 DEF Taken
  <1> QED
    BY <1>3, <1>4, <1>5, <1>6, <1>7, <1>8, <1>9, <1>10

\* Lines that only move on, and no stop().
LEMMA MovesOn ==
    ASSUME TypeOK, LockInv, CountInv, MarkInv, ctl # "dead",
           UNCHANGED <<accepted, stopMark, m_log_map, exiting, ctl, ctlAt>>,
           \A h \in Loggers :
              /\ Taken(h)' = Taken(h) /\ Ready(h)' = Ready(h) /\ Fresh(h)' = Fresh(h)
              \/ /\ Taken(h)' = Taken(h) + Ready(h)
                 /\ Ready(h)' = Fresh(h) /\ Fresh(h)' = 0
    PROVE  CountInv' /\ MarkInv'
  <1>1. ASSUME NEW h \in Loggers
        PROVE  /\ Taken(h)' + Ready(h)' + Fresh(h)' = Taken(h) + Ready(h) + Fresh(h)
               /\ Taken(h) <= Taken(h)' /\ Taken(h) + Ready(h) <= Taken(h)' + Ready(h)'
               /\ Taken(h) \in Nat /\ Taken(h)' \in Nat /\ Ready(h)' \in Nat
               /\ Ready(h) \in Nat /\ stopMark[h] \in Nat
    <2>1. Ready(h) \in Nat /\ Fresh(h) \in Nat /\ Taken(h) \in Nat /\ stopMark[h] \in Nat
      BY CacheCounts
    <2>2. \/ Taken(h)' = Taken(h) /\ Ready(h)' = Ready(h) /\ Fresh(h)' = Fresh(h)
          \/ Taken(h)' = Taken(h) + Ready(h) /\ Ready(h)' = Fresh(h) /\ Fresh(h)' = 0
      OBVIOUS
    <2> QED
      BY <2>1, <2>2
  <1>2. CountInv'
    BY <1>1 DEF CountInv
  <1>3. MarkInv'
    <2> SUFFICES ASSUME NEW h \in Loggers
                 PROVE  /\ exiting \/ Visited(h) => stopMark[h] <= Taken(h)' + Ready(h)'
                        /\ exiting /\ Visited(h) => stopMark[h] <= Taken(h)'
      BY DEF MarkInv, Visited
    <2>1. /\ exiting \/ Visited(h) => stopMark[h] <= Taken(h) + Ready(h)
          /\ exiting /\ Visited(h) => stopMark[h] <= Taken(h)
      BY DEF MarkInv
    <2> QED
      BY <1>1, <2>1
  <1> QED
    BY <1>2, <1>3

-----------------------------------------------------------------------------
(***************************************************************************)
(* do_logging().                                                           *)
(***************************************************************************)
LEMMA KeepsFlush == Inv /\ DLFlush => Inv'
  <1> SUFFICES ASSUME Inv, DLFlush PROVE Inv'
    OBVIOUS
  <1>0. /\ TypeOK /\ ThreadInv /\ LockInv /\ FileInv /\ CountInv /\ MarkInv
        /\ crashed = 0 /\ ctl # "dead" /\ dl = "flush" /\ dl' = "write" /\ dlAt' = dlAt
        /\ TakeCache("dl", dlAt)
        /\ UNCHANGED <<opened, fileLines, stored, openFailed, renameErrors, m_log_map,
                       m_logging_flag, m_log_one_file, cl, clAt, ctl, ctlAt, exiting,
                       stopMark, crashed, accepted>>
    BY DEF Inv, DLFlush, DLAt, Running, TakeCache, fileVars, flags, clVars, ctlVars
  <1>1. dlAt \in m_log_map /\ dlAt \in Loggers /\ "dl" \in Threads
    BY <1>0 DEF TypeOK, ThreadInv, AtLogger, Threads
  <1>2. \A h \in Loggers : locker[h] # "dl"
    BY <1>0 DEF LockInv
  <1>3. /\ cache' \in [Loggers -> CacheType({Line})]
        /\ locker' \in [Loggers -> {"none", "dl", "ctl"}]
        /\ batch' \in [Threads -> Nat]
        /\ locker[dlAt] = "none" /\ locker'[dlAt] = "dl"
        /\ \A h \in Loggers \ {dlAt} : locker'[h] = locker[h]
    BY <1>0, <1>1, <1>2, TakesLines
  <1>4. TypeOK'
    BY <1>0, <1>3 DEF TypeOK, Threads
  <1>5. ThreadInv'
    BY <1>0, <1>1 DEF ThreadInv, AtLogger
  <1>6. LockInv'
    BY <1>0, <1>1, <1>3 DEF LockInv
  <1>7. FileInv'
    BY <1>0 DEF FileInv
  <1>8. CountInv' /\ MarkInv'
    <2>1. /\ Taken(dlAt)' = Taken(dlAt) + Ready(dlAt)
          /\ Ready(dlAt)' = Fresh(dlAt) /\ Fresh(dlAt)' = 0
          /\ \A h \in Loggers \ {dlAt} :
                Taken(h)' = Taken(h) /\ Ready(h)' = Ready(h) /\ Fresh(h)' = Fresh(h)
      BY <1>0, <1>1, <1>2, TakesLines
    <2>2. \A h \in Loggers :
              /\ Taken(h)' = Taken(h) /\ Ready(h)' = Ready(h) /\ Fresh(h)' = Fresh(h)
              \/ /\ Taken(h)' = Taken(h) + Ready(h)
                 /\ Ready(h)' = Fresh(h) /\ Fresh(h)' = 0
      <3> TAKE h \in Loggers
      <3>1. CASE h = dlAt
        BY <1>0, <2>1, <3>1
      <3>2. CASE h # dlAt
        BY <1>0, <2>1, <3>2
      <3> QED
        BY <3>1, <3>2
    <2> QED
      BY <1>0, <2>2, MovesOn
  <1>9. CrashExplained'
    BY <1>0 DEF CrashExplained
  <1> QED
    BY <1>4, <1>5, <1>6, <1>7, <1>8, <1>9 DEF Inv

LEMMA KeepsWrite == Inv /\ DLWrite => Inv'
  <1> SUFFICES ASSUME Inv, DLWrite PROVE Inv'
    OBVIOUS
  <1>0. /\ TypeOK /\ ThreadInv /\ LockInv /\ FileInv /\ CountInv /\ MarkInv
        /\ crashed = 0 /\ ctl # "dead" /\ dl = "write" /\ dl' = "check" /\ dlAt' = dlAt
        /\ WriteCache("dl", dlAt)
        /\ UNCHANGED <<opened, openFailed, renameErrors, m_log_map, m_logging_flag,
                       m_log_one_file, cl, clAt, ctl, ctlAt, exiting, stopMark,
                       crashed, cache, accepted>>
    BY DEF Inv, DLWrite, DLAt, Running, logVars, flags, clVars, ctlVars
  <1>1. dlAt \in m_log_map /\ dlAt \in Loggers /\ "dl" \in Threads
    BY <1>0 DEF TypeOK, ThreadInv, AtLogger, Threads
  <1>2. locker[dlAt] = "dl" /\ \A h \in Loggers \ {dlAt} : locker[h] # "dl"
    BY <1>0, <1>1 DEF LockInv
  <1>3. /\ fileLines' \in [Loggers -> Nat] /\ stored' \in [Loggers -> Nat]
        /\ locker' \in [Loggers -> {"none", "dl", "ctl"}]
        /\ batch' \in [Threads -> Nat]
        /\ locker'[dlAt] = "none"
        /\ \A h \in Loggers \ {dlAt} : locker'[h] = locker[h]
    BY <1>0, <1>1, <1>2, WritesLines
  <1>4. TypeOK'
    BY <1>0, <1>3 DEF TypeOK, Threads
  <1>5. ThreadInv'
    BY <1>0, <1>1 DEF ThreadInv, AtLogger
  <1>6. LockInv'
    BY <1>0, <1>1, <1>2, <1>3 DEF LockInv
  <1>7. FileInv'
    BY <1>0 DEF FileInv
  <1>8. CountInv' /\ MarkInv'
    <2>1. \A h \in Loggers :
              Taken(h)' = Taken(h) /\ Ready(h)' = Ready(h) /\ Fresh(h)' = Fresh(h)
      BY <1>0, <1>1, <1>2, WritesLines
    <2> QED
      BY <1>0, <2>1, MovesOn
  <1>9. CrashExplained'
    BY <1>0 DEF CrashExplained
  <1> QED
    BY <1>4, <1>5, <1>6, <1>7, <1>8, <1>9 DEF Inv

\* The process dies where FileInv says that it may.
LEMMA KeepsWriteNull == Inv /\ (DLWriteNull \/ StopWriteNull) => Inv'
  <1> SUFFICES ASSUME Inv, DLWriteNull \/ StopWriteNull PROVE Inv'
    OBVIOUS
  <1>0. /\ TypeOK /\ ThreadInv /\ LockInv /\ FileInv /\ CountInv /\ MarkInv
        /\ crashed = 0 /\ ctl # "dead"
        /\ UNCHANGED <<opened, fileLines, stored, openFailed, renameErrors, locker,
                       batch, m_log_map, m_logging_flag, m_log_one_file, dl, dlAt, cl,
                       clAt, ctl, ctlAt, exiting, stopMark, cache, accepted>>
    BY DEF Inv, DLWriteNull, StopWriteNull, WriteNull, Running, logVars, fileVars,
           lockVars, flags, dlVars, clVars, ctlVars
  <1>1. \/ dl = "write" /\ crashed' = dlAt /\ ~opened[dlAt]
        \/ ctl = "write" /\ crashed' = ctlAt /\ ~opened[ctlAt]
    BY DEF DLWriteNull, StopWriteNull, WriteNull
  <1>2. crashed' \in m_log_map /\ crashed' \in 0..NumLoggers
    BY <1>0, <1>1 DEF TypeOK, ThreadInv, AtLogger
  <1>3. TypeOK'
    BY <1>0, <1>2 DEF TypeOK
  <1>4. ThreadInv' /\ LockInv' /\ FileInv'
    BY <1>0 DEF ThreadInv, LockInv, FileInv, AtLogger
  <1>5. CountInv' /\ MarkInv'
    BY <1>0, CountFrame
  <1>6. CrashExplained'
    <2>1. \/ crashed' \in openFailed
          \/ dl \in {"rotate", "open"} /\ dlAt = crashed'
      BY <1>0, <1>1, <1>2 DEF FileInv
    <2> QED
      BY <1>0, <1>1, <2>1 DEF CrashExplained, ThreadInv
  <1> QED
    BY <1>3, <1>4, <1>5, <1>6 DEF Inv

\* close(), rotate() and open(), while nobody else holds m_Locker.
LEMMA KeepsRotation == Inv /\ (DLClose \/ DLRotate \/ DLOpen) => Inv'
  <1> SUFFICES ASSUME Inv, DLClose \/ DLRotate \/ DLOpen PROVE Inv'
    OBVIOUS
  <1>0. /\ TypeOK /\ ThreadInv /\ LockInv /\ FileInv /\ CountInv /\ MarkInv
        /\ crashed = 0 /\ ctl # "dead"
        /\ UNCHANGED <<stored, locker, batch, m_log_map, m_logging_flag, m_log_one_file,
                       cl, clAt, ctl, ctlAt, exiting, stopMark, crashed, cache, accepted>>
    BY DEF Inv, DLClose, DLRotate, DLOpen, DLAt, Running, logVars, fileVars,
           lockVars, flags, clVars, ctlVars
  <1>1. dl \in {"close", "rotate", "open"}
    BY DEF DLClose, DLRotate, DLOpen, DLAt
  <1>2. dlAt \in m_log_map /\ dlAt \in Loggers
    BY <1>0, <1>1 DEF TypeOK, ThreadInv, AtLogger
  <1>3. /\ dlAt' \in 0..NumLoggers /\ dl' \in {"rotate", "open", "flush", "end"}
        /\ dl' \in AtLogger => dlAt' \in m_log_map
        /\ dl' \in {"rotate", "open"} => dlAt' = dlAt
    <2>1. CASE DLOpen
      <3>1. dl \in AtLogger
        BY <1>1 DEF AtLogger
      <3> QED
        BY <2>1, <3>1, AdvanceOfDL DEF DLOpen, AtLogger
    <2>2. CASE DLClose \/ DLRotate
      BY <1>0, <1>2, <2>2 DEF DLClose, DLRotate, DLAt, TypeOK, fileVars
    <2> QED
      BY <2>1, <2>2
  <1>4. /\ opened' \in [Loggers -> BOOLEAN] /\ fileLines' \in [Loggers -> Nat]
        /\ openFailed' \subseteq Loggers /\ renameErrors' \in 0..MaxRenameErrors
    <2>1. CASE DLClose
      BY <1>0, <2>1 DEF DLClose, TypeOK
    <2>2. CASE DLRotate
      <3>1. fileLines' \in [Loggers -> Nat]
        BY <1>0, <1>2, <2>2 DEF DLRotate, TypeOK
      <3>2. renameErrors' \in 0..MaxRenameErrors
        <4>1. renameErrors \in 0..MaxRenameErrors /\ MaxRenameErrors \in Nat
          BY <1>0, LogMgrAssumption DEF TypeOK
        <4>2. CASE renameErrors' = renameErrors
          BY <4>1, <4>2
        <4>3. CASE renameErrors < MaxRenameErrors /\ renameErrors' = renameErrors + 1
          BY <4>1, <4>3
        <4> QED
          BY <2>2, <4>2, <4>3 DEF DLRotate
      <3> QED
        BY <1>0, <2>2, <3>1, <3>2 DEF DLRotate, TypeOK
    <2>3. CASE DLOpen
      <3>1. PICK ok \in BOOLEAN :
                /\ opened' = [opened EXCEPT ![dlAt] = ok]
                /\ openFailed' = IF ok THEN openFailed \ {dlAt} ELSE openFailed \cup {dlAt}
        BY <2>3, LogMgrAssumption DEF DLOpen
      <3>2. opened' \in [Loggers -> BOOLEAN]
        BY <1>0, <3>1 DEF TypeOK
      <3>3. openFailed' \subseteq Loggers /\ UNCHANGED <<fileLines, renameErrors>>
        BY <1>0, <1>2, <2>3, <3>1 DEF TypeOK, DLOpen
      <3> QED
        BY <1>0, <3>2, <3>3 DEF TypeOK
    <2> QED
      BY <2>1, <2>2, <2>3
  <1>5. TypeOK'
    BY <1>0, <1>3, <1>4 DEF TypeOK
  <1>6. ThreadInv'
    BY <1>0, <1>1, <1>2, <1>3 DEF ThreadInv, AtLogger
  <1>7. LockInv'
    BY <1>0, <1>1, <1>3 DEF LockInv
  <1>8. FileInv'
    <2>1. opened \in [Loggers -> BOOLEAN] /\ m_log_map \subseteq Loggers
      BY <1>0 DEF TypeOK
    <2>2. CASE DLClose
      <3>1. /\ dl = "close" /\ dl' = "rotate" /\ dlAt' = dlAt /\ openFailed' = openFailed
            /\ \A h \in Loggers \ {dlAt} : opened'[h] = opened[h]
        BY <2>1, <2>2 DEF DLClose, DLAt
      <3> QED
        BY <1>0, <2>1, <3>1 DEF FileInv
    <2>3. CASE DLRotate
      <3>1. dl' = "open" /\ dlAt' = dlAt /\ openFailed' = openFailed /\ opened' = opened
        BY <2>3 DEF DLRotate, DLAt
      <3> QED
        BY <1>0, <1>1, <3>1 DEF FileInv
    <2>4. CASE DLOpen
      <3>1. PICK ok \in BOOLEAN :
                /\ opened' = [opened EXCEPT ![dlAt] = ok]
                /\ openFailed' = IF ok THEN openFailed \ {dlAt} ELSE openFailed \cup {dlAt}
        BY <2>4, LogMgrAssumption DEF DLOpen
      <3>2. \A h \in Loggers \ {dlAt} : opened'[h] = opened[h]
        BY <2>1, <3>1
      <3>3. opened'[dlAt] = ok
        BY <1>2, <2>1, <3>1
      <3>4. \A h \in m_log_map \ openFailed' : opened'[h]
        <4> SUFFICES ASSUME NEW h \in m_log_map, h \notin openFailed'
                     PROVE  opened'[h]
          OBVIOUS
        <4>1. CASE h = dlAt
          BY <3>1, <3>3, <4>1
        <4>2. CASE h # dlAt
          <5>1. h \notin openFailed
            BY <3>1, <4>2
          <5>2. opened[h]
            BY <1>0, <4>2, <5>1 DEF FileInv
          <5> QED
            BY <2>1, <3>2, <4>2, <5>2
        <4> QED
          BY <4>1, <4>2
      <3> QED
        BY <1>0, <3>4 DEF FileInv
    <2> QED
      BY <2>2, <2>3, <2>4
  <1>9. CountInv' /\ MarkInv'
    BY <1>0, CountFrame
  <1>10. CrashExplained'
    BY <1>0 DEF CrashExplained
  <1> QED
    BY <1>5, <1>6, <1>7, <1>8, <1>9, <1>10 DEF Inv

-----------------------------------------------------------------------------
(***************************************************************************)
(* do_clear_expired_log(), and the applications.                           *)
(***************************************************************************)
LEMMA KeepsClearing == Inv /\ do_clear_expired_log => Inv'
  <1> SUFFICES ASSUME Inv, do_clear_expired_log PROVE Inv'
    OBVIOUS
  <1>0. /\ TypeOK /\ ThreadInv /\ LockInv /\ FileInv /\ CountInv /\ MarkInv
        /\ crashed = 0 /\ ctl # "dead"
        /\ UNCHANGED <<opened, fileLines, stored, openFailed, renameErrors, locker,
                       batch, m_log_map, m_logging_flag, m_log_one_file, dl, dlAt,
                       ctl, ctlAt, exiting, stopMark, crashed, cache, accepted>>
    BY DEF Inv, do_clear_expired_log, CLTest, CLClear, CLSleep, Running, logVars,
           fileVars, lockVars, flags, dlVars, ctlVars
  <1>1. /\ cl \in {"test", "clear", "sleep"} /\ cl' \in {"test", "clear", "sleep", "done"}
        /\ clAt' \in 0..NumLoggers /\ (cl' = "clear" => clAt' \in m_log_map)
    <2>1. 0 \in 0..NumLoggers /\ clAt \in 0..NumLoggers
      BY <1>0, LogMgrAssumption DEF TypeOK
    <2>2. CASE CLTest
      BY <1>0, <2>1, <2>2, NextLoggerIs DEF CLTest
    <2>3. CASE CLClear
      BY <1>0, <2>1, <2>3, NextLoggerIs DEF CLClear
    <2>4. CASE CLSleep
      BY <2>1, <2>4 DEF CLSleep
    <2> QED
      BY <2>2, <2>3, <2>4 DEF do_clear_expired_log
  <1>2. TypeOK'
    BY <1>0, <1>1 DEF TypeOK
  <1>3. ThreadInv'
    BY <1>0, <1>1 DEF ThreadInv, AtLogger
  <1>4. LockInv' /\ FileInv' /\ CrashExplained'
    BY <1>0 DEF LockInv, FileInv, CrashExplained
  <1>5. CountInv' /\ MarkInv'
    BY <1>0, CountFrame
  <1> QED
    BY <1>2, <1>3, <1>4, <1>5 DEF Inv

LEMMA KeepsGetLogger ==
    ASSUME Inv, NEW g \in Loggers, GetLogger(g)
    PROVE  Inv'
  <1>0. /\ TypeOK /\ ThreadInv /\ LockInv /\ FileInv /\ CountInv /\ MarkInv
        /\ crashed = 0 /\ ctl # "dead" /\ g \notin m_log_map
        /\ m_log_map' = m_log_map \cup {g} /\ m_log_map \subseteq m_log_map'
        /\ UNCHANGED <<fileLines, stored, renameErrors, locker, batch, m_logging_flag,
                       m_log_one_file, dl, dlAt, cl, clAt, ctl, ctlAt, exiting,
                       stopMark, crashed, cache, accepted>>
    BY DEF Inv, GetLogger, Running, logVars, lockVars, dlVars, clVars, ctlVars
  <1>1. PICK ok \in BOOLEAN :
            /\ opened' = [opened EXCEPT ![g] = ok]
            /\ openFailed' = IF ok THEN openFailed ELSE openFailed \cup {g}
    BY LogMgrAssumption DEF GetLogger
  <1>2. opened' \in [Loggers -> BOOLEAN] /\ opened'[g] = ok
    BY <1>0, <1>1 DEF TypeOK
  <1>3. \A h \in Loggers \ {g} : opened'[h] = opened[h]
    BY <1>0, <1>1 DEF TypeOK
  <1>4. TypeOK'
    <2>1. m_log_map' \subseteq Loggers
      BY <1>0 DEF TypeOK
    <2>2. openFailed' \subseteq Loggers
      BY <1>0, <1>1 DEF TypeOK
    <2>3. /\ cache' \in [Loggers -> CacheType({Line})]
          /\ fileLines' \in [Loggers -> Nat] /\ stored' \in [Loggers -> Nat]
          /\ locker' \in [Loggers -> {"none", "dl", "ctl"}]
          /\ batch' \in [{"dl", "ctl"} -> Nat]
          /\ accepted' \in [Loggers -> Nat] /\ stopMark' \in [Loggers -> Nat]
      BY <1>0 DEF TypeOK
    <2>4. /\ m_logging_flag' \in BOOLEAN /\ m_log_one_file' \in BOOLEAN
          /\ exiting' \in BOOLEAN
          /\ dlAt' \in 0..NumLoggers /\ clAt' \in 0..NumLoggers
          /\ ctlAt' \in 0..NumLoggers /\ crashed' \in 0..NumLoggers
          /\ renameErrors' \in 0..MaxRenameErrors
      BY <1>0 DEF TypeOK
    <2>5. /\ dl' \in {"none", "test", "flush", "write", "check", "size", "close",
                      "rotate", "open", "end", "sleep", "done"}
          /\ cl' \in {"none", "test", "clear", "sleep", "done"}
          /\ ctl' \in {"idle", "flush", "write", "join", "joinClear", "drop", "dead"}
      BY <1>0 DEF TypeOK
    <2> QED
      BY <1>2, <2>1, <2>2, <2>3, <2>4, <2>5 DEF TypeOK
  <1>5. ThreadInv'
    BY <1>0 DEF ThreadInv, AtLogger
  <1>6. LockInv' /\ CrashExplained'
    BY <1>0 DEF LockInv, CrashExplained
  <1>7. FileInv'
    <2> SUFFICES ASSUME NEW h \in m_log_map', h \notin openFailed'
                 PROVE  opened'[h] \/ (dl \in {"rotate", "open"} /\ dlAt = h)
      BY <1>0 DEF FileInv
    <2>1. CASE h = g
      BY <1>1, <1>2, <2>1
    <2>2. CASE h # g
      <3>1. h \in m_log_map /\ h \in Loggers /\ h \notin openFailed
        BY <1>0, <1>1, <2>2 DEF TypeOK
      <3>2. opened[h] \/ (dl \in {"rotate", "open"} /\ dlAt = h)
        BY <1>0, <3>1 DEF FileInv
      <3> QED
        BY <1>3, <2>2, <3>1, <3>2
    <2> QED
      BY <2>1, <2>2
  <1>8. CountInv' /\ MarkInv'
    BY <1>0, CountFrame
  <1> QED
    BY <1>4, <1>5, <1>6, <1>7, <1>8 DEF Inv

LEMMA KeepsLog ==
    ASSUME Inv, NEW g \in Loggers, Log(g)
    PROVE  Inv'
  <1>0. /\ TypeOK /\ ThreadInv /\ LockInv /\ FileInv /\ CountInv /\ MarkInv
        /\ crashed = 0 /\ ctl # "dead" /\ g \in m_log_map
        /\ cache' = [cache EXCEPT ![g] = PushBack(cache[g], Line)]
        /\ accepted' = [accepted EXCEPT ![g] = accepted[g] + 1]
        /\ UNCHANGED <<opened, fileLines, stored, openFailed, renameErrors, locker,
                       batch, m_log_map, m_logging_flag, m_log_one_file, dl, dlAt, cl,
                       clAt, ctl, ctlAt, exiting, stopMark, crashed>>
    BY DEF Inv, Log, Running, fileVars, lockVars, flags, dlVars, clVars, ctlVars
  <1>1. /\ cache \in [Loggers -> CacheType({Line})] /\ accepted \in [Loggers -> Nat]
        /\ cache[g] \in CacheType({Line}) /\ accepted[g] \in Nat /\ Line \in {Line}
    BY <1>0 DEF TypeOK
  <1>2. /\ PushBack(cache[g], Line) \in CacheType({Line})
        /\ CurrentCache(PushBack(cache[g], Line)) = CurrentCache(cache[g])
        /\ FillingCache(PushBack(cache[g], Line)) = Append(FillingCache(cache[g]), Line)
    BY <1>1, PushBackAppends
  <1>3. cache' \in [Loggers -> CacheType({Line})] /\ cache'[g] = PushBack(cache[g], Line)
    BY <1>0, <1>1, <1>2
  <1>4. accepted' \in [Loggers -> Nat] /\ accepted'[g] = accepted[g] + 1
    BY <1>0, <1>1
  <1>5. \A h \in Loggers \ {g} : cache'[h] = cache[h] /\ accepted'[h] = accepted[h]
    BY <1>0, <1>1
  <1>6. TypeOK'
    <2>1. /\ m_log_map' \subseteq Loggers /\ opened' \in [Loggers -> BOOLEAN]
          /\ fileLines' \in [Loggers -> Nat] /\ stored' \in [Loggers -> Nat]
          /\ openFailed' \subseteq Loggers /\ renameErrors' \in 0..MaxRenameErrors
          /\ locker' \in [Loggers -> {"none", "dl", "ctl"}]
          /\ batch' \in [{"dl", "ctl"} -> Nat] /\ stopMark' \in [Loggers -> Nat]
      BY <1>0 DEF TypeOK
    <2>2. /\ m_logging_flag' \in BOOLEAN /\ m_log_one_file' \in BOOLEAN
          /\ exiting' \in BOOLEAN
          /\ dlAt' \in 0..NumLoggers /\ clAt' \in 0..NumLoggers
          /\ ctlAt' \in 0..NumLoggers /\ crashed' \in 0..NumLoggers
      BY <1>0 DEF TypeOK
    <2>3. /\ dl' \in {"none", "test", "flush", "write", "check", "size", "close",
                      "rotate", "open", "end", "sleep", "done"}
          /\ cl' \in {"none", "test", "clear", "sleep", "done"}
          /\ ctl' \in {"idle", "flush", "write", "join", "joinClear", "drop", "dead"}
      BY <1>0 DEF TypeOK
    <2> QED
      BY <1>3, <1>4, <2>1, <2>2, <2>3 DEF TypeOK
  <1>7. ThreadInv' /\ LockInv' /\ FileInv' /\ CrashExplained'
    BY <1>0 DEF ThreadInv, LockInv, FileInv, CrashExplained, AtLogger
  <1>8. Fresh(g)' = Fresh(g) + 1 /\ Ready(g)' = Ready(g)
    <2>1. FillingCache(cache[g]) \in Seq({Line})
      BY <1>1, CacheParts
    <2>2. Len(Append(FillingCache(cache[g]), Line)) = Len(FillingCache(cache[g])) + 1
      BY <1>1, <2>1, AppendProperties
    <2> QED
      BY <1>2, <1>3, <2>2 DEF Ready, Fresh
  <1>9. \A h \in Loggers \ {g} : Ready(h)' = Ready(h) /\ Fresh(h)' = Fresh(h)
    BY <1>5 DEF Ready, Fresh
  <1>10. \A h \in Loggers : Taken(h)' = Taken(h)
    BY <1>0 DEF Taken, InBatch
  <1>11. CountInv'
    <2> SUFFICES ASSUME NEW h \in Loggers
                 PROVE  /\ accepted'[h] = Taken(h)' + Ready(h)' + Fresh(h)'
                        /\ h \notin m_log_map => accepted'[h] = 0
                        /\ stopMark[h] <= accepted'[h]
      BY <1>0 DEF CountInv
    <2>1. /\ accepted[h] = Taken(h) + Ready(h) + Fresh(h)
          /\ h \notin m_log_map => accepted[h] = 0
          /\ stopMark[h] <= accepted[h]
      BY <1>0 DEF CountInv
    <2>2. /\ Taken(h) \in Nat /\ Ready(h) \in Nat /\ Fresh(h) \in Nat
          /\ accepted[h] \in Nat /\ stopMark[h] \in Nat
      BY <1>0, CacheCounts
    <2>3. CASE h = g
      BY <1>0, <1>4, <1>8, <1>10, <2>1, <2>2, <2>3
    <2>4. CASE h # g
      BY <1>5, <1>9, <1>10, <2>1, <2>4
    <2> QED
      BY <2>3, <2>4
  <1>12. MarkInv'
    <2>1. \A h \in Loggers : Ready(h)' = Ready(h) /\ Taken(h)' = Taken(h)
      <3> TAKE h \in Loggers
      <3>1. CASE h = g
        BY <1>8, <1>10, <3>1
      <3>2. CASE h # g
        BY <1>9, <1>10, <3>2
      <3> QED
        BY <3>1, <3>2
    <2> QED
      BY <1>0, <2>1 DEF MarkInv, Visited
  <1> QED
    BY <1>6, <1>7, <1>11, <1>12 DEF Inv

LEMMA KeepsSetOneFile ==
    ASSUME Inv, NEW b \in BOOLEAN, SetLogOnOneFile(b)
    PROVE  Inv'
  <1>0. /\ TypeOK /\ ThreadInv /\ LockInv /\ FileInv /\ CountInv /\ MarkInv
        /\ crashed = 0 /\ ctl # "dead" /\ m_log_one_file' = b
        /\ UNCHANGED <<opened, fileLines, stored, openFailed, renameErrors, locker,
                       batch, m_log_map, m_logging_flag, dl, dlAt, cl, clAt, ctl,
                       ctlAt, exiting, stopMark, crashed, cache, accepted>>
    BY DEF Inv, SetLogOnOneFile, Running, logVars, fileVars, lockVars, dlVars, clVars,
           ctlVars
  <1>1. TypeOK'
    BY <1>0 DEF TypeOK
  <1>2. ThreadInv'
    BY <1>0 DEF ThreadInv, AtLogger
  <1>3. LockInv' /\ FileInv' /\ CrashExplained'
    BY <1>0 DEF LockInv, FileInv, CrashExplained
  <1>4. CountInv' /\ MarkInv'
    BY <1>0, CountFrame
  <1> QED
    BY <1>1, <1>2, <1>3, <1>4 DEF Inv

-----------------------------------------------------------------------------
(***************************************************************************)
(* start(), stop() and ~log_mgr().                                         *)
(***************************************************************************)

\* A logger that the iterator has stepped over is not registered.
LEMMA SteppedOver ==
    ASSUME TypeOK, CountInv, ctl # "dead", NEW n \in 0..NumLoggers,
           NEW g \in Loggers, g > n, NextLogger(n) = 0 \/ g < NextLogger(n)
    PROVE  accepted[g] = 0 /\ stopMark[g] = 0
  <1>1. g \notin m_log_map
    <2>1. /\ NextLogger(n) \in 0..NumLoggers
          /\ NextLogger(n) = 0 => \A h \in m_log_map : h <= n
          /\ NextLogger(n) # 0 => \A h \in m_log_map : h > n => NextLogger(n) <= h
      BY NextLoggerIs
    <2>2. g \in Nat /\ n \in Nat /\ NextLogger(n) \in Nat
      BY <2>1, LogMgrAssumption DEF Loggers
    <2> SUFFICES ASSUME g \in m_log_map PROVE FALSE
      OBVIOUS
    <2>3. CASE NextLogger(n) = 0
      BY <2>1, <2>2, <2>3
    <2>4. CASE NextLogger(n) # 0
      BY <2>1, <2>2, <2>4
    <2> QED
      BY <2>3, <2>4
  <1>2. stopMark[g] \in Nat /\ stopMark[g] <= accepted[g] /\ accepted[g] = 0
    BY <1>1 DEF CountInv, TypeOK
  <1> QED
    BY <1>2

LEMMA KeepsStart == Inv /\ Start => Inv'
  <1> SUFFICES ASSUME Inv, Start PROVE Inv'
    OBVIOUS
  <1>0. /\ TypeOK /\ ThreadInv /\ LockInv /\ FileInv /\ CountInv /\ MarkInv
        /\ crashed = 0 /\ ctl = "idle" /\ ~m_logging_flag /\ m_logging_flag' = TRUE
        /\ dl' = "test" /\ cl' = "test"
        /\ UNCHANGED <<opened, fileLines, stored, openFailed, renameErrors, locker,
                       batch, m_log_map, m_log_one_file, dlAt, clAt, ctl, ctlAt,
                       exiting, stopMark, crashed, cache, accepted>>
    BY DEF Inv, Start, Running, logVars, fileVars, lockVars, ctlVars
  <1>1. dl = "none" /\ cl = "none" /\ ~exiting
    BY <1>0 DEF ThreadInv
  <1>2. TypeOK'
    BY <1>0 DEF TypeOK
  <1>3. ThreadInv'
    BY <1>0, <1>1 DEF ThreadInv, AtLogger
  <1>4. LockInv' /\ FileInv' /\ CrashExplained'
    BY <1>0, <1>1 DEF LockInv, FileInv, CrashExplained
  <1>5. CountInv' /\ MarkInv'
    BY <1>0, CountFrame
  <1> QED
    BY <1>2, <1>3, <1>4, <1>5 DEF Inv

LEMMA KeepsStop == Inv /\ (Stop \/ Exit) => Inv'
  <1> SUFFICES ASSUME Inv, Stop \/ Exit PROVE Inv'
    OBVIOUS
  <1>0. /\ TypeOK /\ ThreadInv /\ LockInv /\ FileInv /\ CountInv /\ MarkInv
        /\ crashed = 0 /\ ctl = "idle" /\ ~m_logging_flag'
        /\ m_logging_flag' = FALSE /\ ctlAt' = NextLogger(0)
        /\ ctl' = IF ctlAt' = 0 THEN "join" ELSE "flush"
        /\ UNCHANGED <<opened, fileLines, stored, openFailed, renameErrors, locker,
                       batch, m_log_map, m_log_one_file, dl, dlAt, cl, clAt, crashed,
                       cache, accepted>>
    BY DEF Inv, Stop, Exit, StopWith, Running, logVars, fileVars, lockVars, dlVars, clVars
  <1>1. \/ stopMark' = accepted /\ exiting' = FALSE
        \/ stopMark' = stopMark /\ exiting' = TRUE
    BY DEF Stop, Exit, StopWith
  <1>2. /\ NextLogger(0) \in 0..NumLoggers /\ 0 \in 0..NumLoggers /\ NumLoggers \in Nat
        /\ NextLogger(0) # 0 => NextLogger(0) \in m_log_map
    BY <1>0, NextLoggerIs, LogMgrAssumption
  <1>3. TypeOK'
    <2>1. stopMark' \in [Loggers -> Nat] /\ exiting' \in BOOLEAN
      BY <1>0, <1>1 DEF TypeOK
    <2>2. ctlAt' \in 0..NumLoggers /\ ctl' \in {"flush", "join"}
      BY <1>0, <1>2
    <2> QED
      BY <1>0, <2>1, <2>2 DEF TypeOK
  <1>4. ThreadInv'
    <2>1. /\ ctl' \in {"flush", "join"} /\ (ctl' = "flush" => ctlAt' \in m_log_map)
      BY <1>0, <1>2
    <2> QED
      BY <1>0, <2>1 DEF ThreadInv, AtLogger
  <1>5. LockInv' /\ FileInv' /\ CrashExplained'
    BY <1>0 DEF LockInv, FileInv, CrashExplained
  <1>6. \A g \in Loggers : /\ Taken(g)' = Taken(g) /\ Ready(g)' = Ready(g)
                           /\ Fresh(g)' = Fresh(g)
    BY <1>0 DEF Taken, Ready, Fresh, InBatch
  <1>7. \A g \in Loggers : /\ Taken(g) \in Nat /\ Ready(g) \in Nat /\ Fresh(g) \in Nat
                           /\ accepted[g] \in Nat /\ stopMark[g] \in Nat
    BY <1>0, CacheCounts
  <1>8. CountInv'
    <2> SUFFICES ASSUME NEW g \in Loggers
                 PROVE  /\ accepted[g] = Taken(g)' + Ready(g)' + Fresh(g)'
                        /\ g \notin m_log_map => accepted[g] = 0
                        /\ stopMark'[g] <= accepted[g]
      BY <1>0 DEF CountInv
    <2> QED
      BY <1>0, <1>1, <1>6, <1>7 DEF CountInv
  <1>9. MarkInv'
    <2> SUFFICES ASSUME NEW g \in Loggers
                 PROVE  /\ exiting' \/ Visited(g)' => stopMark'[g] <= Taken(g)' + Ready(g)'
                        /\ exiting' /\ Visited(g)' => stopMark'[g] <= Taken(g)'
      BY <1>0 DEF MarkInv
    <2>1. ASSUME Visited(g)'
          PROVE  accepted[g] = 0 /\ stopMark[g] = 0 /\ stopMark'[g] = 0
      <3>1. NextLogger(0) = 0 \/ g < NextLogger(0)
        BY <1>0, <2>1 DEF Visited
      <3>2. g > 0 /\ ctl # "dead"
        BY <1>0, <1>2 DEF Loggers
      <3>3. accepted[g] = 0 /\ stopMark[g] = 0
        BY <1>0, <1>2, <3>1, <3>2, SteppedOver
      <3> QED
        BY <1>1, <3>3
    <2>2. ASSUME exiting'
          PROVE  stopMark'[g] <= Taken(g)' + Ready(g)'
      <3>1. stopMark' = stopMark
        BY <1>1, <2>2
      <3>2. stopMark[g] <= Taken(g) + Ready(g)
        BY <1>0 DEF MarkInv, Visited
      <3> QED
        BY <1>6, <3>1, <3>2
    <2> QED
      BY <1>6, <1>7, <2>1, <2>2
  <1> QED
    BY <1>3, <1>4, <1>5, <1>8, <1>9 DEF Inv

LEMMA KeepsStopFlush == Inv /\ StopFlush => Inv'
  <1> SUFFICES ASSUME Inv, StopFlush PROVE Inv'
    OBVIOUS
  <1>0. /\ TypeOK /\ ThreadInv /\ LockInv /\ FileInv /\ CountInv /\ MarkInv
        /\ crashed = 0 /\ ctl = "flush" /\ ctl' = "write" /\ ctlAt' = ctlAt
        /\ TakeCache("ctl", ctlAt)
        /\ UNCHANGED <<opened, fileLines, stored, openFailed, renameErrors, m_log_map,
                       m_logging_flag, m_log_one_file, dl, dlAt, cl, clAt, ctlAt,
                       exiting, stopMark, crashed, accepted>>
    BY DEF Inv, StopFlush, Running, TakeCache, fileVars, flags, dlVars, clVars
  <1>1. ctlAt \in m_log_map /\ ctlAt \in Loggers /\ "ctl" \in Threads
    BY <1>0 DEF TypeOK, ThreadInv, Threads
  <1>2. \A h \in Loggers : locker[h] # "ctl"
    BY <1>0 DEF LockInv
  <1>3. /\ cache' \in [Loggers -> CacheType({Line})]
        /\ locker' \in [Loggers -> {"none", "dl", "ctl"}]
        /\ batch' \in [Threads -> Nat]
        /\ locker[ctlAt] = "none" /\ locker'[ctlAt] = "ctl"
        /\ \A h \in Loggers \ {ctlAt} : locker'[h] = locker[h]
    BY <1>0, <1>1, <1>2, TakesLines
  <1>4. TypeOK'
    BY <1>0, <1>3 DEF TypeOK, Threads
  <1>5. ThreadInv'
    BY <1>0, <1>1 DEF ThreadInv, AtLogger
  <1>6. LockInv'
    BY <1>0, <1>1, <1>3 DEF LockInv
  <1>7. FileInv' /\ CrashExplained'
    BY <1>0 DEF FileInv, CrashExplained
  <1>8. /\ Taken(ctlAt)' = Taken(ctlAt) + Ready(ctlAt)
        /\ Ready(ctlAt)' = Fresh(ctlAt) /\ Fresh(ctlAt)' = 0
        /\ \A h \in Loggers \ {ctlAt} :
              Taken(h)' = Taken(h) /\ Ready(h)' = Ready(h) /\ Fresh(h)' = Fresh(h)
    BY <1>0, <1>1, <1>2, TakesLines
  <1>9. ASSUME NEW h \in Loggers
        PROVE  /\ accepted[h] = Taken(h)' + Ready(h)' + Fresh(h)'
               /\ h \notin m_log_map => accepted[h] = 0
               /\ stopMark[h] <= accepted[h]
               /\ exiting \/ Visited(h)' => stopMark[h] <= Taken(h)' + Ready(h)'
               /\ exiting /\ Visited(h)' => stopMark[h] <= Taken(h)'
    <2>1. /\ accepted[h] = Taken(h) + Ready(h) + Fresh(h)
          /\ h \notin m_log_map => accepted[h] = 0
          /\ stopMark[h] <= accepted[h]
          /\ exiting \/ Visited(h) => stopMark[h] <= Taken(h) + Ready(h)
          /\ exiting /\ Visited(h) => stopMark[h] <= Taken(h)
      BY <1>0 DEF CountInv, MarkInv
    <2>2. /\ Taken(h) \in Nat /\ Ready(h) \in Nat /\ Fresh(h) \in Nat
          /\ accepted[h] \in Nat /\ stopMark[h] \in Nat
      BY <1>0, CacheCounts
    <2>3. CASE h = ctlAt
      <3>1. Taken(h)' = Taken(h) + Ready(h) /\ Ready(h)' = Fresh(h) /\ Fresh(h)' = 0
        BY <1>0, <1>8, <2>3
      <3> QED
        BY <2>1, <2>2, <3>1
    <2>4. CASE h # ctlAt
      <3>1. Taken(h)' = Taken(h) /\ Ready(h)' = Ready(h) /\ Fresh(h)' = Fresh(h)
        BY <1>8, <2>4
      <3>2. Visited(h)' => Visited(h)
        BY <1>0, <1>1, <2>4, LogMgrAssumption DEF Visited, Loggers
      <3> QED
        BY <2>1, <3>1, <3>2
    <2> QED
      BY <2>3, <2>4
  <1>10. CountInv'
    BY <1>0, <1>9 DEF CountInv
  <1>11. MarkInv'
    BY <1>0, <1>9 DEF MarkInv
  <1> QED
    BY <1>4, <1>5, <1>6, <1>7, <1>10, <1>11 DEF Inv

LEMMA KeepsStopWrite == Inv /\ StopWrite => Inv'
  <1> SUFFICES ASSUME Inv, StopWrite PROVE Inv'
    OBVIOUS
  <1>0. /\ TypeOK /\ ThreadInv /\ LockInv /\ FileInv /\ CountInv /\ MarkInv
        /\ crashed = 0 /\ ctl = "write" /\ ctlAt' = NextLogger(ctlAt)
        /\ ctl' = IF ctlAt' = 0 THEN "join" ELSE "flush"
        /\ WriteCache("ctl", ctlAt)
        /\ UNCHANGED <<opened, openFailed, renameErrors, m_log_map, m_logging_flag,
                       m_log_one_file, dl, dlAt, cl, clAt, exiting, stopMark, crashed,
                       cache, accepted>>
    BY DEF Inv, StopWrite, Running, logVars, flags, dlVars, clVars
  <1>1. ctlAt \in m_log_map /\ ctlAt \in Loggers /\ "ctl" \in Threads
        /\ ctlAt \in 0..NumLoggers
    BY <1>0 DEF TypeOK, ThreadInv, Threads
  <1>2. locker[ctlAt] = "ctl" /\ \A h \in Loggers \ {ctlAt} : locker[h] # "ctl"
    BY <1>0, <1>1 DEF LockInv
  <1>3. /\ fileLines' \in [Loggers -> Nat] /\ stored' \in [Loggers -> Nat]
        /\ locker' \in [Loggers -> {"none", "dl", "ctl"}]
        /\ batch' \in [Threads -> Nat]
    BY <1>0, <1>1, <1>2, WritesLines
  <1>4. \A h \in Loggers : h # ctlAt => locker'[h] = locker[h]
    BY <1>0, <1>1 DEF WriteCache, TypeOK
  <1>5. \A h \in Loggers : locker'[h] # "ctl"
    BY <1>0, <1>1, <1>2 DEF WriteCache, TypeOK
  <1>6. \A h \in Loggers : locker'[h] = "dl" <=> locker[h] = "dl"
    BY <1>0, <1>1, <1>2 DEF WriteCache, TypeOK
  <1>7. /\ ctlAt' \in 0..NumLoggers /\ ctl' \in {"join", "flush"}
        /\ ctl' = "flush" => ctlAt' \in m_log_map
        /\ ctl' = "join" <=> NextLogger(ctlAt) = 0
    BY <1>0, <1>1, NextLoggerIs
  <1>8. TypeOK'
    BY <1>0, <1>3, <1>7 DEF TypeOK, Threads
  <1>9. ThreadInv'
    BY <1>0, <1>7 DEF ThreadInv, AtLogger
  <1>10. LockInv'
    BY <1>0, <1>5, <1>6, <1>7 DEF LockInv
  <1>11. FileInv' /\ CrashExplained'
    BY <1>0 DEF FileInv, CrashExplained
  <1>12. \A h \in Loggers :
            Taken(h)' = Taken(h) /\ Ready(h)' = Ready(h) /\ Fresh(h)' = Fresh(h)
    BY <1>0, <1>1, <1>2, WritesLines
  <1>13. CountInv'
    BY <1>0, <1>12 DEF CountInv
  <1>14. MarkInv'
    <2> SUFFICES ASSUME NEW h \in Loggers
                 PROVE  /\ exiting \/ Visited(h)' => stopMark[h] <= Taken(h) + Ready(h)
                        /\ exiting /\ Visited(h)' => stopMark[h] <= Taken(h)
      BY <1>0, <1>7, <1>12 DEF MarkInv
    <2>1. /\ exiting \/ Visited(h) => stopMark[h] <= Taken(h) + Ready(h)
          /\ exiting /\ Visited(h) => stopMark[h] <= Taken(h)
      BY <1>0 DEF MarkInv
    <2>2. Taken(h) \in Nat /\ Ready(h) \in Nat
      BY <1>0, CacheCounts
    <2>3. ASSUME Visited(h)'
          PROVE  Visited(h) \/ stopMark[h] = 0
      <3>1. CASE h <= ctlAt
        BY <1>0, <3>1 DEF Visited
      <3>2. CASE ~(h <= ctlAt)
        <4>1. h > ctlAt
          BY <1>1, <3>2, LogMgrAssumption DEF Loggers
        <4>2. NextLogger(ctlAt) = 0 \/ h < NextLogger(ctlAt)
          BY <1>0, <1>7, <2>3 DEF Visited
        <4> QED
          BY <1>0, <1>1, <4>1, <4>2, SteppedOver
      <3> QED
        BY <3>1, <3>2
    <2> QED
      BY <2>1, <2>2, <2>3
  <1> QED
    BY <1>8, <1>9, <1>10, <1>11, <1>13, <1>14 DEF Inv

LEMMA KeepsJoin == Inv /\ StopJoin => Inv'
  <1> SUFFICES ASSUME Inv, StopJoin PROVE Inv'
    OBVIOUS
  <1>0. /\ TypeOK /\ ThreadInv /\ LockInv /\ FileInv /\ CountInv /\ MarkInv
        /\ crashed = 0 /\ ctl = "join" /\ ctl' = "joinClear" /\ dl \in {"none", "done"}
        /\ dl' = "none" /\ dlAt' = 0
        /\ UNCHANGED <<opened, fileLines, stored, openFailed, renameErrors, locker,
                       batch, m_log_map, m_logging_flag, m_log_one_file, cl, clAt,
                       ctlAt, exiting, stopMark, crashed, cache, accepted>>
    BY DEF Inv, StopJoin, Running, logVars, fileVars, lockVars, flags, clVars
  <1>1. 0 \in 0..NumLoggers
    BY LogMgrAssumption
  <1>2. TypeOK'
    BY <1>0, <1>1 DEF TypeOK
  <1>3. ThreadInv'
    BY <1>0 DEF ThreadInv, AtLogger
  <1>4. LockInv' /\ FileInv' /\ CrashExplained'
    BY <1>0 DEF LockInv, FileInv, CrashExplained
  <1>5. \A g \in Loggers : /\ Taken(g)' = Taken(g) /\ Ready(g)' = Ready(g)
                           /\ Fresh(g)' = Fresh(g) /\ (Visited(g)' <=> Visited(g))
    BY <1>0 DEF Taken, Ready, Fresh, InBatch, Visited
  <1>6. CountInv' /\ MarkInv'
    BY <1>0, <1>5 DEF CountInv, MarkInv
  <1> QED
    BY <1>2, <1>3, <1>4, <1>6 DEF Inv

LEMMA KeepsJoinClear == Inv /\ StopJoinClear => Inv'
  <1> SUFFICES ASSUME Inv, StopJoinClear PROVE Inv'
    OBVIOUS
  <1>0. /\ TypeOK /\ ThreadInv /\ LockInv /\ FileInv /\ CountInv /\ MarkInv
        /\ crashed = 0 /\ ctl = "joinClear" /\ cl \in {"none", "done"}
        /\ cl' = "none" /\ clAt' = 0 /\ ctl' = IF exiting THEN "drop" ELSE "idle"
        /\ UNCHANGED <<opened, fileLines, stored, openFailed, renameErrors, locker,
                       batch, m_log_map, m_logging_flag, m_log_one_file, dl, dlAt,
                       ctlAt, exiting, stopMark, crashed, cache, accepted>>
    BY DEF Inv, StopJoinClear, Running, logVars, fileVars, lockVars, flags, dlVars
  <1>1. 0 \in 0..NumLoggers /\ ctl' \in {"drop", "idle"}
    BY <1>0, LogMgrAssumption
  <1>2. TypeOK'
    BY <1>0, <1>1 DEF TypeOK
  <1>3. ThreadInv'
    <2>1. dl = "none" /\ ~m_logging_flag
      BY <1>0 DEF ThreadInv
    <2>2. (ctl' = "drop" => exiting) /\ (ctl' = "idle" => ~exiting)
      BY <1>0
    <2> QED
      BY <1>0, <1>1, <2>1, <2>2 DEF ThreadInv, AtLogger
  <1>4. LockInv' /\ FileInv' /\ CrashExplained'
    BY <1>0, <1>1 DEF LockInv, FileInv, CrashExplained
  <1>5. \A g \in Loggers : /\ Taken(g)' = Taken(g) /\ Ready(g)' = Ready(g)
                           /\ Fresh(g)' = Fresh(g) /\ (Visited(g)' <=> Visited(g))
    BY <1>0, <1>1 DEF Taken, Ready, Fresh, InBatch, Visited
  <1>6. CountInv' /\ MarkInv'
    BY <1>0, <1>1, <1>5 DEF CountInv, MarkInv
  <1> QED
    BY <1>2, <1>3, <1>4, <1>6 DEF Inv

\* The caches are dropped: what they held was logged after stop().
LEMMA KeepsDrop == Inv /\ DropLoggers => Inv'
  <1> SUFFICES ASSUME Inv, DropLoggers PROVE Inv'
    OBVIOUS
  <1>0. /\ TypeOK /\ ThreadInv /\ LockInv /\ FileInv /\ CountInv /\ MarkInv
        /\ crashed = 0 /\ ctl = "drop" /\ ctl' = "dead" /\ m_log_map' = {}
        /\ opened' = [g \in Loggers |-> FALSE] /\ cache' = [g \in Loggers |-> EmptyCache]
        /\ UNCHANGED <<accepted, fileLines, stored, openFailed, renameErrors, locker,
                       batch, m_logging_flag, m_log_one_file, dl, dlAt, cl, clAt,
                       ctlAt, exiting, stopMark, crashed>>
    BY DEF Inv, DropLoggers, file_log_mgr_dtor, file_log_dtor, Running, lockVars, dlVars,
           clVars
  <1>1. dl = "none" /\ cl = "none" /\ exiting /\ ~m_logging_flag
    BY <1>0 DEF ThreadInv
  <1>2. TypeOK'
    <2>1. EmptyCache \in CacheType({Line})
      BY EmptyCacheBuffers
    <2>2. cache' \in [Loggers -> CacheType({Line})]
      BY <1>0, <2>1
    <2>3. opened' \in [Loggers -> BOOLEAN]
      BY <1>0
    <2>4. m_log_map' \subseteq Loggers
      BY <1>0
    <2>5. /\ fileLines' \in [Loggers -> Nat] /\ stored' \in [Loggers -> Nat]
          /\ locker' \in [Loggers -> {"none", "dl", "ctl"}]
          /\ batch' \in [{"dl", "ctl"} -> Nat] /\ openFailed' \subseteq Loggers
          /\ accepted' \in [Loggers -> Nat] /\ stopMark' \in [Loggers -> Nat]
      BY <1>0 DEF TypeOK
    <2>6. /\ m_logging_flag' \in BOOLEAN /\ m_log_one_file' \in BOOLEAN
          /\ exiting' \in BOOLEAN
          /\ dlAt' \in 0..NumLoggers /\ clAt' \in 0..NumLoggers
          /\ ctlAt' \in 0..NumLoggers /\ crashed' \in 0..NumLoggers
          /\ renameErrors' \in 0..MaxRenameErrors
      BY <1>0 DEF TypeOK
    <2>7. /\ dl' = "none" /\ cl' = "none" /\ ctl' = "dead"
      BY <1>0, <1>1
    <2> QED
      BY <2>2, <2>3, <2>4, <2>5, <2>6, <2>7 DEF TypeOK
  <1>3. ThreadInv'
    BY <1>0, <1>1 DEF ThreadInv, AtLogger
  <1>4. LockInv' /\ FileInv' /\ CrashExplained' /\ CountInv'
    BY <1>0, <1>1 DEF LockInv, FileInv, CrashExplained, CountInv
  <1>5. MarkInv'
    <2> SUFFICES ASSUME NEW g \in Loggers
                 PROVE  stopMark[g] <= stored[g]
      BY <1>0 DEF MarkInv
    <2>1. Taken(g) = stored[g]
      <3>1. locker[g] = "none"
        BY <1>0, <1>1 DEF LockInv, TypeOK
      <3> QED
        BY <1>0, <3>1 DEF Taken, InBatch, TypeOK
    <2> QED
      BY <1>0, <1>1, <2>1 DEF MarkInv, Visited
  <1> QED
    BY <1>2, <1>3, <1>4, <1>5 DEF Inv

-----------------------------------------------------------------------------
LEMMA NextInv == Inv /\ [Next]_vars => Inv'
  <1> SUFFICES ASSUME Inv, [Next]_vars PROVE Inv'
    OBVIOUS
  <1>1. CASE \E g \in Loggers : GetLogger(g) \/ Log(g)
    BY <1>1, KeepsGetLogger, KeepsLog
  <1>2. CASE \E b \in BOOLEAN : SetLogOnOneFile(b)
    BY <1>2, KeepsSetOneFile
  <1>3. CASE do_logging
    BY <1>3, KeepsDecisions, KeepsFlush, KeepsWrite, KeepsWriteNull, KeepsRotation
       DEF do_logging
  <1>4. CASE do_clear_expired_log
    BY <1>4, KeepsClearing
  <1>5. CASE Start \/ Stop \/ Exit
    BY <1>5, KeepsStart, KeepsStop
  <1>6. CASE Stopping
    BY <1>6, KeepsStopFlush, KeepsStopWrite, KeepsWriteNull, KeepsJoin, KeepsJoinClear,
       KeepsDrop DEF Stopping
  <1>7. CASE UNCHANGED vars
    <2>1. UNCHANGED <<opened, fileLines, stored, openFailed, renameErrors, locker,
                      batch, m_log_map, m_logging_flag, m_log_one_file, dl, dlAt, cl,
                      clAt, ctl, ctlAt, exiting, stopMark, crashed, cache, accepted>>
      BY <1>7 DEF vars, logVars, fileVars, lockVars, flags, dlVars, clVars, ctlVars
    <2>2. TypeOK' /\ ThreadInv' /\ LockInv' /\ FileInv' /\ CrashExplained'
      BY <2>1 DEF Inv, TypeOK, ThreadInv, LockInv, FileInv, CrashExplained, AtLogger
    <2>3. CountInv' /\ MarkInv'
      BY <2>1, CountFrame DEF Inv
    <2> QED
      BY <2>2, <2>3 DEF Inv
  <1> QED
    BY <1>1, <1>2, <1>3, <1>4, <1>5, <1>6, <1>7 DEF Next

LEMMA SpecInv == Spec => []Inv
  <1>1. Init => Inv
    BY InitInv
  <1>2. Inv /\ [Next]_vars => Inv'
    BY NextInv
  <1> QED
    BY <1>1, <1>2, PTL DEF Spec

-----------------------------------------------------------------------------
\* Every variable has its type in every state that do_logging(),
\* do_clear_expired_log(), start(), stop() and the applications can reach.
THEOREM SpecTypeOK == Spec => []TypeOK
  <1>1. Inv => TypeOK
    BY DEF Inv
  <1> QED
    BY <1>1, SpecInv, PTL

\* A line logged before stop() was called is in the files when ~log_mgr() is
\* done: the two flushes it takes are those of stop() and of the destructor, and
\* the loops of both visit every logger, whatever do_logging() is doing.
THEOREM SpecStoppedLinesStored == Spec => []StoppedLinesStored
  <1>1. Inv => StoppedLinesStored
    <2> SUFFICES ASSUME Inv, ctl = "dead", NEW g \in Loggers
                 PROVE  stored[g] >= stopMark[g]
      BY DEF StoppedLinesStored
    <2>1. stored[g] \in Nat /\ stopMark[g] \in Nat /\ stopMark[g] <= stored[g]
      BY DEF Inv, TypeOK, MarkInv
    <2> QED
      BY <2>1
  <1> QED
    BY <1>1, SpecInv, PTL

\* flush() writes to a null FILE* only after an open() that failed, or when
\* stop() meets a rotation of do_logging() between close() and open(), whatever
\* renames fail and whenever set_log_on_one_file() is called.
THEOREM SpecCrashExplained == Spec => []CrashExplained
  <1>1. Inv => CrashExplained
    BY DEF Inv
  <1> QED
    BY <1>1, SpecInv, PTL

\* When stop() has returned no worker thread is left, nobody holds m_Locker, and
\* every file is open again unless its open() failed.
THEOREM SpecStoppedCleanly == Spec => []StoppedCleanly
  <1>1. Inv => StoppedCleanly
    <2> SUFFICES ASSUME Inv, ctl = "idle", ~m_logging_flag
                 PROVE  /\ dl = "none" /\ cl = "none"
                        /\ \A g \in Loggers : locker[g] = "none"
                        /\ \A g \in m_log_map \ openFailed : opened[g]
      BY DEF StoppedCleanly
    <2>1. dl = "none" /\ cl = "none"
      BY DEF Inv, ThreadInv
    <2>2. \A g \in Loggers : locker[g] = "none"
      BY <2>1 DEF Inv, LockInv, TypeOK
    <2>3. \A g \in m_log_map \ openFailed : opened[g]
      BY <2>1 DEF Inv, FileInv
    <2> QED
      BY <2>1, <2>2, <2>3
  <1> QED
    BY <1>1, SpecInv, PTL
=============================================================================
