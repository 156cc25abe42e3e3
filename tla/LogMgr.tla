------------------------------- MODULE LogMgr -------------------------------
(***************************************************************************)
(* log_mgr: the registry of loggers, the thread that flushes and rotates   *)
(* them (do_logging), the thread that clears expired files                 *)
(* (do_clear_expired_log), and the thread that calls start(), stop() and,  *)
(* at exit, runs ~log_mgr().  Applications log through file loggers.       *)
(*                                                                         *)
(* A logger is a file_log_mgr seen from here: one pair of caches, one      *)
(* file, and m_Locker, under which flush(), is_need_rotate(), close(),     *)
(* rotate(), open() and clear_expired_log() each run.  flush() is split    *)
(* where log() can come between: it takes a cache, then it writes.  Lines  *)
(* are only counted here; FileLogMgr shows that their order is kept.       *)
(*                                                                         *)
(* The loggers are the numbers 1..NumLoggers, in the order of their names  *)
(* in m_log_map.                                                           *)
(***************************************************************************)
EXTENDS ABCache, FiniteSetsExt, Functions

CONSTANTS
    NumLoggers,     \* how many loggers there are at most
    MaxLines,       \* a bound on the lines logged, to all of them together
    LogFileLength,  \* the lines in a file that make it due for rotation
    OpenMayFail,    \* fopen() may return nullptr
    MaxRenameErrors \* a bound on the renames that fail

ASSUME LogMgrAssumption ==
    /\ NumLoggers \in Nat \ {0}
    /\ MaxLines \in Nat
    /\ LogFileLength \in Nat \ {0}
    /\ OpenMayFail \in BOOLEAN
    /\ MaxRenameErrors \in Nat

Loggers == 1..NumLoggers
Line    == "line"

VARIABLES
    m_log_map,      \* the loggers registered
    cache,          \* [Loggers -> the two caches]
    opened,         \* [Loggers -> BOOLEAN]: m_File is not nullptr
    fileLines,      \* [Loggers -> Nat]: lines in the file under m_FileName
    stored,         \* [Loggers -> Nat]: lines in that and the renamed files
    locker,         \* [Loggers -> the thread that holds m_Locker, or "none"]
    batch,          \* the lines that each flushing thread has taken
    m_logging_flag,
    m_log_one_file,
    dl, dlAt,       \* do_logging: where it is, and its iterator
    cl, clAt,       \* do_clear_expired_log: the same
    ctl, ctlAt,     \* start(), stop(), ~log_mgr(): the same
    exiting,        \* ~log_mgr() has begun
    crashed,        \* the logger that was flushed to a null FILE*, or 0
    accepted,       \* history: [Loggers -> Nat]: lines cached so far
    stopMark,       \* history: what "accepted" was when stop() was last called
    openFailed,     \* history: the loggers whose last open() failed
    renameErrors    \* how many renames have failed

logVars  == <<cache, accepted>>
fileVars == <<opened, fileLines, stored, openFailed, renameErrors>>
lockVars == <<locker, batch>>
flags    == <<m_log_map, m_logging_flag, m_log_one_file>>
dlVars   == <<dl, dlAt>>
clVars   == <<cl, clAt>>
ctlVars  == <<ctl, ctlAt, exiting, stopMark>>
vars     == <<logVars, fileVars, lockVars, flags, dlVars, clVars, ctlVars, crashed>>

Init ==
    /\ m_log_map = {}
    /\ cache     = [g \in Loggers |-> EmptyCache]
    /\ opened    = [g \in Loggers |-> FALSE]
    /\ fileLines = [g \in Loggers |-> 0]
    /\ stored    = [g \in Loggers |-> 0]
    /\ locker    = [g \in Loggers |-> "none"]
    /\ batch     = [t \in {"dl", "ctl"} |-> 0]
    /\ m_logging_flag = FALSE
    /\ m_log_one_file = FALSE
    /\ dl = "none" /\ dlAt = 0
    /\ cl = "none" /\ clAt = 0
    /\ ctl = "idle" /\ ctlAt = 0
    /\ exiting   = FALSE
    /\ crashed   = 0
    /\ accepted  = [g \in Loggers |-> 0]
    /\ stopMark  = [g \in Loggers |-> 0]
    /\ openFailed = {}
    /\ renameErrors = 0

Running == crashed = 0 /\ ctl # "dead"

\* The iterator of a loop over m_log_map; 0 is end().
NextLogger(g) ==
    LET after == {h \in m_log_map : h > g} IN
    IF after = {} THEN 0 ELSE Min(after)

-----------------------------------------------------------------------------
(***************************************************************************)
(* The applications.  They are done when ~log_mgr() begins.                *)
(***************************************************************************)

\* get_logger() of a new name.  The result of open() is ignored.
GetLogger(g) ==
    /\ Running /\ ~exiting
    /\ g \notin m_log_map
    /\ m_log_map' = m_log_map \cup {g}
    /\ \E ok \in {TRUE, ~OpenMayFail} :
          /\ opened'     = [opened EXCEPT ![g] = ok]
          /\ openFailed' = IF ok THEN openFailed ELSE openFailed \cup {g}
    /\ UNCHANGED <<logVars, fileLines, stored, renameErrors, lockVars,
                   m_logging_flag, m_log_one_file, dlVars, clVars, ctlVars, crashed>>

\* log(): under m_CachedLocker only.
Log(g) ==
    /\ Running /\ ~exiting
    /\ g \in m_log_map
    /\ FoldFunction(+, 0, accepted) < MaxLines
    /\ cache'    = [cache EXCEPT ![g] = PushBack(@, Line)]
    /\ accepted' = [accepted EXCEPT ![g] = @ + 1]
    /\ UNCHANGED <<fileVars, lockVars, flags, dlVars, clVars, ctlVars, crashed>>

\* set_log_on_one_file(), at any time: nothing synchronises it with do_logging().
SetLogOnOneFile(b) ==
    /\ Running /\ ~exiting
    /\ m_log_one_file' = b
    /\ UNCHANGED <<logVars, fileVars, lockVars, m_log_map, m_logging_flag,
                   dlVars, clVars, ctlVars, crashed>>

-----------------------------------------------------------------------------
(***************************************************************************)
(* logger->flush() by thread t.                                            *)
(***************************************************************************)
TakeCache(t, g) ==
    /\ locker[g] = "none"
    /\ locker' = [locker EXCEPT ![g] = t]
    /\ batch'  = [batch EXCEPT ![t] = Len(CurrentCache(cache[g]))]
    /\ cache'  = [cache EXCEPT ![g] = Swapped(@)]
    /\ UNCHANGED accepted

WriteCache(t, g) ==
    /\ batch[t] = 0 \/ opened[g]
    /\ fileLines' = [fileLines EXCEPT ![g] = @ + batch[t]]
    /\ stored'    = [stored EXCEPT ![g] = @ + batch[t]]
    /\ batch'     = [batch EXCEPT ![t] = 0]
    /\ locker'    = [locker EXCEPT ![g] = "none"]

\* fwrite() on a null FILE*: the process dies.
WriteNull(t, g) ==
    /\ batch[t] > 0 /\ ~opened[g]
    /\ crashed' = g
    /\ UNCHANGED <<logVars, fileVars, lockVars, flags, dlVars, clVars, ctlVars>>

-----------------------------------------------------------------------------
(***************************************************************************)
(* do_logging().                                                           *)
(***************************************************************************)
DLAt(at, to) == Running /\ dl = at /\ dl' = to

\* The logger is done: ++it.
DLAdvance ==
    /\ dlAt' = NextLogger(dlAt)
    /\ dl'   = IF dlAt' = 0 THEN "end" ELSE "flush"

DLTest ==
    /\ Running /\ dl = "test"
    /\ \/ ~m_logging_flag /\ dl' = "done" /\ dlAt' = 0
       \/ /\ m_logging_flag
          /\ dlAt' = NextLogger(0)
          /\ dl'   = IF dlAt' = 0 THEN "end" ELSE "flush"
    /\ UNCHANGED <<logVars, fileVars, lockVars, flags, clVars, ctlVars, crashed>>

DLFlush ==
    /\ DLAt("flush", "write")
    /\ TakeCache("dl", dlAt)
    /\ UNCHANGED <<fileVars, flags, dlAt, clVars, ctlVars, crashed>>

DLWrite ==
    /\ DLAt("write", "check")
    /\ WriteCache("dl", dlAt)
    /\ UNCHANGED <<logVars, opened, openFailed, renameErrors, flags, dlAt, clVars,
                   ctlVars, crashed>>

DLWriteNull == Running /\ dl = "write" /\ WriteNull("dl", dlAt)

\* The flag is tested again between the flush and the rotation.
DLCheck ==
    /\ Running /\ dl = "check"
    /\ \/ ~m_logging_flag /\ dl' = "end" /\ UNCHANGED dlAt
       \/ m_logging_flag /\ m_log_one_file /\ DLAdvance
       \/ m_logging_flag /\ ~m_log_one_file /\ dl' = "size" /\ UNCHANGED dlAt
    /\ UNCHANGED <<logVars, fileVars, lockVars, flags, clVars, ctlVars, crashed>>

IsNeedRotate(g) == fileLines[g] >= LogFileLength

DLSize ==
    /\ Running /\ dl = "size" /\ locker[dlAt] = "none"
    /\ \/ IsNeedRotate(dlAt) /\ dl' = "close" /\ UNCHANGED dlAt
       \/ ~IsNeedRotate(dlAt) /\ DLAdvance
    /\ UNCHANGED <<logVars, fileVars, lockVars, flags, clVars, ctlVars, crashed>>

DLClose ==
    /\ DLAt("close", "rotate") /\ locker[dlAt] = "none"
    /\ opened' = [opened EXCEPT ![dlAt] = FALSE]
    /\ UNCHANGED <<logVars, fileLines, stored, openFailed, renameErrors, lockVars,
                   flags, dlAt, clVars, ctlVars, crashed>>

\* Mutant of DLRotate: the file is not renamed.
DLRotateRenamesNothing ==
    /\ DLAt("rotate", "open") /\ locker[dlAt] = "none"
    /\ UNCHANGED <<logVars, fileVars, lockVars, flags, dlAt, clVars, ctlVars, crashed>>

\* Mutant of DLRotate: a rename that fails ends the visit of the logger.
DLRotateOrLeave ==
    /\ Running /\ dl = "rotate" /\ locker[dlAt] = "none"
    /\ \/ /\ dl' = "open" /\ UNCHANGED <<dlAt, renameErrors>>
          /\ fileLines' = [fileLines EXCEPT ![dlAt] = IF IsNeedRotate(dlAt) THEN 0 ELSE @]
       \/ /\ IsNeedRotate(dlAt) /\ renameErrors < MaxRenameErrors /\ DLAdvance
          /\ renameErrors' = renameErrors + 1 /\ UNCHANGED fileLines
    /\ UNCHANGED <<logVars, opened, stored, openFailed, lockVars, flags, clVars,
                   ctlVars, crashed>>

\* rotate() measures the file again before it renames it.  What rename() throws
\* is caught: the file keeps its name, and is due again in the next round.
DLRotate ==
    /\ DLAt("rotate", "open") /\ locker[dlAt] = "none"
    /\ \/ /\ fileLines' = [fileLines EXCEPT ![dlAt] = IF IsNeedRotate(dlAt) THEN 0 ELSE @]
          /\ UNCHANGED renameErrors
       \/ /\ IsNeedRotate(dlAt) /\ renameErrors < MaxRenameErrors
          /\ renameErrors' = renameErrors + 1
          /\ UNCHANGED fileLines
    /\ UNCHANGED <<logVars, opened, stored, openFailed, lockVars, flags, dlAt,
                   clVars, ctlVars, crashed>>

\* Mutant of DLOpen: a stopped manager does not reopen the file.
DLOpenUnlessStopped ==
    /\ Running /\ dl = "open" /\ locker[dlAt] = "none"
    /\ opened' = [opened EXCEPT ![dlAt] = m_logging_flag]
    /\ DLAdvance
    /\ UNCHANGED <<logVars, fileLines, stored, openFailed, renameErrors, lockVars,
                   flags, clVars, ctlVars, crashed>>

DLOpen ==
    /\ Running /\ dl = "open" /\ locker[dlAt] = "none"
    /\ \E ok \in {TRUE, ~OpenMayFail} :
          /\ opened'     = [opened EXCEPT ![dlAt] = ok]
          /\ openFailed' = IF ok THEN openFailed \ {dlAt}
                           ELSE openFailed \cup {dlAt}
    /\ DLAdvance
    /\ UNCHANGED <<logVars, fileLines, stored, renameErrors, lockVars, flags, clVars,
                   ctlVars, crashed>>

DLEnd ==
    /\ Running /\ dl = "end"
    /\ dl' = IF m_logging_flag THEN "sleep" ELSE "done"
    /\ UNCHANGED <<logVars, fileVars, lockVars, flags, dlAt, clVars, ctlVars, crashed>>

DLSleep ==
    /\ DLAt("sleep", "test")
    /\ UNCHANGED <<logVars, fileVars, lockVars, flags, dlAt, clVars, ctlVars, crashed>>

do_logging ==
    \/ DLTest \/ DLFlush \/ DLWrite \/ DLWriteNull \/ DLCheck
    \/ DLSize \/ DLClose \/ DLRotate \/ DLOpen \/ DLEnd \/ DLSleep

-----------------------------------------------------------------------------
(***************************************************************************)
(* do_clear_expired_log().  It visits every logger when a minute has       *)
(* passed; which files that removes is not modelled here.                  *)
(***************************************************************************)
\* Mutant of CLTest: while (true).
CLTestForever ==
    /\ Running /\ cl = "test"
    /\ cl' = "sleep" /\ clAt' = 0
    /\ UNCHANGED <<logVars, fileVars, lockVars, flags, dlVars, ctlVars, crashed>>

CLTest ==
    /\ Running /\ cl = "test"
    /\ \/ ~m_logging_flag /\ cl' = "done" /\ clAt' = 0
       \/ m_logging_flag /\ cl' = "sleep" /\ clAt' = 0
       \/ m_logging_flag /\ NextLogger(0) # 0 /\ cl' = "clear" /\ clAt' = NextLogger(0)
    /\ UNCHANGED <<logVars, fileVars, lockVars, flags, dlVars, ctlVars, crashed>>

CLClear ==
    /\ Running /\ cl = "clear" /\ locker[clAt] = "none"
    /\ clAt' = NextLogger(clAt)
    /\ cl'   = IF clAt' = 0 THEN "sleep" ELSE "clear"
    /\ UNCHANGED <<logVars, fileVars, lockVars, flags, dlVars, ctlVars, crashed>>

CLSleep ==
    /\ Running /\ cl = "sleep" /\ cl' = "test"
    /\ UNCHANGED <<logVars, fileVars, lockVars, flags, dlVars, clAt, ctlVars, crashed>>

do_clear_expired_log == CLTest \/ CLClear \/ CLSleep

-----------------------------------------------------------------------------
(***************************************************************************)
(* start(), stop() and ~log_mgr(), called by one thread.                   *)
(***************************************************************************)
Start ==
    /\ Running /\ ctl = "idle"
    /\ ~m_logging_flag
    /\ m_logging_flag' = TRUE
    /\ dl' = "test" /\ cl' = "test"
    /\ UNCHANGED <<logVars, fileVars, lockVars, m_log_map, m_log_one_file, dlAt,
                   clAt, ctlVars, crashed>>

\* stop() begins: the flag, and the first logger to flush.
StopWith(marks, exit) ==
    /\ Running /\ ctl = "idle"
    /\ m_logging_flag' = FALSE
    /\ ctlAt'    = NextLogger(0)
    /\ ctl'      = IF ctlAt' = 0 THEN "join" ELSE "flush"
    /\ stopMark' = marks
    /\ exiting'  = exit
    /\ UNCHANGED <<logVars, fileVars, lockVars, m_log_map, m_log_one_file, dlVars,
                   clVars, crashed>>

Stop == StopWith(accepted, FALSE)

\* Mutant of Exit: ~log_mgr() joins the threads and flushes nothing.
ExitWithoutFlush ==
    /\ Running /\ ctl = "idle" /\ ctl' = "join"
    /\ m_logging_flag' = FALSE
    /\ exiting' = TRUE
    /\ UNCHANGED <<logVars, fileVars, lockVars, m_log_map, m_log_one_file, dlVars,
                   clVars, ctlAt, stopMark, crashed>>

\* ~log_mgr() calls stop(), whether it was called before or not.
Exit == StopWith(stopMark, TRUE)

StopFlush ==
    /\ Running /\ ctl = "flush" /\ ctl' = "write"
    /\ TakeCache("ctl", ctlAt)
    /\ UNCHANGED <<fileVars, flags, dlVars, clVars, ctlAt, exiting, stopMark, crashed>>

StopWrite ==
    /\ Running /\ ctl = "write"
    /\ WriteCache("ctl", ctlAt)
    /\ ctlAt' = NextLogger(ctlAt)
    /\ ctl'   = IF ctlAt' = 0 THEN "join" ELSE "flush"
    /\ UNCHANGED <<logVars, opened, openFailed, renameErrors, flags, dlVars, clVars,
                   exiting, stopMark, crashed>>

StopWriteNull == Running /\ ctl = "write" /\ WriteNull("ctl", ctlAt)

\* join() of m_tlogging and of m_tclear_expired_log, if they were started.
StopJoin ==
    /\ Running /\ ctl = "join" /\ ctl' = "joinClear"
    /\ dl \in {"none", "done"}
    /\ dl' = "none" /\ dlAt' = 0
    /\ UNCHANGED <<logVars, fileVars, lockVars, flags, clVars, ctlAt, exiting,
                   stopMark, crashed>>

StopJoinClear ==
    /\ Running /\ ctl = "joinClear"
    /\ cl \in {"none", "done"}
    /\ cl' = "none" /\ clAt' = 0
    /\ ctl' = IF exiting THEN "drop" ELSE "idle"
    /\ UNCHANGED <<logVars, fileVars, lockVars, flags, dlVars, ctlAt, exiting,
                   stopMark, crashed>>

\* ~file_log_mgr() closes the files, so that ~file_log() finds m_File null,
\* flushes nothing and drops its caches.
file_log_mgr_dtor == opened' = [g \in Loggers |-> FALSE]
file_log_dtor     == cache'  = [g \in Loggers |-> EmptyCache]

\* The map is cleared.
DropLoggers ==
    /\ Running /\ ctl = "drop" /\ ctl' = "dead"
    /\ m_log_map' = {}
    /\ file_log_mgr_dtor /\ file_log_dtor
    /\ UNCHANGED <<accepted, fileLines, stored, openFailed, renameErrors, lockVars,
                   m_logging_flag, m_log_one_file, dlVars, clVars, ctlAt,
                   exiting, stopMark, crashed>>

Stopping ==
    \/ StopFlush \/ StopWrite \/ StopWriteNull
    \/ StopJoin \/ StopJoinClear \/ DropLoggers

-----------------------------------------------------------------------------
Next ==
    \/ \E g \in Loggers : GetLogger(g) \/ Log(g)
    \/ \E b \in BOOLEAN : SetLogOnOneFile(b)
    \/ do_logging
    \/ do_clear_expired_log
    \/ Start \/ Stop \/ Exit \/ Stopping

\* Each thread that can take a step eventually does; nothing says that the
\* applications log, or that anybody calls start(), stop() or exit().
Fairness ==
    /\ WF_vars(do_logging)
    /\ WF_vars(do_clear_expired_log)
    /\ WF_vars(Stopping)

Spec == Init /\ [][Next]_vars /\ Fairness

-----------------------------------------------------------------------------
(***************************************************************************)
(* Properties.                                                             *)
(***************************************************************************)

\* Every variable has its type.
TypeOK ==
    /\ m_log_map \subseteq Loggers
    /\ cache \in [Loggers -> CacheType({Line})]
    /\ opened \in [Loggers -> BOOLEAN]
    /\ fileLines \in [Loggers -> Nat]
    /\ stored \in [Loggers -> Nat]
    /\ locker \in [Loggers -> {"none", "dl", "ctl"}]
    /\ batch \in [{"dl", "ctl"} -> Nat]
    /\ m_logging_flag \in BOOLEAN /\ m_log_one_file \in BOOLEAN
    /\ dl \in {"none", "test", "flush", "write", "check", "size", "close",
               "rotate", "open", "end", "sleep", "done"}
    /\ cl \in {"none", "test", "clear", "sleep", "done"}
    /\ ctl \in {"idle", "flush", "write", "join", "joinClear", "drop", "dead"}
    /\ dlAt \in 0..NumLoggers /\ clAt \in 0..NumLoggers
    /\ ctlAt \in 0..NumLoggers /\ crashed \in 0..NumLoggers
    /\ exiting \in BOOLEAN
    /\ accepted \in [Loggers -> Nat]
    /\ stopMark \in [Loggers -> Nat]
    /\ openFailed \subseteq Loggers
    /\ renameErrors \in 0..MaxRenameErrors

\* A line that was logged before the program called stop() is in the files when
\* the program has exited: stop() flushes each logger once, ~log_mgr() flushes
\* it again, and that is enough although a line needs two flushes.
StoppedLinesStored ==
    ctl = "dead" => \A g \in Loggers : stored[g] >= stopMark[g]

\* fwrite() meets a null FILE* in two cases only: an open() failed and nobody
\* noticed, or stop() flushed a logger while do_logging() was between the
\* close() and the open() of its rotation - renames that fail and
\* set_log_on_one_file() in the middle of a rotation add no third.  (There is
\* one do_logging() thread here; StartStop has what a second one does.)
CrashExplained ==
    crashed # 0 =>
        \/ crashed \in openFailed
        \/ /\ ctl = "write" /\ ctlAt = crashed
           /\ dl \in {"rotate", "open"} /\ dlAt = crashed

\* Once stop() has returned, no worker thread is left, no lock is held, and
\* every logger whose open() did not fail has its file open - stop() waits out
\* a rotation that is under way, so that lines logged later can be flushed.
StoppedCleanly ==
    ctl = "idle" /\ ~m_logging_flag =>
        /\ dl = "none" /\ cl = "none"
        /\ \A g \in Loggers : locker[g] = "none"
        /\ \A g \in m_log_map \ openFailed : opened[g]

\* stop() and ~log_mgr() return: the worker threads see the flag between two
\* flushes, however much there is to flush.
StopReturns ==
    [](ctl \notin {"idle", "dead"} => <>(ctl \in {"idle", "dead"} \/ crashed # 0))

\* While the manager runs, every line that was logged reaches the files.
EveryLineStored ==
    \A g \in Loggers : \A n \in 1..MaxLines :
        (m_logging_flag /\ accepted[g] >= n)
            ~> (stored[g] >= n \/ ~m_logging_flag \/ crashed # 0)

\* While the manager runs and does not log on one file, a file that has grown to
\* its limit is rotated, although a rename may have to be tried again: as long as
\* not every rename fails, which MaxRenameErrors says.
FullFileRotated ==
    \A g \in Loggers :
        (m_logging_flag /\ ~m_log_one_file /\ IsNeedRotate(g))
            ~> (~IsNeedRotate(g) \/ ~m_logging_flag \/ m_log_one_file \/ crashed # 0)

\* What example/test.cpp shows of a program's life: start(), loggers, lines,
\* stop() - and the program goes on to its last getchar().
StopIsSafe == crashed = 0
=============================================================================
