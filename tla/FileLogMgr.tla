----------------------------- MODULE FileLogMgr -----------------------------
(***************************************************************************)
(* One file_log_mgr and the file_logs it owns, one per level (trace,       *)
(* debug, info, warn, error, fatal).                                       *)
(*                                                                         *)
(* Application threads call log() without taking m_Locker; any thread      *)
(* that holds the ilog may call flush(), close(), rotate(), open() and     *)
(* set_level(), which all run under m_Locker.  flush() is the long one: it *)
(* visits the file_logs in order and, for each, takes a cache under that   *)
(* file_log's m_CachedLocker, fwrite()s its lines one by one outside of    *)
(* that lock and ends with fflush().  It is split into those steps.  The   *)
(* other calls touch nothing that log() touches, and each is one step.     *)
(*                                                                         *)
(* A file_log's m_File is nullptr, or the open file that m_FileName names, *)
(* or a file that rotate() renamed while it was open.  Lines that reached  *)
(* the operating system are kept by file: in "current" for the file under  *)
(* m_FileName, in "newest" for the file rotate() renamed last, in "older"  *)
(* for those renamed before it.  Each line stands for one call of log().   *)
(***************************************************************************)
EXTENDS ABCache, SequencesExt

CONSTANTS
    NumSub,         \* how many file_logs: six in the code, trace first
    Lines,          \* the lines the applications log
    Apps,           \* the threads that call log()
    Callers,        \* the threads that call the other operations
    NoThread,       \* "m_Locker is free"
    LogFileLength,  \* lines after which a file is due for rotation
    SetLevels,      \* the levels set_level() is called with
    OpenMayFail,    \* fopen() may return nullptr
    RenameMayFail,  \* std::filesystem::rename() may throw
    SameSecond      \* a file may be rotated twice in one second

ASSUME FileLogMgrAssumption ==
    /\ NumSub \in 1..6
    /\ NoThread \notin Callers
    /\ LogFileLength \in Nat \ {0}
    /\ SetLevels \subseteq 0..7
    /\ OpenMayFail \in BOOLEAN
    /\ RenameMayFail \in BOOLEAN
    /\ SameSecond \in BOOLEAN

Sub == 1..NumSub

\* The level of a file_log's lines: Trace = 6 for the first, Fatal = 1 last.
LevelOf(k) == 7 - k

VARIABLES
    subLevel,   \* m_MaxLogLevel of each file_log
    passed,     \* log() calls that are past the level test, not yet cached
    cache,      \* m_ABNo, m_LogCacheA and m_LogCacheB of each file_log
    m_File,     \* what each file_log's FILE* refers to
    buffer,     \* the lines in that FILE's stdio buffer
    current,    \* the lines in the file under m_FileName
    newest,     \* the lines in the file that was renamed last
    older,      \* the lines in the files renamed before it, oldest first
    m_Locker,   \* the thread that holds m_Locker
    at,         \* flush(): the file_log it is at; 0 when none runs
    batch,      \* flush(): the local logCache; the lines still to write
    writing,    \* flush(): the cache of file_log "at" has been taken
    crashed,    \* fwrite() was called on a null FILE*
    accepted,   \* history: every line a file_log cached
    mark,       \* history: Len(accepted[k]) when a flush last took a cache
    prevMark    \* history: the mark before that

logVars   == <<passed, cache, accepted>>
fileVars  == <<m_File, buffer, current, newest, older>>
flushVars == <<m_Locker, at, batch, writing>>
vars      == <<subLevel, logVars, fileVars, flushVars, crashed, mark, prevMark>>

Call == [thread : Apps, sub : Sub, line : Lines]

\* What a file_log has on disk, in the order it was written.
OnDisk(k) == older[k] \o newest[k] \o current[k]

\* A constructed and opened file_log_mgr: the state get_logger() returns it in.
Init ==
    /\ subLevel = [k \in Sub |-> LevelOf(k)]
    /\ passed   = {}
    /\ cache    = [k \in Sub |-> EmptyCache]
    /\ m_File   = [k \in Sub |-> "named"]
    /\ buffer   = [k \in Sub |-> <<>>]
    /\ current  = [k \in Sub |-> <<>>]
    /\ newest   = [k \in Sub |-> <<>>]
    /\ older    = [k \in Sub |-> <<>>]
    /\ m_Locker = NoThread
    /\ at       = 0
    /\ batch    = <<>>
    /\ writing  = FALSE
    /\ crashed  = FALSE
    /\ accepted = [k \in Sub |-> <<>>]
    /\ mark     = [k \in Sub |-> 0]
    /\ prevMark = [k \in Sub |-> 0]

-----------------------------------------------------------------------------
(***************************************************************************)
(* log(level, title): the switch picks the file_log of that level, which   *)
(* tests its m_MaxLogLevel without a lock, stamps the line, and then       *)
(* appends it under m_CachedLocker.  A line is logged once.                *)
(***************************************************************************)
Logged(line) ==
    \/ \E c \in passed : c.line = line
    \/ \E k \in Sub : \E i \in 1..Len(accepted[k]) : accepted[k][i] = line

LogCheck(t, k, line) ==
    /\ ~crashed
    /\ \A c \in passed : c.thread # t
    /\ ~Logged(line)
    /\ LevelOf(k) <= subLevel[k]
    /\ passed' = passed \cup {[thread |-> t, sub |-> k, line |-> line]}
    /\ UNCHANGED <<subLevel, cache, accepted, fileVars, flushVars, crashed,
                   mark, prevMark>>

LogPush(c) ==
    /\ ~crashed
    /\ cache'    = [cache EXCEPT ![c.sub] = PushBack(@, c.line)]
    /\ accepted' = [accepted EXCEPT ![c.sub] = Append(@, c.line)]
    /\ passed'   = passed \ {c}
    /\ UNCHANGED <<subLevel, fileVars, flushVars, crashed, mark, prevMark>>

-----------------------------------------------------------------------------
(***************************************************************************)
(* stdio: the buffered lines of the open files in K reach the operating    *)
(* system, into the file each FILE* refers to.                             *)
(***************************************************************************)
Drain(K) ==
    LET D == {k \in K : m_File[k] # "null"} IN
    /\ current' = [k \in Sub |-> IF k \in D /\ m_File[k] = "named"
                                 THEN current[k] \o buffer[k] ELSE current[k]]
    /\ newest'  = [k \in Sub |-> IF k \in D /\ m_File[k] = "renamed"
                                 THEN newest[k] \o buffer[k] ELSE newest[k]]
    /\ buffer'  = [k \in Sub |-> IF k \in D THEN <<>> ELSE buffer[k]]
    /\ UNCHANGED older

\* libc may write a full buffer out before fflush() asks for it.
StdioWritesEarly(k) ==
    /\ ~crashed /\ m_File[k] # "null" /\ buffer[k] # <<>>
    /\ Drain({k})
    /\ UNCHANGED <<subLevel, logVars, m_File, flushVars, crashed, mark, prevMark>>

-----------------------------------------------------------------------------
(***************************************************************************)
(* flush(), under m_Locker from FlushBegin to the last FlushEnd.           *)
(***************************************************************************)
Free == ~crashed /\ m_Locker = NoThread

FlushBegin(t) ==
    /\ Free
    /\ m_Locker' = t
    /\ at' = 1
    /\ UNCHANGED <<subLevel, logVars, fileVars, batch, writing, crashed,
                   mark, prevMark>>

\* m_CachedLocker is held: take the cache that log() is not filling.
FlushTake ==
    /\ ~crashed /\ at # 0 /\ ~writing
    /\ batch'    = CurrentCache(cache[at])
    /\ cache'    = [cache EXCEPT ![at] = Swapped(@)]
    /\ writing'  = TRUE
    /\ mark'     = [mark EXCEPT ![at] = Len(accepted[at])]
    /\ prevMark' = [prevMark EXCEPT ![at] = mark[at]]
    /\ UNCHANGED <<subLevel, passed, accepted, fileVars, m_Locker, at, crashed>>

\* fwrite() of one line; on a null FILE* the process dies.
FlushWrite ==
    /\ ~crashed /\ writing /\ batch # <<>>
    /\ \/ /\ m_File[at] # "null"
          /\ buffer' = [buffer EXCEPT ![at] = Append(@, Head(batch))]
          /\ batch'  = Tail(batch)
          /\ UNCHANGED crashed
       \/ /\ m_File[at] = "null"
          /\ crashed' = TRUE
          /\ UNCHANGED <<buffer, batch>>
    /\ UNCHANGED <<subLevel, logVars, m_File, current, newest, older, m_Locker,
                   at, writing, mark, prevMark>>

\* Mutant of FlushEnd: no fflush().
FlushEndNoFflush ==
    /\ ~crashed /\ writing /\ batch = <<>>
    /\ writing' = FALSE
    /\ at'       = IF at < NumSub THEN at + 1 ELSE 0
    /\ m_Locker' = IF at < NumSub THEN m_Locker ELSE NoThread
    /\ UNCHANGED <<subLevel, logVars, fileVars, batch, crashed, mark, prevMark>>

\* fflush(m_File), which for a null pointer flushes every stream; then the
\* next file_log, or the end of the call.
FlushEnd ==
    /\ ~crashed /\ writing /\ batch = <<>>
    /\ Drain(IF m_File[at] = "null" THEN Sub ELSE {at})
    /\ writing' = FALSE
    /\ at'       = IF at < NumSub THEN at + 1 ELSE 0
    /\ m_Locker' = IF at < NumSub THEN m_Locker ELSE NoThread
    /\ UNCHANGED <<subLevel, logVars, m_File, batch, crashed, mark, prevMark>>

-----------------------------------------------------------------------------
\* close(): fclose() writes the buffer out, and m_File becomes nullptr.
Close ==
    /\ Free
    /\ Drain(Sub)
    /\ m_File' = [k \in Sub |-> "null"]
    /\ UNCHANGED <<subLevel, logVars, flushVars, crashed, mark, prevMark>>

\* is_need_rotate() of one file_log: the size of the file under m_FileName.
IsNeedRotate(k) == Len(current[k]) >= LogFileLength

\* Mutant of Renamed: the new name lacks the time, and is always the same.
RenamedToOneName(R, S) ==
    /\ newest'  = [k \in Sub |-> IF k \in R THEN current[k] ELSE newest[k]]
    /\ current' = [k \in Sub |-> IF k \in R THEN <<>> ELSE current[k]]
    /\ m_File'  = [k \in Sub |-> IF k \in R /\ m_File[k] = "named"
                                THEN "renamed" ELSE m_File[k]]
    /\ UNCHANGED older

(***************************************************************************)
(* rotate(): each file that is due is renamed; a failed rename is only     *)
(* logged.  R are the files renamed.  The new name ends in the local time  *)
(* to the second: the files in S are renamed in the second their           *)
(* predecessors were, and replace them.                                    *)
(***************************************************************************)
Renamed(R, S) ==
    /\ older'   = [k \in Sub |-> IF k \in R \ S THEN older[k] \o newest[k]
                                ELSE older[k]]
    /\ newest'  = [k \in Sub |-> IF k \in R THEN current[k] ELSE newest[k]]
    /\ current' = [k \in Sub |-> IF k \in R THEN <<>> ELSE current[k]]
    /\ m_File'  = [k \in Sub |-> IF k \in R /\ m_File[k] = "named"
                                THEN "renamed" ELSE m_File[k]]

Rotate ==
    /\ Free
    /\ LET due == {k \in Sub : IsNeedRotate(k)} IN
       \E R \in SUBSET due :
       \E S \in SUBSET {k \in R : newest[k] # <<>>} :
          /\ RenameMayFail \/ R = due
          /\ SameSecond \/ S = {}
          /\ Renamed(R, S)
    /\ UNCHANGED <<subLevel, logVars, buffer, flushVars, crashed, mark, prevMark>>

\* Mutant of Open: fopen(m_FileName, "w+").
OpenTruncating ==
    /\ Free
    /\ subLevel' = [k \in Sub |-> LevelOf(k)]
    /\ m_File'  = [k \in Sub |-> "named"]
    /\ current' = [k \in Sub |-> <<>>]
    /\ UNCHANGED <<logVars, buffer, newest, older, flushVars, crashed, mark,
                   prevMark>>

(***************************************************************************)
(* open(): every file_log gets the level it is named for; then each closes *)
(* its file and reopens m_FileName for appending.  The "opened && ..."     *)
(* chain stops at the first that fails: n are open, the next one is        *)
(* closed, the rest are left as they were.                                 *)
(***************************************************************************)
Open ==
    /\ Free
    /\ subLevel' = [k \in Sub |-> LevelOf(k)]
    /\ \E n \in 0..NumSub :
          /\ OpenMayFail \/ n = NumSub
          /\ Drain((1 .. n + 1) \cap Sub)
          /\ m_File' = [k \in Sub |-> IF k <= n THEN "named"
                                      ELSE IF k = n + 1 THEN "null"
                                      ELSE m_File[k]]
    /\ UNCHANGED <<logVars, flushVars, crashed, mark, prevMark>>

\* set_level(): the same level for every file_log.
SetLevel(level) ==
    /\ Free
    /\ subLevel' = [k \in Sub |-> level]
    /\ UNCHANGED <<logVars, fileVars, flushVars, crashed, mark, prevMark>>

-----------------------------------------------------------------------------
Next ==
    \/ \E t \in Apps, k \in Sub, line \in Lines : LogCheck(t, k, line)
    \/ \E c \in passed : LogPush(c)
    \/ \E t \in Callers : FlushBegin(t)
    \/ FlushTake
    \/ FlushWrite
    \/ FlushEnd
    \/ \E k \in Sub : StdioWritesEarly(k)
    \/ Close
    \/ Rotate
    \/ Open
    \/ \E level \in SetLevels : SetLevel(level)

Spec == Init /\ [][Next]_vars

-----------------------------------------------------------------------------
(***************************************************************************)
(* Properties.                                                             *)
(***************************************************************************)

\* Every variable has its type.
TypeOK ==
    /\ subLevel \in [Sub -> 0..7]
    /\ passed \subseteq Call
    /\ cache \in [Sub -> CacheType(Lines)]
    /\ m_File \in [Sub -> {"null", "named", "renamed"}]
    /\ buffer \in [Sub -> Seq(Lines)]
    /\ current \in [Sub -> Seq(Lines)]
    /\ newest \in [Sub -> Seq(Lines)]
    /\ older \in [Sub -> Seq(Lines)]
    /\ m_Locker \in Callers \cup {NoThread}
    /\ at \in 0..NumSub
    /\ batch \in Seq(Lines)
    /\ writing \in BOOLEAN
    /\ crashed \in BOOLEAN
    /\ accepted \in [Sub -> Seq(Lines)]
    /\ mark \in [Sub -> Nat]
    /\ prevMark \in [Sub -> Nat]

\* The lines the flush in progress has taken from file_log k and not written.
Taken(k) == IF at = k THEN batch ELSE <<>>

\* Every line a file_log accepted is in exactly one place, and the places,
\* from the renamed files to the cache log() is filling, hold the lines in
\* the order log() accepted them - across interleaved log() calls, rotations,
\* failed opens and the crash of fwrite() on a null FILE*.
NothingLost ==
    \A k \in Sub :
        accepted[k] = OnDisk(k) \o buffer[k] \o Taken(k) \o Buffered(cache[k])

\* What a same-second rotation can destroy is an older renamed file only: the
\* lines in the file renamed last, in the file being written and in memory are
\* always the latest lines accepted, without a gap.
RecentIntact ==
    \A k \in Sub :
        IsSuffix(newest[k] \o current[k] \o buffer[k] \o Taken(k)
                     \o Buffered(cache[k]),
                 accepted[k])

\* A line needs two flushes.  When no flush is running, the file_log has on
\* disk at least the lines it had accepted when the last flush but one took
\* its cache, so that only the lines since then are lost if the process dies.
TwoFlushesReachDisk ==
    m_Locker = NoThread => \A k \in Sub : Len(OnDisk(k)) >= prevMark[k]

-----------------------------------------------------------------------------
(***************************************************************************)
(* What the properties above rest on, and are inductive with.              *)
(***************************************************************************)

\* m_Locker is held exactly while a flush runs, and lines are taken only
\* while it writes.
FlushInv ==
    /\ m_Locker = NoThread <=> at = 0
    /\ writing => at # 0
    /\ ~writing => batch = <<>>

\* Only the open file the flush is writing to has a non-empty stdio buffer.
BufferInv ==
    \A k \in Sub : buffer[k] # <<>> => k = at /\ writing /\ m_File[k] # "null"

\* While the open FILE* is the renamed file, m_FileName names none.
FileInv ==
    \A k \in Sub : m_File[k] = "renamed" => current[k] = <<>>

\* The marks tell the two caches apart.
MarkInv ==
    \A k \in Sub :
        /\ mark[k] = Len(accepted[k]) - Len(FillingCache(cache[k]))
        /\ prevMark[k] = Len(accepted[k]) - Len(Buffered(cache[k]))

Inv == TypeOK /\ FlushInv /\ BufferInv /\ FileInv /\ MarkInv

-----------------------------------------------------------------------------
\* The abstract specification: what is on disk is a growing prefix of what was
\* accepted, in order.
Stream == INSTANCE LogStream WITH
    Streams <- Sub, stored <- [k \in Sub |-> OnDisk(k)]

StoresInOrder == Stream!StreamSpec
=============================================================================
