------------------------------- MODULE CsvLog --------------------------------
(***************************************************************************)
(* One csv_log.  Unlike the other sinks its log() takes no lock: it looks  *)
(* at m_ABNo, once or twice, and then pushes the record to the cache it    *)
(* chose, while flush() writes the other one out, clears it and changes    *)
(* m_ABNo under m_CachedLocker.  open() takes no lock either, and close()  *)
(* leaves m_File as it was: a pointer to a FILE that is gone.              *)
(*                                                                         *)
(* do_logging() flushes and reopens the log, stop() flushes it once from   *)
(* another thread.  A record is the thread that logs it and its number.    *)
(***************************************************************************)
EXTENDS ABCache, FiniteSets, Functions

CONSTANTS
    Apps,           \* the threads that call log()
    MaxRecords,     \* a bound on the records each of them logs
    LogCSVLength,   \* a file with more records than this is closed
    OpenMayFail     \* fopen() may return nullptr

ASSUME CsvLogAssumption ==
    /\ MaxRecords \in Nat
    /\ LogCSVLength \in Nat
    /\ OpenMayFail \in BOOLEAN

Flushers == {"dl", "ctl"}   \* do_logging(), and the caller of stop()
Records  == [app : Apps, n : 1..MaxRecords]

VARIABLES
    cache,          \* m_ABNo, m_LogCacheA and m_LogCacheB
    m_File,         \* "null", "open", or "closed": fclose()d and still set
    written,        \* the records in all the files, in the order of writing
    fileRecords,    \* how many of them are in the file under m_FileName
    logging,        \* log(): where each thread is
    count,          \* the records each thread has begun to log
    pc,             \* where do_logging() and stop() are
    locker,         \* the thread that holds m_CachedLocker, or "none"
    crashed,        \* the process died
    met,            \* history: two threads were in one vector
    overlapped,     \* history: the records whose log() met a flush() or a log()
    fileLost,       \* history: records went to a FILE that was gone
    openFailed      \* history: fopen() returned nullptr

logVars  == <<logging, count>>
fileVars == <<m_File, written, fileRecords, openFailed>>
pcVars   == <<pc, locker>>
vars     == <<cache, logVars, fileVars, pcVars, crashed, met, overlapped, fileLost>>

Init ==
    /\ cache   = EmptyCache
    /\ m_File  = "open"
    /\ written = <<>> /\ fileRecords = 0
    /\ logging = [a \in Apps |-> "idle"]
    /\ count   = [a \in Apps |-> 0]
    /\ pc      = [t \in Flushers |-> "idle"]
    /\ locker  = "none"
    /\ crashed = FALSE /\ met = FALSE /\ fileLost = FALSE /\ openFailed = FALSE
    /\ overlapped = {}

Calling == {a \in Apps : logging[a] # "idle"}
Record(a) == [app |-> a, n |-> count[a]]

-----------------------------------------------------------------------------
(***************************************************************************)
(* log() and table_head() by thread a.                                     *)
(***************************************************************************)
LogBegin(a) ==
    /\ ~crashed /\ pc["ctl"] # "exited" /\ logging[a] = "idle" /\ count[a] < MaxRecords
    /\ count'   = [count EXCEPT ![a] = @ + 1]
    /\ logging' = [logging EXCEPT ![a] = IF cache.abNo = 0 THEN "B" ELSE "again"]
    /\ overlapped' = IF Calling # {} \/ locker # "none"
                     THEN overlapped \cup {Record(a)'} \cup {Record(b) : b \in Calling}
                     ELSE overlapped
    /\ UNCHANGED <<cache, fileVars, pcVars, crashed, met, fileLost>>

\* m_ABNo was not 0.  If it is not 1 now, the record is dropped.
LogReadsAgain(a) ==
    /\ ~crashed /\ logging[a] = "again"
    /\ logging' = [logging EXCEPT ![a] = IF cache.abNo = 1 THEN "A" ELSE "idle"]
    /\ UNCHANGED <<cache, count, fileVars, pcVars, crashed, met, overlapped,
                   fileLost>>

\* Mutant of Pushed: the cache is assigned, not appended to.
PushedAlone(a) ==
    IF logging[a] = "A" THEN [cache EXCEPT !.A = <<Record(a)>>]
                        ELSE [cache EXCEPT !.B = <<Record(a)>>]

\* push_back() to the cache that was chosen, which may no longer be the one to
\* fill.
Pushed(a) ==
    IF logging[a] = "A" THEN [cache EXCEPT !.A = Append(@, Record(a))]
                        ELSE [cache EXCEPT !.B = Append(@, Record(a))]

\* The cache that flush() is writing or clearing.
Flushing == IF locker = "none" THEN "none" ELSE IF cache.abNo = 0 THEN "A" ELSE "B"

\* Another thread may be in the same vector at the same time: then the record
\* may be lost, and the process may die.
LogPush(a) ==
    /\ ~crashed /\ logging[a] \in {"A", "B"}
    /\ logging' = [logging EXCEPT ![a] = "idle"]
    /\ LET race == \/ Flushing = logging[a]
                   \/ \E b \in Apps \ {a} : logging[b] = logging[a] IN
       /\ met' = (met \/ race)
       /\ \/ cache' = Pushed(a) /\ UNCHANGED crashed
          \/ race /\ UNCHANGED <<cache, crashed>>
          \/ race /\ crashed' = TRUE /\ UNCHANGED cache
    /\ UNCHANGED <<count, fileVars, pcVars, overlapped, fileLost>>

-----------------------------------------------------------------------------
(***************************************************************************)
(* flush() by thread t, all of it under m_CachedLocker: the records are    *)
(* written; then the cache is cleared, m_ABNo changed and the file fflush- *)
(* ed.                                                                     *)
(***************************************************************************)
GoTo(t, place) == pc' = [pc EXCEPT ![t] = place]

FlushBegin(t) ==
    /\ ~crashed /\ pc[t] = "idle" /\ locker = "none"
    /\ GoTo(t, "write")
    /\ locker' = t
    /\ overlapped' = overlapped \cup {Record(a) : a \in Calling}
    /\ UNCHANGED <<cache, logVars, fileVars, crashed, met, fileLost>>

\* fwrite() to a null pointer kills the process; to a FILE that is gone, it may.
FlushWrite(t) ==
    /\ ~crashed /\ pc[t] = "write"
    /\ LET taken == CurrentCache(cache) IN
       \/ /\ m_File = "open" \/ taken = <<>>
          /\ GoTo(t, "clear")
          /\ written' = written \o taken
          /\ fileRecords' = fileRecords + Len(taken)
          /\ UNCHANGED <<crashed, fileLost>>
       \/ /\ m_File = "closed" /\ taken # <<>>
          /\ GoTo(t, "clear")
          /\ fileLost' = TRUE
          /\ UNCHANGED <<written, fileRecords, crashed>>
       \/ /\ m_File \in {"null", "closed"} /\ taken # <<>>
          /\ crashed' = TRUE
          /\ UNCHANGED <<pc, written, fileRecords, fileLost>>
    /\ UNCHANGED <<cache, logVars, m_File, openFailed, locker, met, overlapped>>

\* fflush() of a FILE that is gone may kill the process too.
FlushClear(t) ==
    /\ ~crashed /\ pc[t] = "clear"
    /\ cache'  = Swapped(cache)
    /\ locker' = "none"
    /\ GoTo(t, IF t = "dl" THEN "check" ELSE "done")
    /\ crashed' \in {FALSE, m_File = "closed"}
    /\ UNCHANGED <<logVars, fileVars, met, overlapped, fileLost>>

-----------------------------------------------------------------------------
(***************************************************************************)
(* The rest of do_logging()'s round, unless stop() has cleared the flag;   *)
(* rotate() does nothing.                                                  *)
(***************************************************************************)
Stopping == pc["ctl"] # "idle"
RoundEnds == GoTo("dl", IF Stopping THEN "done" ELSE "idle")

is_need_rotate ==
    /\ ~crashed /\ pc["dl"] = "check"
    /\ IF ~Stopping /\ fileRecords > LogCSVLength THEN GoTo("dl", "close") ELSE RoundEnds
    /\ UNCHANGED <<cache, logVars, fileVars, locker, crashed, met, overlapped, fileLost>>

close ==
    /\ ~crashed /\ pc["dl"] = "close"
    /\ m_File = "null" \/ locker = "none"
    /\ GoTo("dl", "open")
    /\ m_File' = IF m_File = "null" THEN "null" ELSE "closed"
    /\ UNCHANGED <<cache, logVars, written, fileRecords, openFailed, locker,
                   crashed, met, overlapped, fileLost>>

\* Mutant of open: a FILE* that is set is kept.
openOnce ==
    /\ ~crashed /\ pc["dl"] = "open"
    /\ RoundEnds
    /\ fileRecords' = 0
    /\ m_File' = IF m_File = "null" THEN "open" ELSE m_File
    /\ UNCHANGED <<cache, logVars, written, openFailed, locker, crashed,
                   met, overlapped, fileLost>>

\* A file named for the time, to the second: a new one, or in the same second
\* the same again.
open ==
    /\ ~crashed /\ pc["dl"] = "open"
    /\ RoundEnds
    /\ fileRecords' \in {0, fileRecords}
    /\ \/ m_File' = "open" /\ UNCHANGED openFailed
       \/ OpenMayFail /\ m_File' = "null" /\ openFailed' = TRUE
    /\ UNCHANGED <<cache, logVars, written, locker, crashed, met, overlapped, fileLost>>

do_logging == is_need_rotate \/ close \/ open

-----------------------------------------------------------------------------
\* Mutant of csv_log_dtor: what c still holds is not written.
csv_log_dtorForgets(c, stored) ==
    written' = stored /\ m_File' = "null" /\ cache' = EmptyCache

\* What c still holds is written, unless there is no file, and is forgotten.
csv_log_dtor(c, stored) ==
    /\ written' = IF m_File = "open" THEN stored \o CurrentCache(c) ELSE stored
    /\ m_File' = "null" /\ cache' = EmptyCache

\* exit(), when stop() has been called: ~log_mgr() calls it again, which flushes;
\* then the log goes.
Exit ==
    /\ ~crashed /\ Calling = {}
    /\ pc["ctl"] = "done" /\ pc["dl"] \in {"idle", "done"}
    /\ \/ /\ m_File = "open" \/ CurrentCache(cache) = <<>>
          /\ pc' = [t \in Flushers |-> "exited"]
          /\ csv_log_dtor(Swapped(cache), written \o CurrentCache(cache))
          /\ UNCHANGED crashed
       \/ /\ m_File # "open" /\ CurrentCache(cache) # <<>>
          /\ crashed' = TRUE
          /\ UNCHANGED <<cache, m_File, written, pc>>
    /\ UNCHANGED <<logVars, fileRecords, openFailed, locker, met, overlapped, fileLost>>

Next ==
    \/ \E a \in Apps : LogBegin(a) \/ LogReadsAgain(a) \/ LogPush(a)
    \/ \E t \in Flushers : FlushBegin(t) \/ FlushWrite(t) \/ FlushClear(t)
    \/ do_logging
    \/ Exit

Spec == Init /\ [][Next]_vars

-----------------------------------------------------------------------------
(***************************************************************************)
(* Properties.                                                             *)
(***************************************************************************)

\* Every variable has its type.
TypeOK ==
    /\ cache \in CacheType(Records)
    /\ m_File \in {"null", "open", "closed"}
    /\ written \in Seq(Records) /\ fileRecords \in Nat
    /\ logging \in [Apps -> {"idle", "again", "A", "B"}]
    /\ count \in [Apps -> 0..MaxRecords]
    /\ pc \in [Flushers -> {"idle", "write", "clear", "check", "close", "open", "done",
                        "exited"}]
    /\ locker \in Flushers \cup {"none"}
    /\ overlapped \subseteq Records
    /\ crashed \in BOOLEAN /\ met \in BOOLEAN /\ fileLost \in BOOLEAN /\ openFailed \in BOOLEAN

\* However its log() calls fall between flushes, and whatever is lost, the
\* records of one thread are in the files in the order in which it logged them,
\* and none of them twice.
OrderedPerThread ==
    \A i, j \in DOMAIN written :
        i < j /\ written[i].app = written[j].app => written[i].n < written[j].n

\* A record whose log() met no flush() and no other log() is in a cache or in a
\* file, and after exit() in a file, unless a flush wrote to a FILE that was
\* gone, or there was no file at exit().
LostOnlyByOverlap ==
    ~fileLost =>
        \A a \in Apps : \A n \in 1..count[a] :
            LET r == [app |-> a, n |-> n] IN
            \/ r \in overlapped
            \/ pc["ctl"] = "exited" /\ openFailed
            \/ n = count[a] /\ a \in Calling
            \/ r \in Range(written) \cup Range(Buffered(cache))

\* The process dies only when two threads met in one vector, when fopen() had
\* failed, or when stop() flushed between the close() and the open() of a round.
CrashExplained ==
    crashed =>
        \/ met
        \/ openFailed
        \/ pc["ctl"] \in {"write", "done"} /\ pc["dl"] = "open"

-----------------------------------------------------------------------------
\* The records that have been logged and not lost, oldest first.
Logged ==
    LET taken == IF \E t \in Flushers : pc[t] = "clear" THEN <<>> ELSE CurrentCache(cache)
    IN  written \o taken \o FillingCache(cache)

\* The abstract specification: the files are a growing prefix of what was logged.
Stream == INSTANCE LogStream WITH
    Streams <- {"csv"}, Lines <- Records,
    accepted <- [s \in {"csv"} |-> Logged], stored <- [s \in {"csv"} |-> written]

\* No log() has met a flush() or a log(), no flush() a FILE that was gone, and
\* exit() found a file.
Undisturbed ==
    overlapped = {} /\ ~fileLost /\ ~(pc["ctl"] = "exited" /\ openFailed)

\* As long as that is so, csv_log does what the sinks that lock promise: what is
\* logged is in the order of log(), over all threads, and reaches the files in
\* that order, without gaps, however often the file is changed.
StoresUndisturbed ==
    /\ Stream!StreamInit
    /\ [][Undisturbed' => [Stream!StreamNext]_(Stream!streamVars)]_vars
=============================================================================
