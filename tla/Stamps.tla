------------------------------- MODULE Stamps -------------------------------
(***************************************************************************)
(* The text and the time stamp that a line gets on its way into a cache.   *)
(*                                                                         *)
(* A file_log_mgr logs a text in one of three ways.  log(level, const      *)
(* char*, ...) formats it into one static buffer for all loggers and hands *)
(* that, a char*, to the file_log's log(level, Args ...), which takes the  *)
(* mtx_arglog of the file_log and copies it.  Its own log(level, Args ...) *)
(* copies the arguments under its own mtx_arglog, and log(level, const     *)
(* std::string&) takes no lock.  All three end in log(level, const         *)
(* std::string&) of the file_log, which stamps the line first and takes    *)
(* m_CachedLocker then.  log(logger, level, const char*, ...) of log_mgr   *)
(* formats into a local buffer and calls log(level, Args ...).  A          *)
(* sqlite_log, or a file_log that is used without a file_log_mgr, has a    *)
(* log(level, const char*, ...) that stamps the line and formats it into a *)
(* local buffer, all under m_CachedLocker.                                 *)
(*                                                                         *)
(* log_mgr and file_log_mgr hand snprintf() their va_list as if it were    *)
(* the first of the arguments, so that a conversion in the text prints     *)
(* something else.  It may also read what is no argument at all and end    *)
(* the process, which is not modelled.                                     *)
(*                                                                         *)
(* get_timestamp_string_with_ms() reads the clock twice, once for the      *)
(* seconds and once for the milliseconds, and converts the seconds with    *)
(* std::localtime(), which leaves its result in one buffer for all         *)
(* threads.  The clock only goes forward here: who sets it back makes the  *)
(* stamps go back (CondSleep and CsvRetention are about such a clock).     *)
(***************************************************************************)
EXTENDS Integers, Sequences

CONSTANTS
    Writers,    \* the threads that log
    Sinks,      \* the file_logs and sqlite_logs
    Managed,    \* the file_logs among them that belong to a file_log_mgr,
                \* each to another one
    NoSink,     \* "not in a call"
    MsPerSec,   \* 1000 in the code
    MaxSec,     \* a bound on the clock
    MaxCalls    \* a bound on the calls of log()

ASSUME StampsAssumption ==
    /\ Managed \subseteq Sinks /\ NoSink \notin Sinks
    /\ MsPerSec \in Nat \ {0}
    /\ MaxSec \in Nat
    /\ MaxCalls \in Nat

Time    == [sec : Nat, ms : 0 .. MsPerSec - 1]
Zero    == [sec |-> 0, ms |-> 0]
Cleared == 0      \* the buffer after memset()
Mixed   == -1     \* another text: what two threads formatting at once leave in
                  \* it, or what a conversion prints of a va_list

\* How a line is logged: "fmt", "args" and "str" as above, "mgr" by log_mgr, and
\* "locked" by the log(level, const char*, ...) of a sqlite_log or file_log.
Kinds(k) == {"str", "args", "mgr"} \cup (IF k \in Managed THEN {"fmt"} ELSE {"locked"})

\* a is later than b.
Later(a, b) == a.sec > b.sec \/ (a.sec = b.sec /\ a.ms > b.ms)

VARIABLES
    now,        \* std::chrono::system_clock
    tmbuf,      \* the buffer of std::localtime(): the seconds in it
    buff,       \* the static buffer: the number of the call whose text it holds
    mutexes,    \* the mutexes that are locked, as <<kind, sink>>: the mtx_arglog
                \* of a file_log is for "fmt", that of its file_log_mgr or of a
                \* sink without one for "args", and m_CachedLocker for "locked"
    call,       \* [Writers -> the call of log() it is in: its locals]
    lines,      \* [Sinks -> the lines cached, in order]
    calls       \* the calls of log() so far

stampsVars == <<now, tmbuf, buff, mutexes, call, lines, calls>>

\* step is where it is, text the number of the call, for the text it passed,
\* copy the text it took over, tt and ts what it read from the clock, and
\* tmp_time what put_time() made of it.  History: start is how many lines sink
\* had when the clock was read, shared that the static buffer was in use twice,
\* conv that the text has a conversion for which a va_list is passed.
NoCall == [step |-> "out", kind |-> "str", sink |-> NoSink, text |-> 0, copy |-> 0,
           tt |-> 0, ts |-> Zero, tmp_time |-> Zero, start |-> 0, shared |-> FALSE,
           conv |-> FALSE]

StampsInit ==
    /\ now     = Zero
    /\ tmbuf   = 0
    /\ buff    = Cleared
    /\ mutexes = {}
    /\ call    = [t \in Writers |-> NoCall]
    /\ lines   = [k \in Sinks |-> <<>>]
    /\ calls   = 0

InStep(t, step) == call[t].step = step

\* The kind of mutex that a kind of call holds.
Guard(kind) == IF kind = "mgr" THEN "args" ELSE kind
Mutex(t)    == <<Guard(call[t].kind), call[t].sink>>

-----------------------------------------------------------------------------
\* A millisecond passes; nobody sets the clock back.
ClockTicks ==
    /\ \/ /\ now.ms < MsPerSec - 1
          /\ now' = [now EXCEPT !.ms = @ + 1]
       \/ /\ now.ms = MsPerSec - 1 /\ now.sec < MaxSec
          /\ now' = [sec |-> now.sec + 1, ms |-> 0]
    /\ UNCHANGED <<tmbuf, buff, mutexes, call, lines, calls>>

\* Thread t has cleared the static buffer and not yet copied it.
UsesBuff(t) == call[t].step \in {"format", "copy"}

NewCall(kind, k, step) ==
    [NoCall EXCEPT !.step = step, !.kind = kind, !.sink = k,
                   !.text = calls + 1, !.copy = calls + 1]

\* log(level, const char*, ...) of file_log_mgr: memset() of the buffer.
LogFormat(t, k) ==
    /\ InStep(t, "out") /\ calls < MaxCalls /\ k \in Managed
    /\ calls' = calls + 1
    /\ buff'  = Cleared
    /\ LET users == {u \in Writers \ {t} : UsesBuff(u)} IN
       \E conv \in BOOLEAN : call' = [u \in Writers |->
          IF u = t THEN [NewCall("fmt", k, "format") EXCEPT !.shared = users # {},
                                                            !.conv = conv]
          ELSE [call[u] EXCEPT !.shared = @ \/ u \in users]]
    /\ UNCHANGED <<now, tmbuf, mutexes, lines>>

\* What may be in the buffer: text, or a mixture if another thread formats too.
InBuff(t, text) ==
    {text} \cup {Mixed : u \in {v \in Writers \ {t} : InStep(v, "format")}}

\* snprintf() into the buffer, which another thread may be writing too.  A
\* conversion prints the va_list.
FormatText(t) ==
    /\ InStep(t, "format")
    /\ buff' \in InBuff(t, IF call[t].conv THEN Mixed ELSE call[t].text)
    /\ call' = [call EXCEPT ![t].step = "copy"]
    /\ UNCHANGED <<now, tmbuf, mutexes, lines, calls>>

\* Mutant of CopyText: the mutex is released with the copy.
CopyTextUnlocked(t) ==
    /\ InStep(t, "copy") /\ Mutex(t) \notin mutexes
    /\ \E text \in InBuff(t, buff) :
          call' = [call EXCEPT ![t].step = "sec", ![t].copy = text]
    /\ UNCHANGED <<now, tmbuf, buff, mutexes, lines, calls>>

\* log(level, Args ...) of the file_log copies the buffer under its mtx_arglog.
CopyText(t) ==
    /\ InStep(t, "copy") /\ Mutex(t) \notin mutexes
    /\ mutexes' = mutexes \cup {Mutex(t)}
    /\ \E text \in InBuff(t, buff) :
          call' = [call EXCEPT ![t].step = "sec", ![t].copy = text]
    /\ UNCHANGED <<now, tmbuf, buff, lines, calls>>

\* log(level, const std::string&).
LogString(t, k) ==
    /\ InStep(t, "out") /\ calls < MaxCalls
    /\ calls' = calls + 1
    /\ call'  = [call EXCEPT ![t] = NewCall("str", k, "sec")]
    /\ UNCHANGED <<now, tmbuf, buff, mutexes, lines>>

\* log(level, Args ...) once it has mtx_arglog.
LogArgs(t, k) ==
    /\ InStep(t, "out") /\ calls < MaxCalls /\ <<"args", k>> \notin mutexes
    /\ mutexes' = mutexes \cup {<<"args", k>>}
    /\ calls' = calls + 1
    /\ call'  = [call EXCEPT ![t] = NewCall("args", k, "sec")]
    /\ UNCHANGED <<now, tmbuf, buff, lines>>

\* log(logger, level, const char*, ...) of log_mgr, the same, once snprintf() has
\* printed the text, and the va_list for a conversion, into a local buffer.
LogByMgr(t, k) ==
    /\ InStep(t, "out") /\ calls < MaxCalls /\ <<"args", k>> \notin mutexes
    /\ mutexes' = mutexes \cup {<<"args", k>>}
    /\ calls' = calls + 1
    /\ \E conv \in BOOLEAN :
          call' = [call EXCEPT ![t] = [NewCall("mgr", k, "sec") EXCEPT !.conv = conv,
                                          !.copy = IF conv THEN Mixed ELSE @]]
    /\ UNCHANGED <<now, tmbuf, buff, lines>>

\* log(level, const char*, ...) of a file_log or sqlite_log, once it has
\* m_CachedLocker.
LogLocked(t, k) ==
    /\ InStep(t, "out") /\ calls < MaxCalls /\ k \notin Managed
    /\ <<"locked", k>> \notin mutexes
    /\ mutexes' = mutexes \cup {<<"locked", k>>}
    /\ calls' = calls + 1
    /\ call'  = [call EXCEPT ![t] = NewCall("locked", k, "sec")]
    /\ UNCHANGED <<now, tmbuf, buff, lines>>

-----------------------------------------------------------------------------
(***************************************************************************)
(* get_timestamp_string_with_ms(): the seconds, the milliseconds, the      *)
(* conversion, and put_time() from localtime()'s buffer.                   *)
(***************************************************************************)
ReadSeconds(t) ==
    /\ InStep(t, "sec")
    /\ call' = [call EXCEPT ![t].step = "ms", ![t].tt = now.sec,
                            ![t].start = Len(lines[call[t].sink])]
    /\ UNCHANGED <<now, tmbuf, buff, mutexes, lines, calls>>

\* Mutant of ReadMillis: the milliseconds since the second before.
ReadMillisAhead(t) ==
    /\ InStep(t, "ms")
    /\ call' = [call EXCEPT ![t].step = "tm", ![t].ts = [now EXCEPT !.ms = MsPerSec - 1]]
    /\ UNCHANGED <<now, tmbuf, buff, mutexes, lines, calls>>

ReadMillis(t) ==
    /\ InStep(t, "ms")
    /\ call' = [call EXCEPT ![t].step = "tm", ![t].ts = now]
    /\ UNCHANGED <<now, tmbuf, buff, mutexes, lines, calls>>

LocalTime(t) ==
    /\ InStep(t, "tm")
    /\ tmbuf' = call[t].tt
    /\ call'  = [call EXCEPT ![t].step = "put"]
    /\ UNCHANGED <<now, buff, mutexes, lines, calls>>

PutTime(t) ==
    /\ InStep(t, "put")
    /\ call' = [call EXCEPT ![t].step = "push",
                            ![t].tmp_time = [sec |-> tmbuf, ms |-> call[t].ts.ms]]
    /\ UNCHANGED <<now, tmbuf, buff, mutexes, lines, calls>>

-----------------------------------------------------------------------------
\* Mutant of LineOf: the text is taken from the buffer when the line is cached.
LineOfBuff(c) ==
    [stamp  |-> c.tmp_time, kind |-> c.kind, start |-> c.start, shared |-> c.shared,
     conv   |-> c.conv,
     torn   |-> c.tt # c.ts.sec,
     raced  |-> c.tmp_time.sec # c.tt,
     late   |-> Later(c.tmp_time, now),
     intact |-> c.kind = "fmt" => buff = c.text]

\* A cached line: its stamp, and of its history what follows.  torn: a second
\* began between the two readings of the clock.  raced: another thread's second
\* was in localtime()'s buffer.  late: the stamp is after the moment the line is
\* cached.  intact: the text is the one that was passed.
LineOf(c) ==
    [stamp  |-> c.tmp_time, kind |-> c.kind, start |-> c.start, shared |-> c.shared,
     conv   |-> c.conv,
     torn   |-> c.tt # c.ts.sec,
     raced  |-> c.tmp_time.sec # c.tt,
     late   |-> Later(c.tmp_time, now),
     intact |-> c.copy = c.text]

Pushes(t) ==
    /\ InStep(t, "push")
    /\ lines'   = [lines EXCEPT ![call[t].sink] = Append(@, LineOf(call[t]))]
    /\ mutexes' = mutexes \ {Mutex(t)}
    /\ call'    = [call EXCEPT ![t] = NoCall]
    /\ UNCHANGED <<now, tmbuf, buff, calls>>

\* log(level, const std::string&) takes m_CachedLocker for its push_back(); then
\* mtx_arglog is released, too.
PushLine(t) ==
    /\ call[t].kind # "locked" /\ <<"locked", call[t].sink>> \notin mutexes
    /\ Pushes(t)

\* The formatting overload of file_log or sqlite_log has it.
PushLocked(t) == call[t].kind = "locked" /\ Pushes(t)

StampsNext ==
    \/ ClockTicks
    \/ \E t \in Writers :
          \/ \E k \in Sinks :
                \/ LogFormat(t, k) \/ LogString(t, k) \/ LogArgs(t, k)
                \/ LogByMgr(t, k) \/ LogLocked(t, k)
          \/ FormatText(t) \/ CopyText(t) \/ ReadSeconds(t) \/ ReadMillis(t)
          \/ LocalTime(t) \/ PutTime(t) \/ PushLine(t) \/ PushLocked(t)

StampsSpec == StampsInit /\ [][StampsNext]_stampsVars

-----------------------------------------------------------------------------
(***************************************************************************)
(* Properties.                                                             *)
(***************************************************************************)
AnyKind == {"fmt", "args", "mgr", "str", "locked"}
Call == [step : {"out", "format", "copy", "sec", "ms", "tm", "put", "push"},
         kind : AnyKind, sink : Sinks \cup {NoSink}, text : Nat,
         copy : Nat \cup {Mixed}, tt : Nat, ts : Time, tmp_time : Time, start : Nat,
         shared : BOOLEAN, conv : BOOLEAN]
Line == [stamp : Time, kind : AnyKind, start : Nat, shared : BOOLEAN, conv : BOOLEAN,
         torn : BOOLEAN, raced : BOOLEAN, late : BOOLEAN, intact : BOOLEAN]

\* Every variable has its type.
StampsTypeOK ==
    /\ now \in Time
    /\ tmbuf \in Nat
    /\ buff \in Nat \cup {Mixed}
    /\ mutexes \subseteq AnyKind \X Sinks
    /\ call \in [Writers -> Call]
    /\ \A t \in Writers :
          call[t].step # "out" =>
              call[t].sink \in Sinks /\ call[t].kind \in Kinds(call[t].sink)
    /\ lines \in [Sinks -> Seq(Line)]
    /\ calls \in Nat

\* A stamp is later than the moment the line was cached only if another
\* thread's localtime() came between this thread's localtime() and put_time();
\* a second that begins between the two readings makes stamps early, never late.
FutureOnlyByRace ==
    \A k \in Sinks : \A i \in 1..Len(lines[k]) :
        lines[k][i].late => lines[k][i].raced

\* In a file, a line has an earlier stamp than one before it only if its stamp
\* is torn, if one of the two lost its second to another thread, or if the
\* other line was cached after this one was stamped: then they did not hold the
\* same mutex, so not both came by the formatting overload, nor both by the
\* variadic one or log_mgr, nor did this one get its stamp under m_CachedLocker.
BackwardsExplained ==
    \A k \in Sinks : \A j \in 1..Len(lines[k]) : \A i \in 1 .. j - 1 :
        LET a == lines[k][i]
            b == lines[k][j] IN
        Later(a.stamp, b.stamp) =>
            \/ b.torn \/ a.raced \/ b.raced
            \/ /\ i > b.start /\ b.kind # "locked"
               /\ b.kind = "str" \/ Guard(a.kind) # Guard(b.kind)

\* A stamp is late, or earlier than one before it, only by the races above.
StampsExplained == FutureOnlyByRace /\ BackwardsExplained

\* A line has another text than the one passed only if the text has a conversion
\* and came by the formatting overload of log_mgr or file_log_mgr, which hand on
\* their va_list, or if it came by that of a file_log_mgr and two such calls, of
\* any loggers and levels, overlapped: no mutex protects their one buffer.
TextLossExplained ==
    \A k \in Sinks : \A i \in 1..Len(lines[k]) :
        LET l == lines[k][i] IN
        ~l.intact => \/ l.kind \in {"mgr", "fmt"} /\ l.conv
                     \/ l.kind = "fmt" /\ l.shared
=============================================================================
