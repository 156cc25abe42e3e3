----------------------------- MODULE StartStop ------------------------------
(***************************************************************************)
(* start() and stop() of log_mgr when several threads call them: the flag  *)
(* m_logging_flag, the pointers m_tlogging and m_tclear_expired_log, the   *)
(* std::thread objects and the threads behind them.  Only the flag is      *)
(* atomic, and nothing is locked.                                          *)
(*                                                                         *)
(* start() calls that overlap can leave two do_logging() threads behind,   *)
(* which LogMgr does not have.  What they and stop() do to the file of a   *)
(* logger is therefore here too, for one logger with lines to write whose  *)
(* open() succeeds: m_Locker makes each flush(), close() and open() one    *)
(* step.  do_clear_expired_log() opens and closes nothing.                 *)
(***************************************************************************)
EXTENDS Integers

CONSTANTS
    Controllers,    \* the threads that call start() and stop()
    MaxWorkers      \* a bound on the threads created

ASSUME StartStopAssumption == MaxWorkers \in Nat

\* The two thread functions; a member pointer for each.
Roles   == {"logging", "clear"}
Workers == 1..MaxWorkers
Null    == 0

VARIABLES
    flag,       \* m_logging_flag
    pointer,    \* [Roles -> the std::thread object it points to, or Null]
    born,       \* how many std::thread objects were created: they are 1..born
    roleOf,     \* [Workers -> Roles]
    object,     \* [Workers -> "none", "joinable", "joined" or "deleted"]
    thread,     \* [Workers -> "none", "running" or "ended"]
    joining,    \* the objects that a join() waits for
    op,         \* [Controllers -> where in start() or stop() it is]
    role,       \* [Controllers -> the pointer it is at]
    waited,     \* [Controllers -> the object its join() waits for]
    visit,      \* [Workers -> what do_logging() does next with the logger]
    fileOpen,   \* m_File of the logger is not nullptr
    nullWrite,  \* whose flush() called fwrite() on a null FILE*
    aborted,    \* std::terminate(), or a null or deleted object was used
    startMet,   \* history: a start() met another start() or stop()
    stopMet     \* history: a stop() met another start() or stop()

workerVars    == <<pointer, born, roleOf, object, thread, joining>>
loggerVars      == <<visit, fileOpen, nullWrite>>
startStopVars == <<flag, workerVars, op, role, waited, loggerVars, aborted, startMet,
                   stopMet>>

StartStopInit ==
    /\ flag      = FALSE
    /\ pointer   = [r \in Roles |-> Null]
    /\ born      = 0
    /\ roleOf    = [w \in Workers |-> "logging"]
    /\ object    = [w \in Workers |-> "none"]
    /\ thread    = [w \in Workers |-> "none"]
    /\ joining   = {}
    /\ op        = [c \in Controllers |-> "out"]
    /\ role      = [c \in Controllers |-> "logging"]
    /\ waited    = [c \in Controllers |-> Null]
    /\ visit     = [w \in Workers |-> "none"]
    /\ fileOpen  = TRUE
    /\ nullWrite = "none"
    /\ aborted   = FALSE
    /\ startMet  = FALSE
    /\ stopMet   = FALSE

StartOps == {"set", "new", "name"}
StopOps  == {"flush", "test", "join", "wait", "delete", "null"}

Goto(c, o, r) ==
    /\ op'   = [op EXCEPT ![c] = o]
    /\ role' = [role EXCEPT ![c] = r]

\* The same for the other pointer, and then what comes after it.
Onward(c, then) ==
    IF role[c] = "logging" THEN Goto(c, op[c], "clear")
    ELSE Goto(c, then, "logging")

At(c, o) == ~aborted /\ nullWrite = "none" /\ op[c] = o

\* What the pointer that c is at refers to.
Referred(c) ==
    IF pointer[role[c]] = Null THEN "null" ELSE object[pointer[role[c]]]

Abort ==
    /\ aborted' = TRUE
    /\ UNCHANGED <<flag, workerVars, op, role, waited, loggerVars, startMet, stopMet>>

\* Thread c begins a call while others are in theirs.
Meets(c, isStop) ==
    LET others == {op[d] : d \in Controllers \ {c}} IN
    /\ startMet' = (startMet \/ (~isStop /\ others # {"out"} /\ others # {})
                             \/ others \cap StartOps # {})
    /\ stopMet'  = (stopMet \/ (isStop /\ others # {"out"} /\ others # {})
                            \/ others \cap StopOps # {})

-----------------------------------------------------------------------------
(***************************************************************************)
(* start().                                                                *)
(***************************************************************************)
\* Mutant of StartCall: the flag is not looked at.
StartCallAlways(c) ==
    /\ At(c, "out") /\ born + 2 <= MaxWorkers
    /\ Goto(c, "set", "logging")
    /\ Meets(c, FALSE)
    /\ UNCHANGED <<flag, workerVars, waited, loggerVars, aborted>>

\* if (get_logging_flag()) return true: no step.
StartCall(c) ==
    /\ At(c, "out") /\ ~flag /\ born + 2 <= MaxWorkers
    /\ Goto(c, "set", "logging")
    /\ Meets(c, FALSE)
    /\ UNCHANGED <<flag, workerVars, waited, loggerVars, aborted>>

StartSet(c) ==
    /\ At(c, "set")
    /\ flag' = TRUE
    /\ Goto(c, "new", "logging")
    /\ UNCHANGED <<workerVars, waited, loggerVars, aborted, startMet, stopMet>>

\* m_tlogging = new std::thread(do_logging), and the other one after it.
StartNew(c) ==
    /\ At(c, "new") /\ born < MaxWorkers
    /\ born'    = born + 1
    /\ pointer' = [pointer EXCEPT ![role[c]] = born + 1]
    /\ roleOf'  = [roleOf EXCEPT ![born + 1] = role[c]]
    /\ object'  = [object EXCEPT ![born + 1] = "joinable"]
    /\ thread'  = [thread EXCEPT ![born + 1] = "running"]
    /\ Onward(c, "name")
    /\ UNCHANGED <<flag, joining, waited, loggerVars, aborted, startMet, stopMet>>

\* native_handle() of the object pointed to, to name the thread.
StartName(c) ==
    /\ At(c, "name")
    /\ \/ Referred(c) \in {"null", "deleted"} /\ Abort
       \/ /\ Referred(c) \notin {"null", "deleted"}
          /\ Onward(c, "out")
          /\ UNCHANGED <<flag, workerVars, waited, loggerVars, aborted, startMet,
                         stopMet>>

-----------------------------------------------------------------------------
(***************************************************************************)
(* stop().                                                                 *)
(***************************************************************************)
StopCall(c) ==
    /\ At(c, "out")
    /\ flag' = FALSE
    /\ Goto(c, "flush", "logging")
    /\ Meets(c, TRUE)
    /\ UNCHANGED <<workerVars, waited, loggerVars, aborted>>

\* flush() writes the lines of a cache, if there are any.
StopFlush(c) ==
    /\ At(c, "flush")
    /\ \/ /\ ~fileOpen
          /\ nullWrite' = "stop"
          /\ UNCHANGED <<op, role, visit, fileOpen>>
       \/ /\ Goto(c, "test", "logging")
          /\ UNCHANGED loggerVars
    /\ UNCHANGED <<flag, workerVars, waited, aborted, startMet, stopMet>>

\* if (m_tlogging != nullptr && m_tlogging->joinable())
StopTest(c) ==
    /\ At(c, "test")
    /\ IF Referred(c) = "joinable" THEN Goto(c, "join", role[c])
       ELSE Onward(c, "delete")
    /\ UNCHANGED <<flag, workerVars, waited, loggerVars, aborted, startMet, stopMet>>

\* join() throws when the thread was joined, or another join() waits for it;
\* catch (...) leaves out the other join().
StopJoin(c) ==
    /\ At(c, "join")
    /\ LET w == pointer[role[c]] IN
       \/ Referred(c) \in {"null", "deleted"} /\ Abort
       \/ /\ Referred(c) = "joined" \/ (Referred(c) = "joinable" /\ w \in joining)
          /\ Goto(c, "delete", "logging")
          /\ UNCHANGED <<flag, workerVars, waited, loggerVars, aborted, startMet,
                         stopMet>>
       \/ /\ Referred(c) = "joinable" /\ w \notin joining
          /\ joining' = joining \cup {w}
          /\ waited'  = [waited EXCEPT ![c] = w]
          /\ Goto(c, "wait", role[c])
          /\ UNCHANGED <<flag, pointer, born, roleOf, object, thread, loggerVars,
                         aborted, startMet, stopMet>>

StopJoined(c) ==
    /\ At(c, "wait") /\ thread[waited[c]] = "ended"
    /\ object'  = [object EXCEPT ![waited[c]] = "joined"]
    /\ joining' = joining \ {waited[c]}
    /\ waited'  = [waited EXCEPT ![c] = Null]
    /\ IF role[c] = "logging" THEN Goto(c, "test", "clear")
       ELSE Goto(c, "delete", "logging")
    /\ UNCHANGED <<flag, pointer, born, roleOf, thread, loggerVars, aborted,
                   startMet, stopMet>>

\* Mutant of StopDelete: without having waited for the thread.
StopDeleteDetached(c) ==
    /\ At(c, "delete")
    /\ LET w == pointer[role[c]] IN
       /\ object' = IF w = Null THEN object ELSE [object EXCEPT ![w] = "deleted"]
       /\ Onward(c, "null")
       /\ UNCHANGED <<flag, pointer, born, roleOf, thread, joining, waited, loggerVars,
                      aborted, startMet, stopMet>>

\* delete of a joinable std::thread is std::terminate(); of a deleted one, a
\* double delete.
StopDelete(c) ==
    /\ At(c, "delete")
    /\ LET w == pointer[role[c]] IN
       \/ Referred(c) \notin {"null", "joined"} /\ Abort
       \/ /\ Referred(c) \in {"null", "joined"}
          /\ object' = IF w = Null THEN object ELSE [object EXCEPT ![w] = "deleted"]
          /\ Onward(c, "null")
          /\ UNCHANGED <<flag, pointer, born, roleOf, thread, joining, waited,
                         loggerVars, aborted, startMet, stopMet>>

StopNull(c) ==
    /\ At(c, "null")
    /\ pointer' = [pointer EXCEPT ![role[c]] = Null]
    /\ Onward(c, "out")
    /\ UNCHANGED <<flag, born, roleOf, object, thread, joining, waited, loggerVars,
                   aborted, startMet, stopMet>>

-----------------------------------------------------------------------------
(***************************************************************************)
(* The worker threads.                                                     *)
(***************************************************************************)
Runs(w, v) ==
    ~aborted /\ nullWrite = "none" /\ thread[w] = "running" /\ visit[w] = v

\* A thread function returns when it finds the flag down.
WorkerEnds(w) ==
    /\ Runs(w, "none") /\ ~flag
    /\ thread' = [thread EXCEPT ![w] = "ended"]
    /\ UNCHANGED <<flag, pointer, born, roleOf, object, joining, op, role, waited,
                   loggerVars, aborted, startMet, stopMet>>

VisitNext(w, v) ==
    /\ visit' = [visit EXCEPT ![w] = v]
    /\ UNCHANGED <<flag, workerVars, op, role, waited, aborted, startMet, stopMet>>

\* while (get_logging_flag()): do_logging() comes to the logger.
WorkerVisits(w) ==
    /\ Runs(w, "none") /\ roleOf[w] = "logging" /\ flag
    /\ VisitNext(w, "flush")
    /\ UNCHANGED <<fileOpen, nullWrite>>

\* flush(), and the look at the flag that follows it.
WorkerFlushes(w) ==
    /\ Runs(w, "flush")
    /\ \/ /\ ~fileOpen
          /\ nullWrite' = "worker"
          /\ VisitNext(w, "flush")
       \/ /\ VisitNext(w, IF flag THEN "check" ELSE "none")
          /\ UNCHANGED nullWrite
    /\ UNCHANGED fileOpen

\* is_need_rotate(), and close() when it is.
WorkerCloses(w) ==
    /\ Runs(w, "check")
    /\ \/ VisitNext(w, "none") /\ UNCHANGED fileOpen
       \/ VisitNext(w, "open") /\ fileOpen' = FALSE
    /\ UNCHANGED nullWrite

\* rotate() and open().
WorkerOpens(w) ==
    /\ Runs(w, "open")
    /\ fileOpen' = TRUE
    /\ VisitNext(w, "none")
    /\ UNCHANGED nullWrite

StartStopNext ==
    \/ \E c \in Controllers :
          \/ StartCall(c) \/ StartSet(c) \/ StartNew(c) \/ StartName(c)
          \/ StopCall(c) \/ StopFlush(c) \/ StopTest(c) \/ StopJoin(c) \/ StopJoined(c)
          \/ StopDelete(c) \/ StopNull(c)
    \/ \E w \in Workers :
          \/ WorkerEnds(w) \/ WorkerVisits(w) \/ WorkerFlushes(w)
          \/ WorkerCloses(w) \/ WorkerOpens(w)

StartStopSpec == StartStopInit /\ [][StartStopNext]_startStopVars

-----------------------------------------------------------------------------
(***************************************************************************)
(* Properties.                                                             *)
(***************************************************************************)

\* Every variable has its type.
StartStopTypeOK ==
    /\ flag \in BOOLEAN /\ aborted \in BOOLEAN
    /\ startMet \in BOOLEAN /\ stopMet \in BOOLEAN
    /\ pointer \in [Roles -> 0..MaxWorkers]
    /\ born \in 0..MaxWorkers
    /\ roleOf \in [Workers -> Roles]
    /\ object \in [Workers -> {"none", "joinable", "joined", "deleted"}]
    /\ thread \in [Workers -> {"none", "running", "ended"}]
    /\ joining \subseteq Workers
    /\ op \in [Controllers -> {"out"} \cup StartOps \cup StopOps]
    /\ role \in [Controllers -> Roles]
    /\ waited \in [Controllers -> 0..MaxWorkers]
    /\ visit \in [Workers -> {"none", "flush", "check", "open"}]
    /\ fileOpen \in BOOLEAN /\ nullWrite \in {"none", "worker", "stop"}

\* What start() and stop() can make the process die of.  std::terminate() and a
\* std::thread that is gone take a stop() that met another of these calls.  A
\* worker meets a null FILE* only if a start() met another call, since it takes
\* a second do_logging() in the middle of a rotation; stop() meets one in the
\* middle of a rotation by a thread that it has not joined yet.
DeathsExplained ==
    /\ aborted => stopMet
    /\ nullWrite = "worker" => startMet
    /\ nullWrite # "none" =>
          \E w \in Workers : thread[w] = "running" /\ visit[w] = "open"

\* Unless a start() ran at the same time as another of these calls, every
\* running thread is the one its member pointer names - so that there is one
\* of each function, across any restarts - and when nobody is in a call and the
\* flag is down there is no thread and no object left.
WorkersOwned ==
    ~startMet /\ ~aborted =>
        /\ \A w \in Workers :
              thread[w] = "running" => pointer[roleOf[w]] = w
        /\ ~flag /\ ~stopMet /\ (\A c \in Controllers : op[c] = "out") =>
              \A w \in Workers :
                  thread[w] # "running" /\ object[w] \in {"none", "deleted"}
=============================================================================
