------------------------------ MODULE Registry ------------------------------
(***************************************************************************)
(* m_log_map of log_mgr and the settings of the loggers in it, when several *)
(* threads call get_logger(), set_level() and set_expired() while          *)
(* do_logging() rotates.  Nothing of this is locked but the loggers        *)
(* themselves, each by its own m_Locker.                                   *)
(*                                                                         *)
(* A name is a number, in the order of m_log_map.  A thread that reads the *)
(* map while another is in insert() may miss what is in it, or die; of two *)
(* insert()s at once one may be lost.                                      *)
(***************************************************************************)
EXTENDS Integers, Sequences, FiniteSetsExt

CONSTANTS
    Callers,        \* the threads that call
    NumNames,       \* how many names there are
    Formats,        \* the formats they ask for
    Words,          \* the words they call set_level(const std::string&) with
    MinutesAsked,        \* the minutes they call set_expired() with
    MaxLoggers,     \* a bound on the loggers made
    MaxRequests     \* a bound on the calls

log_format == {"Normal", "File", "Sqlite", "CSV"}

ASSUME RegistryAssumption ==
    /\ NumNames \in Nat /\ MaxLoggers \in Nat /\ MaxRequests \in Nat
    /\ Formats \subseteq log_format
    /\ MinutesAsked \subseteq Nat

log_level == [OFF |-> 0, FATAL |-> 1, ERROR |-> 2, WARN |-> 3, INFO |-> 4,
              DEBUG |-> 5, TRACE |-> 6, ALL |-> 7]
Levels == 0..7
Names  == 1..NumNames
Absent == 0         \* no logger; end() of m_log_map

\* The word, in upper case, or Info.
get_log_level_by_name(word) ==
    IF word \in DOMAIN log_level THEN log_level[word] ELSE log_level["INFO"]

\* What open() makes of the level of a file_log: each lets its own level
\* through, so that the file_log_mgr lets all of them through.
Own == 8

VARIABLES
    m_log_map,      \* [Names -> the number of a logger, or Absent]
    m_log_level,
    loggers,        \* the loggers made, in order
    at,             \* [Callers -> where in its call it is]
    key,            \* [Callers -> its name; or the logger its iterator is at]
    format,         \* [Callers -> the format it asked for]
    mine,           \* [Callers -> the logger it made]
    arg,            \* [Callers -> the level or the minutes it hands on]
    died,           \* a thread read the map during an insert() and crashed
    requests,       \* the calls so far
    given,          \* history: what get_logger() returned to whom
    raced,          \* history: [Callers -> its get_logger() met another one]
    overlap,        \* history: the last set_level() met another call, or the
                    \* last set_expired() did
    seen,           \* history: the loggers there were when each began last
    wanted,         \* history: the minutes set_expired() was called with last
    reopened        \* history: the loggers opened since set_level() began last

callVars     == <<at, key, format, mine, arg>>
pastVars     == <<given, raced, overlap, seen, wanted, reopened>>
registryVars == <<m_log_map, m_log_level, loggers, callVars, died, requests, pastVars>>

\* Where a call of get_logger() is, and one of set_level() or set_expired().
Getting == {"find", "make", "inserting"}
Setting == [level |-> {"read", "level"}, expired |-> {"expired"}]

RegistryInit ==
    /\ m_log_map   = [n \in Names |-> Absent]
    /\ m_log_level = log_level["ALL"]
    /\ loggers     = <<>>
    /\ at      = [c \in Callers |-> "out"]
    /\ key     = [c \in Callers |-> Absent]
    /\ format  = [c \in Callers |-> "File"]
    /\ mine    = [c \in Callers |-> Absent]
    /\ arg     = [c \in Callers |-> 0]
    /\ died    = FALSE
    /\ requests = 0
    /\ given   = {}
    /\ raced   = [c \in Callers |-> FALSE]
    /\ overlap = [s \in DOMAIN Setting |-> FALSE]
    /\ seen    = [s \in DOMAIN Setting |-> {}]
    /\ wanted   = 0
    /\ reopened = {}

Registered == {m_log_map[n] : n \in Names} \ {Absent}

\* A thread other than c is at one of the places.
Others(c, places) == \E d \in Callers \ {c} : at[d] \in places
Inserting(c)      == Others(c, {"inserting"})

Returns(c) ==
    /\ at'    = [at EXCEPT ![c] = "out"]
    /\ key'   = [key EXCEPT ![c] = Absent]
    /\ mine'  = [mine EXCEPT ![c] = Absent]
    /\ raced' = [raced EXCEPT ![c] = FALSE]

Request(c) ==
    /\ ~died /\ at[c] = "out" /\ requests < MaxRequests
    /\ requests' = requests + 1

-----------------------------------------------------------------------------
(***************************************************************************)
(* get_logger().  log(module_name, ...) calls it for the default format.   *)
(***************************************************************************)
GetCall(c, n, f) ==
    /\ Request(c)
    /\ at'     = [at EXCEPT ![c] = "find"]
    /\ key'    = [key EXCEPT ![c] = n]
    /\ format' = [format EXCEPT ![c] = f]
    /\ raced'  = [d \in Callers |-> raced[d] \/ (d = c /\ Others(c, Getting))
                                             \/ (d # c /\ at[d] \in Getting)]
    /\ overlap' = [s \in DOMAIN Setting |-> overlap[s] \/ Others(c, Setting[s])]
    /\ UNCHANGED <<m_log_map, m_log_level, loggers, mine, arg, died, given, seen,
                   wanted, reopened>>

Give(c, l) ==
    given' = given \cup {[name |-> key[c], logger |-> l, raced |-> raced[c]]}

\* Mutant of GetFind: the name is not looked for.
GetFindNever(c) ==
    /\ ~died /\ at[c] = "find"
    /\ at' = [at EXCEPT ![c] = "make"]
    /\ UNCHANGED <<m_log_map, m_log_level, loggers, key, format, mine, arg, died,
                   requests, pastVars>>

\* find(), which may miss a name while another thread inserts.
GetFind(c) ==
    /\ ~died /\ at[c] = "find"
    /\ \/ /\ m_log_map[key[c]] # Absent
          /\ Give(c, m_log_map[key[c]]) /\ Returns(c)
       \/ /\ m_log_map[key[c]] = Absent \/ Inserting(c)
          /\ at' = [at EXCEPT ![c] = "make"]
          /\ UNCHANGED <<key, mine, raced, given>>
    /\ UNCHANGED <<m_log_map, m_log_level, loggers, format, arg, died, requests,
                   overlap, seen, wanted, reopened>>

\* The switch over the format, for which "Normal" is "File".
Made(f) == IF f = "Normal" THEN "File" ELSE f

DefaultExpired(f) == IF f = "File" THEN 3 * 24 * 60 ELSE 24 * 60

\* How a logger begins: the level it reports, the level it filters by, and
\* m_LogExpired.
NewLogger(asked) ==
    LET f == Made(asked) IN
    [format  |-> f,
     level   |-> IF f = "File" THEN m_log_level ELSE log_level["ALL"],
     filter  |-> IF f = "File" THEN Own ELSE log_level["ALL"],
     expired |-> DefaultExpired(f)]

\* Mutant of GetMake: the level is left as the constructor sets it.
GetMakeUnset(c) ==
    /\ ~died /\ at[c] = "make" /\ mine[c] = Absent /\ Len(loggers) < MaxLoggers
    /\ loggers'  = Append(loggers, [NewLogger(format[c]) EXCEPT
                      !.level = log_level["INFO"]])
    /\ mine'     = [mine EXCEPT ![c] = Len(loggers) + 1]
    /\ reopened' = reopened \cup {Len(loggers) + 1}
    /\ UNCHANGED <<m_log_map, m_log_level, at, key, format, arg, died, requests,
                   given, raced, overlap, seen, wanted>>

\* make_shared, set_level(m_log_level) for the formats that get it, set_path()
\* and open(): only this thread has the logger yet.
GetMake(c) ==
    /\ ~died /\ at[c] = "make" /\ mine[c] = Absent /\ Len(loggers) < MaxLoggers
    /\ loggers'  = Append(loggers, NewLogger(format[c]))
    /\ mine'     = [mine EXCEPT ![c] = Len(loggers) + 1]
    /\ reopened' = reopened \cup {Len(loggers) + 1}
    /\ UNCHANGED <<m_log_map, m_log_level, at, key, format, arg, died, requests,
                   given, raced, overlap, seen, wanted>>

GetInsert(c) ==
    /\ ~died /\ at[c] = "make" /\ mine[c] # Absent
    /\ at' = [at EXCEPT ![c] = "inserting"]
    /\ UNCHANGED <<m_log_map, m_log_level, loggers, key, format, mine, arg, died,
                   requests, pastVars>>

\* insert() leaves a name alone that is there already; the caller gets its own
\* logger all the same.
GetInserted(c) ==
    /\ ~died /\ at[c] = "inserting"
    /\ \/ m_log_map' = [m_log_map EXCEPT ![key[c]] = IF @ = Absent THEN mine[c] ELSE @]
       \/ Inserting(c) /\ UNCHANGED m_log_map
    /\ Give(c, mine[c]) /\ Returns(c)
    /\ UNCHANGED <<m_log_level, loggers, format, arg, died, requests, overlap,
                   seen, wanted, reopened>>

-----------------------------------------------------------------------------
(***************************************************************************)
(* set_level() and set_expired(): they walk over m_log_map.                *)
(***************************************************************************)
\* The names an iterator may come to after n: the next one; past it, or to the
\* end, if another thread is inserting.
After(c, n) ==
    LET later == {k \in Names : k > n /\ m_log_map[k] # Absent} IN
    (IF later = {} THEN {Absent} ELSE {Min(later)})
        \cup {k \in later \cup {Absent} : Inserting(c)}

\* The iterator of c moves on from n; what is handed to a logger is v.
Walk(c, n, to, v) ==
    \E k \in After(c, n) :
        \/ k = Absent /\ Returns(c) /\ arg' = [arg EXCEPT ![c] = 0]
        \/ /\ k # Absent
           /\ at'  = [at EXCEPT ![c] = to]
           /\ key' = [key EXCEPT ![c] = k]
           /\ arg' = [arg EXCEPT ![c] = v]
           /\ UNCHANGED <<mine, raced>>

Begins(c, setting) ==
    /\ Request(c)
    /\ overlap' = [overlap EXCEPT ![setting] = Others(c, Getting \cup Setting[setting])]
    /\ seen'    = [seen EXCEPT ![setting] = Registered]

SetLevel(c, word) ==
    /\ Begins(c, "level")
    /\ m_log_level' = get_log_level_by_name(word)
    /\ reopened'    = {}
    /\ Walk(c, 0, "read", 0)
    /\ UNCHANGED <<m_log_map, loggers, format, died, given, wanted>>

\* logger->set_level(m_log_level): the level is read anew for each logger.
SetLevelRead(c) ==
    /\ ~died /\ at[c] = "read"
    /\ arg' = [arg EXCEPT ![c] = m_log_level]
    /\ at'  = [at EXCEPT ![c] = "level"]
    /\ UNCHANGED <<m_log_map, m_log_level, loggers, key, format, mine, died,
                   requests, pastVars>>

\* set_level() of a logger does nothing in csv_log.
LevelSet(g, level) ==
    IF g.format = "CSV" THEN g ELSE [g EXCEPT !.level = level, !.filter = level]

SetLevelOf(c) ==
    /\ ~died /\ at[c] = "level"
    /\ loggers' = [loggers EXCEPT ![m_log_map[key[c]]] = LevelSet(@, arg[c])]
    /\ Walk(c, key[c], "read", 0)
    /\ UNCHANGED <<m_log_map, m_log_level, format, died, requests, given, overlap,
                   seen, wanted, reopened>>

SetExpired(c, minutes) ==
    /\ Begins(c, "expired")
    /\ wanted' = minutes
    /\ Walk(c, 0, "expired", minutes)
    /\ UNCHANGED <<m_log_map, m_log_level, loggers, format, died, given, reopened>>

ExpiredSet(g, minutes) == [g EXCEPT !.expired = minutes]

SetExpiredOf(c) ==
    /\ ~died /\ at[c] = "expired"
    /\ loggers' = [loggers EXCEPT ![m_log_map[key[c]]] = ExpiredSet(@, arg[c])]
    /\ Walk(c, key[c], "expired", arg[c])
    /\ UNCHANGED <<m_log_map, m_log_level, format, died, requests, given, overlap,
                   seen, wanted, reopened>>

-----------------------------------------------------------------------------
\* close(), rotate() and open() by do_logging().
RotateLogger(l) ==
    /\ ~died /\ l \in Registered /\ loggers[l].format = "File"
    /\ loggers'  = [loggers EXCEPT ![l].filter = Own]
    /\ reopened' = reopened \cup {l}
    /\ UNCHANGED <<m_log_map, m_log_level, callVars, died, requests, given, raced,
                   overlap, seen, wanted>>

\* Any thread that reads the map meanwhile: do_logging(), the clearing thread
\* and stop() may do so at any time.
ReadsTornMap ==
    /\ ~died /\ \E c \in Callers : at[c] = "inserting"
    /\ died' = TRUE
    /\ UNCHANGED <<m_log_map, m_log_level, loggers, callVars, requests, pastVars>>

RegistryNext ==
    \/ \E c \in Callers :
          \/ \E n \in Names, f \in Formats : GetCall(c, n, f)
          \/ GetFind(c) \/ GetMake(c) \/ GetInsert(c) \/ GetInserted(c)
          \/ \E word \in Words : SetLevel(c, word)
          \/ SetLevelRead(c) \/ SetLevelOf(c)
          \/ \E minutes \in MinutesAsked : SetExpired(c, minutes)
          \/ SetExpiredOf(c)
    \/ \E l \in 1..MaxLoggers : RotateLogger(l)
    \/ ReadsTornMap

RegistrySpec == RegistryInit /\ [][RegistryNext]_registryVars

-----------------------------------------------------------------------------
(***************************************************************************)
(* Properties.                                                             *)
(***************************************************************************)
Numbers == 0..MaxLoggers

\* Every variable has its type.
RegistryTypeOK ==
    /\ m_log_map \in [Names -> Numbers]
    /\ m_log_level \in Levels
    /\ loggers \in Seq([format : log_format, level : Levels, filter : Levels \cup {Own},
                        expired : Nat])
    /\ at \in [Callers -> {"out"} \cup Getting \cup {"read", "level", "expired"}]
    /\ key \in [Callers -> Names \cup {Absent}]
    /\ format \in [Callers -> log_format]
    /\ mine \in [Callers -> Numbers]
    /\ arg \in [Callers -> Nat]
    /\ died \in BOOLEAN
    /\ requests \in 0..MaxRequests
    /\ given \subseteq [name : Names, logger : Numbers, raced : BOOLEAN]
    /\ raced \in [Callers -> BOOLEAN]
    /\ overlap \in [DOMAIN Setting -> BOOLEAN]
    /\ seen \in [DOMAIN Setting -> SUBSET Numbers]
    /\ wanted \in Nat
    /\ reopened \subseteq Numbers

\* Two callers of a name have the same logger, and it is in the map, where it
\* is flushed - unless their calls of get_logger() met others, for this name or
\* another one: an orphan's lines are never written.
SharedUnlessRaced ==
    /\ \A x, y \in given :
          x.name = y.name /\ x.logger # y.logger => x.raced \/ y.raced
    /\ \A x \in given : m_log_map[x.name] # x.logger => x.raced

\* The level that a logger tells, and the minutes that log_mgr asks it for.
get_level(g)   == g.level
get_expired(g) == g.expired

\* What has become of the settings when all calls have returned, unless
\* set_level() met a get_logger() or another set_level().  Every file logger
\* reports the level of log_mgr, and filters by it if it was not opened since:
\* get_logger() and each rotation undo it.  A SQLite logger has the level only
\* if it was there before, a CSV logger never, and any logger the minutes only
\* if it was there when they were set.
SettingsReach ==
    (\A c \in Callers : at[c] = "out") =>
        \A l \in Registered :
            LET g == loggers[l] IN
            /\ ~overlap.level =>
                 get_level(g) = (IF g.format = "File" \/ (g.format = "Sqlite" /\ l \in seen.level)
                                 THEN m_log_level ELSE log_level["ALL"])
            /\ ~overlap.level =>
                 g.filter \in {get_level(g)} \cup {Own : k \in {l} \cap reopened}
            /\ ~overlap.expired =>
                 get_expired(g) = (IF l \in seen.expired THEN wanted
                                   ELSE DefaultExpired(g.format))
=============================================================================
