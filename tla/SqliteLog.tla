------------------------------ MODULE SqliteLog ------------------------------
(***************************************************************************)
(* One sqlite_log as log_mgr uses it: the applications log through it,     *)
(* do_logging() flushes it and splits its database, stop() flushes it from *)
(* another thread, and the clearing thread runs clear_expired_log().       *)
(*                                                                         *)
(* Time is counted in hours, which is all the code looks at.  A database   *)
(* and a table are the hours in their names.  A transaction is one step,   *)
(* because SQLite makes it one; m_DatabaseLocker is held over two of them. *)
(* The clearing thread has a connection of its own: its transactions come  *)
(* between the others, and one that finds the database busy fails.         *)
(***************************************************************************)
EXTENDS ABCache, FiniteSets, Functions

CONSTANTS
    Lines,          \* the lines the applications log, each of them once
    HoursPerDay,    \* 24
    MaxHour,        \* a bound on time
    LogExpired,     \* m_LogExpired, in minutes
    OpenMayFail,    \* SQLite::Database() may throw
    ExecMayFail     \* a statement may throw: the disk is full, the database is
                    \* locked, the text of a line breaks the INSERT it is put in

ASSUME SqliteLogAssumption ==
    /\ HoursPerDay \in Nat \ {0}
    /\ MaxHour \in Nat /\ HoursPerDay <= MaxHour
    /\ LogExpired \in Nat
    /\ OpenMayFail \in BOOLEAN
    /\ ExecMayFail \in BOOLEAN

Hours    == 1..MaxHour
Null     == 0               \* m_Database is nullptr; m_TableName is empty
Flushers == {"dl", "ctl"}   \* do_logging(), and the caller of stop()

VARIABLES
    now,            \* the hour
    m_DayLatest,
    m_HourLatest,
    m_TableName,    \* the hour in it, or Null
    m_Database,     \* the hour in the open database's name, or Null
    unlinked,       \* the file of the open database has been removed
    files,          \* the databases in m_Path
    tables,         \* the tables in them
    rows,           \* the rows in those, by the numbers of their insertions
    inserted,       \* how many rows there have been
    cache,          \* m_ABNo, m_LogCacheA and m_LogCacheB
    batch,          \* flush(): the local logCache of each thread
    pc,             \* where each of the two threads is
    crossed,        \* those in whose flush or round an hour has begun
    locker,         \* the thread that holds m_DatabaseLocker, or "none"
    toClear,        \* clear_expired_log(): the files still to visit
    swept,          \* clear_expired_log() has run in this hour
    crashed,        \* the process died
    accepted,       \* history: the lines log() cached, in order
    failed,         \* history: a statement threw
    openFailed      \* history: a SQLite::Database() threw

timeVars  == <<now, m_DayLatest, m_HourLatest>>
rowVars   == <<rows, inserted>>
dbVars    == <<m_TableName, m_Database, unlinked, files, tables, rowVars>>
logVars   == <<cache, accepted>>
flushVars == <<batch, pc, crossed, locker>>
clearVars == <<toClear, swept>>
endVars   == <<crashed, failed, openFailed>>
vars      == <<timeVars, dbVars, logVars, flushVars, clearVars, endVars>>

Table == [db : Hours, name : Hours]
Row   == [db : Hours, name : Hours, line : Lines, hour : Hours, by : Flushers,
          with : SUBSET Lines]

TableOf(row) == [db |-> row.db, name |-> row.name]

Day(hour) == hour \div HoursPerDay

\* Constructed and opened, in any hour of the first day.
Init ==
    /\ now \in 1..HoursPerDay
    /\ m_DayLatest  = Day(now)
    /\ m_HourLatest = now
    /\ m_TableName  = Null
    /\ m_Database   = now
    /\ unlinked     = FALSE
    /\ files  = {now}
    /\ tables = {}
    /\ rows   = <<>> /\ inserted = 0
    /\ cache  = EmptyCache
    /\ batch  = [t \in Flushers |-> <<>>]
    /\ pc     = [t \in Flushers |-> "idle"]
    /\ crossed = {}
    /\ locker = "none"
    /\ toClear = {} /\ swept = FALSE
    /\ crashed = FALSE /\ failed = FALSE /\ openFailed = FALSE
    /\ accepted = <<>>

-----------------------------------------------------------------------------
\* An hour passes.  A round of do_logging(), and a flush() by stop(), see at
\* most one hour begin.
Tick ==
    /\ ~crashed /\ now < MaxHour
    /\ crossed  = {}
    /\ crossed' = {t \in Flushers : pc[t] \in {"taken", "insert", "check", "close",
                                              "open", "new"}}
    /\ now'     = now + 1
    /\ swept'   = FALSE
    /\ UNCHANGED <<m_DayLatest, m_HourLatest, dbVars, logVars, batch, pc, locker,
                   toClear, endVars>>

\* exit() has been called: ~log_mgr() has, and then ~sqlite_log().
Exiting == pc["dl"] \in {"exit", "gone"}

\* log() and log_binary(), of a line that passes the level test.
LogContent(line) ==
    /\ ~crashed /\ ~Exiting
    /\ line \notin Range(accepted)
    /\ cache'    = PushBack(cache, line)
    /\ accepted' = Append(accepted, line)
    /\ UNCHANGED <<timeVars, dbVars, flushVars, clearVars, endVars>>

-----------------------------------------------------------------------------
(***************************************************************************)
(* flush() by thread t: a cache is taken under m_CachedLocker; then, under *)
(* m_DatabaseLocker, a table is created if it is time for one, and the     *)
(* lines are inserted in one transaction.  stop() flushes once.            *)
(***************************************************************************)
GoTo(t, place) == pc' = [pc EXCEPT ![t] = place]

FlushTake(t) ==
    /\ ~crashed /\ pc[t] = "idle"
    /\ GoTo(t, "taken")
    /\ batch' = [batch EXCEPT ![t] = CurrentCache(cache)]
    /\ cache' = Swapped(cache)
    /\ UNCHANGED <<timeVars, dbVars, accepted, crossed, locker, clearVars, endVars>>

\* Mutant of HourIsOver: hours.count() > 2.
HourIsOverLater == now - m_HourLatest > 2

\* The hour has moved on by more than one.
HourIsOver == now - m_HourLatest > 1

\* Mutant of IfTableNeedSplit: it does not return true when the hour is over.
IfTableNeedSplitOnce == m_TableName = Null

IfTableNeedSplit == HourIsOver \/ m_TableName = Null

SetTableName == m_TableName' = m_HourLatest'

\* IfTableNeedSplit(), SetTableName() and CREATE TABLE.  m_HourLatest and
\* m_TableName change whether the table can be created or not.
FlushSplit(t) ==
    /\ ~crashed /\ pc[t] = "taken" /\ locker = "none"
    /\ GoTo(t, "insert")
    /\ locker' = t
    /\ m_HourLatest' = IF HourIsOver THEN now ELSE m_HourLatest
    /\ SetTableName
    /\ LET create == IfTableNeedSplit /\ m_Database # Null IN
       \/ /\ create
          /\ tables' = tables \cup {[db |-> m_Database, name |-> m_TableName']}
          /\ UNCHANGED failed
       \/ create /\ ExecMayFail /\ failed' = TRUE /\ UNCHANGED tables
       \/ ~create /\ UNCHANGED <<tables, failed>>
    /\ UNCHANGED <<now, m_DayLatest, m_Database, unlinked, files, rowVars, logVars,
                   batch, crossed, clearVars, crashed, openFailed>>

\* INSERTs need the table; there are none for no lines.
Insertable(lines) ==
    lines = <<>> \/ [db |-> m_Database, name |-> m_TableName] \in tables

\* Mutant of RowsOf: the loop ends one line early.
RowsOfButLast(t, lines) ==
    [i \in DOMAIN lines \ {Len(lines)} |->
        [db |-> m_Database, name |-> m_TableName, line |-> lines[i],
         hour |-> now, by |-> t, with |-> Range(lines)]]

RowsOf(t, lines) ==
    [i \in DOMAIN lines |->
        [db |-> m_Database, name |-> m_TableName, line |-> lines[i],
         hour |-> now, by |-> t, with |-> Range(lines)]]

\* What is inserted gets the next numbers.
Insert(more) ==
    /\ inserted' = inserted + Len(more)
    /\ rows' = [i \in DOMAIN rows \cup (inserted + 1) .. (inserted + Len(more)) |->
                   IF i \in DOMAIN rows THEN rows[i] ELSE more[i - inserted]]

\* The end of a flush: m_DatabaseLocker is released, the lines are forgotten.
FlushReturns(t) ==
    /\ GoTo(t, IF t = "dl" THEN "check" ELSE "done")
    /\ crossed' = IF t = "dl" THEN crossed ELSE crossed \ {t}
    /\ locker'  = "none"
    /\ batch'   = [batch EXCEPT ![t] = <<>>]

\* The transaction commits, or the first exception rolls all of it back.  With
\* no database there is no object to begin it on, and the process dies.
FlushInsert(t) ==
    /\ ~crashed /\ pc[t] = "insert"
    /\ \/ /\ m_Database = Null
          /\ crashed' = TRUE
          /\ UNCHANGED <<rowVars, failed, flushVars>>
       \/ /\ m_Database # Null /\ Insertable(batch[t])
          /\ IF unlinked THEN UNCHANGED rowVars ELSE Insert(RowsOf(t, batch[t]))
          /\ FlushReturns(t)
          /\ UNCHANGED <<crashed, failed>>
       \/ /\ m_Database # Null /\ (ExecMayFail \/ ~Insertable(batch[t]))
          /\ failed' = (failed \/ Insertable(batch[t]))
          /\ FlushReturns(t)
          /\ UNCHANGED <<crashed, rowVars>>
    /\ UNCHANGED <<timeVars, m_TableName, m_Database, unlinked, files, tables,
                   logVars, clearVars, openFailed>>

-----------------------------------------------------------------------------
(***************************************************************************)
(* The rest of do_logging()'s round, unless stop() has cleared the flag.   *)
(***************************************************************************)
Stopping == pc["ctl"] # "idle"

RoundEnds ==
    /\ GoTo("dl", IF Stopping THEN "done" ELSE "idle")
    /\ crossed' = crossed \ {"dl"}

\* More than one day after m_DayLatest?
DayIsOver == Day(now) - m_DayLatest > 1

is_need_rotate ==
    /\ ~crashed /\ pc["dl"] = "check"
    /\ \/ /\ ~Stopping /\ DayIsOver
          /\ m_DayLatest' = Day(now)
          /\ GoTo("dl", "close") /\ UNCHANGED crossed
       \/ /\ Stopping \/ ~DayIsOver
          /\ RoundEnds /\ UNCHANGED m_DayLatest
    /\ UNCHANGED <<now, m_HourLatest, dbVars, logVars, batch, locker, clearVars,
                   endVars>>

\* new SQLite::Database(name): it opens or creates the file, or throws.
OpenDatabase(name) ==
    \/ /\ m_Database' = name
       /\ files' = files \cup {name}
       /\ UNCHANGED openFailed
    \/ /\ OpenMayFail
       /\ m_Database' = Null
       /\ openFailed' = TRUE
       /\ UNCHANGED files

\* The tables there are when the connection is closed: if the file was removed,
\* those in it go, too.
KeptTables == IF unlinked THEN {t \in tables : t.db # m_Database} ELSE tables

\* Mutant of close: the database is not opened again.
closeOnly ==
    /\ ~crashed /\ pc["dl"] = "close" /\ locker = "none"
    /\ GoTo("dl", "open")
    /\ unlinked' = FALSE
    /\ m_Database' = Null
    /\ tables' = KeptTables
    /\ UNCHANGED <<timeVars, m_TableName, files, rowVars, logVars, batch,
                   crossed, locker, clearVars, endVars>>

\* close() opens the same database again, under m_DatabaseLocker.
close ==
    /\ ~crashed /\ pc["dl"] = "close" /\ locker = "none"
    /\ GoTo("dl", "open")
    /\ unlinked' = FALSE
    /\ \/ m_Database # Null /\ OpenDatabase(m_Database)
       \/ m_Database = Null /\ UNCHANGED <<m_Database, files, openFailed>>
    /\ tables' = KeptTables
    /\ UNCHANGED <<timeVars, m_TableName, rowVars, logVars, batch, crossed,
                   locker, clearVars, crashed, failed>>

\* open(), which takes no lock: first the database goes, under the feet of a
\* flush() that may be using it ...
openDelete ==
    /\ ~crashed /\ pc["dl"] = "open"
    /\ GoTo("dl", "new")
    /\ m_Database' = Null
    /\ unlinked' = FALSE
    /\ tables' = KeptTables
    /\ crashed' \in {FALSE, locker # "none"}
    /\ UNCHANGED <<timeVars, m_TableName, files, rowVars, logVars, batch,
                   crossed, locker, clearVars, failed, openFailed>>

\* ... then there is one named for this hour, without a table.
openNew ==
    /\ ~crashed /\ pc["dl"] = "new"
    /\ RoundEnds
    /\ OpenDatabase(now)
    /\ UNCHANGED <<timeVars, m_TableName, unlinked, tables, rowVars, logVars, batch,
                   locker, clearVars, crashed, failed>>

do_logging == is_need_rotate \/ close \/ openDelete \/ openNew

-----------------------------------------------------------------------------
(***************************************************************************)
(* clear_expired_log(), at most once in an hour here.                      *)
(***************************************************************************)
\* m_LogExpired in hours, rounded up.
ExpiredHours ==
    IF LogExpired % 60 = 0 THEN LogExpired \div 60 ELSE LogExpired \div 60 + 1

\* Mutant of IsTimeExpired: the hours since it, not those until it.
IsTimeExpiredSince(hour) == m_HourLatest - hour >= ExpiredHours

IsTimeExpired(hour) == hour - m_HourLatest >= ExpiredHours

ClearBegin ==
    /\ ~crashed /\ ~Exiting /\ toClear = {} /\ ~swept
    /\ toClear' = files
    /\ swept'   = (files = {})
    /\ UNCHANGED <<timeVars, dbVars, logVars, flushVars, endVars>>

\* One file: the whole database is removed, or the expired tables in it are
\* dropped over a connection that is opened outside of any try block.
ClearFile(db) ==
    /\ ~crashed /\ db \in toClear
    /\ toClear' = toClear \ {db}
    /\ swept'   = (toClear' = {})
    /\ \/ /\ IsTimeExpired(db)
          /\ files'    = files \ {db}
          /\ tables'   = {t \in tables : t.db # db}
          /\ unlinked' = (unlinked \/ m_Database = db)
          /\ UNCHANGED <<crashed, failed, openFailed>>
       \/ /\ ~IsTimeExpired(db)
          /\ tables' = {t \in tables : t.db # db \/ ~IsTimeExpired(t.name)}
          /\ UNCHANGED <<files, unlinked, crashed, failed, openFailed>>
       \/ /\ ~IsTimeExpired(db) /\ ExecMayFail
          /\ failed' = TRUE
          /\ UNCHANGED <<files, unlinked, tables, crashed, openFailed>>
       \/ /\ ~IsTimeExpired(db) /\ OpenMayFail
          /\ crashed' = TRUE /\ openFailed' = TRUE
          /\ UNCHANGED <<files, unlinked, tables, failed>>
    /\ rows' = [i \in {j \in DOMAIN rows : TableOf(rows[j]) \in tables'} |-> rows[i]]
    /\ UNCHANGED <<timeVars, m_TableName, m_Database, inserted, logVars, flushVars>>

-----------------------------------------------------------------------------
(***************************************************************************)
(* exit(), when stop() has been called and the threads are joined.         *)
(* ~log_mgr() calls stop() again, and its flush() is the one of "ctl"      *)
(* again.                                                                  *)
(***************************************************************************)
Exit ==
    /\ ~crashed /\ toClear = {}
    /\ pc["ctl"] = "done" /\ pc["dl"] \in {"idle", "done"}
    /\ pc' = [dl |-> "exit", ctl |-> "idle"]
    /\ UNCHANGED <<timeVars, dbVars, logVars, batch, crossed, locker, clearVars,
                   endVars>>

\* ~sqlite_log() flushes if there is a database ...
sqlite_log_dtor ==
    /\ ~crashed /\ pc = [dl |-> "exit", ctl |-> "done"]
    /\ m_Database # Null
    /\ pc' = [dl |-> "gone", ctl |-> "idle"]
    /\ UNCHANGED <<timeVars, dbVars, logVars, batch, crossed, locker, clearVars,
                   endVars>>

\* ... and drops what is in the caches then.
sqlite_log_gone ==
    /\ ~crashed
    /\ \/ pc = [dl |-> "exit", ctl |-> "done"] /\ m_Database = Null
       \/ pc = [dl |-> "gone", ctl |-> "done"]
    /\ pc' = [dl |-> "gone", ctl |-> "gone"]
    /\ m_Database' = Null
    /\ unlinked' = FALSE
    /\ tables' = KeptTables
    /\ cache' = EmptyCache
    /\ UNCHANGED <<timeVars, m_TableName, files, rowVars, accepted, batch, crossed,
                   locker, clearVars, endVars>>

-----------------------------------------------------------------------------
Next ==
    \/ Tick
    \/ \E line \in Lines : LogContent(line)
    \/ \E t \in Flushers : FlushTake(t) \/ FlushSplit(t) \/ FlushInsert(t)
    \/ do_logging
    \/ Exit \/ sqlite_log_dtor \/ sqlite_log_gone
    \/ ClearBegin
    \/ \E db \in Hours : ClearFile(db)

Spec == Init /\ [][Next]_vars

-----------------------------------------------------------------------------
(***************************************************************************)
(* Properties.                                                             *)
(***************************************************************************)

\* Every variable has its type.
TypeOK ==
    /\ now \in Hours /\ m_HourLatest \in Hours /\ m_DayLatest \in Nat
    /\ m_TableName \in Hours \cup {Null} /\ m_Database \in Hours \cup {Null}
    /\ unlinked \in BOOLEAN
    /\ files \subseteq Hours /\ toClear \subseteq Hours
    /\ tables \subseteq Table
    /\ inserted \in Nat /\ DOMAIN rows \subseteq 1..inserted
    /\ \A i \in DOMAIN rows : rows[i] \in Row
    /\ cache \in CacheType(Lines)
    /\ batch \in [Flushers -> Seq(Lines)]
    /\ pc \in [Flushers -> {"idle", "taken", "insert", "check", "close", "open",
                            "new", "done", "exit", "gone"}]
    /\ crossed \subseteq Flushers
    /\ locker \in Flushers \cup {"none"}
    /\ swept \in BOOLEAN
    /\ crashed \in BOOLEAN /\ failed \in BOOLEAN /\ openFailed \in BOOLEAN
    /\ accepted \in Seq(Lines)

InRows == {rows[i].line : i \in DOMAIN rows}

\* The lines of one flush are stored together or not at all: an INSERT that
\* throws takes the lines before it and after it along.
BatchIsAtomic == \A i \in DOMAIN rows : rows[i].with \subseteq InRows

\* No line is stored twice, and the rows are in the order of log(), except that
\* do_logging() and stop(), which take their batches one after the other, may
\* insert them the other way round.
OrderedPerFlusher ==
    \A i, j \in DOMAIN rows :
        i < j =>
            /\ rows[i].line # rows[j].line
            /\ rows[i].by = rows[j].by =>
                 \E m, n \in DOMAIN accepted :
                    m < n /\ accepted[m] = rows[i].line /\ accepted[n] = rows[j].line

\* A table holds the rows of less than three hours: of the hour in its name, of
\* the next, and of a flush that began in that one and ended in the one after.
TableSpan == \A i \in DOMAIN rows : rows[i].hour - rows[i].name \in 0..2

\* When no statement has failed, and clear_expired_log() is set to keep three
\* hours or more, the open database lacks the table that rows go to only if it
\* was opened after that table was made.  Rows are lost until there is a new
\* table, which is at most two hours after the last.
TableLacking ==
    LogExpired >= 180 /\ locker # "none" /\ m_Database # Null /\ ~failed
        /\ [db |-> m_Database, name |-> m_TableName] \notin tables
    => m_Database \in m_TableName .. m_TableName + 2 /\ now <= m_TableName + 2

\* clear_expired_log() removes no database and no table, however old, if it is
\* set to keep three hours or more: it counts the time from m_HourLatest to what
\* is stored, and nothing stored is ahead of m_HourLatest by more than two hours.
ClearingClearsNothing ==
    [][LogExpired >= 180 => files \subseteq files' /\ tables \subseteq tables']_vars

\* The process dies only after a SQLite::Database() has thrown, or because
\* stop() flushes while do_logging() is between the two databases.
CrashExplained ==
    crashed /\ ~openFailed => pc["ctl"] = "insert" /\ pc["dl"] = "new"

\* What the comment on clear_expired_log() says: expired tables are dropped.
ExpiredCleared ==
    swept /\ ~failed => \A t \in tables : now - t.name <= ExpiredHours + 2

\* What sqlite_log.h says: the database may be changed while the program runs.
\* When nothing fails, and stop() has not been called, a line that was logged is
\* in memory or in a database.
KeptAcrossDatabases ==
    ~failed /\ ~crashed /\ ~Exiting /\ pc["ctl"] = "idle" =>
        Range(accepted) \subseteq
            InRows \cup Range(Buffered(cache)) \cup Range(batch["dl"])
                   \cup Range(batch["ctl"])
=============================================================================
