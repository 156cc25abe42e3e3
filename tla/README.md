# smplog: a TLA+ model

smplog is a small C++ logging library. Applications take a logger from `log_mgr`, log through it
from any thread, and a background thread writes what they logged to files, to SQLite databases or
to CSV files. This directory holds TLA+ models of it, the TLC configurations that check them on
small instances, and proofs, checked by TLAPS, of what holds for any number of threads, lines and
files.

`PROJECT.json` lists for every definition the source lines it stands for. Paths below are relative
to the repository's root, as built by `CMakeLists.txt`: `src/` and `inc/` (the `.cpp` files under
`inc/logging/` and `src/util.cpp` are stale copies that are not built).

    tlc -workers 2 -config MCFileLogMgr.cfg MCFileLogMgr.tla      # one run; see the table below
    tlapm LogMgrProofs.tla                                        # one module of proofs; see section 4

## 1. The system

| component | state | operations | called by |
|---|---|---|---|
| `log_mgr` (`src/logging/log_mgr.cpp`) | `m_log_map` (name to logger), `m_logging_flag`, `m_log_one_file`, two `std::thread*` | `start`, `stop`, `get_logger`, `log`, `set_*`, the thread functions `do_logging` and `do_clear_expired_log` | applications; `main` |
| `file_log_mgr` (`file_log_mgr.cpp`) | six `file_log`s, one per level; `m_Locker` | `log` (no lock); `open`, `flush`, `close`, `rotate`, `is_need_rotate`, `set_level`, `clear_expired_log` (all under `m_Locker`) | `do_logging`, `stop`, the clearing thread, applications |
| `file_log` (`file_log.cpp`) | `m_File`, `m_FileName`, two caches and the selector `m_ABNo`, `m_CachedLocker`, `m_MaxLogLevel`, `m_LogExpired` | the same | its `file_log_mgr` |
| `sqlite_log` (`sqlite_log.cpp`) | `m_Database`, `m_TableName`, `m_DayLatest`, `m_HourLatest`, the two caches, `m_CachedLocker`, `m_DatabaseLocker` | the same, and `log_binary` | the same |
| `csv_log` (`csv_log.cpp`) | `m_File`, the two caches, `m_CachedLocker` | the same, and `table_head` | the same |
| `io_director` (`io_director.cpp`) | none | `traverse_files` | `clear_expired_log` of `sqlite_log`, `csv_log` |
| `util` (`common/util.cpp`) | none of its own; the buffer of `std::localtime()` | time stamps, `strptime` (in a Windows build), `conditional_sleep`, byte order, milliseconds, hexadecimal text, search, thread names, `sprintf_std_string` | everybody |

**How a line travels.** `log()` appends it to the cache that `m_ABNo` does *not* give to `flush()`.
`do_logging()` calls `flush()` of every logger in every round; it empties the other cache and swaps
the two. A line is therefore written by the *second* flush after it was logged. It passes the stdio
buffer of a `FILE*` and `fflush()` hands it to the operating system. After the flush `do_logging()`
asks `is_need_rotate()` and, if so, calls `close()`, `rotate()` (a rename to a name that ends in the
time) and `open()`, each of which takes the lock anew.

**Who runs at the same time.** Any number of application threads in `log()`; `do_logging()`;
`do_clear_expired_log()`, which calls `clear_expired_log()` of every logger once a minute; and the
thread that calls `start()`, `stop()` and, at exit, `~log_mgr()`. Nothing in `log_mgr` keeps several
threads from calling `start()`, `stop()`, `get_logger()` and the setters at once either.

**What is hard.** The swap of two caches under one lock while lines are written under another; a
flush from `stop()` in the middle of a rotation by `do_logging()`; opens, renames and statements that
fail with the result ignored; renames to one name within a second; files removed while they are open
or after they were rotated; the change of databases and tables by a clock; `csv_log`'s missing
locks; the unlocked registry and thread pointers of `log_mgr`; buffers shared by all threads; clocks
that are read twice or set back. `PROJECT.json`, "hazards", lists each with its line.

**What makes the components correct.** *Sinks:* a line is kept once, in order, in memory or storage; two
flushes bring it to storage; a flush that has returned leaves nothing in a stdio buffer; rotation loses
nothing. *log_mgr:* `stop()` returns, saves what was logged before it, and leaves files open and threads
gone; every line is stored and every full file rotated while it runs; no flush finds a closed file.
*Retention:* what is removed is expired, what is expired is removed, and nobody is left writing to a file
without a name. *Lines:* a line has the text that was passed and the time it was logged at. *Registry:*
callers of one name share a logger that is flushed, and it has the settings that were made. *util:* what
is printed is read back, what is converted is exact, and who sleeps wakes up in time.

## 2. The modules

| module | models | composed of |
|---|---|---|
| `ABCache` | the pair of caches: `PushBack`, `CurrentCache`, `Swapped` as operators on a record; no state | |
| `LogStream` | abstract: per stream, what was accepted and what is stored; storage grows by the next accepted lines | |
| `FileLogMgr` | one `file_log_mgr` with its `file_log`s | `ABCache`; implements `LogStream` |
| `LogMgr` | `log_mgr`, its two threads, and the file loggers as it sees them | `ABCache` |
| `SqliteLog` | one `sqlite_log` with `do_logging()`, `stop()` and the clearing thread | `ABCache` |
| `CsvLog` | one `csv_log` with the applications, `do_logging()` and `stop()` | `ABCache`; implements `LogStream` while undisturbed |
| `Retention` | the files of several `file_log_mgr`s: written, rotated and cleared | |
| `Stamps` | the text and the time stamp that a line gets on its way into a cache, by every overload of `log()` | |
| `StartStop` | `start()` and `stop()` called by several threads, and the worker threads they leave behind, at one logger | |
| `Registry` | `get_logger()`, `set_level()`, `set_expired()` called by several threads while `do_logging()` rotates | |
| `CsvRetention` | `clear_expired_log()` of `csv_log` with `traverse_files()` | |
| `TimeText` | printing times with a format and reading them with the `strptime()` and `conv_num()` of a Windows build | |
| `CondSleep` | `conditional_sleep()`, and how long `do_logging()` sleeps after a round | |
| `Conversions` | the other functions of `util.cpp` | |
| `MCParts` | one run of the seven modules before it, one part at a time | the seven |
| `ABCacheTheorems` | lemmas about sequences and about the operators of `ABCache` | `ABCache` |
| `FileLogMgrProofs`, `LogMgrProofs`, `CsvLogProofs` | the theorems about `FileLogMgr`, `LogMgr`, `CsvLog` | the module named, `ABCacheTheorems` |
| `SqliteLogProofs`, `RetentionProofs`, `TimeTextProofs` | the theorems about `SqliteLog`, `Retention`, `TimeText` | the module named |
| `PartsProofs` | the theorems about `StartStop`, `Stamps`, `Registry`, `CsvRetention`, `CondSleep`, `Conversions`, and `MCParts` as a whole | `MCParts`, `TimeTextProofs` |
| other `MC...` | model values and symmetry for TLC | the module named |

### FileLogMgr

The detailed model of the core. Its variables keep the names of the code: `m_File[k]` says what the
`FILE*` of file_log `k` refers to (nothing, the file under `m_FileName`, or a file that was renamed
while open), `cache[k]` is `m_ABNo` with the two caches, `buffer[k]` the stdio buffer, and `current`,
`newest` and `older` are the files by name. `log()` is two steps, the level test without a lock
(`LogCheck`) and the append under `m_CachedLocker` (`LogPush`). `flush()` is split wherever `log()`
or a crash can fall: `FlushBegin` takes `m_Locker`, and per file_log `FlushTake` swaps the caches,
`FlushWrite` is one `fwrite()`, `FlushEnd` is `fflush()`. `Close`, `Rotate`, `Open` and `SetLevel` are
one step each: they hold `m_Locker` and touch nothing `log()` touches but the level, which is
read on its own. They may come in any order, because any thread that holds the `ilog` may call them;
`do_logging()`'s order is one of them. `Open` follows the `opened && ...` chain: the first file_log
that fails stays closed and the rest keep what they had.

### LogMgr

The thread functions step by step. `dl` is the place of `do_logging()` (its four readings of the
flag, and one step for each of flush, `is_need_rotate`, close, rotate and open, each of which waits
for the logger's `locker`), `cl` that of `do_clear_expired_log()`, `ctl` that of the thread in
`start()`, `stop()` and `~log_mgr()`. A logger is one pair of caches and one file; its lines are
counted, not named, since `FileLogMgr` shows that order is kept. `fwrite()` to a null `FILE*` sets
`crashed`. `DropLoggers` is the end of `~log_mgr()`: `~file_log_mgr()` closes the file of each logger
before `~file_log()` flushes it, so that what the two stops left in a cache is gone.
`set_log_on_one_file()` may be called at any time, also between the test of `m_log_one_file` and the
`open()`. A rename that fails is caught by `rotate()`, and leaves the file full under its name
(`DLRotate`); `MaxRenameErrors` bounds how often that happens, and is the reason why a full file is
rotated in the end. `get_logger()` is called by one thread at a time here, and `start()` and `stop()` only
by the controlling thread, so that there is one `do_logging()`: what several threads make of them is in
`Registry` and `StartStop`.

### SqliteLog

Time is counted in hours, which is all the code looks at: `m_HourLatest`, the names of tables and of
databases are hours, and `m_DayLatest` is a day. `flush()` is `FlushTake` (under `m_CachedLocker`), then
`FlushSplit` and `FlushInsert` under `m_DatabaseLocker`; a transaction is one step because SQLite makes
it one. `rows` is a function from the numbers of the insertions, so that what is removed leaves the
others their places. `open()` takes no lock and is two steps, between which `m_Database` is null.
`unlinked` records that the open database's file was removed: its tables go when the connection closes.
`clear_expired_log()` visits the listed files one by one.
Inserts, creations and opens may throw. `Exit`, `sqlite_log_dtor` and `sqlite_log_gone` are the end of
the program: `~log_mgr()` calls `stop()` again, the destructor flushes if there is a database, and what
is then left in the caches is dropped. The `crossed` variable only bounds the clock: a flush or a round
sees at most one hour begin.

### CsvLog

`log()` takes no lock and reads `m_ABNo` once or twice: `LogBegin`, `LogReadsAgain`, `LogPush`. Two
threads in one vector at the same time is undefined behaviour, modelled by three outcomes: the record goes
in, the record is lost, the process dies; `met` is the history of that. `close()` leaves `m_File`
dangling; writing to it either loses the records or kills the process. `Exit` is the second `stop()`, in
`~log_mgr()`, and the destructor (`csv_log_dtor`).

`csv_log` implements `LogStream` only as long as nothing of that happens (`Undisturbed`), so that
`StoresUndisturbed` asks of each step that it is one of `LogStream` if it does not disturb the log.
What was accepted is there `Logged`: the files and the caches, without the cache that has been written
and is not cleared yet.

### Retention

A file is a generation of a file_log and is linked under its active name, under a name with a time, or
not at all. Each step of `do_logging()` and each removal of the clearing thread is an action; `Free(m)`
is `m_Locker`. Names are removed in the working directory, whatever directory they were found in, as the
code does. `EpochSlip` is what `list_expired_files()` adds to a file's age by the constant it subtracts
from `last_write_time()`: 109235145 minutes with libstdc++ (measured with the expressions of lines
404-424), 116444736 seconds with a standard library that counts from 1970, and 0 with Microsoft's. Files
behave as on POSIX, where an open file can be removed. `listedAt`, the time of the last listing, and
`touched`, the files written or renamed since, are history for `ClearedWhenDone`.

### Stamps

`log(level, const char*, ...)` of `file_log_mgr` formats into one static buffer for all loggers and passes
on a `char*`, which selects the template overload of `file_log`, with its `mtx_arglog`; the template of
`file_log_mgr` itself has its own `mtx_arglog`; the `std::string` overload has no lock. Both
`log_mgr::log` (`log_mgr.cpp:294`) and that overload of `file_log_mgr` (`file_log_mgr.cpp:86`) pass their
`va_list` to `snprintf()` as an argument, so that a text with a conversion (`conv`) comes out as another
one, `Mixed`. (Undefined behaviour may also end the process there, for `%s` above all; the model only has
the other text.) `file_log` and `sqlite_log` themselves use `vsnprintf()`. Each step of each way is an
action. The stamp is made in four: read the seconds, read the milliseconds, `localtime()` into the buffer
of all threads, `put_time()`. `m_CachedLocker` is taken after that, or before it in `sqlite_log` and in
`file_log`'s own formatting overload. The clock goes forward only: one that is set back (`CsvRetention`
and `CondSleep` have that) would make stamps go back for a trivial reason.

### StartStop

A std::thread object is a number in `1..born`; `pointer` is `m_tlogging` and `m_tclear_expired_log`,
`object` and `thread` what has become of the object and of the thread behind it. Each test of a pointer,
each `new`, `join()`, `delete` and assignment is a step of its own. `join()` of an object that is not
joinable, deleting one that still is, and using one that is deleted set `aborted`. `startMet` and
`stopMet` are history: a `start()`, a `stop()` has overlapped another call.

Overlapping calls of `start()` leave two `do_logging()` threads behind, which `LogMgr` does not have. What
they do is therefore here as well, at one logger which always has lines and whose `open()` succeeds:
`visit` is where a worker is with it (`WorkerVisits`, `WorkerFlushes`, `WorkerCloses`, `WorkerOpens`, each of
them under `m_Locker`), `fileOpen` is its `m_File`, `StopFlush` is the flush of `stop()`, and `nullWrite`
says whose `fwrite()` met a null `FILE*`.

### Registry

`get_logger()` is find, make and insert, in that order; the setters iterate. A thread that reads the map
while another is in `insert()` may miss what is in it, or die; of two inserts at once one may be lost.
`RotateLogger` is a rotation of a logger in the map: its `open()` sets the filters of its file_logs to
their own level. `overlap` and `seen` are history, for what each setting could reach.

### CsvRetention

`traverse_files()` takes the entries of a directory one by one, by `d_type` where the file system fills
it in, then `stat()`s them; the loop of `clear_expired_log()` compares times and removes. In between
files are written, renamed away and made anew, and the clock goes forward or is set back. Ages are
`uint32_t`: they wrap at `Width`.

### TimeText, CondSleep, Conversions

`TimeText` is the one piece of Windows code among these models: `strptime()` and `conv_num()`
(`util.cpp:387-708`) are inside `#ifdef _WIN32`. Elsewhere the C library's `strptime()` takes their place,
and it is that one `sqlite_log` reads the names of its tables with on POSIX. The module is kept because
the repository documents a Windows build (its `README.md:15`) and the parser is the most intricate pure
function in it. It prints a date in a format and reads it back, whole, cut off, or with one wrong character.
`strptime()` calls itself for the formats that stand for longer ones (`%c`, `%D`, `%r`, ...); `frames`
is the stack of these calls; `conv_num()` takes as many digits as still fit below its limit.
`CondSleep` counts a clock in parts of a millisecond and rounds as the code does; the clock may be set
while `func()` runs or while the thread sleeps. `Conversions` calls the remaining functions of
`util.cpp` in any order; only the buffer that the `char*` stamps write to outlives a call.

### MCParts

These seven modules share no variable. `part` says which of them moves; the others keep their initial
states. The states a part reaches are thus those of its own specification, and one run checks them all.

## 3. The runs

| run | module and cfg | bounds | shows |
|---|---|---|---|
| `file_log_mgr` | `MCFileLogMgr` | 2 file_logs, 4 lines, 2 logging threads, 2 callers, files full at 1 line | `TypeOK`, `NothingLost`, `TwoFlushesReachDisk`, and that the module implements `LogStream` (`StoresInOrder`) |
| `file_log_mgr_same_second` | `MCFileLogMgr`, `MCFileLogMgrSameSecond.cfg` | 3 lines, rotations may fall in one second | `RecentIntact`: an archive may be replaced, the latest lines are still without a gap |
| `log_mgr` | `MCLogMgr` | 2 loggers, 2 lines, opens and one rename may fail | `StoppedLinesStored`, `CrashExplained`, `StoppedCleanly` |
| `log_mgr_live` | `MCLogMgrLive.cfg` | 2 loggers, 1 line | `StopReturns`, `EveryLineStored`, `FullFileRotated` |
| `log_mgr_stop` | `MCLogMgrStop.cfg` | 1 logger | **violated** `StopIsSafe` |
| `sqlite_log` | `MCSqliteLog` | 2 lines, 5 hours, days of 2 hours, anything may throw | `BatchIsAtomic`, `OrderedPerFlusher`, `TableSpan`, `TableLacking`, `CrashExplained`, `ClearingClearsNothing` |
| `sqlite_log_expired` | `MCSqliteLogExpired.cfg` | expiry of 1 hour | **violated** `ExpiredCleared` |
| `sqlite_log_split` | `MCSqliteLogSplit.cfg` | nothing fails | **violated** `KeptAcrossDatabases` |
| `csv_log` | `MCCsvLog` | 2 threads, 2 records each, opens may fail | `OrderedPerThread`, `LostOnlyByOverlap`, `CrashExplained`, and that the module implements `LogStream` while undisturbed (`StoresUndisturbed`) |
| `retention` | `MCRetention` | 2 managers with 2 and 1 file_logs, 2 files each, 2 directories | `SmallOnlyByOthers`, `ClearedWhenDone`, `GoneForGood` |
| `retention_expired` | `MCRetentionExpired.cfg` | 1 file each, expiry of three days | **violated** `ExpiredOnly` |
| `parts` | `MCParts` | see below | what follows, for one part each |

| property of `parts` | bounds | shows |
|---|---|---|
| `StampsExplained` | 2 threads, a managed file_log and a `sqlite_log`, 2 calls, a clock that passes one second of 2 ms | a stamp is late, or goes back in a file, only by the races named in it |
| `TextLossExplained` | the same | a line has its own text, but for conversions by `log_mgr` and `file_log_mgr`, and overlapping calls of the latter's formatting overload |
| `DeathsExplained`, `WorkersOwned` | 2 threads, 4 workers, 1 logger | what overlapping calls of `start()` and `stop()` can and cannot break, the workers' flushes included |
| `SharedUnlessRaced`, `SettingsReach` | 2 threads, 2 names, 3 formats, 3 loggers, 3 calls | who gets an orphan; which loggers a setting reaches, and whether it stays |
| `RemovedWereIdle` | 4 entries (`.log`, `.csv`, two directories), `uint32_t` of 3 bits, 3 moves of the clock | when `csv_log` removes a file that is in use |
| `ParseInverts` | 4 dates, 15 formats that have every conversion between them | the `strptime()` of a Windows build inverts printing, but for the formats it refuses |
| `SleepKept` | up to 3 ms in halves, clock set by up to 2 ms | how long is slept, and how often `func()` is called |
| `ConversionsExact` | bytes of two binary digits, 3 letters, texts up to 3, `LONG_MAX` = 17 | each conversion against its definition |

**Why the bounds are enough.** A line needs two flushes, so that four lines fill both caches, a batch and
a file at once. Two file_logs are the least that tell "this one" from "the others" in `flush()` and the
`opened && ...` chain. Three files per file_log (current, newest, older) come from one-line files. Two
loggers let `do_logging()` be at one while `stop()` is at the other. Days of two hours reach the code's
two thresholds, more than one hour and more than one day, in five hours, with every order of the two. Two
generations of a file let a name change its file between listing and removal. Two threads are the least
that overlap, and four workers are two pairs, enough to lose one and to have two `do_logging()`. The
bounds of `Registry` allow two callers of one name, a third call for another name or a setting in between,
and a rotation anywhere. The dates of `TimeText` are the ends of a century, a leap February, noon,
midnight and a leap second. An integer of base-4 bytes has as many bytes as in the code, and every pair of
them may differ. Lines and threads are symmetric where they are model values, since no definition orders
them. CHECK_DEADLOCK is FALSE where the process may crash or exit; Retention is checked for deadlock.

**Fairness.** Only `LogMgr` assumes any: weak fairness of `do_logging`, of `do_clear_expired_log` and of
the thread in `stop()` or `~log_mgr()` (`Stopping`). They are OS threads that wait for nothing but
mutexes held for a bounded time, and sleep for a bounded time. Nothing obliges an application to log,
to call `stop()`, or a manager to be started.

## 4. What is proved

`FileLogMgrProofs` proves, for every number of file_logs up to six, every set of lines, of logging
threads and of callers, every rotation size, and whatever opens and renames fail:

| theorem | statement |
|---|---|
| `TypeCorrect` | `Spec => []TypeOK` |
| `FlushDurable` | `Spec => []FlushedIsDurable`: when no flush runs, no line is in a stdio buffer (in the run, `TwoFlushesReachDisk` and `NothingLost` have this for a consequence) |
| `LinesConserved` | `~SameSecond /\ Spec => []NothingLost` |
| `TwoFlushes` | `~SameSecond /\ Spec => []TwoFlushesReachDisk` |
| `Refinement` | `~SameSecond /\ Spec => StoresInOrder`: FileLogMgr implements LogStream |
| `RecentLinesIntact` | `Spec => []RecentIntact`, two rotations in one second or not |

The assumption `FileLogMgrAssumption` only gives the constants their types. `~SameSecond`, that no
file is rotated twice in one second, is needed where it is assumed: otherwise the second archive
replaces the first.

*The argument.* `TypeOK` is not inductive. `Inv` adds what the code's locking amounts to:
`FlushInv` (a flush is at some file_log exactly while `m_Locker` is held, and has lines in hand only
between taking a cache and `fflush()`), `BufferInv` (only the open file being written has lines in its
stdio buffer), `FileInv` (while the open file is a renamed one, nothing is under `m_FileName`, so that
archives and current file stay in order), and `MarkInv` (the history marks are what `m_ABNo`
says). `NextInv` shows that every action preserves it, one lemma per action. `FlushDurable` follows
from `BufferInv`. `LinesConserved` is the conservation law "accepted = archives, current file, stdio
buffer, lines in hand, both caches, in this order": each action moves lines between neighbours, and
the lemmas of `ABCacheTheorems` say what `PushBack` and `Swapped` do to the concatenation.
`RecentLinesIntact` is the same law for *some* sequence in the place of the older archives (`RecentInv`):
the lemmas are stated for any, since no step but a rotation looks at them. `TwoFlushes` is the
conservation law's lengths with `MarkInv`. For `Refinement`, `OnDisk` is a
prefix of `accepted` by `LinesConserved`, and each step either leaves it (a stutter), extends it by
what leaves the stdio buffer (`Store`), or accepts a line (`Accept`).

`PartsProofs`, of `StartStop`, for any number of threads that call and of workers (`StartStopAssumption`
only types `MaxWorkers`):

| theorem | statement |
|---|---|
| `SpecStartStopTypeOK` | `StartStopSpec => []StartStopTypeOK` |
| `SpecDeathsExplained` | `StartStopSpec => []DeathsExplained` |
| `SpecWorkersOwned` | `StartStopSpec => []WorkersOwned` |

*The argument.* `StartStopInv` has the types and three parts. `ObjectInv` holds however the calls overlap:
pointers refer to objects made for them, running threads have joinable objects, two `join()`s wait for
different ones. `StopInv` holds as long as no `stop()` has met a call: the place in `stop()` says which
objects are joined, deleted and forgotten, so that no step meets one in the wrong state. `StartInv`
holds as long as no `start()` has met a call: it finds both pointers null, and each running thread is
named by its pointer, so that there is one `do_logging()` at most. The two are separate because each
property has its own precondition; both need `ObjectInv`. `VisitInv` says that the file is closed only while
a worker is between its `close()` and `open()`; a worker that finds it so is not that one, and the only
`do_logging()` there is cannot be two, by `StartInv`.

`CsvLogProofs`, for any threads, records and file size, whatever `fopen()` does: `SpecTypeOK`,
`SpecOrderedPerThread`, `SpecLostOnlyByOverlap`, `SpecCrashExplained`, `SpecStoresUndisturbed`.

*The argument.* The order is the hard one: `log()` may push to the cache that the flush is about to
take, or is clearing. `OrderInv` says that the records of a thread ascend in the files and in each
cache, from the files to the cache taken next to the other one; that while a cache is cleared its
records may be in the files as well; and that a thread about to push to the *wrong* cache has no record
in the other, because it has pushed nothing since its read of `m_ABNo`. `OverlapInv` and `ClearInv` say
which records a clear can take along: those that met it. For `StoresUndisturbed`, `StaleInv` adds that a
thread about to push to the wrong cache has met a flush. Without one, a push is an `Accept`, what a flush
or the destructor writes is a `Store`, and the swap of the caches a stutter.

`LogMgrProofs`, for any number of loggers and lines, any size of a file, whatever opens and renames do,
and with `set_log_on_one_file()` at any time:
`SpecTypeOK`, `SpecStoppedLinesStored`, `SpecCrashExplained`, `SpecStoppedCleanly`.

*The argument.* `ThreadInv` and `LockInv` say where the three threads and the locks can be at the same
time, `FileInv` that a file is closed only by its failed open or between `DLClose` and `DLOpen`,
`CountInv` that each accepted line is stored, in a batch or in one of the two caches. `MarkInv` carries
`StoppedLinesStored`: `stop()` moves over the loggers in order; at each it has passed, the lines from
before it are out of the cache being filled; at each that the `stop()` of `~log_mgr()` has passed, they
are out of both. The lock matters, since `do_logging()` may hold a batch of them when `stop()` comes.

`SqliteLogProofs`, for any number of lines and hours, any length of a day and any expiry, whatever
fails (`SqliteLogAssumption` types the constants and lets the first day end within `MaxHour`):
`SpecTypeOK`, `SpecCrashExplained`, `SpecClearingClearsNothing`, `SpecOrderedPerFlusher`,
`SpecBatchIsAtomic`, `SpecTableSpan`, `SpecTableLacking`.

*The argument.* `HourInv`: between two looks at the clock of one round at most one hour begins
(`crossed`, the bound of the model, which the theorems about hours share), so that no database is named
more than two hours after `m_HourLatest`, and no table after it at all; their difference is then never
three hours. `NullInv` says who may leave `m_Database` null. The others are inductive relative to these.
`SpanInv`: who holds `m_DatabaseLocker` inserts under `m_HourLatest`, at most two hours later. `LackInv`:
a database without the table was opened after that table was made; it needs `LinkedInv`, that the open
database is never removed. `StoreInv` follows the lines by their places in the order of `log()`: those
that have left the caches come before those that are cached, a batch is in order, in no other hand and
in no table, and comes after all that its flusher has stored. `TogetherInv` says that a row has the
rows of its flush in its table.

`RetentionProofs`, for any managers, file_logs, directories, sizes and times: `SpecTypeOK`,
`SpecSmallOnlyByOthers`, `SpecGoneForGood`, `SpecClearedWhenDone`.
`RetentionAssumption` types the constants, has finitely many file_logs, puts `RemovalSize` below
`LogFileLength` and asks for one file of each file_log at least.

*The argument.* `NameInv` relates the names to the newest file and to `m_File`, `SizeInv` says that what
was rotated is large, and `ListInv` that the listed files of the manager that is clearing stay large:
its `m_Locker` keeps `do_logging()` from giving their names to new ones. A smaller file under a listed
name is thus another manager's. For `SpecClearedWhenDone`, `ClearInv` says that what had expired by the
listing, has its name and was not touched since is still in `list`, until that is empty. A file made
after the listing is touched or, by `FreshInv`, has no line, and then nothing was due under its number.

`PartsProofs` treats, besides `StartStop`, five small modules one after another, and then `MCParts`.

| theorem | for any |
|---|---|
| `SpecStampsExplained`, `SpecTextLossExplained` | threads, loggers, calls, length of a second |
| `SpecRegistryTypeOK`, `SpecSharedUnlessRaced`, `SpecSettingsReach` | callers, names, words, minutes, loggers, calls |
| `SpecRemovedWereIdle` | entries, of which any may be typed; width of the ages; expiry |
| `SpecSleepKept` | spans, intervals, ticks in a millisecond, lengths of `func()`, delays and settings of the clock |
| `SpecConversionsExact` | size of a byte and of `long`, letters and capitals, length of strings and of the buffer |
| `SpecOfEachPart`, `SpecPartsTypeOK` | the constants of each part |

*The arguments.* `Stamps`: `TextInv` says that who has the static buffer to itself finds its own text in
it, and that a call that is met is marked `shared`; `TimeInv` that the clock readings of a call are
between its beginning and now, and the seconds read before the milliseconds; `MutexInv` that two calls
which hold one mutex do not overlap, so that what is already in the file was stamped before this call's
stamp. Only both together order the stamps of a file.

`Registry`: `RaceInv` says that two calls in `get_logger()` at the same time are both marked `raced`, and
that the name of a call that is not has no logger yet when it has made one. `WalkInv` holds for a setting
that met no other call: everything its iterator has passed is `Right`, and so is whatever was made since,
while a level is handed on as it was read. It must be stated for `set_level()` and `set_expired()` at once,
since each may run while the other does. That an iterator leaves nothing out needs the least of a set of
names, from the well-founded order of the numbers.

`CsvRetention`: `AgeInv` says what the copied time of a listed file has to do with how long it has been
idle, modulo the width of `uint32_t`; `AgeBound` turns the comparison of the wrapped ages into one of the
real ones, as long as the limit does not wrap itself.

`CondSleep`: `LeftInv` says how much is left to sleep, `CountInv` how often `func()` has been called for
what was slept, and `PaceInv` what is left of the interval in a round; the rounding to milliseconds is
`MsFacts` and `CeilingBound`.

`Conversions`: what a function returns depends on its argument, and `ReturnedIsExact` looks at one after
the other: `FlippedBytes` by dividing, from two bytes to eight; `RoundedUp`, in which the time is not
larger than `LONG_MAX` because `LONG_MAX + 1` is no multiple of 1000; `FindSubstr`, from the least place
there is. Only the buffer needs an invariant, `BufferInv`: its first NUL is where the longest text ends.

`MCParts`: each of its steps is a step of one part, and leaves the others as they are (`PartsStep`).

`TimeTextProofs`, about the Windows code, for any dates, and any damage to the text:

| theorem | statement |
|---|---|
| `SpecTimeTextTypeOK` | `TimeTextSpec => []TimeTextTypeOK`, for any formats, ill-formed ones too |
| `SpecParseInverts` | `TimeTextSpec => [](layout \in PlainLayouts => ParseInverts)` |

`PlainLayouts` are the formats of any length made of the conversions `%Y %m %d %H %M %S %j %w`, white
space, the literals of `TimeText`, `%R`, `%T` and `%X`, that do not end with `%Y`, `%j` or white space. The
formats of `util.cpp` are such formats (`UtilLayouts`), and so is the one in which `sqlite_log` reads the
time in the names of its tables. The others are left out for a reason. `%C` and `%y`, `%H` and `%I`, store one
field in different ways, so that what is in it depends on their order. `%e` and `%p` are refused. Names and
modifiers would only add cases. A text that ends with `%Y` or `%j` can be cut by more than a digit and still
be taken, and the white space at an end is not missed.

*The argument.* That what is printed is a text is `FlattenSeqType`, about a recursive function: for each
length such a function is extended by one place, and the least length or place at which something fails
does not exist. This stands in for the induction theorems, whose operator parameter the provers cannot
instantiate. In the same way the text is taken apart into the texts of the conversions (`EndsOf` says where
each one ends), and the format into the conversions that its shorthands stand for. `ParseInv` then relates
the two: the frames on the stack have read the first `p` conversions of the format with its shorthands
expanded (`ReadUpTo`), and `ReadRight(p)` holds. That is, either (`Sound`) the rest of the text begins where
the `p`-th text ends, or behind white space after it, it is as printed up to the damage (`Follows`), and what
the first `p` conversions store is that of the date (`AsPrinted`); or (`Stuck`) the damage has been met, and
nothing but white space can be read. The second part is what makes the invariant inductive: a number whose
last digit is gone is read, wrongly, and only the next conversion notices. Numbers are the heart of it:
`conv_num()` takes as many digits as stay below the limit, and must neither stop short nor take a digit of
the next number, printed without anything between.

*With TLC only.* Liveness and fairness (`LogMgr`), which are out of the provers' reach, as are
`ENABLED`, induction over data and RECURSIVE operators (no module declares one). Every invariant that a run
checks is also proved; but `ParseInverts` only for `PlainLayouts`, while the run has formats of every
conversion.

## 5. What was found

1. **stop() against a rotation** (`log_mgr.cpp:89`, run `log_mgr_stop`). `stop()` flushes the loggers
   before it joins `do_logging()`, which may be between `close()` and `open()`: `fwrite()` on a null
   `FILE*`. `CrashExplained` shows that this and an ignored failure of `open()` are the only ways as long
   as there is one `do_logging()`.
2. **Nothing expires in SQLite** (`sqlite_log.cpp:453`, run `sqlite_log_expired`). The difference of
   hours has the wrong sign. `ClearingClearsNothing` states the effect for the default expiry.
3. **A new database has no table** (`sqlite_log.cpp:284-296`, run `sqlite_log_split`). After the daily
   change the rows have no table until the next hourly one; each flush's batch is lost. `TableLacking`
   bounds the window.
4. **Everything is expired in files** (`file_log.cpp:411`, run `retention_expired`). With libstdc++ the
   age test is always true, and the open file is removed at nine tenths of its full size - if the
   logger's path is the working directory. If it is not, nothing is removed at all, because only the
   bare names are passed to `remove()`.

Behaviour to know of, which the models have and no document contradicts:

- `sqlite_log`: hours and days are over when they have moved on by *more than* one
  (`sqlite_log.cpp:183`, `:288`), so that a table takes the rows of up to three hours (`TableSpan`)
  although `sqlite_log.h` speaks of tables by the hour; one INSERT that throws takes its whole flush
  along (`BatchIsAtomic`).
- `csv_log`: its clearing looks for `*.log` files, never for its own `.csv`, takes `m_LogExpired * 1000`
  for seconds, and removes files just written when the clock was set back (`RemovedWereIdle`). It never
  gets the level of the manager.
- `log_mgr`: two first callers of one name may each get a logger, of which one is never flushed
  (`SharedUnlessRaced`). `open()`, in `get_logger()` and in each rotation, undoes `set_level()`, which
  `get_level()` still reports (`SettingsReach`). `start()` calls that overlap leave two `do_logging()`
  threads behind, one of which flushes a logger that the other has closed for rotation: `fwrite()` on a
  null `FILE*` without any `stop()` (`DeathsExplained`). `log(logger, level, const char*, ...)` gives its
  `va_list` to `snprintf()` as the first argument (`TextLossExplained`). When the clock is set back in a
  round, `do_logging()` sleeps for as long as that (`SleepKept`).
- `file_log_mgr`: its formatting overload makes the same mistake with its `va_list`
  (`file_log_mgr.cpp:86`), formats into a buffer that nothing protects, and hands on a `char*`, which
  selects the template `log()` of `file_log`, so that `file_log::log(level, const char*, ...)` is reached
  only by who has a bare `file_log`.
- `util.cpp`: the `strptime()` for Windows refuses a day before the tenth printed by `%e`, and anything
  after `%p` (`ParseInverts`); `%C` and `%y` read the century and the year into the same field.
  `util_flipbytes()` sets, with `| 0xFF00`, the bits it has just moved. `util_gettimestampString()` and
  its like leave out the NUL (`ConversionsExact`). `ci_find_substr()` of two empty strings finds nothing.
  The name `mtutil_log_clear` has 16 characters, one more than `pthread_setname_np()` takes.

## 6. What is not modelled

- **Windows.** The branches for it, but for `strptime()` and `conv_num()` in `TimeText`. Not all of them
  compile as they are: `traverse_files()` for Windows does not, and the `#ifdef _WIN32f` before the
  headers of `util.cpp` (`util.cpp:18`) is misspelt. Files behave as on POSIX.
- **Retention.** A directory is listed in one step (entry by entry in `CsvRetention`). There are no
  files that no file_log made - the code removes those too, by size -, no same-named files of an earlier
  run, and no calls of `clear_expired_log()` by the application. What follows the `return` in
  `file_log::clear_expired_log` (`file_log.cpp:456`) is unreachable.
- **Text.** The layout of a line, `mk_log_string()`, the macros `FFatal()` to `Trace()`, and `printf`
  conversions: `Stamps` only tells whose text a line has, and whether a conversion spoilt it. `SqliteLog`
  models `LogContent()`, to which the formatting `log()` is equal but for reading the time under the lock.
- **Wrappers** of one call in `util.cpp`, and `util_get_vertion()`, which has no state. `log_item`,
  which nothing uses.
- **Clocks set back** while lines are stamped (`Stamps`).
- **Several `do_logging()` threads** at several loggers, or with opens that fail (`StartStop` has one logger).
- **`std::bad_alloc`**, and other failures of the standard library than those of opens, renames and
  `localtime()`'s buffer.
- **The stale copies** under `inc/logging/` and `src/util.cpp`, the build, and the example, which serves
  as the source of the calling order.

What could follow: that `SqliteLog` stores what was logged as `LogStream` says, wherever nothing failed,
no table is lacking and `stop()` does not overtake `do_logging()`; `ParseInverts` for the formats with
names and `%U`, `%W`, `%k`, `%l`; `StoresInOrder` without `~SameSecond`, for the latest archive.
