---------------------------- MODULE CsvRetention ----------------------------
(***************************************************************************)
(* clear_expired_log() of csv_log, and traverse_files(), which lists a     *)
(* directory for it: entry by entry, with a stat() of each.  Meanwhile the *)
(* files of the directory are written, renamed away and made anew, and the *)
(* system's clock moves, or is set back.                                   *)
(*                                                                         *)
(* The ages are uint32_t: they wrap at Width, 2^32 in the code.            *)
(***************************************************************************)
EXTENDS Integers, SequencesExt

CONSTANTS
    Entries,        \* the names in m_Path
    NameOf,         \* [Entries -> the name, as the sequence of its parts
                    \*  between the dots]
    Kind,           \* [Entries -> "file" or "directory"]
    Typed,          \* the entries whose file system fills in d_type
    Width,          \* the range of uint32_t
    SecPerMinute,   \* 1000, by which m_LogExpired is multiplied
    LogExpired,     \* the value m_LogExpired begins with, 24 * 60
    Minutes,        \* the values for set_expired()
    MaxSteps        \* a bound on the moves of the clock

ASSUME CsvRetentionAssumption ==
    /\ NameOf \in [Entries -> Seq(STRING)]
    /\ Kind \in [Entries -> {"file", "directory"}]
    /\ Typed \subseteq Entries
    /\ Width \in Nat \ {0} /\ SecPerMinute \in Nat /\ MaxSteps \in Nat
    /\ Minutes \subseteq Nat /\ LogExpired \in Nat

VARIABLES
    m_LogExpired,
    clock,      \* seconds of system_clock
    moves,      \* how often the clock was moved
    there,      \* the entries that exist
    mtime,      \* [Entries -> when it was last written]
    phase,      \* "out", "listing" or "removing"
    unread,     \* the entries that readdir() has not returned
    fileArray,  \* what was listed: the file_infos not yet looked at
    time_now,   \* the seconds read after the listing
    removed,    \* history: what was removed last in this call
    idle,       \* history: [Entries -> seconds since it was last written]
    fresh,      \* history: the entries written or made since their stat()
    setBack     \* history: the entries not written since the clock was set back

csvClearVars     == <<phase, unread, fileArray, time_now, removed>>
csvPastVars      == <<idle, fresh, setBack>>
csvRetentionVars == <<m_LogExpired, clock, moves, there, mtime, csvClearVars, csvPastVars>>

CsvRetentionInit ==
    /\ m_LogExpired = LogExpired
    /\ clock     = 1
    /\ moves     = 0
    /\ there     = Entries
    /\ mtime     = [e \in Entries |-> 1]
    /\ phase     = "out"
    /\ unread    = {}
    /\ fileArray = {}
    /\ time_now  = 0
    /\ removed   = {}
    /\ idle       = [e \in Entries |-> 0]
    /\ fresh      = {}
    /\ setBack    = {}

\* The value of a uint32_t expression.
U32(n) == n % Width

-----------------------------------------------------------------------------
\* set_expired(), by any thread.
CsvSetExpired(minutes) ==
    /\ m_LogExpired' = U32(minutes)
    /\ minutes # m_LogExpired
    /\ UNCHANGED <<clock, moves, there, mtime, csvClearVars, csvPastVars>>

ClockAdvances ==
    /\ moves < MaxSteps
    /\ moves' = moves + 1
    /\ clock' = clock + 1
    /\ idle'  = [e \in Entries |-> idle[e] + 1]
    /\ UNCHANGED <<m_LogExpired, there, mtime, csvClearVars, fresh, setBack>>

ClockSetBack ==
    /\ moves < MaxSteps /\ clock > 0
    /\ moves'   = moves + 1
    /\ clock'   = clock - 1
    /\ setBack' = Entries
    /\ UNCHANGED <<m_LogExpired, there, mtime, csvClearVars, idle, fresh>>

\* A logger or somebody else writes the file, and makes it if it is not there.
WriteEntry(e) ==
    /\ Kind[e] = "file"
    /\ there'   = there \cup {e}
    /\ mtime'   = [mtime EXCEPT ![e] = clock]
    /\ idle'    = [idle EXCEPT ![e] = 0]
    /\ fresh'   = IF phase = "out" THEN {} ELSE fresh \cup {e}
    /\ setBack' = setBack \ {e}
    /\ UNCHANGED <<m_LogExpired, clock, moves, csvClearVars>>

\* rotate() of a file_log renames the file away.
RenameAway(e) ==
    /\ Kind[e] = "file" /\ e \in there
    /\ there' = there \ {e}
    /\ UNCHANGED <<m_LogExpired, clock, moves, mtime, csvClearVars, csvPastVars>>

-----------------------------------------------------------------------------
\* opendir().
ListBegin ==
    /\ phase = "out"
    /\ phase'   = "listing"
    /\ unread'  = there
    /\ removed' = {}
    /\ UNCHANGED <<m_LogExpired, clock, moves, there, mtime, fileArray, time_now, csvPastVars>>

\* What follows the last dot; all of the name if there is no dot in it.
ExtensionOf(e) == Last(NameOf[e])

\* Directories are left out where the file system tells them.
IsListed(e, suffix) ==
    /\ e \in Typed => Kind[e] # "directory"
    /\ ExtensionOf(e) = suffix

\* file_info has more fields; the name and the time are what is used.
file_info(e, time) == [name |-> e, time_write |-> U32(time)]

\* readdir() and stat(), which leaves the times undefined if the entry is gone.
ListEntry(e) ==
    /\ phase = "listing" /\ e \in unread
    /\ unread' = unread \ {e}
    /\ IF IsListed(e, "log")
       THEN /\ \E time \in IF e \in there THEN {mtime[e]} ELSE 0 .. Width - 1 :
                  fileArray' = fileArray \cup {file_info(e, time)}
            /\ fresh' = fresh \ {e}
       ELSE UNCHANGED <<fileArray, fresh>>
    /\ UNCHANGED <<m_LogExpired, clock, moves, there, mtime, phase, time_now, removed,
                   idle, setBack>>

ListEnd ==
    /\ phase = "listing" /\ unread = {}
    /\ phase'    = "removing"
    /\ time_now' = U32(clock)
    /\ UNCHANGED <<m_LogExpired, clock, moves, there, mtime, unread, fileArray, removed,
                   csvPastVars>>

\* Mutant of IsOld: the other way round.
IsOldReversed(f) == U32(f.time_write - time_now) > U32(m_LogExpired * SecPerMinute)

IsOld(f) == U32(time_now - f.time_write) > U32(m_LogExpired * SecPerMinute)

\* remove() of the whole path, which takes an empty directory as well.
RemoveOld(f) ==
    /\ phase = "removing" /\ f \in fileArray
    /\ fileArray' = fileArray \ {f}
    /\ LET gone == {f.name} \cap {e \in there : IsOld(f)} IN
       /\ there'   = there \ gone
       /\ removed' = {[name  |-> e, idle |-> idle[e],
                        limit |-> m_LogExpired * SecPerMinute,
                        stale |-> e \in setBack \cup fresh] : e \in gone}
    /\ UNCHANGED <<m_LogExpired, clock, moves, mtime, phase, unread, time_now, csvPastVars>>

RemoveEnd ==
    /\ phase = "removing" /\ fileArray = {}
    /\ phase'   = "out"
    /\ removed' = {}
    /\ UNCHANGED <<m_LogExpired, clock, moves, there, mtime, unread, fileArray, time_now,
                   csvPastVars>>

CsvRetentionNext ==
    \/ ClockAdvances \/ ClockSetBack
    \/ \E minutes \in Minutes : CsvSetExpired(minutes)
    \/ \E e \in Entries : WriteEntry(e) \/ RenameAway(e) \/ ListEntry(e)
    \/ ListBegin \/ ListEnd \/ RemoveEnd
    \/ \E f \in fileArray : RemoveOld(f)

CsvRetentionSpec == CsvRetentionInit /\ [][CsvRetentionNext]_csvRetentionVars

-----------------------------------------------------------------------------
(***************************************************************************)
(* Properties.                                                             *)
(***************************************************************************)
FileInfo == [name : Entries, time_write : 0 .. Width - 1]

\* Every variable has its type.
CsvRetentionTypeOK ==
    /\ m_LogExpired \in Nat
    /\ clock \in Nat
    /\ moves \in 0..MaxSteps
    /\ there \subseteq Entries
    /\ mtime \in [Entries -> Nat]
    /\ phase \in {"out", "listing", "removing"}
    /\ unread \subseteq Entries
    /\ fileArray \subseteq FileInfo
    /\ time_now \in 0 .. Width - 1
    /\ removed \subseteq [name : Entries, idle : Nat, limit : Nat, stale : BOOLEAN]
    /\ idle \in [Entries -> Nat]
    /\ fresh \subseteq Entries
    /\ setBack \subseteq Entries

\* clear_expired_log() of csv_log removes no CSV file, and no directory on a
\* file system that tells its type.  A file it removes has been idle for more
\* than m_LogExpired * 1000 seconds, unless the clock was set back since it was
\* written, the product wraps, or it was written or made since its stat().
RemovedWereIdle ==
    \A r \in removed :
        /\ ExtensionOf(r.name) # "csv"
        /\ r.name \in Typed => Kind[r.name] = "file"
        /\ r.idle > r.limit \/ r.stale \/ r.limit >= Width
=============================================================================
