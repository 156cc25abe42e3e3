------------------------------ MODULE Retention ------------------------------
(***************************************************************************)
(* What becomes of the files: do_logging() writes them and rotates them,   *)
(* while the clearing thread runs clear_expired_log() of one file_log_mgr  *)
(* after the other.  Each file_log of it lists the files below m_Path that *)
(* are old and large, and removes them - by their bare names, which the    *)
(* operating system looks up in the working directory.  m_Locker keeps the *)
(* file_log_mgr that clears from rotating, not the others in the           *)
(* directory.                                                              *)
(*                                                                         *)
(* A file is one generation of a file_log.  It is linked under the active  *)
(* name, under a name with a time, or no longer; as on POSIX, a file that  *)
(* is removed while it is open goes on taking lines.  Listing is one step. *)
(***************************************************************************)
EXTENDS Integers, FiniteSets, Functions

CONSTANTS
    Subs,           \* the file_logs
    Managers,       \* the file_log_mgrs
    MgrOf,          \* the file_log_mgr of each file_log
    NoOne,          \* no file_log_mgr
    Dirs,           \* the directories loggers are opened in
    Paths,          \* which of them each file_log_mgr may have
    Cwd,            \* the working directory, which has the others below it
    MaxGen,         \* a bound on the files of each file_log
    MaxSize,        \* a bound on the size of a file
    LogFileLength,  \* a file of this size is due for rotation
    RemovalSize,    \* LogFileLength * 0.9
    LogExpired,     \* m_LogExpired, in minutes
    EpochSlip,      \* minutes by which list_expired_files() dates a file too
                    \* early: 0 where file_time_type counts 100 ns from 1601,
                    \* 109235145 where it counts nanoseconds from 2174
    MaxTime         \* a bound on time

ASSUME RetentionAssumption ==
    /\ IsFiniteSet(Subs)
    /\ MgrOf \in [Subs -> Managers] /\ Range(MgrOf) = Managers
    /\ NoOne \notin Managers
    /\ Cwd \in Dirs /\ Paths \subseteq [Managers -> Dirs]
    /\ MaxGen \in Nat \ {0}
    /\ {MaxSize, LogExpired, EpochSlip, MaxTime} \subseteq Nat
    /\ RemovalSize \in 1..LogFileLength /\ LogFileLength \in 1..MaxSize

File      == [sub : Subs, gen : 1..MaxGen]
SubsOf(m) == {s \in Subs : MgrOf[s] = m}

VARIABLES
    m_Path,     \* of each file_log_mgr
    linked,     \* the name each file has: "active", "archive", or "no" name
    size,       \* of each file
    written,    \* when each file was last written
    made,       \* how many files each file_log has had
    open,       \* the file each m_File refers to, or 0
    rotating,   \* do_logging(): the file_log_mgr it rotates, or NoOne
    stage,      \* and the call that is next: "close", "rotate", "open"
    clearing,   \* the file_log_mgr that runs clear_expired_log(), or NoOne
    round,      \* how many of its file_logs have not finished theirs
    listed,     \* whether the one whose turn it is has its list
    list,       \* the names it has still to remove
    now,        \* minutes
    touched,    \* history: the files written or renamed since the listing
    listedAt    \* history: when that was

fileVars  == <<linked, size, written, made, open>>
clearVars == <<clearing, round, listed, list>>
histVars  == <<touched, listedAt>>
vars == <<m_Path, fileVars, rotating, stage, clearVars, now, histVars>>

\* Every file_log_mgr is open, in a directory of its own or the same.
Init ==
    /\ m_Path   \in Paths
    /\ linked   = [f \in File |-> IF f.gen = 1 THEN "active" ELSE "no"]
    /\ size     = [f \in File |-> 0]
    /\ written  = [f \in File |-> 0]
    /\ made     = [s \in Subs |-> 1]
    /\ open     = [s \in Subs |-> 1]
    /\ rotating = NoOne /\ stage = "close"
    /\ clearing = NoOne /\ round = 0 /\ listed = FALSE /\ list = {}
    /\ now = 0 /\ touched = {} /\ listedAt = 0

DirOf(s)  == m_Path[MgrOf[s]]
Nth(s, n) == [sub |-> s, gen |-> n]

\* Mutant of Free: m_Locker is not taken.
FreeAlways(m) == TRUE

\* m_Locker of m is free.
Free(m) == clearing # m

Tick ==
    /\ now < MaxTime
    /\ now' = now + 1
    /\ UNCHANGED <<m_Path, fileVars, rotating, stage, clearVars, histVars>>

-----------------------------------------------------------------------------
(***************************************************************************)
(* do_logging(): flush(), is_need_rotate(), close(), rotate() and open(),  *)
(* each under m_Locker.                                                    *)
(***************************************************************************)
Touch(F) == touched' = IF listed THEN touched \cup F ELSE {}

\* A flush in which file_log s has lines.
Flush(s) ==
    /\ Free(MgrOf[s]) /\ open[s] # 0
    /\ LET f == Nth(s, open[s]) IN
       /\ size[f] < MaxSize
       /\ size'    = [size EXCEPT ![f] = @ + 1]
       /\ written' = [written EXCEPT ![f] = now]
       /\ Touch({f})
    /\ UNCHANGED <<m_Path, linked, made, open, rotating, stage, clearVars, now,
                   listedAt>>

Active(s) == {f \in File : f.sub = s /\ linked[f] = "active"}

\* Mutant of IsNeedRotate: a file that is gone is due.
IsNeedRotateIfGone(s) == \A f \in Active(s) : size[f] >= LogFileLength

\* std::filesystem::file_size() throws when there is no file of the name.
IsNeedRotate(s) == \E f \in Active(s) : size[f] >= LogFileLength

BeginRotation(m) ==
    /\ rotating = NoOne /\ Free(m)
    /\ \E s \in SubsOf(m) : IsNeedRotate(s)
    /\ rotating' = m /\ stage' = "close"
    /\ UNCHANGED <<m_Path, fileVars, clearVars, now, histVars>>

Close ==
    /\ rotating # NoOne /\ stage = "close" /\ Free(rotating)
    /\ stage' = "rotate"
    /\ open'  = [s \in Subs |-> IF MgrOf[s] = rotating THEN 0 ELSE open[s]]
    /\ UNCHANGED <<m_Path, linked, size, written, made, rotating, clearVars, now,
                   histVars>>

Rotate ==
    /\ rotating # NoOne /\ stage = "rotate" /\ Free(rotating)
    /\ stage' = "open"
    /\ LET due == UNION {Active(s) : s \in {s \in SubsOf(rotating) : IsNeedRotate(s)}} IN
       /\ linked'  = [f \in File |-> IF f \in due THEN "archive" ELSE linked[f]]
       /\ Touch(due)
    /\ UNCHANGED <<m_Path, size, written, made, open, rotating, clearVars, now, listedAt>>

\* Mutant of Open: every file is made, whether there is one of its name or not.
OpenNew ==
    /\ rotating # NoOne /\ stage = "open" /\ Free(rotating)
    /\ LET new == SubsOf(rotating) IN
       /\ \A s \in new : made[s] < MaxGen
       /\ made'   = [s \in Subs |-> IF s \in new THEN made[s] + 1 ELSE made[s]]
       /\ linked' = [f \in File |-> IF f.sub \in new /\ f.gen = made'[f.sub]
                                    THEN "active" ELSE linked[f]]
       /\ open'   = [s \in Subs |-> IF MgrOf[s] = rotating THEN made'[s] ELSE open[s]]
    /\ rotating' = NoOne /\ stage' = "close"
    /\ UNCHANGED <<m_Path, size, written, clearVars, now, histVars>>

\* The file under the active name is opened, or made if there is none.
Open ==
    /\ rotating # NoOne /\ stage = "open" /\ Free(rotating)
    /\ LET new == {s \in SubsOf(rotating) : Active(s) = {}} IN
       /\ \A s \in new : made[s] < MaxGen
       /\ made'   = [s \in Subs |-> IF s \in new THEN made[s] + 1 ELSE made[s]]
       /\ linked' = [f \in File |-> IF f.sub \in new /\ f.gen = made'[f.sub]
                                    THEN "active" ELSE linked[f]]
       /\ open'   = [s \in Subs |-> IF MgrOf[s] = rotating THEN made'[s] ELSE open[s]]
    /\ rotating' = NoOne /\ stage' = "close"
    /\ UNCHANGED <<m_Path, size, written, clearVars, now, histVars>>

do_logging ==
    \/ \E s \in Subs : Flush(s)
    \/ \E m \in Managers : BeginRotation(m)
    \/ Close \/ Rotate \/ Open

-----------------------------------------------------------------------------
(***************************************************************************)
(* The clearing thread: clear_expired_log() of one file_log_mgr, which     *)
(* calls it for each of its file_logs.                                     *)
(***************************************************************************)
ClearBegin(m) ==
    /\ clearing = NoOne
    /\ clearing' = m
    /\ round'    = Cardinality(SubsOf(m))
    /\ UNCHANGED <<m_Path, fileVars, rotating, stage, listed, list, now, histVars>>

\* The name of a file without its directory: the active one has no time in it.
NameOf(f) == [sub |-> f.sub, gen |-> IF linked[f] = "active" THEN 0 ELSE f.gen]
Named(name) == {f \in File : linked[f] # "no" /\ NameOf(f) = name}

Below(d) == IF d = Cwd THEN Dirs ELSE {d}

ExpiredAt(f, time) ==
    /\ time - written[f] + EpochSlip > LogExpired
    /\ size[f] >= RemovalSize

Expired(f) == ExpiredAt(f, now)

\* Mutant of ListExpired: only the files of this file_log_mgr.
ListOwn ==
    /\ clearing # NoOne /\ ~listed
    /\ listed'  = TRUE
    /\ list'    = {NameOf(f) : f \in {f \in File : /\ linked[f] # "no"
                                                   /\ MgrOf[f.sub] = clearing
                                                   /\ Expired(f)}}
    /\ listedAt' = now
    /\ UNCHANGED <<m_Path, fileVars, rotating, stage, clearing, round, now, touched>>

ListExpired ==
    /\ clearing # NoOne /\ ~listed
    /\ listed'  = TRUE
    /\ list'    = {NameOf(f) : f \in {f \in File : /\ linked[f] # "no"
                                                   /\ DirOf(f.sub) \in Below(m_Path[clearing])
                                                   /\ Expired(f)}}
    /\ listedAt' = now
    /\ UNCHANGED <<m_Path, fileVars, rotating, stage, clearing, round, now, touched>>

\* What a name refers to when it is removed: it is looked up in the working
\* directory, wherever it was listed.
Removed(name) == {f \in Named(name) : DirOf(f.sub) = Cwd}

RemoveNext ==
    /\ listed
    /\ \E name \in list :
          /\ list'   = list \ {name}
          /\ linked' = [f \in File |-> IF f \in Removed(name) THEN "no" ELSE linked[f]]
    /\ UNCHANGED <<m_Path, size, written, made, open, rotating, stage, clearing,
                   round, listed, now, histVars>>

ClearEnd ==
    /\ listed /\ list = {}
    /\ listed'   = FALSE
    /\ round'    = round - 1
    /\ clearing' = IF round = 1 THEN NoOne ELSE clearing
    /\ touched'  = {} /\ listedAt' = 0
    /\ UNCHANGED <<m_Path, fileVars, rotating, stage, list, now>>

clear_expired_log ==
    \/ \E m \in Managers : ClearBegin(m)
    \/ ListExpired \/ RemoveNext \/ ClearEnd

-----------------------------------------------------------------------------
Next == Tick \/ do_logging \/ clear_expired_log

Spec == Init /\ [][Next]_vars

-----------------------------------------------------------------------------
(***************************************************************************)
(* Properties.                                                             *)
(***************************************************************************)

\* Every variable has its type, and each file_log has one file of its name.
TypeOK ==
    /\ m_Path \in [Managers -> Dirs]
    /\ linked \in [File -> {"active", "archive", "no"}]
    /\ size \in [File -> 0..MaxSize]
    /\ written \in [File -> 0..MaxTime]
    /\ made \in [Subs -> 1..MaxGen]
    /\ open \in [Subs -> 0..MaxGen]
    /\ rotating \in Managers \cup {NoOne}
    /\ stage \in {"close", "rotate", "open"}
    /\ clearing \in Managers \cup {NoOne}
    /\ round \in 0..Cardinality(Subs)
    /\ listed \in BOOLEAN
    /\ list \subseteq [sub : Subs, gen : 0..MaxGen]
    /\ now \in 0..MaxTime
    /\ touched \subseteq File /\ listedAt \in 0..MaxTime
    /\ \A s \in Subs : Cardinality(Active(s)) <= 1

IsRemoved(f) == linked[f] # "no" /\ linked'[f] = "no"

\* A file below the size limit is removed only if it took the place of a larger
\* one after that was listed, which m_Locker leaves to the files of the other
\* file_log_mgrs; and a file that was rotated away is large.
SmallOnlyByOthers ==
    [][\A f \in File :
          IsRemoved(f) /\ size[f] < RemovalSize =>
              MgrOf[f.sub] # clearing /\ linked[f] = "active"]_vars

\* When a file_log_mgr that logs to the working directory has cleared it, what is
\* left there of the files that had expired when it listed them has been written
\* or renamed meanwhile, whoever the files belong to.
ClearedWhenDone ==
    listed /\ list = {} /\ m_Path[clearing] = Cwd =>
        \A f \in File \ touched :
            linked[f] # "no" /\ DirOf(f.sub) = Cwd => ~ExpiredAt(f, listedAt)

\* All the files a file_log_mgr has open have been removed.
Gone(m) ==
    /\ rotating # m
    /\ \A s \in SubsOf(m) : open[s] # 0 /\ linked[Nth(s, open[s])] = "no"

\* Then they stay open, and no line reaches a file that has a name any more: it
\* takes a full file of the same file_log_mgr to have its files reopened.
GoneForGood == [][\A m \in Managers : Gone(m) => Gone(m)']_vars

\* What file_log.h says of m_LogExpired: a file that was written less than so
\* many minutes ago is not expired, and is not removed.
ExpiredOnly ==
    [][\A f \in File : IsRemoved(f) => now - written[f] > LogExpired]_vars
=============================================================================
