---------------------------- MODULE SqliteLogProofs ----------------------------
(***************************************************************************)
(* Proofs about SqliteLog, for any number of lines and hours.              *)
(*                                                                         *)
(* Inv is inductive by itself.  HourInv bounds how far what is stored may  *)
(* be ahead of m_HourLatest, which is all clear_expired_log() compares;    *)
(* NullInv says when there is no database.  The invariants after it are    *)
(* inductive relative to it: LinkedInv and LackInv for the tables, SpanInv *)
(* for the hours of the rows, StoreInv for what the rows hold.             *)
(***************************************************************************)
EXTENDS SqliteLog, ABCacheTheorems

Places == {"idle", "taken", "insert", "check", "close", "open", "new", "done",
           "exit", "gone"}

TypeInv ==
    /\ now \in Hours /\ m_HourLatest \in Hours
    /\ m_Database \in Hours \cup {Null}
    /\ files \subseteq Hours /\ toClear \subseteq Hours
    /\ tables \subseteq Table
    /\ pc \in [Flushers -> Places]
    /\ crossed \subseteq Flushers
    /\ locker \in Flushers \cup {"none"}

\* The places of do_logging() after IfTableNeedSplit() has looked at the hour.
LookedAtHour == {"insert", "check", "close", "open", "new"}

HourInv ==
    /\ m_HourLatest <= now
    /\ pc["dl"] \in LookedAtHour =>
          now - m_HourLatest <= IF "dl" \in crossed THEN 2 ELSE 1
    /\ m_Database <= m_HourLatest + 2
    /\ \A db \in files \cup toClear : db <= m_HourLatest + 2
    /\ \A t \in tables : t.name <= m_HourLatest

LockInv == \A t \in Flushers : locker = t <=> pc[t] = "insert"

NullInv ==
    m_Database = Null /\ ~openFailed /\ ~crashed =>
        pc["dl"] = "new" \/ (pc["dl"] = "gone" /\ pc["ctl"] = "gone")

Inv == TypeInv /\ HourInv /\ (~crashed => LockInv) /\ NullInv /\ CrashExplained

-----------------------------------------------------------------------------
LEMMA HoursAreNat ==
    /\ Hours \subseteq Nat /\ \A h \in Hours : h >= 1
    /\ Null = 0 /\ Null \notin Hours /\ MaxHour \in Nat
  BY SqliteLogAssumption DEF Hours, Null

\* m_LogExpired in hours, for what ClearingClearsNothing is about.
LEMMA ExpiredHoursAtLeast ==
    LogExpired >= 180 => ExpiredHours \in Nat /\ ExpiredHours >= 3
  <1>1. LogExpired \in Nat
    BY SqliteLogAssumption
  <1>2. /\ LogExpired \div 60 \in Nat
        /\ LogExpired >= 180 => LogExpired \div 60 >= 3
    BY <1>1
  <1> QED
    BY <1>2 DEF ExpiredHours

\* Nothing there is to clear is ahead of m_HourLatest by three hours.
LEMMA NothingExpires ==
    ASSUME Inv, LogExpired >= 180
    PROVE  /\ \A db \in toClear : ~IsTimeExpired(db)
           /\ \A t \in tables : ~IsTimeExpired(t.name)
  <1>1. /\ m_HourLatest \in Nat /\ toClear \subseteq Nat
        /\ \A t \in tables : t.name \in Nat
        /\ ExpiredHours \in Nat /\ ExpiredHours >= 3
    BY HoursAreNat, ExpiredHoursAtLeast DEF Inv, TypeInv, Table
  <1>2. /\ \A db \in toClear : db <= m_HourLatest + 2
        /\ \A t \in tables : t.name <= m_HourLatest
    BY DEF Inv, HourInv
  <1>3. ASSUME NEW db \in toClear PROVE ~IsTimeExpired(db)
    BY <1>1, <1>2 DEF IsTimeExpired
  <1>4. ASSUME NEW t \in tables PROVE ~IsTimeExpired(t.name)
    BY <1>1, <1>2 DEF IsTimeExpired
  <1> QED
    BY <1>3, <1>4

LEMMA InitInv == Init => Inv
  <1> SUFFICES ASSUME Init PROVE Inv
    OBVIOUS
  <1>1. now \in Hours
    BY SqliteLogAssumption DEF Init, Hours
  <1>2. TypeInv
    BY <1>1 DEF Init, TypeInv, Places, Table
  <1>3. HourInv
    BY <1>1, HoursAreNat DEF Init, HourInv, LookedAtHour, Flushers
  <1>4. LockInv /\ NullInv /\ CrashExplained
    BY <1>1, HoursAreNat DEF Init, LockInv, NullInv, CrashExplained, Flushers
  <1> QED
    BY <1>2, <1>3, <1>4 DEF Inv

-----------------------------------------------------------------------------
(***************************************************************************)
(* The steps.                                                              *)
(***************************************************************************)

\* A step that makes no database and no table, and in which no hour begins.
LEMMA HourFrame ==
    ASSUME Inv, UNCHANGED <<now, m_HourLatest>>,
           m_Database' \in {m_Database, Null},
           files' \subseteq files, toClear' \subseteq files \cup toClear,
           tables' \subseteq tables,
           pc' \in [Flushers -> Places], crossed' \subseteq Flushers,
           locker' \in Flushers \cup {"none"},
           pc'["dl"] \in LookedAtHour =>
               pc["dl"] \in LookedAtHour /\ ("dl" \in crossed' <=> "dl" \in crossed)
    PROVE  TypeInv' /\ HourInv'
  <1>0. TypeInv /\ HourInv
    BY DEF Inv
  <1>1. TypeInv'
    BY <1>0 DEF TypeInv
  <1>2. m_Database' <= m_HourLatest' + 2
    BY <1>0, HoursAreNat DEF TypeInv, HourInv
  <1>3. \A db \in files' \cup toClear' : db <= m_HourLatest' + 2
    BY <1>0 DEF HourInv
  <1>4. \A t \in tables' : t.name <= m_HourLatest'
    BY <1>0 DEF HourInv
  <1>5. pc'["dl"] \in LookedAtHour =>
            now' - m_HourLatest' <= IF "dl" \in crossed' THEN 2 ELSE 1
    BY <1>0 DEF HourInv
  <1>6. m_HourLatest' <= now'
    BY <1>0 DEF HourInv
  <1> QED
    BY <1>1, <1>2, <1>3, <1>4, <1>5, <1>6 DEF HourInv

LEMMA KeepsTick == Inv /\ Tick => Inv'
  <1> SUFFICES ASSUME Inv, Tick PROVE Inv'
    OBVIOUS
  <1>0. /\ TypeInv /\ HourInv /\ LockInv /\ NullInv /\ CrashExplained /\ ~crashed
        /\ now' = now + 1 /\ now < MaxHour /\ crossed = {}
        /\ crossed' = {t \in Flushers : pc[t] \in {"taken", "insert", "check", "close",
                                                   "open", "new"}}
        /\ UNCHANGED <<m_HourLatest, m_Database, files, tables, pc, locker, toClear,
                       crashed, openFailed>>
    BY DEF Inv, Tick, dbVars, endVars
  <1>1. now \in 1..MaxHour /\ m_HourLatest \in Nat /\ MaxHour \in Nat
    BY <1>0, HoursAreNat DEF TypeInv, Hours
  <1>2. TypeInv'
    <2>1. now' \in Hours
      BY <1>0, <1>1 DEF Hours
    <2> QED
      BY <1>0, <2>1 DEF TypeInv
  <1>3. pc["dl"] \in LookedAtHour =>
            now' - m_HourLatest <= IF "dl" \in crossed' THEN 2 ELSE 1
    <2> SUFFICES ASSUME pc["dl"] \in LookedAtHour
                 PROVE  now' - m_HourLatest <= IF "dl" \in crossed' THEN 2 ELSE 1
      OBVIOUS
    <2>1. now - m_HourLatest <= 1
      BY <1>0 DEF HourInv
    <2>2. "dl" \in crossed'
      BY <1>0 DEF Flushers, LookedAtHour
    <2> QED
      BY <1>0, <1>1, <2>1, <2>2
  <1>4. HourInv'
    BY <1>0, <1>1, <1>3 DEF HourInv
  <1>5. LockInv' /\ NullInv' /\ CrashExplained'
    BY <1>0 DEF LockInv, NullInv, CrashExplained
  <1> QED
    BY <1>2, <1>4, <1>5 DEF Inv

LEMMA KeepsLog == ASSUME Inv, NEW line \in Lines, LogContent(line) PROVE Inv'
  <1>0. UNCHANGED <<now, m_HourLatest, m_Database, files, tables, pc, crossed, locker,
                    toClear, crashed, openFailed>>
    BY DEF LogContent, timeVars, dbVars, flushVars, clearVars, endVars
  <1> QED
    BY <1>0 DEF Inv, TypeInv, HourInv, LockInv, NullInv, CrashExplained

LEMMA KeepsTake == ASSUME Inv, NEW t \in Flushers, FlushTake(t) PROVE Inv'
  <1>0. /\ TypeInv /\ HourInv /\ LockInv /\ NullInv /\ CrashExplained /\ ~crashed
        /\ pc[t] = "idle" /\ pc' = [pc EXCEPT ![t] = "taken"]
        /\ UNCHANGED <<now, m_HourLatest, m_Database, files, tables, crossed, locker,
                       toClear, crashed, openFailed>>
    BY DEF Inv, FlushTake, GoTo, timeVars, dbVars, clearVars, endVars
  <1>1. /\ pc \in [Flushers -> Places] /\ crossed \subseteq Flushers
        /\ locker \in Flushers \cup {"none"}
    BY <1>0 DEF TypeInv
  <1>2. /\ pc' \in [Flushers -> Places] /\ pc'[t] = "taken"
        /\ \A u \in Flushers \ {t} : pc'[u] = pc[u]
    BY <1>0, <1>1 DEF Places
  <1>3. pc'["dl"] \in LookedAtHour => pc["dl"] \in LookedAtHour
    BY <1>2 DEF LookedAtHour, Flushers
  <1>4. TypeInv' /\ HourInv'
    BY <1>0, <1>1, <1>2, <1>3, HourFrame
  <1>5. LockInv' /\ NullInv' /\ CrashExplained'
    BY <1>0, <1>2 DEF LockInv, NullInv, CrashExplained, Flushers
  <1> QED
    BY <1>4, <1>5 DEF Inv

LEMMA KeepsSplit == ASSUME Inv, NEW t \in Flushers, FlushSplit(t) PROVE Inv'
  <1>0. /\ TypeInv /\ HourInv /\ LockInv /\ NullInv /\ CrashExplained /\ ~crashed
        /\ pc[t] = "taken" /\ pc' = [pc EXCEPT ![t] = "insert"]
        /\ locker = "none" /\ locker' = t
        /\ m_HourLatest' = IF HourIsOver THEN now ELSE m_HourLatest
        /\ UNCHANGED <<now, m_Database, files, crossed, toClear, crashed, openFailed>>
    BY DEF Inv, FlushSplit, GoTo, clearVars
  <1>1. /\ now \in Nat /\ m_HourLatest \in Nat /\ m_HourLatest <= now
        /\ now \in Hours /\ m_HourLatest \in Hours /\ files \cup toClear \subseteq Nat
        /\ m_Database \in Nat
    BY <1>0, HoursAreNat DEF TypeInv, HourInv
  <1>2. /\ m_HourLatest' \in Hours /\ m_HourLatest' \in Nat
        /\ m_HourLatest <= m_HourLatest' /\ m_HourLatest' <= now
        /\ now - m_HourLatest' <= 1
    BY <1>0, <1>1 DEF HourIsOver
  <1>a. PICK hour \in Nat : m_HourLatest' = hour
    BY <1>2
  <1>b. /\ now \in Nat /\ m_HourLatest \in Nat
        /\ m_HourLatest <= hour /\ now - hour <= 1
    BY <1>a, <1>1, <1>2
  <1>3. /\ pc' \in [Flushers -> Places] /\ pc'[t] = "insert"
        /\ \A u \in Flushers \ {t} : pc'[u] = pc[u]
    BY <1>0 DEF TypeInv, Places
  <1>4. \A u \in tables' : u \in tables \/ (u \in Table /\ u.name = m_HourLatest')
    <2> DEFINE new == [db |-> m_Database, name |-> m_TableName']
    <2>1. CASE tables' = tables \cup {new} /\ m_Database # Null
      <3>1. m_Database \in Hours /\ m_TableName' = m_HourLatest'
        BY <1>0, <2>1 DEF TypeInv, FlushSplit, SetTableName
      <3>2. new \in Table /\ new.name = m_HourLatest'
        BY <1>2, <3>1 DEF Table
      <3> HIDE DEF new
      <3> QED
        BY <2>1, <3>2
    <2>2. CASE tables' = tables
      BY <2>2
    <2> QED
      BY <2>1, <2>2 DEF FlushSplit
  <1>5. TypeInv'
    <2>1. tables' \subseteq Table
      BY <1>0, <1>4 DEF TypeInv
    <2> QED
      BY <1>0, <1>2, <1>3, <2>1 DEF TypeInv
  <1>6. HourInv'
    <2>1. pc'["dl"] \in LookedAtHour =>
              now - m_HourLatest' <= IF "dl" \in crossed THEN 2 ELSE 1
      BY <1>a, <1>b
    <2>2. m_Database <= m_HourLatest' + 2
      BY <1>0, <1>1, <1>2 DEF HourInv
    <2>3. ASSUME NEW db \in files \cup toClear PROVE db <= m_HourLatest' + 2
      <3>1. db \in Nat /\ db <= m_HourLatest + 2
        BY <1>0, <1>1 DEF HourInv
      <3> QED
        BY <1>a, <1>b, <3>1
    <2>4. ASSUME NEW u \in tables' PROVE u.name <= m_HourLatest'
      <3>1. CASE u \in tables
        <4>1. u.name \in Nat /\ u.name <= m_HourLatest
          BY <1>0, <3>1, HoursAreNat DEF TypeInv, Table, HourInv
        <4> QED
          BY <1>1, <1>2, <4>1
      <3>2. CASE u.name = m_HourLatest'
        BY <1>2, <3>2
      <3> QED
        BY <1>4, <3>1, <3>2
    <2> QED
      BY <1>0, <1>2, <2>1, <2>2, <2>3, <2>4 DEF HourInv
  <1>7. LockInv'
    <2>1. \A u \in Flushers : pc[u] # "insert"
      BY <1>0 DEF LockInv, Flushers
    <2> QED
      BY <1>0, <1>3, <2>1 DEF LockInv
  <1>8. NullInv'
    BY <1>0, <1>3 DEF NullInv, Flushers
  <1>9. CrashExplained'
    BY <1>0 DEF CrashExplained
  <1> QED
    BY <1>5, <1>6, <1>7, <1>8, <1>9 DEF Inv

LEMMA KeepsInsert == ASSUME Inv, NEW t \in Flushers, FlushInsert(t) PROVE Inv'
  <1>0. /\ TypeInv /\ HourInv /\ LockInv /\ NullInv /\ CrashExplained /\ ~crashed
        /\ pc[t] = "insert"
        /\ UNCHANGED <<now, m_HourLatest, m_Database, files, tables, toClear, openFailed>>
    BY DEF Inv, FlushInsert, timeVars, clearVars
  <1>1. CASE m_Database = Null /\ crashed' = TRUE /\ UNCHANGED flushVars
    <2>1. UNCHANGED <<pc, crossed, locker>>
      BY <1>1 DEF flushVars
    <2>2. TypeInv' /\ HourInv'
      BY <1>0, <2>1 DEF TypeInv, HourInv
    <2>3. NullInv'
      BY <1>1 DEF NullInv
    <2>4. CrashExplained'
      BY <1>0, <1>1, <2>1 DEF CrashExplained, NullInv, Flushers
    <2> QED
      BY <1>1, <2>2, <2>3, <2>4 DEF Inv
  <1>2. CASE FlushReturns(t) /\ UNCHANGED crashed
    <2>1. /\ pc' = [pc EXCEPT ![t] = IF t = "dl" THEN "check" ELSE "done"]
          /\ crossed' = IF t = "dl" THEN crossed ELSE crossed \ {t}
          /\ locker' = "none" /\ crashed' = crashed
      BY <1>2 DEF FlushReturns, GoTo
    <2>2. pc \in [Flushers -> Places] /\ crossed \subseteq Flushers
      BY <1>0 DEF TypeInv
    <2>3. /\ pc' \in [Flushers -> Places] /\ pc'[t] \in {"check", "done"}
          /\ t = "dl" => pc'[t] = "check"
          /\ \A u \in Flushers \ {t} : pc'[u] = pc[u]
      BY <2>1, <2>2 DEF Places
    <2>4. crossed' \subseteq Flushers /\ locker' \in Flushers \cup {"none"}
          /\ ("dl" \in crossed' <=> "dl" \in crossed)
      BY <2>1, <2>2
    <2>5. pc'["dl"] \in LookedAtHour => pc["dl"] \in LookedAtHour
      BY <1>0, <2>3 DEF LookedAtHour, Flushers
    <2>6. TypeInv' /\ HourInv'
      BY <1>0, <2>3, <2>4, <2>5, HourFrame
    <2>7. LockInv'
      <3>1. \A u \in Flushers \ {t} : pc[u] # "insert"
        BY <1>0 DEF LockInv
      <3> QED
        BY <2>1, <2>3, <3>1 DEF LockInv, Flushers
    <2>8. NullInv' /\ CrashExplained'
      BY <1>0, <2>1, <2>3 DEF NullInv, CrashExplained, Flushers
    <2> QED
      BY <2>6, <2>7, <2>8 DEF Inv
  <1> QED
    BY <1>1, <1>2 DEF FlushInsert

\* do_logging() goes on without touching what is stored.
LEMMA KeepsIsNeedRotate == Inv /\ is_need_rotate => Inv'
  <1> SUFFICES ASSUME Inv, is_need_rotate PROVE Inv'
    OBVIOUS
  <1>0. /\ TypeInv /\ HourInv /\ LockInv /\ NullInv /\ CrashExplained /\ ~crashed
        /\ pc["dl"] = "check"
        /\ UNCHANGED <<now, m_HourLatest, m_Database, files, tables, locker, toClear,
                       crashed, openFailed>>
    BY DEF Inv, is_need_rotate, dbVars, clearVars, endVars
  <1>1. /\ pc \in [Flushers -> Places] /\ crossed \subseteq Flushers
        /\ locker \in Flushers \cup {"none"}
    BY <1>0 DEF TypeInv
  <1>2. PICK at \in {"close", "done", "idle"} :
            /\ pc' = [pc EXCEPT !["dl"] = at]
            /\ crossed' = IF at = "close" THEN crossed ELSE crossed \ {"dl"}
    <2>1. CASE GoTo("dl", "close") /\ UNCHANGED crossed
      BY <2>1 DEF GoTo
    <2>2. CASE RoundEnds
      BY <2>2 DEF RoundEnds, GoTo
    <2> QED
      BY <2>1, <2>2 DEF is_need_rotate
  <1>3. /\ pc' \in [Flushers -> Places] /\ pc'["dl"] = at /\ pc'["ctl"] = pc["ctl"]
        /\ crossed' \subseteq Flushers
    BY <1>1, <1>2 DEF Places, Flushers
  <1>4. pc'["dl"] \in LookedAtHour =>
            pc["dl"] \in LookedAtHour /\ ("dl" \in crossed' <=> "dl" \in crossed)
    BY <1>0, <1>2, <1>3 DEF LookedAtHour
  <1>5. TypeInv' /\ HourInv'
    BY <1>0, <1>1, <1>3, <1>4, HourFrame
  <1>6. LockInv' /\ NullInv' /\ CrashExplained'
    BY <1>0, <1>3 DEF LockInv, NullInv, CrashExplained, Flushers
  <1> QED
    BY <1>5, <1>6 DEF Inv

\* A name that may be opened leaves HourInv alone.
LEMMA OpensDatabase ==
    ASSUME Inv, NEW name \in Hours, name <= m_HourLatest + 2, OpenDatabase(name),
           UNCHANGED <<now, m_HourLatest, toClear>>, tables' \subseteq tables,
           pc' \in [Flushers -> Places], crossed' \subseteq Flushers,
           locker' \in Flushers \cup {"none"},
           pc'["dl"] \in LookedAtHour =>
               pc["dl"] \in LookedAtHour /\ ("dl" \in crossed' <=> "dl" \in crossed)
    PROVE  /\ TypeInv' /\ HourInv'
           /\ m_Database' = Null => openFailed'
           /\ openFailed => openFailed'
  <1>0. TypeInv /\ HourInv
    BY DEF Inv
  <1>1. /\ m_Database' \in {name, Null} /\ files' \subseteq files \cup {name}
        /\ m_Database' = Null => openFailed'
        /\ openFailed => openFailed'
    BY HoursAreNat DEF OpenDatabase
  <1>2. TypeInv'
    BY <1>0, <1>1 DEF TypeInv
  <1>3. m_Database' <= m_HourLatest' + 2
    BY <1>0, <1>1, HoursAreNat DEF TypeInv
  <1>4. \A db \in files' \cup toClear' : db <= m_HourLatest' + 2
    BY <1>0, <1>1 DEF HourInv
  <1>5. pc'["dl"] \in LookedAtHour =>
            now' - m_HourLatest' <= IF "dl" \in crossed' THEN 2 ELSE 1
    BY <1>0 DEF HourInv
  <1>6. m_HourLatest' <= now' /\ \A t \in tables' : t.name <= m_HourLatest'
    BY <1>0 DEF HourInv
  <1> QED
    BY <1>1, <1>2, <1>3, <1>4, <1>5, <1>6 DEF HourInv

LEMMA KeepsClose == Inv /\ close => Inv'
  <1> SUFFICES ASSUME Inv, close PROVE Inv'
    OBVIOUS
  <1>0. /\ TypeInv /\ HourInv /\ LockInv /\ NullInv /\ CrashExplained /\ ~crashed
        /\ pc["dl"] = "close" /\ pc' = [pc EXCEPT !["dl"] = "open"]
        /\ tables' \subseteq tables
        /\ UNCHANGED <<now, m_HourLatest, locker, crossed, toClear, crashed>>
    BY DEF Inv, close, KeptTables, GoTo, timeVars, clearVars
  <1>1. /\ pc' \in [Flushers -> Places] /\ pc'["dl"] = "open" /\ pc'["ctl"] = pc["ctl"]
        /\ crossed' \subseteq Flushers /\ locker' \in Flushers \cup {"none"}
    BY <1>0 DEF TypeInv, Places, Flushers
  <1>2. pc'["dl"] \in LookedAtHour =>
            pc["dl"] \in LookedAtHour /\ ("dl" \in crossed' <=> "dl" \in crossed)
    BY <1>0 DEF LookedAtHour
  <1>3. CASE m_Database # Null /\ OpenDatabase(m_Database)
    <2>1. m_Database \in Hours /\ m_Database <= m_HourLatest + 2
      BY <1>0, <1>3 DEF TypeInv, HourInv
    <2>2. /\ TypeInv' /\ HourInv'
          /\ m_Database' = Null => openFailed'
          /\ openFailed => openFailed'
      BY <1>0, <1>1, <1>2, <1>3, <2>1, OpensDatabase
    <2>3. LockInv' /\ NullInv' /\ CrashExplained'
      BY <1>0, <1>1, <2>2 DEF LockInv, NullInv, CrashExplained, Flushers
    <2> QED
      BY <2>2, <2>3 DEF Inv
  <1>4. CASE UNCHANGED <<m_Database, files, openFailed>>
    <2>1. TypeInv' /\ HourInv'
      BY <1>0, <1>1, <1>2, <1>4, HourFrame
    <2>2. LockInv' /\ NullInv' /\ CrashExplained'
      BY <1>0, <1>1, <1>4 DEF LockInv, NullInv, CrashExplained, Flushers
    <2> QED
      BY <2>1, <2>2 DEF Inv
  <1> QED
    BY <1>3, <1>4 DEF close

LEMMA KeepsOpenDelete == Inv /\ openDelete => Inv'
  <1> SUFFICES ASSUME Inv, openDelete PROVE Inv'
    OBVIOUS
  <1>0. /\ TypeInv /\ HourInv /\ LockInv /\ NullInv /\ CrashExplained /\ ~crashed
        /\ pc["dl"] = "open" /\ pc' = [pc EXCEPT !["dl"] = "new"]
        /\ m_Database' = Null /\ crashed' \in {FALSE, locker # "none"}
        /\ tables' \subseteq tables
        /\ UNCHANGED <<now, m_HourLatest, files, locker, crossed, toClear, openFailed>>
    BY DEF Inv, openDelete, KeptTables, GoTo, timeVars, clearVars
  <1>1. /\ pc' \in [Flushers -> Places] /\ pc'["dl"] = "new" /\ pc'["ctl"] = pc["ctl"]
        /\ crossed' \subseteq Flushers /\ locker' \in Flushers \cup {"none"}
    BY <1>0 DEF TypeInv, Places, Flushers
  <1>2. pc'["dl"] \in LookedAtHour =>
            pc["dl"] \in LookedAtHour /\ ("dl" \in crossed' <=> "dl" \in crossed)
    BY <1>0 DEF LookedAtHour
  <1>3. TypeInv' /\ HourInv'
    BY <1>0, <1>1, <1>2, HourFrame
  <1>4. LockInv'
    BY <1>0, <1>1 DEF LockInv, Flushers
  <1>5. NullInv'
    BY <1>1 DEF NullInv
  <1>6. CrashExplained'
    <2>1. crashed' => locker # "none"
      BY <1>0
    <2>2. ASSUME locker \in Flushers PROVE locker # "none" => pc["ctl"] = "insert"
      BY <1>0, <2>2 DEF LockInv, Flushers
    <2> QED
      BY <1>0, <1>1, <2>1, <2>2 DEF CrashExplained, LockInv, Flushers
  <1> QED
    BY <1>3, <1>4, <1>5, <1>6 DEF Inv

LEMMA KeepsOpenNew == Inv /\ openNew => Inv'
  <1> SUFFICES ASSUME Inv, openNew PROVE Inv'
    OBVIOUS
  <1>0. /\ TypeInv /\ HourInv /\ LockInv /\ NullInv /\ CrashExplained /\ ~crashed
        /\ pc["dl"] = "new" /\ RoundEnds /\ OpenDatabase(now)
        /\ UNCHANGED <<now, m_HourLatest, tables, locker, toClear, crashed>>
    BY DEF Inv, openNew, timeVars, clearVars
  <1>1. PICK at \in {"done", "idle"} :
            pc' = [pc EXCEPT !["dl"] = at] /\ crossed' = crossed \ {"dl"}
    BY <1>0 DEF RoundEnds, GoTo
  <1>2. /\ pc' \in [Flushers -> Places] /\ pc'["dl"] = at /\ pc'["ctl"] = pc["ctl"]
        /\ crossed' \subseteq Flushers /\ locker' \in Flushers \cup {"none"}
    BY <1>0, <1>1 DEF TypeInv, Places, Flushers
  <1>3. pc'["dl"] \notin LookedAtHour
    BY <1>2 DEF LookedAtHour
  <1>4. now \in Hours /\ now <= m_HourLatest + 2
    <2>1. now - m_HourLatest <= 2
      BY <1>0, HoursAreNat DEF TypeInv, HourInv, LookedAtHour
    <2> QED
      BY <1>0, <2>1, HoursAreNat DEF TypeInv
  <1>5. /\ TypeInv' /\ HourInv'
        /\ m_Database' = Null => openFailed'
        /\ openFailed => openFailed'
    BY <1>0, <1>2, <1>3, <1>4, OpensDatabase
  <1>6. LockInv' /\ NullInv' /\ CrashExplained'
    BY <1>0, <1>2, <1>5 DEF LockInv, NullInv, CrashExplained, Flushers
  <1> QED
    BY <1>5, <1>6 DEF Inv

\* exit() and ~sqlite_log() only move the two threads on.
LEMMA KeepsExit == Inv /\ (Exit \/ sqlite_log_dtor \/ sqlite_log_gone) => Inv'
  <1> SUFFICES ASSUME Inv, Exit \/ sqlite_log_dtor \/ sqlite_log_gone PROVE Inv'
    OBVIOUS
  <1>0. /\ TypeInv /\ HourInv /\ LockInv /\ NullInv /\ CrashExplained /\ ~crashed
        /\ tables' \subseteq tables
        /\ UNCHANGED <<now, m_HourLatest, files, crossed, locker, toClear, crashed,
                       openFailed>>
    BY DEF Inv, Exit, sqlite_log_dtor, sqlite_log_gone, KeptTables, timeVars, dbVars,
           clearVars, endVars
  <1>1. /\ pc \in [Flushers -> Places] /\ crossed \subseteq Flushers
        /\ locker \in Flushers \cup {"none"}
    BY <1>0 DEF TypeInv
  <1>2. /\ pc["dl"] # "insert" /\ pc["ctl"] # "insert"
        /\ pc' \in [Flushers -> Places]
        /\ pc'["dl"] \in {"exit", "gone"} /\ pc'["ctl"] \in {"idle", "gone"}
        /\ \/ m_Database' = m_Database /\ pc["dl"] # "new" /\ pc["ctl"] # "gone"
           \/ m_Database' = Null /\ pc'["dl"] = "gone" /\ pc'["ctl"] = "gone"
    <2>1. CASE Exit
      BY <1>1, <2>1 DEF Exit, dbVars, Flushers, Places
    <2>2. CASE sqlite_log_dtor
      BY <1>1, <2>2 DEF sqlite_log_dtor, dbVars, Flushers, Places
    <2>3. CASE sqlite_log_gone
      BY <1>1, <2>3 DEF sqlite_log_gone, Flushers, Places
    <2> QED
      BY <2>1, <2>2, <2>3
  <1>3. pc'["dl"] \notin LookedAtHour
    BY <1>2 DEF LookedAtHour
  <1>4. TypeInv' /\ HourInv'
    BY <1>0, <1>1, <1>2, <1>3, HourFrame
  <1>5. LockInv'
    BY <1>0, <1>2 DEF LockInv, Flushers
  <1>6. NullInv' /\ CrashExplained'
    BY <1>0, <1>2 DEF NullInv, CrashExplained
  <1> QED
    BY <1>4, <1>5, <1>6 DEF Inv

LEMMA KeepsClearBegin == Inv /\ ClearBegin => Inv'
  <1> SUFFICES ASSUME Inv, ClearBegin PROVE Inv'
    OBVIOUS
  <1>0. /\ TypeInv /\ HourInv /\ LockInv /\ NullInv /\ CrashExplained /\ ~crashed
        /\ toClear' = files
        /\ UNCHANGED <<now, m_HourLatest, m_Database, files, tables, pc, crossed, locker,
                       crashed, openFailed>>
    BY DEF Inv, ClearBegin, timeVars, dbVars, flushVars, endVars
  <1>1. /\ pc \in [Flushers -> Places] /\ crossed \subseteq Flushers
        /\ locker \in Flushers \cup {"none"}
    BY <1>0 DEF TypeInv
  <1>2. TypeInv' /\ HourInv'
    BY <1>0, <1>1, HourFrame
  <1>3. LockInv' /\ NullInv' /\ CrashExplained'
    BY <1>0 DEF LockInv, NullInv, CrashExplained
  <1> QED
    BY <1>2, <1>3 DEF Inv

LEMMA KeepsClearFile == ASSUME Inv, NEW db \in Hours, ClearFile(db) PROVE Inv'
  <1>0. /\ TypeInv /\ HourInv /\ LockInv /\ NullInv /\ CrashExplained /\ ~crashed
        /\ toClear' = toClear \ {db}
        /\ UNCHANGED <<now, m_HourLatest, m_Database, pc, crossed, locker>>
    BY DEF Inv, ClearFile, timeVars, flushVars
  <1>1. /\ files' \subseteq files /\ tables' \subseteq tables
        /\ \/ crashed' = crashed /\ openFailed' = openFailed
           \/ crashed' = TRUE /\ openFailed' = TRUE
    BY DEF ClearFile
  <1>2. /\ pc \in [Flushers -> Places] /\ crossed \subseteq Flushers
        /\ locker \in Flushers \cup {"none"}
    BY <1>0 DEF TypeInv
  <1>3. TypeInv' /\ HourInv'
    BY <1>0, <1>1, <1>2, HourFrame
  <1>4. LockInv' /\ NullInv' /\ CrashExplained'
    BY <1>0, <1>1 DEF LockInv, NullInv, CrashExplained
  <1> QED
    BY <1>3, <1>4 DEF Inv

LEMMA NextInv == Inv /\ [Next]_vars => Inv'
  <1> SUFFICES ASSUME Inv, [Next]_vars PROVE Inv'
    OBVIOUS
  <1>1. CASE Tick
    BY <1>1, KeepsTick
  <1>2. CASE \E line \in Lines : LogContent(line)
    BY <1>2, KeepsLog
  <1>3. CASE \E t \in Flushers : FlushTake(t) \/ FlushSplit(t) \/ FlushInsert(t)
    BY <1>3, KeepsTake, KeepsSplit, KeepsInsert
  <1>4. CASE do_logging
    BY <1>4, KeepsIsNeedRotate, KeepsClose, KeepsOpenDelete, KeepsOpenNew DEF do_logging
  <1>5. CASE Exit \/ sqlite_log_dtor \/ sqlite_log_gone
    BY <1>5, KeepsExit
  <1>6. CASE ClearBegin \/ \E db \in Hours : ClearFile(db)
    BY <1>6, KeepsClearBegin, KeepsClearFile
  <1>7. CASE UNCHANGED vars
    <2>1. UNCHANGED <<now, m_HourLatest, m_Database, files, tables, pc, crossed, locker,
                      toClear, crashed, openFailed>>
      BY <1>7 DEF vars, timeVars, dbVars, flushVars, clearVars, endVars
    <2> QED
      BY <2>1 DEF Inv, TypeInv, HourInv, LockInv, NullInv, CrashExplained
  <1> QED
    BY <1>1, <1>2, <1>3, <1>4, <1>5, <1>6, <1>7 DEF Next

LEMMA SpecInv == Spec => []Inv
  <1> QED
    BY InitInv, NextInv, PTL DEF Spec

-----------------------------------------------------------------------------
\* The process dies only after a SQLite::Database() has thrown, or because stop()
\* inserts into the database that open() has just deleted.
THEOREM SpecCrashExplained == Spec => []CrashExplained
  <1>1. Inv => CrashExplained
    BY DEF Inv
  <1> QED
    BY <1>1, SpecInv, PTL

-----------------------------------------------------------------------------
\* The open database is never removed if three hours or more are to be kept.
LinkedInv == LogExpired >= 180 => ~unlinked

LEMMA NextLinked == Inv /\ LinkedInv /\ [Next]_vars => LinkedInv'
  <1> SUFFICES ASSUME Inv, LogExpired >= 180, ~unlinked, [Next]_vars PROVE ~unlinked'
    BY DEF LinkedInv
  <1>1. ASSUME NEW db \in Hours, ClearFile(db) PROVE ~unlinked'
    <2>1. ~IsTimeExpired(db)
      BY <1>1, NothingExpires DEF ClearFile
    <2> QED
      BY <1>1, <2>1 DEF ClearFile
  <1>2. CASE Tick \/ Exit \/ sqlite_log_dtor \/ sqlite_log_gone \/ ClearBegin
    BY <1>2 DEF Tick, Exit, sqlite_log_dtor, sqlite_log_gone, ClearBegin, dbVars
  <1>3. CASE \E line \in Lines : LogContent(line)
    BY <1>3 DEF LogContent, dbVars
  <1>4. CASE \E t \in Flushers : FlushTake(t) \/ FlushSplit(t) \/ FlushInsert(t)
    BY <1>4 DEF FlushTake, FlushSplit, FlushInsert, dbVars
  <1>5. CASE do_logging
    BY <1>5 DEF do_logging, is_need_rotate, close, openDelete, openNew, dbVars
  <1>6. CASE UNCHANGED vars
    BY <1>6 DEF vars, dbVars
  <1> QED
    BY <1>1, <1>2, <1>3, <1>4, <1>5, <1>6 DEF Next

LEMMA SpecLinked == Spec => []LinkedInv
  <1>1. Init => LinkedInv
    BY DEF Init, LinkedInv
  <1> QED
    BY <1>1, SpecInv, NextLinked, PTL DEF Spec

\* clear_expired_log() removes nothing at all if three hours or more are to be
\* kept, however many hours pass: it subtracts the wrong way round.
THEOREM SpecClearingClearsNothing == Spec => ClearingClearsNothing
  <1> DEFINE Kept == LogExpired >= 180 => files \subseteq files' /\ tables \subseteq tables'
  <1>1. ASSUME Inv, LinkedInv, Next PROVE Kept
    <2> SUFFICES ASSUME LogExpired >= 180
                 PROVE  files \subseteq files' /\ tables \subseteq tables'
      OBVIOUS
    <2>1. CASE Tick \/ \E line \in Lines : LogContent(line)
      BY <2>1 DEF Tick, LogContent, dbVars
    <2>2. ASSUME NEW t \in Flushers, FlushTake(t) \/ FlushSplit(t) \/ FlushInsert(t)
          PROVE  files \subseteq files' /\ tables \subseteq tables'
      BY <2>2 DEF FlushTake, FlushSplit, FlushInsert, dbVars
    <2>0. KeptTables = tables
      BY <1>1 DEF LinkedInv, KeptTables
    <2>3. CASE do_logging
      BY <2>0, <2>3 DEF do_logging, is_need_rotate, close, openDelete, openNew,
                        OpenDatabase, dbVars
    <2>4. CASE Exit \/ sqlite_log_dtor \/ sqlite_log_gone \/ ClearBegin
      BY <2>0, <2>4 DEF Exit, sqlite_log_dtor, sqlite_log_gone, ClearBegin, dbVars
    <2>5. ASSUME NEW db \in Hours, ClearFile(db)
          PROVE  files \subseteq files' /\ tables \subseteq tables'
      <3>1. db \in toClear
        BY <2>5 DEF ClearFile
      <3>2. ~IsTimeExpired(db) /\ \A t \in tables : ~IsTimeExpired(t.name)
        BY <1>1, <3>1, NothingExpires
      <3> QED
        BY <2>5, <3>2 DEF ClearFile
    <2> QED
      BY <1>1, <2>1, <2>2, <2>3, <2>4, <2>5 DEF Next
  <1>2. Inv /\ LinkedInv /\ [Next]_vars => [Kept]_vars
    BY <1>1
  <1> QED
    BY <1>2, SpecInv, SpecLinked, PTL DEF Spec, ClearingClearsNothing

-----------------------------------------------------------------------------
(***************************************************************************)
(* The types of the rest: what the caches and the flushes have in hand,    *)
(* what the rows are, and the other variables.                             *)
(***************************************************************************)
HandType ==
    /\ cache \in CacheType(Lines)
    /\ batch \in [Flushers -> Seq(Lines)]
    /\ accepted \in Seq(Lines)

RowType ==
    /\ inserted \in Nat /\ DOMAIN rows \subseteq 1..inserted
    /\ \A i \in DOMAIN rows : rows[i] \in Row

OtherType ==
    /\ m_DayLatest \in Nat
    /\ m_TableName \in Hours \cup {Null}
    /\ unlinked \in BOOLEAN
    /\ swept \in BOOLEAN
    /\ crashed \in BOOLEAN /\ failed \in BOOLEAN /\ openFailed \in BOOLEAN

\* The steps that change the caches, the batches or the rows.
LEMMA StoreSteps ==
    ASSUME [Next]_vars
    PROVE  \/ \E line \in Lines : LogContent(line)
           \/ \E t \in Flushers : FlushTake(t) \/ FlushInsert(t)
           \/ cache' = EmptyCache /\ UNCHANGED <<accepted, batch, rowVars>>
           \/ UNCHANGED <<logVars, batch>> /\ \E db \in Hours : ClearFile(db)
           \/ UNCHANGED <<logVars, batch, rowVars>>
  <1>1. CASE Tick \/ Exit \/ sqlite_log_dtor \/ ClearBegin
    BY <1>1 DEF Tick, Exit, sqlite_log_dtor, ClearBegin, dbVars, flushVars
  <1>2. CASE sqlite_log_gone
    BY <1>2 DEF sqlite_log_gone
  <1>3. ASSUME NEW t \in Flushers, FlushSplit(t) PROVE UNCHANGED <<logVars, batch, rowVars>>
    BY <1>3 DEF FlushSplit
  <1>4. CASE do_logging
    BY <1>4 DEF do_logging, is_need_rotate, close, openDelete, openNew, dbVars
  <1>5. ASSUME NEW db \in Hours, ClearFile(db) PROVE UNCHANGED <<logVars, batch>>
    BY <1>5 DEF ClearFile, flushVars
  <1>6. CASE UNCHANGED vars
    BY <1>6 DEF vars, dbVars, flushVars
  <1> QED
    BY <1>1, <1>2, <1>3, <1>4, <1>5, <1>6 DEF Next

\* The last step of a flush leaves its batch, or empties it.
LEMMA FlushEmpties ==
    ASSUME HandType, NEW t \in Flushers, FlushInsert(t)
    PROVE  /\ batch' \in [Flushers -> Seq(Lines)]
           /\ \A u \in Flushers : batch'[u] = batch[u] \/ (u = t /\ batch'[u] = <<>>)
           /\ UNCHANGED logVars
  <1>1. UNCHANGED batch \/ batch' = [batch EXCEPT ![t] = <<>>]
    BY DEF FlushInsert, FlushReturns, flushVars
  <1> QED
    BY <1>1, EmptySeq DEF HandType, FlushInsert

LEMMA NextHandType == HandType /\ [Next]_vars => HandType'
  <1> SUFFICES ASSUME HandType, [Next]_vars PROVE HandType'
    OBVIOUS
  <1>1. ASSUME NEW line \in Lines, LogContent(line) PROVE HandType'
    <2>1. /\ cache' = PushBack(cache, line) /\ accepted' = Append(accepted, line)
          /\ batch' = batch
      BY <1>1 DEF LogContent, flushVars
    <2> QED
      BY <2>1, PushBackAppends, AppendProperties DEF HandType
  <1>2. ASSUME NEW t \in Flushers, FlushTake(t) PROVE HandType'
    <2>1. /\ cache' = Swapped(cache) /\ accepted' = accepted
          /\ batch' = [batch EXCEPT ![t] = CurrentCache(cache)]
      BY <1>2 DEF FlushTake
    <2>2. CurrentCache(cache) \in Seq(Lines) /\ Swapped(cache) \in CacheType(Lines)
      BY CacheParts, SwappedSplits DEF HandType
    <2> QED
      BY <2>1, <2>2 DEF HandType
  <1>3. ASSUME NEW t \in Flushers, FlushInsert(t) PROVE HandType'
    BY <1>3, FlushEmpties DEF HandType, logVars
  <1>4. CASE cache' = EmptyCache /\ UNCHANGED <<accepted, batch, rowVars>>
    BY <1>4, EmptyCacheBuffers DEF HandType
  <1>5. CASE UNCHANGED <<logVars, batch>>
    BY <1>5 DEF HandType, logVars
  <1> QED
    BY <1>1, <1>2, <1>3, <1>4, <1>5, StoreSteps

\* The row of the k-th line of a flush.
RowAt(t, k) ==
    [db |-> m_Database, name |-> m_TableName, line |-> batch[t][k], hour |-> now,
     by |-> t, with |-> Range(batch[t])]

\* The transaction of a flush keeps the rows there are, and numbers its own after
\* them.
InsertsBatch(t) ==
    LET n == Len(batch[t]) IN
    /\ m_Database # Null /\ Insertable(batch[t]) /\ n \in Nat
    /\ DOMAIN batch[t] = 1..n
    /\ inserted' = inserted + n
    /\ DOMAIN rows' = DOMAIN rows \cup {inserted + k : k \in 1..n}
    /\ \A i \in DOMAIN rows : rows'[i] = rows[i]
    /\ \A k \in 1..n : inserted + k \notin DOMAIN rows /\ rows'[inserted + k] = RowAt(t, k)

LEMMA FlushInserts ==
    ASSUME HandType, RowType, NEW t \in Flushers, FlushInsert(t)
    PROVE  UNCHANGED rowVars \/ InsertsBatch(t)
  <1>1. SUFFICES ASSUME m_Database # Null, Insertable(batch[t]),
                        Insert(RowsOf(t, batch[t]))
                 PROVE  InsertsBatch(t)
    BY DEF FlushInsert
  <1> DEFINE more == RowsOf(t, batch[t])  n == Len(batch[t])
  <1>2. /\ batch[t] \in Seq(Lines) /\ n \in Nat /\ DOMAIN batch[t] = 1..n
        /\ inserted \in Nat /\ DOMAIN rows \subseteq 1..inserted
    BY LenProperties DEF HandType, RowType
  <1>3. /\ \A k \in 1..n : more[k] = RowAt(t, k)
        /\ Len(more) = n
    <2>1. more = [k \in 1..n |-> RowAt(t, k)]
      BY <1>2 DEF RowsOf, RowAt
    <2> HIDE DEF more, n
    <2> QED
      BY <1>2, <2>1
  <1>4. \A k \in 1..n : inserted + k \notin DOMAIN rows
    BY <1>2
  <1>5. (inserted + 1) .. (inserted + n) = {inserted + k : k \in 1..n}
    <2>1. ASSUME NEW i \in (inserted + 1) .. (inserted + n)
          PROVE  i - inserted \in 1..n /\ i = inserted + (i - inserted)
      BY <1>2
    <2>2. \A k \in 1..n : inserted + k \in (inserted + 1) .. (inserted + n)
      BY <1>2
    <2> QED
      BY <2>1, <2>2
  <1>6. /\ inserted' = inserted + n
        /\ rows' = [i \in DOMAIN rows \cup {inserted + k : k \in 1..n} |->
                       IF i \in DOMAIN rows THEN rows[i] ELSE more[i - inserted]]
    <2> HIDE DEF more, n
    <2> QED
      BY <1>1, <1>3, <1>5 DEF Insert, more
  <1>7. \A k \in 1..n : rows'[inserted + k] = RowAt(t, k)
    <2>1. \A k \in 1..n : (inserted + k) - inserted = k
      BY <1>2
    <2> HIDE DEF more, n
    <2> QED
      BY <1>3, <1>4, <1>6, <2>1
  <1>8. /\ DOMAIN rows' = DOMAIN rows \cup {inserted + k : k \in 1..n}
        /\ \A i \in DOMAIN rows : rows'[i] = rows[i]
    <2> HIDE DEF more, n
    <2> QED
      BY <1>6
  <1> QED
    BY <1>1, <1>2, <1>4, <1>6, <1>7, <1>8 DEF InsertsBatch

\* A row that a flush inserts has the type of a row: there was a table for it.
LEMMA RowAtType ==
    ASSUME Inv, HandType, NEW t \in Flushers, InsertsBatch(t), NEW k \in DOMAIN batch[t]
    PROVE  RowAt(t, k) \in Row
  <1>1. /\ batch[t] \in Seq(Lines) /\ batch[t][k] \in Lines
        /\ Range(batch[t]) \subseteq Lines
    BY ElementOfSeq, RangeOfSeq DEF HandType
  <1>2. batch[t] # <<>>
    BY EmptySeq
  <1>3. [db |-> m_Database, name |-> m_TableName] \in Table
    BY <1>2 DEF InsertsBatch, Insertable, Inv, TypeInv
  <1>4. m_Database \in Hours /\ m_TableName \in Hours /\ now \in Hours
    BY <1>3 DEF Table, Inv, TypeInv
  <1> QED
    BY <1>1, <1>4 DEF RowAt, Row

LEMMA NextRowType == Inv /\ HandType /\ RowType /\ [Next]_vars => RowType'
  <1> SUFFICES ASSUME Inv, HandType, RowType, [Next]_vars PROVE RowType'
    OBVIOUS
  <1>1. CASE UNCHANGED rowVars
    BY <1>1 DEF RowType, rowVars
  <1>2. ASSUME NEW db \in Hours, ClearFile(db) PROVE RowType'
    BY <1>2 DEF RowType, ClearFile
  <1>3. ASSUME NEW t \in Flushers, InsertsBatch(t) PROVE RowType'
    <2> DEFINE n == Len(batch[t])
    <2>1. /\ n \in Nat /\ inserted \in Nat /\ inserted' = inserted + n
          /\ DOMAIN rows \subseteq 1..inserted
      BY <1>3 DEF InsertsBatch, RowType
    <2>2. \A k \in 1..n : inserted + k \in 1..inserted'
      <3> HIDE DEF n
      <3> QED
        BY <2>1
    <2>3. DOMAIN rows' \subseteq 1..inserted' /\ inserted' \in Nat
      <3>1. DOMAIN rows \subseteq 1..inserted'
        <4> HIDE DEF n
        <4> QED
          BY <2>1
      <3> QED
        BY <1>3, <2>1, <2>2, <3>1 DEF InsertsBatch
    <2>4. \A k \in 1..n : rows'[inserted + k] \in Row
      BY <1>3, RowAtType DEF InsertsBatch
    <2>5. \A i \in DOMAIN rows' : rows'[i] \in Row
      BY <1>3, <2>4 DEF InsertsBatch, RowType
    <2> QED
      BY <2>3, <2>5 DEF RowType
  <1>4. CASE \E line \in Lines : LogContent(line)
    BY <1>1, <1>4 DEF LogContent, dbVars
  <1>5. ASSUME NEW t \in Flushers, FlushTake(t) \/ FlushInsert(t) PROVE RowType'
    BY <1>1, <1>3, <1>5, FlushInserts DEF FlushTake, dbVars
  <1> QED
    BY <1>1, <1>2, <1>4, <1>5, StoreSteps

LEMMA DayType == \A hour \in Hours : Day(hour) \in Nat
  BY HoursAreNat, SqliteLogAssumption DEF Day

\* m_DayLatest, m_TableName and the flags.
LEMMA NextOtherType == Inv /\ OtherType /\ [Next]_vars => OtherType'
  <1> SUFFICES ASSUME Inv, OtherType, [Next]_vars PROVE OtherType'
    OBVIOUS
  <1>0. now \in Hours /\ m_HourLatest \in Hours
    BY DEF Inv, TypeInv
  <1>1. CASE Tick
    BY <1>1 DEF Tick, OtherType, dbVars, endVars
  <1>2. CASE \E line \in Lines : LogContent(line)
    BY <1>2 DEF LogContent, OtherType, timeVars, dbVars, clearVars, endVars
  <1>3. ASSUME NEW t \in Flushers, FlushTake(t) PROVE OtherType'
    BY <1>3 DEF FlushTake, OtherType, timeVars, dbVars, clearVars, endVars
  <1>4. ASSUME NEW t \in Flushers, FlushSplit(t) PROVE OtherType'
    <2>1. m_TableName' \in Hours
      BY <1>0, <1>4 DEF FlushSplit, SetTableName
    <2>2. failed' \in BOOLEAN
      BY <1>4 DEF FlushSplit, OtherType
    <2> QED
      BY <1>4, <2>1, <2>2 DEF FlushSplit, OtherType, clearVars
  <1>5. ASSUME NEW t \in Flushers, FlushInsert(t) PROVE OtherType'
    BY <1>5, Zenon DEF FlushInsert, Insertable, OtherType, timeVars, clearVars
  <1>6. CASE do_logging
    <2>1. CASE is_need_rotate
      BY <1>0, <2>1, DayType DEF is_need_rotate, OtherType, dbVars, clearVars, endVars
    <2>2. CASE close
      BY <2>2 DEF close, OpenDatabase, OtherType, timeVars, clearVars
    <2>3. CASE openDelete
      BY <2>3 DEF openDelete, OtherType, timeVars, clearVars
    <2>4. CASE openNew
      BY <2>4 DEF openNew, OpenDatabase, OtherType, timeVars, clearVars
    <2> QED
      BY <1>6, <2>1, <2>2, <2>3, <2>4 DEF do_logging
  <1>7. CASE Exit \/ sqlite_log_dtor \/ sqlite_log_gone
    BY <1>7 DEF Exit, sqlite_log_dtor, sqlite_log_gone, OtherType, timeVars, dbVars,
                clearVars, endVars
  <1>8. CASE ClearBegin
    BY <1>8 DEF ClearBegin, OtherType, timeVars, dbVars, endVars
  <1>9. ASSUME NEW db \in Hours, ClearFile(db) PROVE OtherType'
    BY <1>9 DEF ClearFile, OtherType, timeVars
  <1>10. CASE UNCHANGED vars
    BY <1>10 DEF vars, OtherType, timeVars, dbVars, clearVars, endVars
  <1> QED
    BY <1>1, <1>2, <1>3, <1>4, <1>5, <1>6, <1>7, <1>8, <1>9, <1>10 DEF Next

LEMMA InitTypes == Init => HandType /\ RowType /\ OtherType
  <1> SUFFICES ASSUME Init PROVE HandType /\ RowType /\ OtherType
    OBVIOUS
  <1>1. now \in Hours
    BY SqliteLogAssumption DEF Init, Hours
  <1>2. HandType
    BY EmptyCacheBuffers, EmptySeq DEF Init, HandType
  <1>3. RowType
    BY DEF Init, RowType
  <1>4. OtherType
    BY <1>1, DayType DEF Init, OtherType
  <1> QED
    BY <1>2, <1>3, <1>4

\* Every variable has its type, the rows included: a flush that inserts lines has
\* a database and a table to put them in.
THEOREM SpecTypeOK == Spec => []TypeOK
  <1>1. Inv /\ HandType /\ RowType /\ OtherType => TypeOK
    BY DEF Inv, TypeInv, HandType, RowType, OtherType, TypeOK, Places
  <1> QED
    BY <1>1, InitTypes, SpecInv, NextHandType, NextRowType, NextOtherType, PTL DEF Spec

-----------------------------------------------------------------------------
(***************************************************************************)
(* What is stored.  The lines that were accepted are, in order, those that *)
(* have left the caches and those still cached.                            *)
(***************************************************************************)
Out    == Len(accepted) - Len(Buffered(cache))
Old(x) == \E n \in 1..Out : accepted[n] = x

Before(x, y) ==
    \E m, n \in DOMAIN accepted : m < n /\ accepted[m] = x /\ accepted[n] = y

AcceptedInv ==
    /\ \A m, n \in DOMAIN accepted : accepted[m] = accepted[n] => m = n
    /\ Len(Buffered(cache)) <= Len(accepted)
    /\ \A i \in 1..Len(Buffered(cache)) : Buffered(cache)[i] = accepted[Out + i]

\* The lines that a flush has in hand are in order, and in no other hand or table.
BatchInv ==
    \A t \in Flushers : \A i \in DOMAIN batch[t] :
        /\ Old(batch[t][i])
        /\ \A j \in DOMAIN batch[t] : i < j => Before(batch[t][i], batch[t][j])
        /\ \A u \in Flushers \ {t} : \A j \in DOMAIN batch[u] : batch[t][i] # batch[u][j]
        /\ \A k \in DOMAIN rows :
              /\ rows[k].line # batch[t][i]
              /\ rows[k].by = t => Before(rows[k].line, batch[t][i])

OldInv == \A i \in DOMAIN rows : Old(rows[i].line)

\* OrderedPerFlusher, by Before.
OrderInv ==
    \A i, j \in DOMAIN rows :
        i < j =>
            /\ rows[i].line # rows[j].line
            /\ rows[i].by = rows[j].by => Before(rows[i].line, rows[j].line)

StoreInv == AcceptedInv /\ BatchInv /\ OldInv /\ OrderInv

\* What the invariants look at are sequences, and their lengths are numbers.
LEMMA StoreTypes ==
    ASSUME HandType
    PROVE  /\ Buffered(cache) \in Seq(Lines) /\ Len(Buffered(cache)) \in Nat
           /\ Len(accepted) \in Nat /\ DOMAIN accepted = 1..Len(accepted)
           /\ Out \in Int
           /\ \A t \in Flushers : batch[t] \in Seq(Lines) /\ Len(batch[t]) \in Nat
                                  /\ DOMAIN batch[t] = 1..Len(batch[t])
  <1>1. Buffered(cache) \in Seq(Lines)
    BY CacheParts DEF HandType
  <1> QED
    BY <1>1, LenProperties DEF HandType, Out

\* A line that comes before another one is another line.
LEMMA BeforeDiffers ==
    ASSUME HandType, AcceptedInv, NEW x, NEW y, Before(x, y)
    PROVE  x # y
  <1>1. PICK m, n \in DOMAIN accepted : m < n /\ accepted[m] = x /\ accepted[n] = y
    BY DEF Before
  <1>2. m # n
    BY <1>1, StoreTypes
  <1> QED
    BY <1>1, <1>2 DEF AcceptedInv

LEMMA InitStore == Init => StoreInv
  <1> SUFFICES ASSUME Init PROVE StoreInv
    OBVIOUS
  <1>1. /\ accepted = <<>> /\ rows = <<>> /\ Len(accepted) = 0 /\ DOMAIN rows = {}
        /\ DOMAIN accepted = {}
        /\ \A t \in Flushers : batch[t] = <<>> /\ DOMAIN batch[t] = {}
    BY DEF Init
  <1>2. Buffered(cache) = <<>> /\ Len(Buffered(cache)) = 0
    BY EmptyCacheBuffers DEF Init
  <1>3. AcceptedInv
    BY <1>1, <1>2 DEF AcceptedInv
  <1>4. BatchInv /\ OldInv /\ OrderInv
    BY <1>1 DEF BatchInv, OldInv, OrderInv
  <1> QED
    BY <1>3, <1>4 DEF StoreInv

\* What was accepted stays so, and what has left the caches does not return.
LEMMA HistoryGrows ==
    ASSUME HandType, HandType', Out <= Out',
           Len(accepted) <= Len(accepted'),
           \A n \in DOMAIN accepted : accepted'[n] = accepted[n],
           Out <= Len(accepted)
    PROVE  /\ \A x : Old(x) => Old(x)'
           /\ \A x, y : Before(x, y) => Before(x, y)'
  <1>1. /\ Out \in Int /\ Out' \in Int
        /\ Len(accepted) \in Nat /\ Len(accepted') \in Nat
        /\ DOMAIN accepted = 1..Len(accepted) /\ DOMAIN accepted' = 1..Len(accepted')
    <2>1. Buffered(cache') \in Seq(Lines)
      BY CacheParts DEF HandType
    <2> QED
      BY <2>1, StoreTypes, LenProperties DEF HandType, Out
  <1>2. ASSUME NEW x, Old(x) PROVE Old(x)'
    <2>1. PICK n \in 1..Out : accepted[n] = x
      BY <1>2 DEF Old
    <2>2. n \in DOMAIN accepted /\ n \in 1..Out'
      BY <1>1
    <2> QED
      BY <2>1, <2>2 DEF Old
  <1>3. ASSUME NEW x, NEW y, Before(x, y) PROVE Before(x, y)'
    <2>1. PICK m, n \in DOMAIN accepted : m < n /\ accepted[m] = x /\ accepted[n] = y
      BY <1>3 DEF Before
    <2>2. m \in DOMAIN accepted' /\ n \in DOMAIN accepted'
      BY <1>1
    <2> QED
      BY <2>1, <2>2 DEF Before
  <1> QED
    BY <1>2, <1>3

\* Fewer lines in hand and fewer rows disturb nothing.
LEMMA StoreLess ==
    ASSUME StoreInv, DOMAIN rows' \subseteq DOMAIN rows,
           \A i \in DOMAIN rows' : rows'[i] = rows[i],
           \A t \in Flushers : batch'[t] = batch[t] \/ batch'[t] = <<>>,
           \A x : Old(x) => Old(x)',
           \A x, y : Before(x, y) => Before(x, y)',
           AcceptedInv'
    PROVE  StoreInv'
  <1>1. BatchInv /\ OldInv /\ OrderInv
    BY DEF StoreInv
  <1>2. \A t \in Flushers : \A i \in DOMAIN batch'[t] : batch'[t] = batch[t]
    OBVIOUS
  <1>3. BatchInv'
    BY <1>1, <1>2 DEF BatchInv
  <1>4. OldInv' /\ OrderInv'
    BY <1>1 DEF OldInv, OrderInv
  <1> QED
    BY <1>3, <1>4 DEF StoreInv

\* log() appends a new line to what was accepted and to what is cached.
LEMMA StoreLog ==
    ASSUME HandType, HandType', StoreInv, NEW line \in Lines, LogContent(line)
    PROVE  StoreInv'
  <1> DEFINE l == Len(accepted)  b == Buffered(cache)
  <1>1. /\ accepted' = Append(accepted, line) /\ line \notin Range(accepted)
        /\ Buffered(cache') = Append(b, line)
        /\ UNCHANGED <<batch, rows>>
    BY PushBackAppends DEF LogContent, HandType, dbVars, rowVars, flushVars
  <1>2. /\ l \in Nat /\ DOMAIN accepted = 1..l /\ accepted \in Seq(Lines)
        /\ b \in Seq(Lines) /\ Len(b) \in Nat /\ Out = l - Len(b)
    BY StoreTypes DEF HandType, Out
  <1>3. /\ Len(accepted') = l + 1 /\ DOMAIN accepted' = 1..(l + 1)
        /\ \A n \in 1..l : accepted'[n] = accepted[n]
        /\ accepted'[l + 1] = line
    BY <1>1, <1>2, AppendProperties DEF HandType
  <1>4. /\ Len(Buffered(cache')) = Len(b) + 1
        /\ \A i \in 1..Len(b) : Buffered(cache')[i] = b[i]
        /\ Buffered(cache')[Len(b) + 1] = line
    BY <1>1, <1>2, AppendProperties
  <1>5. Out' = Out
    BY <1>2, <1>3, <1>4 DEF Out
  <1>6. /\ \A m, n \in DOMAIN accepted : accepted[m] = accepted[n] => m = n
        /\ Len(b) <= l
        /\ \A i \in 1..Len(b) : b[i] = accepted[Out + i]
    BY DEF StoreInv, AcceptedInv
  <1> HIDE DEF l, b
  <1>7. AcceptedInv'
    <2>1. \A m, n \in DOMAIN accepted' : accepted'[m] = accepted'[n] => m = n
      <3>1. \A m \in 1..l : accepted'[m] # line
        BY <1>1, <1>2, <1>3 DEF Range
      <3> QED
        BY <1>2, <1>3, <1>6, <3>1
    <2>2. Len(Buffered(cache')) <= Len(accepted')
      BY <1>2, <1>3, <1>4, <1>6
    <2>3. ASSUME NEW i \in 1..Len(Buffered(cache'))
          PROVE  Buffered(cache')[i] = accepted'[Out' + i]
      <3>1. CASE i \in 1..Len(b)
        <4>1. Out + i \in 1..l
          BY <1>2, <1>6, <3>1
        <4> QED
          BY <1>3, <1>4, <1>5, <1>6, <3>1, <4>1
      <3>2. CASE i = Len(b) + 1
        <4>1. Out + i = l + 1
          BY <1>2, <3>2
        <4> QED
          BY <1>3, <1>4, <1>5, <3>2, <4>1
      <3> QED
        BY <1>2, <1>4, <3>1, <3>2
    <2> QED
      BY <2>1, <2>2, <2>3 DEF AcceptedInv
  <1>8. /\ \A x : Old(x) => Old(x)'
        /\ \A x, y : Before(x, y) => Before(x, y)'
    <2>1. Out <= Len(accepted) /\ Out <= Out' /\ Len(accepted) <= Len(accepted')
      BY <1>2, <1>3, <1>5, <1>6 DEF l
    <2>2. \A n \in DOMAIN accepted : accepted'[n] = accepted[n]
      BY <1>2, <1>3
    <2> QED
      BY <2>1, <2>2, HistoryGrows
  <1> QED
    BY <1>1, <1>7, <1>8, StoreLess

\* flush() takes the oldest lines of those cached, all of them newer than what has
\* left the caches.
LEMMA StoreTake ==
    ASSUME HandType, HandType', StoreInv, NEW t \in Flushers, FlushTake(t)
    PROVE  StoreInv'
  <1>0. /\ batch' = [batch EXCEPT ![t] = CurrentCache(cache)]
        /\ cache' = Swapped(cache) /\ accepted' = accepted /\ rows' = rows
    BY DEF FlushTake, dbVars, rowVars
  <1>q. PICK q \in Seq(Lines) : q = CurrentCache(cache)
    BY CacheParts DEF HandType
  <1>r. PICK r \in Seq(Lines) : r = Buffered(cache')
    BY CacheParts DEF HandType
  <1> DEFINE l == Len(accepted)
  <1>1. batch' = [batch EXCEPT ![t] = q]
    BY <1>0, <1>q
  <1>2. Buffered(cache) = q \o r
    BY <1>0, <1>q, <1>r, CacheParts, SwappedSplits DEF HandType, Cat
  <1>3. /\ Len(q) \in Nat /\ Len(r) \in Nat /\ Len(Buffered(cache)) = Len(q) + Len(r)
        /\ DOMAIN q = 1..Len(q)
        /\ \A i \in 1..Len(q) : Buffered(cache)[i] = q[i]
        /\ \A i \in 1..Len(r) : Buffered(cache)[Len(q) + i] = r[i]
    <2>1. /\ Len(q) \in Nat /\ Len(r) \in Nat /\ DOMAIN q = 1..Len(q)
          /\ Len(Buffered(cache)) = Len(q) + Len(r)
          /\ \A i \in 1..Len(q) + Len(r) :
                Buffered(cache)[i] = IF i <= Len(q) THEN q[i] ELSE r[i - Len(q)]
      BY <1>2, LenProperties, ConcatProperties
    <2>2. \A i \in 1..Len(q) : i \in 1..Len(q) + Len(r) /\ i <= Len(q)
      BY <2>1
    <2>3. \A i \in 1..Len(r) : /\ Len(q) + i \in 1..Len(q) + Len(r) /\ ~(Len(q) + i <= Len(q))
                               /\ (Len(q) + i) - Len(q) = i
      BY <2>1
    <2> QED
      BY <2>1, <2>2, <2>3
  <1>4. /\ l \in Nat /\ DOMAIN accepted = 1..l
        /\ Out = l - (Len(q) + Len(r)) /\ Out' = l - Len(r)
    BY <1>0, <1>3, <1>r, StoreTypes DEF Out
  <1>5. /\ \A m, n \in DOMAIN accepted : accepted[m] = accepted[n] => m = n
        /\ Len(q) + Len(r) <= l
        /\ \A i \in 1..Len(Buffered(cache)) : Buffered(cache)[i] = accepted[Out + i]
    BY <1>3 DEF StoreInv, AcceptedInv
  <1>t. /\ batch'[t] = q /\ \A u \in Flushers \ {t} : batch'[u] = batch[u]
    BY <1>1 DEF HandType
  <1>b. BatchInv /\ OldInv /\ OrderInv
    BY DEF StoreInv
  <1> HIDE DEF l
  <1>6. \A i \in 1..Len(q) : /\ Out + i \in DOMAIN accepted /\ Out + i \in 1..Out'
                             /\ q[i] = accepted[Out + i]
    <2>1. \A i \in 1..Len(q) : i \in 1..Len(Buffered(cache))
      BY <1>3
    <2>2. \A i \in 1..Len(q) : Out + i \in DOMAIN accepted /\ Out + i \in 1..Out'
      BY <1>3, <1>4, <1>5
    <2> QED
      BY <1>3, <1>5, <2>1, <2>2
  <1>7. AcceptedInv'
    <2>1. ASSUME NEW i \in 1..Len(r) PROVE r[i] = accepted[Out' + i]
      <3>1. Len(q) + i \in 1..Len(Buffered(cache)) /\ Out + (Len(q) + i) = Out' + i
        BY <1>3, <1>4
      <3> QED
        BY <1>3, <1>5, <3>1
    <2> QED
      BY <1>0, <1>3, <1>4, <1>5, <1>r, <2>1 DEF AcceptedInv, l
  <1>8. /\ \A x : Old(x) => Old(x)'
        /\ \A x, y : Before(x, y) => Before(x, y)'
    <2>1. Out <= Len(accepted) /\ Out <= Out' /\ Len(accepted) <= Len(accepted')
      BY <1>0, <1>3, <1>4, <1>5 DEF l
    <2> QED
      BY <1>0, <2>1, HistoryGrows
  <1>9. ASSUME NEW x, Old(x), NEW i \in 1..Len(q)
        PROVE  x # q[i] /\ Before(x, q[i])
    <2>1. PICK n \in 1..Out : accepted[n] = x
      BY <1>9 DEF Old
    <2>2. n \in DOMAIN accepted /\ n < Out + i /\ n # Out + i
      BY <1>3, <1>4, <1>5
    <2>3. Out + i \in DOMAIN accepted /\ q[i] = accepted[Out + i]
      BY <1>6
    <2>4. Before(x, q[i])
      BY <2>1, <2>2, <2>3 DEF Before
    <2> QED
      BY <1>5, <2>1, <2>2, <2>3, <2>4
  <1>10. ASSUME NEW i \in 1..Len(q), NEW j \in 1..Len(q), i < j PROVE Before(q[i], q[j])
    <2>1. Out + i < Out + j
      BY <1>3, <1>4, <1>10
    <2> QED
      BY <1>6, <2>1 DEF Before
  <1>11. \A i \in 1..Len(q) : Old(q[i])'
    BY <1>0, <1>6 DEF Old
  <1>12. BatchInv'
    <2> SUFFICES ASSUME NEW u \in Flushers, NEW i \in DOMAIN batch'[u]
                 PROVE  ( /\ Old(batch[u][i])
                          /\ \A j \in DOMAIN batch[u] : i < j => Before(batch[u][i], batch[u][j])
                          /\ \A v \in Flushers \ {u} : \A j \in DOMAIN batch[v] :
                                 batch[u][i] # batch[v][j]
                          /\ \A k \in DOMAIN rows :
                                 /\ rows[k].line # batch[u][i]
                                 /\ rows[k].by = u => Before(rows[k].line, batch[u][i]) )'
      BY DEF BatchInv
    <2>1. CASE u = t
      <3>1. i \in 1..Len(q) /\ batch'[u] = q
        BY <1>3, <1>t, <2>1
      <3>2. Old(batch[u][i])'
        BY <1>11, <3>1
      <3>3. (\A j \in DOMAIN batch[u] : i < j => Before(batch[u][i], batch[u][j]))'
        BY <1>3, <1>8, <1>10, <3>1
      <3>4. \A v \in Flushers \ {u} : \A j \in DOMAIN batch'[v] : batch'[u][i] # batch'[v][j]
        <4>1. \A v \in Flushers \ {u} : \A j \in DOMAIN batch'[v] :
                  batch'[v] = batch[v] /\ Old(batch[v][j])
          BY <1>b, <1>t, <2>1 DEF BatchInv
        <4> QED
          BY <1>9, <3>1, <4>1
      <3>5. \A k \in DOMAIN rows : rows[k].line # q[i] /\ Before(rows[k].line, q[i])
        BY <1>9, <1>b, <3>1 DEF OldInv
      <3>6. (\A k \in DOMAIN rows : rows[k].line # batch[u][i]
                                   /\ Before(rows[k].line, batch[u][i]))'
        BY <1>0, <1>8, <3>1, <3>5
      <3> QED
        BY <3>2, <3>3, <3>4, <3>6
    <2>2. CASE u # t
      <3>1. batch'[u] = batch[u] /\ i \in DOMAIN batch[u]
        BY <1>t, <2>2
      <3>2. /\ Old(batch[u][i])
            /\ \A j \in DOMAIN batch[u] : i < j => Before(batch[u][i], batch[u][j])
            /\ \A v \in Flushers \ {u} : \A j \in DOMAIN batch[v] :
                   batch[u][i] # batch[v][j]
            /\ \A k \in DOMAIN rows :
                   /\ rows[k].line # batch[u][i]
                   /\ rows[k].by = u => Before(rows[k].line, batch[u][i])
        BY <1>b, <3>1 DEF BatchInv
      <3>3. ASSUME NEW v \in Flushers \ {u}, NEW j \in DOMAIN batch'[v]
            PROVE  batch'[u][i] # batch'[v][j]
        <4>1. CASE v = t
          BY <1>3, <1>9, <1>t, <3>1, <3>2, <3>3, <4>1
        <4>2. CASE v # t
          BY <1>t, <3>1, <3>2, <3>3, <4>2
        <4> QED
          BY <4>1, <4>2
      <3> QED
        BY <1>0, <1>8, <3>1, <3>2, <3>3
    <2> QED
      BY <2>1, <2>2
  <1>13. OldInv' /\ OrderInv'
    BY <1>0, <1>8, <1>b DEF OldInv, OrderInv
  <1> QED
    BY <1>7, <1>12, <1>13 DEF StoreInv

\* The rows of a flush come after those there are, in the order of the batch.
LEMMA StoreInsert ==
    ASSUME HandType, HandType', RowType, StoreInv, NEW t \in Flushers, FlushInsert(t)
    PROVE  StoreInv'
  <1>1. /\ batch' \in [Flushers -> Seq(Lines)]
        /\ \A u \in Flushers : batch'[u] = batch[u] \/ (u = t /\ batch'[u] = <<>>)
        /\ cache' = cache /\ accepted' = accepted
    BY FlushEmpties DEF logVars
  <1>2. AcceptedInv /\ BatchInv /\ OldInv /\ OrderInv
    BY DEF StoreInv
  <1>3. /\ AcceptedInv'
        /\ \A x : Old(x) => Old(x)'
        /\ \A x, y : Before(x, y) => Before(x, y)'
    <2>1. Out' = Out
      BY <1>1 DEF Out
    <2> QED
      BY <1>1, <1>2, <2>1 DEF AcceptedInv, Old, Before
  <1>4. CASE UNCHANGED rowVars
    <2>1. rows' = rows
      BY <1>4 DEF rowVars
    <2> QED
      BY <1>1, <1>3, <2>1, StoreLess
  <1>5. CASE InsertsBatch(t) /\ batch'[t] = <<>>
    <2>q. PICK q \in Seq(Lines) : q = batch[t]
      BY DEF HandType
    <2> DEFINE n == Len(q)
    <2>1. /\ n \in Nat /\ DOMAIN q = 1..n /\ inserted \in Nat
          /\ DOMAIN rows \subseteq 1..inserted
          /\ DOMAIN rows' = DOMAIN rows \cup {inserted + k : k \in 1..n}
          /\ \A i \in DOMAIN rows : rows'[i] = rows[i]
          /\ \A k \in 1..n : /\ inserted + k \notin DOMAIN rows
                             /\ rows'[inserted + k].line = q[k]
                             /\ rows'[inserted + k].by = t
      <3>1. /\ n \in Nat /\ DOMAIN q = 1..n
            /\ DOMAIN rows' = DOMAIN rows \cup {inserted + k : k \in 1..n}
            /\ \A i \in DOMAIN rows : rows'[i] = rows[i]
            /\ \A k \in 1..n : /\ inserted + k \notin DOMAIN rows
                               /\ rows'[inserted + k] = RowAt(t, k)
        BY <1>5, <2>q DEF InsertsBatch
      <3>2. \A k \in 1..n : RowAt(t, k).line = q[k] /\ RowAt(t, k).by = t
        BY <2>q DEF RowAt
      <3> HIDE DEF n
      <3> QED
        BY <3>1, <3>2 DEF RowType
    <2>2. \A k \in 1..n :
              /\ Old(q[k])
              /\ \A j \in 1..n : k < j => Before(q[k], q[j])
              /\ \A u \in Flushers \ {t} : \A j \in DOMAIN batch[u] : q[k] # batch[u][j]
              /\ \A i \in DOMAIN rows :
                    /\ rows[i].line # q[k]
                    /\ rows[i].by = t => Before(rows[i].line, q[k])
      BY <1>2, <2>q, <2>1 DEF BatchInv
    <2> HIDE DEF n
    <2>3. \A i \in DOMAIN rows' : i \in DOMAIN rows \/ \E k \in 1..n : i = inserted + k
      BY <2>1
    <2>4. BatchInv'
      <3> SUFFICES ASSUME NEW u \in Flushers, NEW i \in DOMAIN batch'[u]
                   PROVE  ( /\ Old(batch[u][i])
                            /\ \A j \in DOMAIN batch[u] :
                                   i < j => Before(batch[u][i], batch[u][j])
                            /\ \A v \in Flushers \ {u} : \A j \in DOMAIN batch[v] :
                                   batch[u][i] # batch[v][j]
                            /\ \A k \in DOMAIN rows :
                                   /\ rows[k].line # batch[u][i]
                                   /\ rows[k].by = u => Before(rows[k].line, batch[u][i]) )'
        BY DEF BatchInv
      <3>1. u # t /\ batch'[u] = batch[u] /\ i \in DOMAIN batch[u]
        <4>1. DOMAIN batch'[t] = {}
          BY <1>5
        <4> QED
          BY <1>1, <4>1
      <3>2. /\ Old(batch[u][i])
            /\ \A j \in DOMAIN batch[u] : i < j => Before(batch[u][i], batch[u][j])
            /\ \A v \in Flushers \ {u} : \A j \in DOMAIN batch[v] :
                   batch[u][i] # batch[v][j]
            /\ \A k \in DOMAIN rows :
                   /\ rows[k].line # batch[u][i]
                   /\ rows[k].by = u => Before(rows[k].line, batch[u][i])
        BY <1>2, <3>1 DEF BatchInv
      <3>3. ASSUME NEW v \in Flushers \ {u}, NEW j \in DOMAIN batch'[v]
            PROVE  batch'[u][i] # batch'[v][j]
        <4>1. batch'[v] = batch[v] \/ DOMAIN batch'[v] = {}
          BY <1>1
        <4> QED
          BY <3>1, <3>2, <3>3, <4>1
      <3>4. ASSUME NEW k \in DOMAIN rows'
            PROVE  ( /\ rows[k].line # batch[u][i]
                     /\ rows[k].by = u => Before(rows[k].line, batch[u][i]) )'
        <4>1. CASE k \in DOMAIN rows
          BY <1>3, <2>1, <3>1, <3>2, <4>1
        <4>2. CASE k \notin DOMAIN rows
          <5>1. PICK m \in 1..n : k = inserted + m
            BY <2>3, <4>2
          <5>2. rows'[k].line = q[m] /\ rows'[k].by = t
            BY <2>1, <5>1
          <5> QED
            BY <2>2, <3>1, <5>2
        <4> QED
          BY <4>1, <4>2
      <3> QED
        BY <1>3, <3>1, <3>2, <3>3, <3>4
    <2>5. OldInv'
      <3> SUFFICES ASSUME NEW i \in DOMAIN rows' PROVE Old(rows[i].line)'
        BY DEF OldInv
      <3>1. CASE i \in DOMAIN rows
        BY <1>2, <1>3, <2>1, <3>1 DEF OldInv
      <3>2. ASSUME NEW k \in 1..n, i = inserted + k PROVE Old(rows[i].line)'
        <4>1. rows'[i].line = q[k] /\ Old(q[k])
          BY <2>1, <2>2, <3>2
        <4> QED
          BY <1>3, <4>1
      <3> QED
        BY <2>3, <3>1, <3>2
    <2>6. OrderInv'
      <3> SUFFICES ASSUME NEW i \in DOMAIN rows', NEW j \in DOMAIN rows', i < j
                   PROVE  ( /\ rows[i].line # rows[j].line
                            /\ rows[i].by = rows[j].by =>
                                   Before(rows[i].line, rows[j].line) )'
        BY DEF OrderInv
      <3>1. CASE i \in DOMAIN rows /\ j \in DOMAIN rows
        BY <1>2, <1>3, <2>1, <3>1 DEF OrderInv
      <3>2. ASSUME NEW k \in 1..n, j = inserted + k, i \in DOMAIN rows
            PROVE  ( /\ rows[i].line # rows[j].line
                     /\ rows[i].by = rows[j].by => Before(rows[i].line, rows[j].line) )'
        <4>1. /\ rows'[i] = rows[i] /\ rows'[j].line = q[k] /\ rows'[j].by = t
          BY <2>1, <3>2
        <4>2. /\ rows[i].line # q[k]
              /\ rows[i].by = t => Before(rows[i].line, q[k])
          BY <2>2, <3>2
        <4> QED
          BY <1>3, <4>1, <4>2
      <3>3. ASSUME NEW k \in 1..n, j = inserted + k, NEW h \in 1..n, i = inserted + h
            PROVE  ( /\ rows[i].line # rows[j].line
                     /\ rows[i].by = rows[j].by => Before(rows[i].line, rows[j].line) )'
        <4>1. h < k
          BY <2>1, <3>3
        <4>2. Before(q[h], q[k])
          BY <2>2, <4>1
        <4>3. q[h] # q[k]
          BY <1>2, <4>2, BeforeDiffers
        <4>4. rows'[i].line = q[h] /\ rows'[j].line = q[k]
          BY <2>1, <3>3
        <4> QED
          BY <1>3, <4>2, <4>3, <4>4
      <3>4. ASSUME NEW h \in 1..n, i = inserted + h PROVE j \notin DOMAIN rows
        BY <2>1, <3>4
      <3> QED
        BY <2>3, <3>1, <3>2, <3>3, <3>4
    <2> QED
      BY <1>3, <2>4, <2>5, <2>6 DEF StoreInv
  <1>6. UNCHANGED rowVars \/ (InsertsBatch(t) /\ batch'[t] = <<>>)
    <2>1. UNCHANGED rowVars \/ batch' = [batch EXCEPT ![t] = <<>>]
      BY DEF FlushInsert, FlushReturns
    <2> QED
      BY <2>1, FlushInserts DEF HandType
  <1> QED
    BY <1>4, <1>5, <1>6

LEMMA NextStore ==
    HandType /\ HandType' /\ RowType /\ StoreInv /\ [Next]_vars => StoreInv'
  <1> SUFFICES ASSUME HandType, HandType', RowType, StoreInv, [Next]_vars PROVE StoreInv'
    OBVIOUS
  <1>1. AcceptedInv
    BY DEF StoreInv
  <1>2. CASE cache' = EmptyCache /\ UNCHANGED <<accepted, batch, rowVars>>
    <2>1. Buffered(cache') = <<>> /\ Len(Buffered(cache')) = 0
      BY <1>2, EmptyCacheBuffers
    <2>2. /\ Len(accepted) \in Nat /\ Len(Buffered(cache)) \in Nat
          /\ Out = Len(accepted) - Len(Buffered(cache)) /\ Out' = Len(accepted)
      BY <1>2, <2>1, StoreTypes DEF Out
    <2>3. AcceptedInv'
      BY <1>1, <1>2, <2>1, <2>2 DEF AcceptedInv
    <2>4. /\ \A x : Old(x) => Old(x)'
          /\ \A x, y : Before(x, y) => Before(x, y)'
      BY <1>1, <1>2, <2>2, HistoryGrows DEF AcceptedInv
    <2> QED
      BY <1>2, <2>3, <2>4, StoreLess DEF rowVars
  <1>3. ASSUME UNCHANGED <<logVars, batch>>, DOMAIN rows' \subseteq DOMAIN rows,
               \A i \in DOMAIN rows' : rows'[i] = rows[i]
        PROVE  StoreInv'
    <2>1. Out' = Out /\ accepted' = accepted /\ cache' = cache
      BY <1>3 DEF Out, logVars
    <2>2. /\ AcceptedInv'
          /\ \A x : Old(x) => Old(x)'
          /\ \A x, y : Before(x, y) => Before(x, y)'
      BY <1>1, <2>1 DEF AcceptedInv, Old, Before
    <2> QED
      BY <1>3, <2>2, StoreLess
  <1>4. ASSUME NEW db \in Hours, ClearFile(db), UNCHANGED <<logVars, batch>>
        PROVE  StoreInv'
    BY <1>3, <1>4 DEF ClearFile
  <1>5. CASE UNCHANGED <<logVars, batch, rowVars>>
    BY <1>3, <1>5 DEF rowVars
  <1> QED
    BY <1>2, <1>4, <1>5, StoreLog, StoreTake, StoreInsert, StoreSteps

\* No line is stored twice, and what each of the two flushers stores is in the order
\* of log(): each takes the oldest lines cached, and inserts them before it takes
\* others.
THEOREM SpecOrderedPerFlusher == Spec => []OrderedPerFlusher
  <1>1. StoreInv => OrderedPerFlusher
    BY DEF StoreInv, OrderInv, OrderedPerFlusher, Before
  <1> QED
    BY <1>1, InitTypes, InitStore, SpecInv, NextHandType, NextRowType, NextStore, PTL
       DEF Spec

-----------------------------------------------------------------------------
\* A row has the rows of its flush in its table.
TogetherInv ==
    \A i \in DOMAIN rows : \A line \in rows[i].with :
        \E j \in DOMAIN rows : rows[j].line = line /\ TableOf(rows[j]) = TableOf(rows[i])

LEMMA NextTogether == HandType /\ RowType /\ TogetherInv /\ [Next]_vars => TogetherInv'
  <1> SUFFICES ASSUME HandType, RowType, TogetherInv, [Next]_vars PROVE TogetherInv'
    OBVIOUS
  <1>1. CASE UNCHANGED rowVars
    BY <1>1 DEF TogetherInv, TableOf, rowVars
  <1>2. ASSUME NEW db \in Hours, ClearFile(db) PROVE TogetherInv'
    <2>1. /\ DOMAIN rows' = {j \in DOMAIN rows : TableOf(rows[j]) \in tables'}
          /\ \A i \in DOMAIN rows' : rows'[i] = rows[i]
      BY <1>2 DEF ClearFile
    <2> SUFFICES ASSUME NEW i \in DOMAIN rows', NEW line \in rows'[i].with
                 PROVE  \E j \in DOMAIN rows' :
                            rows'[j].line = line /\ TableOf(rows'[j]) = TableOf(rows'[i])
      BY DEF TogetherInv, TableOf
    <2>2. PICK j \in DOMAIN rows : rows[j].line = line /\ TableOf(rows[j]) = TableOf(rows[i])
      BY <2>1 DEF TogetherInv
    <2>3. j \in DOMAIN rows'
      BY <2>1, <2>2
    <2> QED
      BY <2>1, <2>2, <2>3
  <1>3. ASSUME NEW t \in Flushers, InsertsBatch(t) PROVE TogetherInv'
    <2> DEFINE n == Len(batch[t])
    <2>1. /\ DOMAIN batch[t] = 1..n
          /\ DOMAIN rows' = DOMAIN rows \cup {inserted + k : k \in 1..n}
          /\ \A i \in DOMAIN rows : rows'[i] = rows[i]
          /\ \A k \in 1..n : rows'[inserted + k] = RowAt(t, k)
      BY <1>3 DEF InsertsBatch
    <2> SUFFICES ASSUME NEW i \in DOMAIN rows', NEW line \in rows'[i].with
                 PROVE  \E j \in DOMAIN rows' :
                            rows'[j].line = line /\ TableOf(rows'[j]) = TableOf(rows'[i])
      BY DEF TogetherInv, TableOf
    <2>2. CASE i \in DOMAIN rows
      <3>1. PICK j \in DOMAIN rows : rows[j].line = line /\ TableOf(rows[j]) = TableOf(rows[i])
        BY <2>1, <2>2 DEF TogetherInv
      <3> QED
        BY <2>1, <2>2, <3>1
    <2>3. ASSUME NEW k \in 1..n, i = inserted + k
          PROVE  \E j \in DOMAIN rows' :
                     rows'[j].line = line /\ TableOf(rows'[j]) = TableOf(rows'[i])
      <3>1. rows'[i] = RowAt(t, k) /\ line \in Range(batch[t])
        BY <2>1, <2>3 DEF RowAt
      <3>2. PICK m \in 1..n : batch[t][m] = line
        BY <2>1, <3>1 DEF Range
      <3>3. inserted + m \in DOMAIN rows' /\ rows'[inserted + m] = RowAt(t, m)
        BY <2>1
      <3>4. RowAt(t, m).line = line /\ TableOf(RowAt(t, m)) = TableOf(RowAt(t, k))
        BY <3>2 DEF RowAt, TableOf
      <3> QED
        BY <3>1, <3>3, <3>4
    <2> QED
      BY <2>1, <2>2, <2>3
  <1>4. CASE \E line \in Lines : LogContent(line)
    BY <1>1, <1>4 DEF LogContent, dbVars
  <1>5. ASSUME NEW t \in Flushers, FlushTake(t) \/ FlushInsert(t) PROVE TogetherInv'
    BY <1>1, <1>3, <1>5, FlushInserts DEF FlushTake, dbVars
  <1> QED
    BY <1>1, <1>2, <1>4, <1>5, StoreSteps

\* The lines of a flush are stored together, and go together when their table does.
THEOREM SpecBatchIsAtomic == Spec => []BatchIsAtomic
  <1>1. TogetherInv => BatchIsAtomic
    BY DEF TogetherInv, BatchIsAtomic, InRows
  <1>2. Init => TogetherInv
    BY DEF Init, TogetherInv
  <1> QED
    BY <1>1, <1>2, InitTypes, SpecInv, NextHandType, NextRowType, NextTogether, PTL DEF Spec

-----------------------------------------------------------------------------
\* While a flush inserts, it does so under the newest hour.
SpanInv ==
    /\ m_TableName \in {Null, m_HourLatest}
    /\ locker # "none" =>
          /\ m_TableName = m_HourLatest
          /\ now - m_HourLatest <= IF locker \in crossed THEN 2 ELSE 1

\* Nothing changes but those in whose flush an hour has begun, and only by those
\* that hold no lock.
LEMMA SpanFrame ==
    ASSUME SpanInv, UNCHANGED <<now, m_HourLatest, m_TableName>>,
           locker' = "none" \/ (locker' = locker /\ (locker \in crossed' <=> locker \in crossed))
    PROVE  SpanInv'
  BY DEF SpanInv

LEMMA NextSpan == Inv /\ SpanInv /\ [Next]_vars => SpanInv'
  <1> SUFFICES ASSUME Inv, SpanInv, [Next]_vars PROVE SpanInv'
    OBVIOUS
  <1>0. /\ locker \in Flushers \cup {"none"}
        /\ ~crashed => LockInv
        /\ now \in Nat /\ m_HourLatest \in Nat /\ m_HourLatest <= now
    BY HoursAreNat DEF Inv, TypeInv, HourInv
  <1>1. CASE Tick
    <2>1. /\ now' = now + 1 /\ crossed = {} /\ ~crashed
          /\ crossed' = {t \in Flushers : pc[t] \in {"taken", "insert", "check", "close",
                                                     "open", "new"}}
          /\ UNCHANGED <<m_HourLatest, m_TableName, locker>>
      BY <1>1 DEF Tick, dbVars
    <2>2. ASSUME locker # "none" PROVE locker \in crossed' /\ now - m_HourLatest <= 1
      <3>1. locker \in Flushers /\ pc[locker] = "insert"
        BY <1>0, <2>1, <2>2 DEF LockInv
      <3>2. locker \in crossed'
        BY <2>1, <3>1
      <3> QED
        BY <2>1, <2>2, <3>2 DEF SpanInv
    <2> QED
      BY <1>0, <2>1, <2>2 DEF SpanInv
  <1>2. CASE \E line \in Lines : LogContent(line)
    BY <1>2, SpanFrame DEF LogContent, timeVars, dbVars, flushVars
  <1>3. ASSUME NEW t \in Flushers, FlushTake(t) PROVE SpanInv'
    BY <1>3, SpanFrame DEF FlushTake, timeVars, dbVars
  <1>4. ASSUME NEW t \in Flushers, FlushSplit(t) PROVE SpanInv'
    <2>1. /\ m_HourLatest' = IF HourIsOver THEN now ELSE m_HourLatest
          /\ m_TableName' = m_HourLatest' /\ now' = now
      BY <1>4 DEF FlushSplit, SetTableName
    <2>2. now - m_HourLatest' <= 1
      BY <1>0, <2>1 DEF HourIsOver
    <2>3. m_HourLatest' \in Nat
      BY <1>0, <2>1
    <2> QED
      BY <1>0, <2>1, <2>2, <2>3 DEF SpanInv
  <1>5. ASSUME NEW t \in Flushers, FlushInsert(t) PROVE SpanInv'
    <2>1. /\ UNCHANGED <<now, m_HourLatest, m_TableName>>
          /\ locker' = "none" \/ UNCHANGED <<locker, crossed>>
      BY <1>5 DEF FlushInsert, FlushReturns, flushVars, timeVars
    <2> QED
      BY <2>1, SpanFrame
  <1>6. CASE is_need_rotate \/ openNew
    <2>1. /\ UNCHANGED <<now, m_HourLatest, m_TableName, locker>>
          /\ crossed' = crossed \/ crossed' = crossed \ {"dl"}
          /\ ~crashed /\ pc["dl"] # "insert"
      BY <1>6 DEF is_need_rotate, openNew, RoundEnds, timeVars, dbVars
    <2>2. locker # "dl"
      BY <1>0, <2>1 DEF LockInv, Flushers
    <2> QED
      BY <2>1, <2>2, SpanFrame
  <1>7. CASE close \/ openDelete
    BY <1>7, SpanFrame DEF close, openDelete, timeVars
  <1>8. CASE Exit \/ sqlite_log_dtor \/ sqlite_log_gone \/ ClearBegin
    BY <1>8, SpanFrame DEF Exit, sqlite_log_dtor, sqlite_log_gone, ClearBegin, timeVars,
                           dbVars, flushVars
  <1>9. ASSUME NEW db \in Hours, ClearFile(db) PROVE SpanInv'
    BY <1>9, SpanFrame DEF ClearFile, timeVars, flushVars
  <1>10. CASE UNCHANGED vars
    BY <1>10, SpanFrame DEF vars, timeVars, dbVars, flushVars
  <1> QED
    BY <1>1, <1>2, <1>3, <1>4, <1>5, <1>6, <1>7, <1>8, <1>9, <1>10 DEF Next, do_logging

LEMMA SpecSpan == Spec => []SpanInv
  <1>1. Init => SpanInv
    BY DEF Init, SpanInv
  <1> QED
    BY <1>1, SpecInv, NextSpan, PTL DEF Spec

LEMMA NextTableSpan ==
    Inv /\ SpanInv /\ HandType /\ RowType /\ TableSpan /\ [Next]_vars => TableSpan'
  <1> SUFFICES ASSUME Inv, SpanInv, HandType, RowType, TableSpan, [Next]_vars
               PROVE  TableSpan'
    OBVIOUS
  <1>1. CASE UNCHANGED rowVars
    BY <1>1 DEF TableSpan, rowVars
  <1>2. ASSUME NEW db \in Hours, ClearFile(db) PROVE TableSpan'
    BY <1>2 DEF TableSpan, ClearFile
  <1>3. ASSUME NEW t \in Flushers, FlushInsert(t), InsertsBatch(t) PROVE TableSpan'
    <2>1. locker = t /\ t # "none"
      BY <1>3 DEF FlushInsert, Inv, LockInv, Flushers
    <2>2. now - m_TableName \in 0..2
      BY <2>1, HoursAreNat DEF SpanInv, Inv, TypeInv, HourInv
    <2>3. \A k \in 1..Len(batch[t]) : RowAt(t, k).hour - RowAt(t, k).name \in 0..2
      BY <2>2 DEF RowAt
    <2> QED
      BY <1>3, <2>3 DEF InsertsBatch, TableSpan
  <1>4. CASE \E line \in Lines : LogContent(line)
    BY <1>1, <1>4 DEF LogContent, dbVars
  <1>5. ASSUME NEW t \in Flushers, FlushTake(t) \/ FlushInsert(t) PROVE TableSpan'
    BY <1>1, <1>3, <1>5, FlushInserts DEF FlushTake, dbVars
  <1> QED
    BY <1>1, <1>2, <1>4, <1>5, StoreSteps

\* A table holds the rows of less than three hours, however many hours pass: a flush
\* inserts in a table that is at most two hours old.
THEOREM SpecTableSpan == Spec => []TableSpan
  <1>1. Init => TableSpan
    BY DEF Init, TableSpan
  <1> QED
    BY <1>1, InitTypes, SpecInv, SpecSpan, NextHandType, NextRowType, NextTableSpan, PTL
       DEF Spec

-----------------------------------------------------------------------------
\* The open database has the newest table, or was opened after that was made.
HasTable ==
    \/ [db |-> m_Database, name |-> m_TableName] \in tables
    \/ m_Database >= m_TableName

LackInv ==
    LogExpired >= 180 /\ ~failed /\ m_Database # Null /\ m_TableName # Null => HasTable

LEMMA NextLack == Inv /\ LinkedInv /\ SpanInv /\ LackInv /\ [Next]_vars => LackInv'
  <1> SUFFICES ASSUME Inv, LinkedInv, SpanInv, LackInv, [Next]_vars, LogExpired >= 180,
                      ~failed', m_Database' # Null, m_TableName' # Null
               PROVE  HasTable'
    BY DEF LackInv
  <1>1. ASSUME ~failed, UNCHANGED <<m_Database, m_TableName>>, tables \subseteq tables'
        PROVE  HasTable'
    BY <1>1 DEF LackInv, HasTable
  <1>2. KeptTables = tables
    BY DEF LinkedInv, KeptTables
  <1>3. CASE Tick \/ Exit \/ sqlite_log_dtor \/ ClearBegin
    BY <1>1, <1>3 DEF Tick, Exit, sqlite_log_dtor, ClearBegin, dbVars, endVars
  <1>4. CASE \E line \in Lines : LogContent(line)
    BY <1>1, <1>4 DEF LogContent, dbVars, endVars
  <1>5. ASSUME NEW t \in Flushers, FlushTake(t) PROVE HasTable'
    BY <1>1, <1>5 DEF FlushTake, dbVars, endVars
  <1>6. ASSUME NEW t \in Flushers, FlushSplit(t) PROVE HasTable'
    <2>1. /\ m_Database' = m_Database /\ m_TableName' = m_HourLatest'
          /\ m_HourLatest' = IF HourIsOver THEN now ELSE m_HourLatest
      BY <1>6 DEF FlushSplit, SetTableName
    <2>2. CASE tables' = tables \cup {[db |-> m_Database, name |-> m_TableName']}
      BY <2>1, <2>2 DEF HasTable
    <2>3. CASE ~IfTableNeedSplit /\ UNCHANGED <<tables, failed>>
      <3>1. m_TableName' = m_TableName
        BY <2>1, <2>3 DEF IfTableNeedSplit, SpanInv
      <3> QED
        BY <1>1, <2>1, <2>3, <3>1
    <2> QED
      BY <1>6, <2>1, <2>2, <2>3 DEF FlushSplit
  <1>7. ASSUME NEW t \in Flushers, FlushInsert(t) PROVE HasTable'
    <2>1. UNCHANGED <<m_Database, m_TableName, tables>>
      BY <1>7 DEF FlushInsert
    <2>2. UNCHANGED failed \/ failed' = (failed \/ Insertable(batch[t]))
      BY <1>7 DEF FlushInsert
    <2>3. ~failed
      BY <2>2, Zenon
    <2> QED
      BY <1>1, <2>1, <2>3
  <1>8. CASE is_need_rotate
    BY <1>1, <1>8 DEF is_need_rotate, dbVars, endVars
  <1>9. CASE close
    <2>1. /\ m_Database' = m_Database
          /\ UNCHANGED <<failed, m_TableName>> /\ tables' = tables
      BY <1>2, <1>9 DEF close, OpenDatabase
    <2> QED
      BY <1>1, <2>1
  <1>10. CASE openDelete \/ sqlite_log_gone
    BY <1>10 DEF openDelete, sqlite_log_gone
  <1>11. CASE openNew
    <2>1. m_Database' = now /\ m_TableName' = m_TableName
      BY <1>11 DEF openNew, OpenDatabase
    <2>2. m_TableName = m_HourLatest
      BY <2>1 DEF SpanInv
    <2> QED
      BY <2>1, <2>2, HoursAreNat DEF HasTable, Inv, TypeInv, HourInv
  <1>12. ASSUME NEW db \in Hours, ClearFile(db) PROVE HasTable'
    <2>1. ~IsTimeExpired(db) /\ \A t \in tables : ~IsTimeExpired(t.name)
      BY <1>12, NothingExpires DEF ClearFile
    <2>2. tables \subseteq tables' /\ ~failed /\ UNCHANGED <<m_Database, m_TableName>>
      BY <1>12, <2>1 DEF ClearFile
    <2> QED
      BY <1>1, <2>2
  <1>13. CASE UNCHANGED vars
    BY <1>1, <1>13 DEF vars, dbVars, endVars
  <1> QED
    BY <1>3, <1>4, <1>5, <1>6, <1>7, <1>8, <1>9, <1>10, <1>11, <1>12, <1>13
       DEF Next, do_logging

\* A flush finds the open database without the table of its rows only for two hours
\* at most after a rotation, if nothing has failed and little is cleared.
THEOREM SpecTableLacking == Spec => []TableLacking
  <1>1. ASSUME Inv, SpanInv, LackInv PROVE TableLacking
    <2> SUFFICES ASSUME LogExpired >= 180, locker # "none", m_Database # Null, ~failed,
                        [db |-> m_Database, name |-> m_TableName] \notin tables
                 PROVE  m_Database \in m_TableName .. m_TableName + 2 /\ now <= m_TableName + 2
      BY DEF TableLacking
    <2>1. /\ now \in Nat /\ m_HourLatest \in Nat /\ m_HourLatest >= 1 /\ m_Database \in Nat
          /\ m_Database <= m_HourLatest + 2
      BY <1>1, HoursAreNat DEF Inv, TypeInv, HourInv
    <2>2. /\ m_TableName = m_HourLatest
          /\ now - m_HourLatest <= IF locker \in crossed THEN 2 ELSE 1
      BY <1>1 DEF SpanInv
    <2>3. now <= m_HourLatest + 2
      BY <2>1, <2>2
    <2>4. m_TableName # Null
      BY <2>1, <2>2 DEF Null
    <2>5. m_Database >= m_TableName
      BY <1>1, <2>4 DEF LackInv, HasTable
    <2> QED
      BY <2>1, <2>2, <2>3, <2>5
  <1>2. Init => LackInv
    BY DEF Init, LackInv
  <1> QED
    BY <1>1, <1>2, SpecInv, SpecLinked, SpecSpan, NextLack, PTL DEF Spec
================================================================================
