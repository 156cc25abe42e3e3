---------------------------- MODULE CsvLogProofs -----------------------------
(***************************************************************************)
(* Proofs about CsvLog, for any number of threads and records and any size *)
(* of a file.                                                              *)
(*                                                                         *)
(* Inv is inductive by itself.  It says who may hold the lock, which       *)
(* records have met a flush or another log(), what of the cache that is    *)
(* being cleared is in the files, and - for the order - that the written   *)
(* records of a thread come before its cached ones, whichever cache it     *)
(* pushes to.                                                              *)
(***************************************************************************)
EXTENDS CsvLog, ABCacheTheorems

\* The records of each thread ascend, in a sequence and from one set to the
\* next.
Ascending(s) ==
    \A i, j \in DOMAIN s : i < j /\ s[i].app = s[j].app => s[i].n < s[j].n

Before(R, S) == \A r \in R, s \in S : r.app = s.app => r.n < s.n

Current == CurrentCache(cache)
Filling == FillingCache(cache)

FlushInv ==
    /\ \A t \in Flushers : pc[t] \in {"write", "clear"} <=> locker = t
    /\ m_File = "closed" => pc["dl"] = "open"
    /\ m_File = "null" => openFailed \/ pc["ctl"] = "exited"
    /\ pc["ctl"] = "exited" => pc["dl"] = "exited" /\ Calling = {}

OverlapInv ==
    /\ \A a \in Calling : count[a] >= 1
    /\ \A a \in Calling : locker # "none" => Record(a) \in overlapped
    /\ \A a, b \in Calling : a # b => Record(a) \in overlapped
    /\ \A a \in Apps : logging[a] = "again" => cache.abNo = 1 \/ Record(a) \in overlapped

\* What is about to be cleared has been written, but for records that came
\* too late.
ClearInv ==
    (\E t \in Flushers : pc[t] = "clear") /\ ~fileLost =>
        Range(Current) \subseteq Range(written) \cup overlapped

\* Thread a is about to push to the cache that the next flush takes.
Stale(a) ==
    \/ logging[a] = "A" /\ cache.abNo = 0
    \/ logging[a] = "B" /\ cache.abNo = 1

OrderInv ==
    /\ Ascending(written) /\ Ascending(Current) /\ Ascending(Filling)
    /\ Before(Range(Current), Range(Filling))
    /\ Before(Range(written), Range(Filling))
    /\ (\A t \in Flushers : pc[t] # "clear") => Before(Range(written), Range(Current))
    /\ \A r \in Range(written) \cup Range(Current) \cup Range(Filling) :
          /\ r.n <= count[r.app]
          /\ r.app \in Calling => r.n < count[r.app]
    /\ \A a \in Apps : Stale(a) => \A r \in Range(Filling) : r.app # a

Inv == TypeOK /\ FlushInv /\ OverlapInv /\ ClearInv /\ LostOnlyByOverlap /\ OrderInv
          /\ CrashExplained

-----------------------------------------------------------------------------
(***************************************************************************)
(* Sequences of records.                                                   *)
(***************************************************************************)
LEMMA RangeOfEmpty == Range(<<>>) = {}
  BY DEF Range

LEMMA RangeOfAppend ==
    ASSUME NEW S, NEW s \in Seq(S), NEW e \in S
    PROVE  Range(Append(s, e)) = Range(s) \cup {e}
  <1>1. /\ DOMAIN Append(s, e) = 1..Len(s) + 1 /\ DOMAIN s = 1..Len(s) /\ Len(s) \in Nat
        /\ Append(s, e)[Len(s) + 1] = e
        /\ \A i \in 1..Len(s) : Append(s, e)[i] = s[i]
    OBVIOUS
  <1>2. \A i \in 1..Len(s) + 1 : i \in 1..Len(s) \/ i = Len(s) + 1
    BY <1>1
  <1> QED
    BY <1>1, <1>2 DEF Range

LEMMA RangeOfCat ==
    ASSUME NEW S, NEW s \in Seq(S), NEW t \in Seq(S)
    PROVE  Range(Cat(s, t)) = Range(s) \cup Range(t)
  <1>1. /\ DOMAIN Cat(s, t) = 1..Len(s) + Len(t)
        /\ DOMAIN s = 1..Len(s) /\ DOMAIN t = 1..Len(t)
        /\ Len(s) \in Nat /\ Len(t) \in Nat
        /\ \A i \in 1..Len(s) : Cat(s, t)[i] = s[i]
        /\ \A i \in 1..Len(t) : Cat(s, t)[Len(s) + i] = t[i]
    BY ConcatProperties DEF Cat
  <1>2. \A i \in 1..Len(s) + Len(t) :
            i \in 1..Len(s) \/ \E j \in 1..Len(t) : i = Len(s) + j
    <2> TAKE i \in 1..Len(s) + Len(t)
    <2>1. CASE i > Len(s)
      <3>1. i - Len(s) \in 1..Len(t) /\ i = Len(s) + (i - Len(s))
        BY <1>1, <2>1
      <3> QED
        BY <3>1
    <2>2. CASE i <= Len(s)
      BY <1>1, <2>2
    <2> QED
      BY <1>1, <2>1, <2>2
  <1>3. \A j \in 1..Len(t) : Len(s) + j \in 1..Len(s) + Len(t)
    BY <1>1
  <1>4. \A i \in 1..Len(s) : i \in 1..Len(s) + Len(t)
    BY <1>1
  <1> DEFINE u == Cat(s, t)
  <1>5. ASSUME NEW x \in Range(u) PROVE x \in Range(s) \/ x \in Range(t)
    <2>1. PICK i \in 1..Len(s) + Len(t) : x = u[i]
      BY <1>1, <1>5 DEF Range
    <2> HIDE DEF u
    <2>2. CASE i \in 1..Len(s)
      BY <1>1, <2>1, <2>2 DEF Range, u
    <2>3. CASE \E j \in 1..Len(t) : i = Len(s) + j
      BY <1>1, <2>1, <2>3 DEF Range, u
    <2> QED
      BY <1>2, <2>2, <2>3
  <1>6. Range(s) \subseteq Range(u) /\ Range(t) \subseteq Range(u)
    <2> HIDE DEF u
    <2> QED
      BY <1>1, <1>3, <1>4 DEF Range, u
  <1> QED
    BY <1>5, <1>6

LEMMA RangeType ==
    ASSUME NEW S, NEW s \in Seq(S)
    PROVE  Range(s) \subseteq S
  BY DEF Range

LEMMA AscendingAppend ==
    ASSUME NEW s \in Seq(Records), NEW e \in Records, Ascending(s),
           Before(Range(s), {e})
    PROVE  Ascending(Append(s, e))
  <1> DEFINE u == Append(s, e)
  <1>1. /\ DOMAIN u = 1..Len(s) + 1 /\ DOMAIN s = 1..Len(s) /\ Len(s) \in Nat
        /\ u[Len(s) + 1] = e /\ \A i \in 1..Len(s) : u[i] = s[i]
    OBVIOUS
  <1> HIDE DEF u
  <1>2. SUFFICES ASSUME NEW i \in 1..Len(s) + 1, NEW j \in 1..Len(s) + 1,
                        i < j, u[i].app = u[j].app
                 PROVE  u[i].n < u[j].n
    BY <1>1 DEF Ascending, u
  <1>3. CASE j \in 1..Len(s)
    BY <1>1, <1>2, <1>3 DEF Ascending
  <1>4. CASE j = Len(s) + 1
    <2>1. i \in 1..Len(s) /\ s[i] \in Range(s)
      BY <1>1, <1>2, <1>4 DEF Range
    <2> QED
      BY <1>1, <1>2, <1>4, <2>1 DEF Before
  <1> QED
    BY <1>1, <1>3, <1>4

LEMMA AscendingCat ==
    ASSUME NEW s \in Seq(Records), NEW t \in Seq(Records), Ascending(s),
           Ascending(t), Before(Range(s), Range(t))
    PROVE  Ascending(Cat(s, t))
  <1> DEFINE u == Cat(s, t)  m == Len(s)  n == Len(t)
  <1>1. /\ DOMAIN u = 1..m + n /\ DOMAIN s = 1..m /\ DOMAIN t = 1..n
        /\ m \in Nat /\ n \in Nat
        /\ \A i \in 1..m : u[i] = s[i]
        /\ \A i \in 1..n : u[m + i] = t[i]
    BY ConcatProperties DEF Cat
  <1>2. /\ \A i \in 1..m : s[i] \in Range(s)
        /\ \A i \in 1..n : t[i] \in Range(t)
    BY <1>1 DEF Range
  <1> HIDE DEF u, m, n
  <1>3. SUFFICES ASSUME NEW i \in 1..m + n, NEW j \in 1..m + n,
                        i < j, u[i].app = u[j].app
                 PROVE  u[i].n < u[j].n
    BY <1>1 DEF Ascending, u
  <1>4. \A k \in 1..m + n : k > m => /\ k - m \in 1..n
                                     /\ u[k] = t[k - m]
    <2> TAKE k \in 1..m + n
    <2>1. ASSUME k > m PROVE k - m \in 1..n /\ m + (k - m) = k
      BY <1>1, <2>1
    <2> QED
      BY <1>1, <2>1
  <1>5. CASE j <= m
    <2>1. i \in 1..m /\ j \in 1..m
      BY <1>1, <1>3, <1>5
    <2> QED
      BY <1>1, <1>3, <2>1 DEF Ascending
  <1>6. CASE i > m
    <2>1. i - m \in 1..n /\ j - m \in 1..n /\ i - m < j - m
      BY <1>1, <1>3, <1>4, <1>6
    <2>2. u[i] = t[i - m] /\ u[j] = t[j - m]
      BY <1>1, <1>3, <1>4, <1>6
    <2> QED
      BY <1>1, <1>3, <2>1, <2>2 DEF Ascending
  <1>7. CASE i <= m /\ j > m
    <2>1. i \in 1..m /\ j - m \in 1..n /\ u[j] = t[j - m]
      BY <1>1, <1>4, <1>7
    <2> QED
      BY <1>1, <1>2, <1>3, <2>1 DEF Before
  <1> QED
    BY <1>1, <1>5, <1>6, <1>7

-----------------------------------------------------------------------------
(***************************************************************************)
(* The cache, seen from log().                                             *)
(***************************************************************************)
LEMMA CallingApps == Calling \subseteq Apps
  BY DEF Calling

LEMMA RecordType ==
    ASSUME TypeOK, OverlapInv, NEW a \in Calling
    PROVE  Record(a) \in Records
  <1>1. a \in Apps /\ count[a] \in 1..MaxRecords
    BY CsvLogAssumption DEF TypeOK, OverlapInv, Calling
  <1> QED
    BY <1>1 DEF Record, Records

LEMMA BufferedOf ==
    ASSUME NEW c \in CacheType(Records)
    PROVE  Range(Buffered(c)) = Range(CurrentCache(c)) \cup Range(FillingCache(c))
  BY CacheParts, RangeOfCat

LEMMA BufferedRange ==
    ASSUME TypeOK
    PROVE  /\ Range(Buffered(cache)) = Range(Current) \cup Range(Filling)
           /\ Current \in Seq(Records) /\ Filling \in Seq(Records)
  BY CacheParts, BufferedOf DEF TypeOK, Current, Filling

\* A push appends to one of the two caches; when the thread is not stale, to the
\* one that is being filled.
LEMMA PushedParts ==
    ASSUME TypeOK, OverlapInv, NEW a \in Calling, logging[a] \in {"A", "B"}
    PROVE  /\ Pushed(a) \in CacheType(Records)
           /\ Pushed(a).abNo = cache.abNo
           /\ IF Stale(a)
              THEN /\ CurrentCache(Pushed(a)) = Append(Current, Record(a))
                   /\ FillingCache(Pushed(a)) = Filling
              ELSE /\ CurrentCache(Pushed(a)) = Current
                   /\ FillingCache(Pushed(a)) = Append(Filling, Record(a))
  <1> DEFINE p == Pushed(a)
  <1>1. /\ cache \in CacheType(Records) /\ Record(a) \in Records
        /\ cache.abNo \in {0, 1} /\ cache.A \in Seq(Records) /\ cache.B \in Seq(Records)
    BY RecordType DEF TypeOK, CacheType
  <1>2. CASE logging[a] = "A"
    <2>1. Append(cache.A, Record(a)) \in Seq(Records)
      BY <1>1, AppendProperties
    <2>2. p = [cache EXCEPT !.A = Append(cache.A, Record(a))]
      BY <1>2 DEF Pushed
    <2>3. /\ p \in CacheType(Records)
          /\ p.abNo = cache.abNo /\ p.B = cache.B /\ p.A = Append(cache.A, Record(a))
      BY <1>1, <2>1, <2>2 DEF CacheType
    <2> HIDE DEF p
    <2> QED
      BY <1>1, <1>2, <2>3 DEF p, Stale, CurrentCache, FillingCache, Current, Filling
  <1>3. CASE logging[a] = "B"
    <2>1. Append(cache.B, Record(a)) \in Seq(Records)
      BY <1>1, AppendProperties
    <2>2. p = [cache EXCEPT !.B = Append(cache.B, Record(a))]
      BY <1>3 DEF Pushed
    <2>3. /\ p \in CacheType(Records)
          /\ p.abNo = cache.abNo /\ p.A = cache.A /\ p.B = Append(cache.B, Record(a))
      BY <1>1, <2>1, <2>2 DEF CacheType
    <2> HIDE DEF p
    <2> QED
      BY <1>1, <1>3, <2>3 DEF p, Stale, CurrentCache, FillingCache, Current, Filling
  <1> QED
    BY <1>2, <1>3

-----------------------------------------------------------------------------
(***************************************************************************)
(* Inv is inductive.                                                       *)
(***************************************************************************)
LEMMA InitInv == Init => Inv
  <1> SUFFICES ASSUME Init PROVE Inv
    OBVIOUS
  <1>1. /\ EmptyCache \in CacheType(Records) /\ <<>> \in Seq(Records)
        /\ Current = <<>> /\ Filling = <<>> /\ Buffered(cache) = <<>>
    BY EmptyCacheBuffers, EmptySeq DEF Init, Current, Filling
  <1>2. TypeOK
    <2>1. 0 \in 0..MaxRecords
      BY CsvLogAssumption
    <2> QED
      BY <1>1, <2>1 DEF Init, TypeOK, Flushers
  <1>3. Calling = {} /\ \A a \in Apps : logging[a] = "idle"
    BY DEF Init, Calling
  <1>4. FlushInv
    BY <1>3 DEF Init, FlushInv, Flushers
  <1>5. OverlapInv
    BY <1>3 DEF OverlapInv
  <1>6. ClearInv
    BY DEF Init, ClearInv
  <1>7. LostOnlyByOverlap
    BY CsvLogAssumption DEF Init, LostOnlyByOverlap
  <1>8. OrderInv
    <2>1. Ascending(<<>>)
      BY DEF Ascending
    <2> QED
      BY <1>1, <1>3, <2>1, RangeOfEmpty DEF Init, OrderInv, Before, Stale
  <1> QED
    BY <1>2, <1>4, <1>5, <1>6, <1>7, <1>8 DEF Inv, Init, CrashExplained

\* A step that changes neither caches nor files keeps the order, if nobody
\* begins to push and no flush ends.
LEMMA OrderFrame ==
    ASSUME TypeOK, OrderInv, UNCHANGED <<cache, written, count>>,
           Calling' \subseteq Calling,
           \A a \in Apps : Stale(a)' => Stale(a),
           (\A t \in Flushers : pc'[t] # "clear") => \A t \in Flushers : pc[t] # "clear"
    PROVE  OrderInv'
  <1>1. Current' = Current /\ Filling' = Filling
    BY DEF Current, Filling
  <1> QED
    BY <1>1, Zenon DEF OrderInv

LEMMA KeepsLogBegin ==
    ASSUME Inv, NEW a \in Apps, LogBegin(a)
    PROVE  Inv'
  <1>0. /\ TypeOK /\ FlushInv /\ OverlapInv /\ ClearInv /\ LostOnlyByOverlap /\ OrderInv
        /\ ~crashed
    BY DEF Inv, LogBegin
  <1>1. /\ logging[a] = "idle" /\ pc["ctl"] # "exited" /\ a \notin Calling
        /\ count[a] \in 0..MaxRecords /\ count[a] < MaxRecords /\ count[a] \in Nat
        /\ count'[a] = count[a] + 1
        /\ \A b \in Apps : b # a => count'[b] = count[b] /\ logging'[b] = logging[b]
        /\ logging'[a] = IF cache.abNo = 0 THEN "B" ELSE "again"
        /\ UNCHANGED <<cache, fileVars, pcVars, crashed, met, fileLost>>
    BY <1>0, CsvLogAssumption DEF LogBegin, TypeOK, Calling
  <1>2. /\ Calling' = Calling \cup {a}
        /\ \A b \in Calling : Record(b)' = Record(b)
        /\ Record(a)' = [app |-> a, n |-> count[a] + 1]
    BY <1>1 DEF Calling, Record
  <1>3. /\ overlapped \subseteq overlapped'
        /\ Calling # {} \/ locker # "none" =>
              Record(a)' \in overlapped' /\ \A b \in Calling : Record(b) \in overlapped'
    BY DEF LogBegin
  <1>4. TypeOK'
    <2>1. count' \in [Apps -> 0..MaxRecords]
      <3>1. count[a] + 1 \in 0..MaxRecords
        BY <1>1, CsvLogAssumption
      <3> QED
        BY <1>0, <3>1 DEF LogBegin, TypeOK
    <2>2. logging' \in [Apps -> {"idle", "again", "A", "B"}]
      BY <1>0 DEF LogBegin, TypeOK
    <2>3. overlapped' \subseteq Records
      <3>1. Record(a)' \in Records
        BY <1>1, <1>2, CsvLogAssumption DEF Records
      <3>2. \A b \in Calling : Record(b) \in Records
        BY <1>0, RecordType
      <3> QED
        BY <1>0, <3>1, <3>2 DEF LogBegin, TypeOK
    <2> QED
      BY <1>0, <1>1, <2>1, <2>2, <2>3 DEF TypeOK, fileVars, pcVars
  <1>5. FlushInv'
    BY <1>0, <1>1, <1>2 DEF FlushInv, fileVars, pcVars
  <1>6. OverlapInv'
    <2>1. \A b \in Calling' : count'[b] >= 1
      BY <1>0, <1>1, <1>2 DEF OverlapInv, Calling
    <2>2. \A b \in Calling' : locker' # "none" => Record(b)' \in overlapped'
      BY <1>0, <1>1, <1>2, <1>3 DEF OverlapInv, pcVars
    <2>3. \A b, d \in Calling' : b # d => Record(b)' \in overlapped'
      BY <1>0, <1>1, <1>2, <1>3
    <2>4. \A b \in Apps : logging'[b] = "again" => cache'.abNo = 1 \/ Record(b)' \in overlapped'
      <3>1. cache.abNo \in {0, 1}
        BY <1>0 DEF TypeOK, CacheType
      <3>2. \A b \in Apps : b # a => Record(b)' = Record(b)
        BY <1>1 DEF Record
      <3> QED
        BY <1>0, <1>1, <1>3, <3>1, <3>2 DEF OverlapInv
    <2> QED
      BY <2>1, <2>2, <2>3, <2>4 DEF OverlapInv
  <1>7. ClearInv'
    BY <1>0, <1>1, <1>3 DEF ClearInv, Current, fileVars, pcVars
  <1>8. LostOnlyByOverlap'
    <2> SUFFICES ASSUME ~fileLost', NEW b \in Apps, NEW n \in 1..count'[b]
                 PROVE  LET r == [app |-> b, n |-> n] IN
                        \/ r \in overlapped'
                        \/ pc'["ctl"] = "exited" /\ openFailed'
                        \/ n = count'[b] /\ b \in Calling'
                        \/ r \in Range(written') \cup Range(Buffered(cache'))
      BY DEF LostOnlyByOverlap
    <2>1. CASE b = a /\ n = count'[a]
      BY <1>2, <2>1
    <2>2. CASE ~(b = a /\ n = count'[a])
      <3>1. n \in 1..count[b] /\ ~(b = a /\ b \in Calling)
        BY <1>1, <2>2
      <3> QED
        BY <1>0, <1>1, <1>2, <1>3, <3>1 DEF LostOnlyByOverlap, fileVars, pcVars
    <2> QED
      BY <2>1, <2>2
  <1>9. OrderInv'
    <2>1. Current' = Current /\ Filling' = Filling /\ written' = written /\ pc' = pc
      BY <1>1 DEF Current, Filling, fileVars, pcVars
    <2>2. \A r \in Range(written) \cup Range(Current) \cup Range(Filling) :
              /\ r.app \in Apps /\ r.n \in Nat
              /\ r.n <= count[r.app]
              /\ r.app \in Calling => r.n < count[r.app]
      <3>1. Range(written) \cup Range(Current) \cup Range(Filling) \subseteq Records
        BY <1>0, RangeType, BufferedRange DEF TypeOK
      <3> QED
        BY <1>0, <3>1 DEF OrderInv, Records
    <2>3. \A r \in Range(written) \cup Range(Current) \cup Range(Filling) :
              /\ r.n <= count'[r.app]
              /\ r.app \in Calling' => r.n < count'[r.app]
      BY <1>1, <1>2, <2>2
    <2>4. \A b \in Apps : Stale(b)' => b # a /\ Stale(b)
      BY <1>1 DEF Stale
    <2> QED
      BY <1>0, <2>1, <2>3, <2>4 DEF OrderInv
  <1> QED
    BY <1>1, <1>0, <1>4, <1>5, <1>6, <1>7, <1>8, <1>9 DEF Inv, CrashExplained

LEMMA KeepsLogReadsAgain ==
    ASSUME Inv, NEW a \in Apps, LogReadsAgain(a)
    PROVE  Inv'
  <1>0. /\ TypeOK /\ FlushInv /\ OverlapInv /\ ClearInv /\ LostOnlyByOverlap /\ OrderInv
        /\ ~crashed /\ a \in Calling /\ logging[a] = "again"
    BY DEF Inv, LogReadsAgain, Calling
  <1>1. /\ logging'[a] = IF cache.abNo = 1 THEN "A" ELSE "idle"
        /\ \A b \in Apps : b # a => logging'[b] = logging[b]
        /\ UNCHANGED <<cache, count, fileVars, pcVars, crashed, met, overlapped, fileLost>>
    BY <1>0 DEF LogReadsAgain, TypeOK
  <1>2. /\ Calling' \subseteq Calling
        /\ cache.abNo = 1 => Calling' = Calling
        /\ \A b \in Calling : b # a => b \in Calling'
    BY <1>0, <1>1 DEF Calling
  <1>3. \A b \in Apps : Record(b)' = Record(b)
    BY <1>1 DEF Record
  <1>4. TypeOK'
    BY <1>0, <1>1 DEF LogReadsAgain, TypeOK, fileVars, pcVars
  <1>5. FlushInv'
    BY <1>0, <1>1, <1>2 DEF FlushInv, fileVars, pcVars
  <1>6. OverlapInv'
    BY <1>0, <1>1, <1>2, <1>3 DEF OverlapInv, pcVars, Calling
  <1>7. ClearInv'
    BY <1>0, <1>1 DEF ClearInv, Current, fileVars, pcVars
  <1>8. LostOnlyByOverlap'
    <2>1. a \in Calling' \/ Record(a) \in overlapped
      BY <1>0, <1>1, <1>2 DEF OverlapInv
    <2> QED
      BY <1>0, <1>1, <1>2, <2>1 DEF LostOnlyByOverlap, Record, fileVars, pcVars
  <1>9. OrderInv'
    <2>1. \A b \in Apps : Stale(b)' => Stale(b)
      BY <1>1 DEF Stale
    <2> QED
      BY <1>0, <1>1, <1>2, <2>1, OrderFrame DEF fileVars, pcVars
  <1> QED
    BY <1>1, <1>0, <1>4, <1>5, <1>6, <1>7, <1>8, <1>9 DEF Inv, CrashExplained

\* Another thread is in the vector that a pushes to.
Races(a) ==
    Flushing = logging[a] \/ \E b \in Apps \ {a} : logging[b] = logging[a]

LEMMA KeepsLogPush ==
    ASSUME Inv, NEW a \in Apps, LogPush(a)
    PROVE  Inv'
  <1> DEFINE r == Record(a)
  <1>0. /\ TypeOK /\ FlushInv /\ OverlapInv /\ ClearInv /\ LostOnlyByOverlap /\ OrderInv
        /\ CrashExplained /\ ~crashed /\ a \in Calling /\ logging[a] \in {"A", "B"}
    BY DEF Inv, LogPush, Calling
  <1>1. /\ logging'[a] = "idle"
        /\ \A b \in Apps : b # a => logging'[b] = logging[b]
        /\ UNCHANGED <<count, fileVars, pcVars, overlapped, fileLost>>
    BY <1>0 DEF LogPush, TypeOK
  <1>2. Calling' = Calling \ {a}
    BY <1>1 DEF Calling
  <1>3. /\ \A b \in Apps : Record(b)' = Record(b)
        /\ r \in Records
    BY <1>0, <1>1, RecordType DEF Record
  <1>a. /\ met' = (met \/ Races(a)) /\ met \in BOOLEAN
        /\ crashed' # crashed => Races(a)
    BY <1>0 DEF LogPush, TypeOK, Races
  <1>4. \/ cache' = Pushed(a) /\ crashed' = crashed
        \/ cache' = cache /\ r \in overlapped
    <2>1. ASSUME Flushing = logging[a] PROVE locker # "none"
      BY <1>0, <2>1 DEF Flushing
    <2>2. ASSUME NEW b \in Apps \ {a}, logging[b] = logging[a] PROVE b \in Calling
      BY <1>0, <2>2 DEF Calling
    <2>3. Flushing = logging[a] \/ (\E b \in Apps \ {a} : logging[b] = logging[a])
              => r \in overlapped
      BY <1>0, <2>1, <2>2 DEF OverlapInv
    <2> QED
      BY <2>3 DEF LogPush
  <1>5. /\ cache' \in CacheType(Records) /\ cache'.abNo = cache.abNo
        /\ \/ Current' = Current /\ Filling' = Filling /\ r \in overlapped
           \/ Stale(a) /\ Current' = Append(Current, r) /\ Filling' = Filling
           \/ ~Stale(a) /\ Current' = Current /\ Filling' = Append(Filling, r)
    <2>1. CASE cache' = Pushed(a)
      BY <1>0, <2>1, PushedParts DEF Current, Filling
    <2>2. CASE cache' = cache /\ r \in overlapped
      BY <1>0, <2>2 DEF Current, Filling, TypeOK
    <2> QED
      BY <1>4, <2>1, <2>2
  <1> HIDE DEF r
  <1>6. TypeOK'
    <2>1. crashed' \in BOOLEAN
      BY <1>0 DEF LogPush, TypeOK
    <2>2. logging' \in [Apps -> {"idle", "again", "A", "B"}]
      BY <1>0 DEF LogPush, TypeOK
    <2>3. met' \in BOOLEAN
      BY <1>0, <1>a DEF TypeOK
    <2> QED
      BY <1>0, <1>1, <1>5, <2>1, <2>2, <2>3 DEF TypeOK, fileVars, pcVars
  <1>7. FlushInv'
    BY <1>0, <1>1, <1>2 DEF FlushInv, fileVars, pcVars
  <1>8. OverlapInv'
    BY <1>0, <1>1, <1>2, <1>3, <1>5 DEF OverlapInv, pcVars, Calling
  <1>9. /\ Current \in Seq(Records) /\ Filling \in Seq(Records)
        /\ Range(Buffered(cache)) = Range(Current) \cup Range(Filling)
        /\ Range(Buffered(cache)') = Range(Current') \cup Range(Filling')
        /\ Range(Append(Current, r)) = Range(Current) \cup {r}
        /\ Range(Append(Filling, r)) = Range(Filling) \cup {r}
    <2>1. Range(Buffered(cache)') = Range(Current') \cup Range(Filling')
      BY <1>5, BufferedOf DEF Current, Filling
    <2> QED
      BY <1>0, <1>3, <2>1, BufferedRange, RangeOfAppend
  <1>10. ClearInv'
    <2> SUFFICES ASSUME ~fileLost, \E t \in Flushers : pc[t] = "clear"
                 PROVE  Range(Current') \subseteq Range(written) \cup overlapped
      BY <1>1 DEF ClearInv, fileVars, pcVars
    <2>1. Range(Current) \subseteq Range(written) \cup overlapped
      BY <1>0 DEF ClearInv
    <2>2. r \in overlapped
      BY <1>0 DEF FlushInv, OverlapInv, r, TypeOK, Flushers
    <2> QED
      BY <1>5, <1>9, <2>1, <2>2
  <1>11. LostOnlyByOverlap'
    <2>1. r \in overlapped \/ r \in Range(Buffered(cache)')
      BY <1>5, <1>9
    <2>2. Range(Buffered(cache)) \subseteq Range(Buffered(cache)')
      BY <1>5, <1>9
    <2> QED
      BY <1>0, <1>1, <1>2, <2>1, <2>2 DEF LostOnlyByOverlap, r, Record, fileVars, pcVars
  <1>12. OrderInv'
    <2>1. /\ \A x \in Range(written) \cup Range(Current) \cup Range(Filling) :
                /\ x.app = r.app => x.n < r.n
                /\ x.n <= count[x.app]
                /\ x.app \in Calling => x.n < count[x.app]
          /\ r.app = a /\ r.n = count[a] /\ count[a] \in Nat
      BY <1>0 DEF OrderInv, r, Record, TypeOK
    <2>2. Before(Range(Current), {r}) /\ Before(Range(Filling), {r}) /\ Before(Range(written), {r})
      BY <2>1 DEF Before
    <2>3. \A b \in Apps : Stale(b)' => b # a /\ Stale(b)
      BY <1>0, <1>1, <1>5 DEF Stale
    <2>4. \A x \in Range(written') \cup Range(Current') \cup Range(Filling') :
              /\ x.n <= count'[x.app]
              /\ x.app \in Calling' => x.n < count'[x.app]
      <3>1. Range(written') \cup Range(Current') \cup Range(Filling')
                \subseteq Range(written) \cup Range(Current) \cup Range(Filling) \cup {r}
        BY <1>1, <1>5, <1>9 DEF fileVars
      <3>2. r.n <= count[r.app] /\ r.app \notin Calling'
        BY <1>2, <2>1
      <3>3. count' = count
        BY <1>1
      <3> QED
        BY <1>2, <2>1, <3>1, <3>2, <3>3
    <2>5. CASE Current' = Current /\ Filling' = Filling
      BY <1>0, <1>1, <2>3, <2>4, <2>5 DEF OrderInv, fileVars, pcVars
    <2>6. CASE Stale(a) /\ Current' = Append(Current, r) /\ Filling' = Filling
      <3>1. Ascending(Current')
        BY <1>0, <1>3, <1>9, <2>2, <2>6, AscendingAppend DEF OrderInv
      <3>2. Before(Range(Current'), Range(Filling'))
        BY <1>0, <1>9, <2>1, <2>6 DEF OrderInv, Before
      <3>3. Before(Range(written), Range(Current)) => Before(Range(written), Range(Current'))
        BY <1>9, <2>2, <2>6 DEF Before
      <3> QED
        BY <1>0, <1>1, <2>3, <2>4, <2>6, <3>1, <3>2, <3>3 DEF OrderInv, fileVars, pcVars
    <2>7. CASE ~Stale(a) /\ Current' = Current /\ Filling' = Append(Filling, r)
      <3>1. Ascending(Filling')
        BY <1>0, <1>3, <1>9, <2>2, <2>7, AscendingAppend DEF OrderInv
      <3>2. Before(Range(Current'), Range(Filling')) /\ Before(Range(written), Range(Filling'))
        BY <1>0, <1>9, <2>2, <2>7 DEF OrderInv, Before
      <3>3. \A b \in Apps : Stale(b)' => \A x \in Range(Filling') : x.app # b
        BY <1>0, <1>9, <2>1, <2>3, <2>7 DEF OrderInv
      <3> QED
        BY <1>0, <1>1, <2>4, <2>7, <3>1, <3>2, <3>3 DEF OrderInv, fileVars, pcVars
    <2> QED
      BY <1>5, <2>5, <2>6, <2>7
  <1>13. CrashExplained'
    <2>1. crashed' => met'
      BY <1>0, <1>a DEF LogPush
    <2> QED
      BY <2>1 DEF CrashExplained
  <1> QED
    BY <1>6, <1>7, <1>8, <1>10, <1>11, <1>12, <1>13 DEF Inv

LEMMA KeepsFlushBegin ==
    ASSUME Inv, NEW t \in Flushers, FlushBegin(t)
    PROVE  Inv'
  <1>0. /\ TypeOK /\ FlushInv /\ OverlapInv /\ ClearInv /\ LostOnlyByOverlap /\ OrderInv
        /\ ~crashed /\ pc[t] = "idle" /\ locker = "none" /\ t # "none"
    BY DEF Inv, FlushBegin, Flushers
  <1>1. /\ pc'[t] = "write" /\ locker' = t
        /\ \A u \in Flushers : u # t => pc'[u] = pc[u]
        /\ overlapped \subseteq overlapped'
        /\ \A b \in Calling : Record(b) \in overlapped'
        /\ UNCHANGED <<cache, logVars, fileVars, crashed, met, fileLost>>
    BY <1>0 DEF FlushBegin, GoTo, TypeOK
  <1>2. Calling' = Calling /\ \A b \in Apps : Record(b)' = Record(b)
    BY <1>1 DEF Calling, Record, logVars
  <1>3. \A u \in Flushers : pc[u] \notin {"write", "clear"}
    BY <1>0 DEF FlushInv, Flushers
  <1>4. TypeOK'
    <2>1. overlapped' \subseteq Records
      BY <1>0, RecordType DEF FlushBegin, TypeOK
    <2> QED
      BY <1>0, <1>1, <2>1 DEF FlushBegin, GoTo, TypeOK, fileVars, logVars
  <1>5. FlushInv'
    <2>1. \A u \in Flushers : pc'[u] \in {"write", "clear"} <=> locker' = u
      BY <1>1, <1>3
    <2>2. m_File = "closed" => pc'["dl"] = "open"
      BY <1>0, <1>1 DEF FlushInv, Flushers
    <2>3. pc'["ctl"] = "exited" => Calling' = {} /\ pc'["dl"] = "exited"
      BY <1>0, <1>1, <1>2 DEF FlushInv, Flushers
    <2>4. m_File = "null" => openFailed \/ pc'["ctl"] = "exited"
      BY <1>0, <1>1 DEF FlushInv, Flushers
    <2> QED
      <3>1. m_File' = m_File /\ openFailed' = openFailed
        BY <1>1 DEF fileVars
      <3> QED
        BY <2>1, <2>2, <2>3, <2>4, <3>1, Zenon DEF FlushInv
  <1>6. OverlapInv'
    BY <1>0, <1>1, <1>2, CallingApps DEF OverlapInv, logVars
  <1>7. ClearInv'
    BY <1>1, <1>3 DEF ClearInv
  <1>8. LostOnlyByOverlap'
    BY <1>0, <1>1, <1>2 DEF LostOnlyByOverlap, fileVars, logVars, FlushInv, Flushers
  <1>9. OrderInv'
    <2>1. \A b \in Apps : Stale(b)' => Stale(b)
      BY <1>1 DEF Stale, logVars
    <2> QED
      BY <1>0, <1>1, <1>2, <1>3, <2>1, OrderFrame DEF fileVars, logVars
  <1> QED
    BY <1>1, <1>0, <1>4, <1>5, <1>6, <1>7, <1>8, <1>9 DEF Inv, CrashExplained

LEMMA KeepsFlushWrite ==
    ASSUME Inv, NEW t \in Flushers, FlushWrite(t)
    PROVE  Inv'
  <1>0. /\ TypeOK /\ FlushInv /\ OverlapInv /\ ClearInv /\ LostOnlyByOverlap /\ OrderInv
        /\ ~crashed /\ pc[t] = "write" /\ locker = t
        /\ \A u \in Flushers : pc[u] # "clear"
        /\ UNCHANGED <<cache, logging, count, m_File, openFailed, locker, met, overlapped>>
    BY DEF Inv, FlushWrite, FlushInv, logVars
  <1>1. /\ Current' = Current /\ Filling' = Filling
        /\ Calling' = Calling /\ \A b \in Apps : Record(b)' = Record(b)
        /\ \A b \in Apps : Stale(b)' <=> Stale(b)
    BY <1>0 DEF Current, Filling, Calling, Record, Stale
  <1>2. Current \in Seq(Records) /\ Filling \in Seq(Records) /\ written \in Seq(Records)
    BY <1>0, BufferedRange DEF TypeOK
  <1>3. OverlapInv'
    BY <1>0, <1>1, CallingApps DEF OverlapInv
  <1>4. CASE /\ GoTo(t, "clear") /\ UNCHANGED crashed
             /\ \/ /\ m_File = "open" \/ Current = <<>>
                   /\ written' = Cat(written, Current)
                   /\ fileRecords' = fileRecords + Len(Current)
                   /\ UNCHANGED fileLost
                \/ fileLost' = TRUE /\ UNCHANGED <<written, fileRecords>>
    <2>1. /\ pc'[t] = "clear"
          /\ \A u \in Flushers : u # t => pc'[u] = pc[u]
          /\ pc' \in [Flushers -> {"idle", "write", "clear", "check", "close", "open",
                                   "done", "exited"}]
      BY <1>0, <1>4 DEF GoTo, TypeOK
    <2>2. /\ written' \in Seq(Records)
          /\ Range(written') \subseteq Range(written) \cup Range(Current)
          /\ Range(written) \subseteq Range(written')
          /\ ~fileLost' => ~fileLost /\ Range(Current) \subseteq Range(written')
      <3>1. CASE written' = Cat(written, Current) /\ UNCHANGED fileLost
        <4>1. Range(Cat(written, Current)) = Range(written) \cup Range(Current)
          BY <1>2, RangeOfCat
        <4> QED
          BY <1>2, <3>1, <4>1, CatType
      <3>2. CASE fileLost' = TRUE /\ UNCHANGED written
        BY <1>2, <3>2
      <3> QED
        BY <1>4, <3>1, <3>2
    <2>3. TypeOK'
      <3>1. fileRecords' \in Nat
        BY <1>0, <1>2, <1>4 DEF TypeOK
      <3>2. fileLost' \in BOOLEAN
        BY <1>0, <1>4 DEF TypeOK
      <3> QED
        BY <1>0, <1>4, <2>1, <2>2, <3>1, <3>2 DEF TypeOK
    <2>4. FlushInv'
      <3>1. \A u \in Flushers : pc'[u] \in {"write", "clear"} <=> locker' = u
        BY <1>0, <2>1 DEF FlushInv
      <3>2. \A u \in Flushers : pc'[u] \in {"open", "exited"} <=> pc[u] \in {"open", "exited"}
        BY <1>0, <2>1
      <3> QED
        BY <1>0, <1>1, <2>1, <3>1 DEF FlushInv, Flushers
    <2>5. ClearInv'
      BY <1>0, <1>1, <2>2 DEF ClearInv
    <2>6. LostOnlyByOverlap'
      <3>1. pc["ctl"] # "exited"
        BY <1>0 DEF FlushInv, Flushers
      <3> QED
        BY <1>0, <1>1, <2>2, <3>1 DEF LostOnlyByOverlap
    <2>7. OrderInv'
      <3>1. Ascending(written')
        BY <1>0, <1>2, <1>4, AscendingCat DEF OrderInv
      <3>2. Before(Range(written'), Range(Filling))
        BY <1>0, <2>2 DEF OrderInv, Before
      <3> QED
        BY <1>0, <1>1, <2>1, <2>2, <3>1, <3>2 DEF OrderInv
    <2> QED
      BY <1>0, <1>3, <1>4, <2>3, <2>4, <2>5, <2>6, <2>7 DEF Inv, CrashExplained
  <1>5. CASE /\ m_File \in {"null", "closed"} /\ crashed' = TRUE
             /\ UNCHANGED <<pc, written, fileRecords, fileLost>>
    <2>1. CrashExplained'
      BY <1>0, <1>5 DEF FlushInv, CrashExplained, Flushers
    <2>2. TypeOK'
      BY <1>0, <1>5 DEF TypeOK
    <2>3. FlushInv' /\ ClearInv' /\ LostOnlyByOverlap'
      BY <1>0, <1>1, <1>5 DEF FlushInv, ClearInv, LostOnlyByOverlap
    <2>4. OrderInv'
      BY <1>0, <1>1, <1>5, OrderFrame
    <2> QED
      BY <1>3, <2>1, <2>2, <2>3, <2>4 DEF Inv
  <1> QED
    <2>1. CurrentCache(cache) = Current /\ written \o Current = Cat(written, Current)
      BY DEF Current, Cat
    <2> QED
      BY <1>4, <1>5, <2>1, Zenon DEF FlushWrite

LEMMA KeepsFlushClear ==
    ASSUME Inv, NEW t \in Flushers, FlushClear(t)
    PROVE  Inv'
  <1>0. /\ TypeOK /\ FlushInv /\ OverlapInv /\ ClearInv /\ LostOnlyByOverlap /\ OrderInv
        /\ ~crashed /\ pc[t] = "clear" /\ locker = t /\ t # "none" /\ locker' = "none"
        /\ UNCHANGED <<logging, count, m_File, written, fileRecords, openFailed,
                       met, overlapped, fileLost>>
    BY DEF Inv, FlushClear, FlushInv, Flushers, logVars, fileVars
  <1>1. /\ pc'[t] = IF t = "dl" THEN "check" ELSE "done"
        /\ \A u \in Flushers : u # t => pc'[u] = pc[u] /\ pc[u] \notin {"write", "clear"}
    BY <1>0 DEF FlushClear, GoTo, TypeOK, FlushInv
  <1>2. /\ cache' \in CacheType(Records)
        /\ Current' = Filling /\ Filling' = <<>>
        /\ Range(Buffered(cache)') = Range(Filling)
        /\ Range(Filling') = {}
        /\ Ascending(<<>>)
    <2>1. cache' = Swapped(cache)
      BY DEF FlushClear
    <2>2. Ascending(<<>>)
      BY DEF Ascending
    <2> QED
      BY <1>0, <2>1, <2>2, SwappedSplits, RangeOfEmpty DEF TypeOK, Current, Filling
  <1>3. Calling' = Calling /\ \A b \in Apps : Record(b)' = Record(b)
    BY <1>0 DEF Calling, Record
  <1>4. TypeOK'
    <2>1. crashed' \in BOOLEAN
      BY DEF FlushClear
    <2>2. pc' \in [Flushers -> {"idle", "write", "clear", "check", "close", "open",
                                "done", "exited"}]
      BY <1>0 DEF FlushClear, GoTo, TypeOK
    <2> QED
      BY <1>0, <1>2, <2>1, <2>2 DEF TypeOK
  <1>5. FlushInv'
    <2>1. \A u \in Flushers : pc'[u] \in {"write", "clear"} <=> locker' = u
      BY <1>0, <1>1 DEF Flushers
    <2>2. m_File = "closed" => pc'["dl"] = "open"
      BY <1>0, <1>1 DEF FlushInv, Flushers
    <2>3. pc["ctl"] # "exited" /\ pc'["ctl"] # "exited"
      BY <1>0, <1>1 DEF FlushInv, Flushers
    <2> QED
      BY <1>0, <2>1, <2>2, <2>3 DEF FlushInv
  <1>6. OverlapInv'
    <2>1. \A a \in Calling : Record(a) \in overlapped
      BY <1>0 DEF OverlapInv
    <2>2. \A a \in Apps : logging[a] = "again" => a \in Calling
      BY DEF Calling
    <2>3. \A a \in Calling : count[a] >= 1
      BY <1>0 DEF OverlapInv
    <2> QED
      BY <1>0, <1>3, <2>1, <2>2, <2>3, CallingApps DEF OverlapInv
  <1>7. ClearInv'
    BY <1>0, <1>1 DEF ClearInv
  <1>8. LostOnlyByOverlap'
    <2>1. ~fileLost => Range(Current) \subseteq Range(written) \cup overlapped
      BY <1>0 DEF ClearInv
    <2>2. Range(Buffered(cache)) = Range(Current) \cup Range(Filling)
      BY <1>0, BufferedRange
    <2>3. pc["ctl"] # "exited"
      BY <1>0 DEF FlushInv, Flushers
    <2> QED
      BY <1>0, <1>2, <1>3, <2>1, <2>2, <2>3 DEF LostOnlyByOverlap
  <1>9. OrderInv'
    BY <1>0, <1>2, <1>3 DEF OrderInv, Before
  <1>10. CrashExplained'
    <2>1. crashed' => m_File = "closed" /\ m_File' = "closed"
      BY <1>0 DEF FlushClear
    <2>2. m_File = "closed" => t = "ctl" /\ pc["dl"] = "open"
      BY <1>0 DEF FlushInv, Flushers
    <2> QED
      BY <1>1, <2>1, <2>2 DEF CrashExplained, Flushers
  <1> QED
    BY <1>4, <1>5, <1>6, <1>7, <1>8, <1>9, <1>10 DEF Inv

\* The rest of a round changes neither caches nor what has been written.
LEMMA RoundFrame ==
    ASSUME Inv, ~crashed, TypeOK', pc["ctl"] # "exited" \/ pc["dl"] = "exited",
           pc["dl"] \in {"check", "close", "open"},
           pc'["ctl"] = pc["ctl"], pc'["dl"] \notin {"write", "clear", "exited"},
           UNCHANGED <<cache, logging, count, written, locker, crashed, met, overlapped,
                       fileLost>>,
           openFailed => openFailed',
           m_File' = "closed" => pc'["dl"] = "open",
           m_File' = "null" => openFailed'
    PROVE  Inv'
  <1>0. /\ TypeOK /\ FlushInv /\ OverlapInv /\ ClearInv /\ LostOnlyByOverlap /\ OrderInv
        /\ pc["ctl"] # "exited"
    BY DEF Inv, FlushInv
  <1>1. /\ Calling' = Calling /\ \A b \in Apps : Record(b)' = Record(b)
        /\ Current' = Current /\ Filling' = Filling
    BY DEF Current, Filling, Calling, Record
  <1>2. FlushInv'
    <2>1. \A u \in Flushers : pc'[u] \in {"write", "clear"} <=> locker' = u
      BY <1>0 DEF FlushInv, Flushers
    <2>2. pc'["ctl"] # "exited"
      BY <1>0
    <2> QED
      BY <2>1, <2>2, Zenon DEF FlushInv
  <1>3. OverlapInv'
    BY <1>0, <1>1, CallingApps DEF OverlapInv
  <1>4. (\E t \in Flushers : pc'[t] = "clear") <=> \E t \in Flushers : pc[t] = "clear"
    BY DEF Flushers
  <1>5. ClearInv'
    BY <1>0, <1>1, <1>4 DEF ClearInv
  <1>6. LostOnlyByOverlap'
    BY <1>0, <1>1 DEF LostOnlyByOverlap
  <1>7. OrderInv'
    <2>1. \A a \in Apps : Stale(a)' => Stale(a)
      BY DEF Stale
    <2> QED
      BY <1>0, <1>1, <1>4, <2>1, OrderFrame
  <1> QED
    BY <1>2, <1>3, <1>5, <1>6, <1>7 DEF Inv, CrashExplained

LEMMA KeepsDoLogging ==
    ASSUME Inv, do_logging
    PROVE  Inv'
  <1>0. TypeOK /\ FlushInv
    BY DEF Inv
  <1>1. CASE is_need_rotate
    <2>1. pc'["dl"] \in {"close", "done", "idle"} /\ pc'["ctl"] = pc["ctl"]
      BY <1>0, <1>1 DEF is_need_rotate, RoundEnds, GoTo, TypeOK, Flushers
    <2>2. TypeOK'
      BY <1>0, <1>1 DEF is_need_rotate, RoundEnds, GoTo, TypeOK, logVars, fileVars
    <2>3. m_File # "closed"
      BY <1>0, <1>1 DEF FlushInv, is_need_rotate
    <2>4. pc["ctl"] # "exited" /\ (m_File = "null" => openFailed)
      BY <1>0, <1>1 DEF FlushInv, is_need_rotate
    <2> QED
      BY <1>1, <2>1, <2>2, <2>3, <2>4, RoundFrame DEF is_need_rotate, logVars, fileVars
  <1>2. CASE close
    <2>1. pc'["dl"] = "open" /\ pc'["ctl"] = pc["ctl"]
      BY <1>0, <1>2 DEF close, GoTo, TypeOK, Flushers
    <2>2. TypeOK'
      BY <1>0, <1>2 DEF close, GoTo, TypeOK, logVars
    <2>3. pc["ctl"] # "exited" /\ (m_File = "null" => openFailed)
      BY <1>0, <1>2 DEF FlushInv, close
    <2>4. m_File' = "null" => m_File = "null"
      BY <1>2 DEF close
    <2> QED
      BY <1>2, <2>1, <2>2, <2>3, <2>4, RoundFrame DEF close, logVars
  <1>3. CASE open
    <2>1. pc'["dl"] \in {"done", "idle"} /\ pc'["ctl"] = pc["ctl"]
      BY <1>0, <1>3 DEF open, RoundEnds, GoTo, TypeOK, Flushers
    <2>2. TypeOK'
      <3>1. fileRecords' \in Nat /\ m_File' \in {"null", "open", "closed"}
        BY <1>0, <1>3 DEF open, TypeOK
      <3>2. openFailed' \in BOOLEAN
        BY <1>0, <1>3 DEF open, TypeOK
      <3>3. pc' \in [Flushers -> {"idle", "write", "clear", "check", "close", "open",
                                  "done", "exited"}]
        BY <1>0, <1>3 DEF open, RoundEnds, GoTo, TypeOK
      <3> QED
        BY <1>0, <1>3, <3>1, <3>2, <3>3 DEF open, TypeOK, logVars
    <2>3. pc["ctl"] # "exited"
      BY <1>0, <1>3 DEF FlushInv, open
    <2>4. m_File' # "closed" /\ (m_File' = "null" => openFailed') /\ (openFailed => openFailed')
      BY <1>3 DEF open
    <2> QED
      BY <1>3, <2>1, <2>2, <2>3, <2>4, RoundFrame DEF open, logVars
  <1> QED
    BY <1>1, <1>2, <1>3 DEF do_logging

LEMMA KeepsExit ==
    ASSUME Inv, Exit
    PROVE  Inv'
  <1>0. /\ TypeOK /\ FlushInv /\ OverlapInv /\ ClearInv /\ LostOnlyByOverlap /\ OrderInv
        /\ ~crashed /\ Calling = {} /\ pc["ctl"] = "done" /\ pc["dl"] \in {"idle", "done"}
        /\ UNCHANGED <<logging, count, fileRecords, openFailed, locker, met, overlapped,
                       fileLost>>
    BY DEF Inv, Exit, logVars
  <1>1. /\ Calling' = {} /\ \A a \in Apps : Record(a)' = Record(a)
        /\ \A a \in Apps : logging[a] = "idle"
    BY <1>0 DEF Calling, Record
  <1>2. /\ m_File # "closed" /\ (m_File = "null" => openFailed)
        /\ \A u \in Flushers : pc[u] \notin {"write", "clear"} /\ locker # u
    BY <1>0 DEF FlushInv, Flushers
  <1>3. OverlapInv'
    BY <1>0, <1>1 DEF OverlapInv
  <1>4. CASE /\ m_File = "open" \/ Current = <<>>
             /\ pc' = [t \in Flushers |-> "exited"]
             /\ csv_log_dtor(Swapped(cache), Cat(written, Current))
             /\ UNCHANGED crashed
    <2> DEFINE last == CurrentCache(Swapped(cache))
    <2>1. /\ Current \in Seq(Records) /\ Filling \in Seq(Records) /\ written \in Seq(Records)
          /\ last = Filling /\ Range(Buffered(cache)) = Range(Current) \cup Range(Filling)
      BY <1>0, BufferedRange, SwappedSplits DEF TypeOK, Filling, Current
    <2>2. /\ cache' = EmptyCache /\ m_File' = "null"
          /\ written' = IF m_File = "open" THEN Cat(Cat(written, Current), Filling)
                        ELSE Cat(written, Current)
      BY <1>4, <2>1 DEF csv_log_dtor, Cat
    <2>3. /\ cache' \in CacheType(Records) /\ Current' = <<>> /\ Filling' = <<>>
          /\ Range(Current') = {} /\ Range(Filling') = {}
          /\ Range(Buffered(cache)') = {}
      BY <2>2, EmptyCacheBuffers, RangeOfEmpty DEF Current, Filling
    <2>4. /\ Cat(written, Current) \in Seq(Records)
          /\ Range(Cat(written, Current)) = Range(written) \cup Range(Current)
      BY <2>1, CatType, RangeOfCat
    <2>5. /\ Cat(Cat(written, Current), Filling) \in Seq(Records)
          /\ Range(Cat(Cat(written, Current), Filling))
                = Range(written) \cup Range(Current) \cup Range(Filling)
      <3> DEFINE first == Cat(written, Current)
      <3>1. first \in Seq(Records) /\ Range(first) = Range(written) \cup Range(Current)
        BY <2>4
      <3> HIDE DEF first
      <3>2. Cat(first, Filling) \in Seq(Records)
        BY <2>1, <3>1, CatType
      <3>3. Range(Cat(first, Filling)) = Range(first) \cup Range(Filling)
        BY <2>1, <3>1, RangeOfCat
      <3> QED
        BY <3>1, <3>2, <3>3 DEF first
    <2>6. TypeOK'
      <3>1. pc' \in [Flushers -> {"idle", "write", "clear", "check", "close", "open",
                                  "done", "exited"}]
        BY <1>4
      <3> QED
        BY <1>0, <1>4, <2>2, <2>3, <2>4, <2>5, <3>1 DEF TypeOK
    <2>7. FlushInv'
      <3>1. \A u \in Flushers : pc'[u] = "exited"
        BY <1>4
      <3> QED
        BY <1>0, <1>1, <1>2, <2>2, <3>1 DEF FlushInv, Flushers
    <2>8. ClearInv'
      BY <1>4 DEF ClearInv
    <2>9. LostOnlyByOverlap'
      <3>1. pc'["ctl"] = "exited"
        BY <1>4 DEF Flushers
      <3>2. openFailed \/ Range(written) \cup Range(Buffered(cache)) \subseteq Range(written')
        BY <1>0, <1>2, <2>1, <2>2, <2>5 DEF TypeOK
      <3>3. pc["ctl"] # "exited"
        BY <1>0
      <3> QED
        BY <1>0, <1>1, <3>1, <3>2, <3>3 DEF LostOnlyByOverlap
    <2>10. OrderInv'
      <3>1. Ascending(Cat(written, Current))
        BY <1>0, <1>2, <2>1, AscendingCat DEF OrderInv
      <3>2. Before(Range(written) \cup Range(Current), Range(Filling))
        BY <1>0 DEF OrderInv, Before
      <3>3. Ascending(Cat(Cat(written, Current), Filling))
        BY <1>0, <2>1, <2>4, <3>1, <3>2, AscendingCat DEF OrderInv
      <3>4. Ascending(written') /\ Ascending(<<>>)
        BY <2>2, <3>1, <3>3 DEF Ascending
      <3>5. Range(written') \subseteq Range(written) \cup Range(Current) \cup Range(Filling)
        BY <2>2, <2>4, <2>5
      <3>6. \A a \in Apps : ~Stale(a)'
        BY <1>0, <1>1 DEF Stale
      <3> QED
        BY <1>0, <1>1, <2>3, <3>4, <3>5, <3>6 DEF OrderInv, Before
    <2> QED
      BY <1>0, <1>3, <1>4, <2>6, <2>7, <2>8, <2>9, <2>10 DEF Inv, CrashExplained
  <1>5. CASE /\ m_File # "open" /\ crashed' = TRUE
             /\ UNCHANGED <<cache, m_File, written, pc>>
    <2>1. openFailed
      BY <1>0, <1>2, <1>5 DEF TypeOK
    <2>2. Current' = Current /\ Filling' = Filling
      BY <1>5 DEF Current, Filling
    <2>3. TypeOK'
      BY <1>0, <1>5 DEF TypeOK
    <2>4. FlushInv' /\ ClearInv' /\ LostOnlyByOverlap'
      BY <1>0, <1>1, <1>5, <2>2 DEF FlushInv, ClearInv, LostOnlyByOverlap
    <2>5. OrderInv'
      <3>1. \A a \in Apps : Stale(a)' => Stale(a)
        BY <1>0, <1>5 DEF Stale
      <3> QED
        BY <1>0, <1>1, <1>5, <3>1, OrderFrame
    <2> QED
      BY <1>0, <1>3, <2>1, <2>3, <2>4, <2>5 DEF Inv, CrashExplained
  <1> QED
    <2>1. CurrentCache(cache) = Current /\ written \o Current = Cat(written, Current)
      BY DEF Current, Cat
    <2> QED
      BY <1>4, <1>5, <2>1, Zenon DEF Exit

LEMMA NextInv == Inv /\ [Next]_vars => Inv'
  <1> SUFFICES ASSUME Inv, [Next]_vars PROVE Inv'
    OBVIOUS
  <1>1. CASE \E a \in Apps : LogBegin(a) \/ LogReadsAgain(a) \/ LogPush(a)
    BY <1>1, KeepsLogBegin, KeepsLogReadsAgain, KeepsLogPush
  <1>2. CASE \E t \in Flushers : FlushBegin(t) \/ FlushWrite(t) \/ FlushClear(t)
    BY <1>2, KeepsFlushBegin, KeepsFlushWrite, KeepsFlushClear
  <1>3. CASE do_logging \/ Exit
    BY <1>3, KeepsDoLogging, KeepsExit
  <1>4. CASE UNCHANGED vars
    <2>1. /\ UNCHANGED <<cache, m_File, written, fileRecords, logging, count, pc, locker,
                         crashed, met, overlapped, fileLost, openFailed>>
          /\ Current' = Current /\ Filling' = Filling /\ Calling' = Calling
          /\ \A a \in Apps : Record(a)' = Record(a) /\ (Stale(a)' <=> Stale(a))
      BY <1>4 DEF vars, logVars, fileVars, pcVars, Current, Filling, Calling, Record, Stale
    <2>2. TypeOK' /\ FlushInv' /\ ClearInv' /\ LostOnlyByOverlap' /\ CrashExplained'
      BY <2>1 DEF Inv, TypeOK, FlushInv, ClearInv, LostOnlyByOverlap, CrashExplained
    <2>3. OverlapInv' /\ OrderInv'
      BY <2>1, CallingApps, OrderFrame DEF Inv, OverlapInv
    <2> QED
      BY <2>2, <2>3 DEF Inv
  <1> QED
    BY <1>1, <1>2, <1>3, <1>4 DEF Next

LEMMA SpecInv == Spec => []Inv
  BY InitInv, NextInv, PTL DEF Spec

-----------------------------------------------------------------------------
\* csv_log: every variable keeps its type.
THEOREM SpecTypeOK == Spec => []TypeOK
  <1>1. Inv => TypeOK
    BY DEF Inv
  <1> QED
    BY SpecInv, <1>1, PTL

\* The records of one thread reach the files in the order in which that thread
\* logged them, and none of them twice, although log() takes no lock.
THEOREM SpecOrderedPerThread == Spec => []OrderedPerThread
  <1>1. Inv => OrderedPerThread
    BY DEF Inv, OrderInv, Ascending, OrderedPerThread
  <1> QED
    BY SpecInv, <1>1, PTL

\* A record whose log() met no flush() and no other log() is not lost, unless a
\* flush() wrote to a FILE that was gone or there was no file at exit().
THEOREM SpecLostOnlyByOverlap == Spec => []LostOnlyByOverlap
  <1>1. Inv => LostOnlyByOverlap
    BY DEF Inv
  <1> QED
    BY SpecInv, <1>1, PTL

\* The process dies only of two threads in one vector, of a failed fopen(), or
\* of a stop() between the close() and the open() of a round.
THEOREM SpecCrashExplained == Spec => []CrashExplained
  <1>1. Inv => CrashExplained
    BY DEF Inv
  <1> QED
    BY SpecInv, <1>1, PTL

-----------------------------------------------------------------------------
(***************************************************************************)
(* As long as it is undisturbed, csv_log implements LogStream.             *)
(***************************************************************************)
\* What the next flush takes, unless it has been written already.
Taken == IF \E t \in Flushers : pc[t] = "clear" THEN <<>> ELSE Current

\* Who is about to push to the cache that a flush takes has met a flush.
StaleInv == \A a \in Apps : Stale(a) => Record(a) \in overlapped

LEMMA LoggedIs ==
    /\ Logged = Cat(Cat(written, Taken), Filling)
    /\ Logged' = Cat(Cat(written', Taken'), Filling')
  BY DEF Logged, Cat, Taken, Current, Filling

LEMMA LoggedParts ==
    ASSUME TypeOK
    PROVE  /\ written \in Seq(Records) /\ Taken \in Seq(Records) /\ Filling \in Seq(Records)
           /\ Cat(written, Taken) \in Seq(Records)
  <1>1. written \in Seq(Records) /\ Current \in Seq(Records) /\ Filling \in Seq(Records)
    BY BufferedRange DEF TypeOK
  <1>2. Taken \in Seq(Records)
    BY <1>1, EmptySeq DEF Taken
  <1> QED
    BY <1>1, <1>2, CatType

LEMMA InitStale == Init => StaleInv
  BY DEF Init, StaleInv, Stale

LEMMA NextStale == Inv /\ StaleInv /\ [Next]_vars => StaleInv'
  <1> SUFFICES ASSUME Inv, StaleInv, [Next]_vars, NEW b \in Apps, Stale(b)'
               PROVE  (Record(b) \in overlapped)'
    BY DEF StaleInv
  <1>0. TypeOK /\ FlushInv /\ OverlapInv
    BY DEF Inv
  <1>1. ASSUME Stale(b), Record(b)' = Record(b), overlapped \subseteq overlapped'
        PROVE  (Record(b) \in overlapped)'
    BY <1>1 DEF StaleInv
  <1>2. CASE \E a \in Apps : LogBegin(a)
    <2>1. PICK a \in Apps : LogBegin(a)
      BY <1>2
    <2>2. /\ cache' = cache /\ overlapped \subseteq overlapped'
          /\ logging' = [logging EXCEPT ![a] = IF cache.abNo = 0 THEN "B" ELSE "again"]
          /\ count' = [count EXCEPT ![a] = @ + 1]
      BY <2>1 DEF LogBegin
    <2>3. b # a
      BY <1>0, <2>2 DEF TypeOK, Stale
    <2>4. logging'[b] = logging[b] /\ count'[b] = count[b]
      BY <1>0, <2>2, <2>3 DEF TypeOK
    <2> QED
      BY <1>1, <2>2, <2>4 DEF Stale, Record
  <1>3. CASE \E a \in Apps : LogReadsAgain(a)
    <2>1. PICK a \in Apps : LogReadsAgain(a)
      BY <1>3
    <2>2. /\ UNCHANGED <<cache, overlapped, count>>
          /\ logging' = [logging EXCEPT ![a] = IF cache.abNo = 1 THEN "A" ELSE "idle"]
      BY <2>1 DEF LogReadsAgain
    <2>3. b # a
      BY <1>0, <2>2 DEF TypeOK, Stale
    <2>4. logging'[b] = logging[b]
      BY <1>0, <2>2, <2>3 DEF TypeOK
    <2> QED
      BY <1>1, <2>2, <2>4 DEF Stale, Record
  <1>4. CASE \E a \in Apps : LogPush(a)
    <2>1. PICK a \in Apps : LogPush(a)
      BY <1>4
    <2>2. /\ UNCHANGED <<overlapped, count>> /\ logging' = [logging EXCEPT ![a] = "idle"]
          /\ cache' = Pushed(a) \/ cache' = cache
          /\ a \in Calling /\ logging[a] \in {"A", "B"}
      BY <2>1 DEF LogPush, Calling
    <2>3. cache'.abNo = cache.abNo
      BY <1>0, <2>2, PushedParts
    <2>4. b # a
      BY <1>0, <2>2 DEF TypeOK, Stale
    <2>5. logging'[b] = logging[b]
      BY <1>0, <2>2, <2>4 DEF TypeOK
    <2> QED
      BY <1>1, <2>2, <2>3, <2>5 DEF Stale, Record
  <1>5. CASE \E t \in Flushers : FlushClear(t)
    <2>1. PICK t \in Flushers : FlushClear(t)
      BY <1>5
    <2>2. UNCHANGED <<logging, count, overlapped>> /\ pc[t] = "clear"
      BY <2>1 DEF FlushClear, logVars
    <2>3. locker # "none" /\ b \in Calling
      BY <1>0, <2>2 DEF FlushInv, Calling, Stale, Flushers
    <2>4. Record(b) \in overlapped
      BY <1>0, <2>3 DEF OverlapInv
    <2> QED
      BY <2>2, <2>4 DEF Record
  <1>6. CASE Exit
    <2>1. Calling = {} /\ UNCHANGED logging
      BY <1>6 DEF Exit, logVars
    <2> QED
      BY <2>1 DEF Calling, Stale
  <1>7. CASE \/ \E t \in Flushers : FlushBegin(t) \/ FlushWrite(t)
             \/ do_logging \/ UNCHANGED vars
    <2>1. UNCHANGED <<cache, logging, count>> /\ overlapped \subseteq overlapped'
      BY <1>7 DEF FlushBegin, FlushWrite, do_logging, is_need_rotate, close, open, vars, logVars
    <2> QED
      BY <1>1, <2>1 DEF Stale, Record
  <1> QED
    BY <1>2, <1>3, <1>4, <1>5, <1>6, <1>7 DEF Next

\* A step that appends to what was logged is an Accept of the abstract
\* specification, and one that moves records to the files is a Store.
LEMMA Accepts ==
    ASSUME NEW r \in Records, Logged' = Append(Logged, r), written' = written
    PROVE  Stream!Accept("csv", r)
  BY DEF Stream!Accept

LEMMA Stores ==
    ASSUME written \in Seq(Records), NEW more \in Seq(Records), NEW rest \in Seq(Records),
           written' = Cat(written, more), Logged = Cat(written', rest), Logged' = Logged
    PROVE  Stream!Store("csv") \/ UNCHANGED <<Logged, written>>
  <1>1. CASE more = <<>>
    BY <1>1, CatEmpty
  <1>2. CASE more # <<>>
    <2>1. /\ written' \in Seq(Records) /\ Len(written') = Len(written) + Len(more)
          /\ Len(written) \in Nat /\ Len(more) \in Nat \ {0} /\ Len(rest) \in Nat
      BY <1>2, CatType, LenProperties, EmptySeq
    <2>2. written' # <<>>
      BY <2>1, EmptySeq
    <2>3. SubSeq(Logged, 1, Len(written')) = written'
      BY <2>1, <2>2, CatPrefix
    <2>4. Len(Logged) = Len(written') + Len(rest)
      BY <2>1, CatType
    <2>5. Len(written') \in Len(written) + 1 .. Len(Logged)
      BY <2>1, <2>4
    <2> QED
      BY <2>3, <2>5 DEF Stream!Store
  <1> QED
    BY <1>1, <1>2

LEMMA PushAccepts ==
    ASSUME Inv, StaleInv, overlapped = {}, NEW a \in Apps, LogPush(a)
    PROVE  \E r \in Records : Stream!Accept("csv", r)
  <1>0. /\ TypeOK /\ OverlapInv /\ a \in Calling /\ logging[a] \in {"A", "B"}
        /\ cache.abNo \in {0, 1}
    BY DEF Inv, LogPush, Calling, TypeOK, CacheType
  <1>1. UNCHANGED <<pc, locker, written>>
    BY DEF LogPush, fileVars, pcVars
  <1>2. ~Stale(a) /\ locker = "none" /\ \A b \in Apps \ {a} : logging[b] # logging[a]
    <2>1. \A b \in Apps \ {a} : logging[b] = logging[a] => b \in Calling
      BY <1>0 DEF Calling
    <2> QED
      BY <1>0, <2>1 DEF StaleInv, OverlapInv
  <1>3. Flushing # logging[a]
    BY <1>0, <1>2 DEF Flushing
  <1>4. cache' = Pushed(a)
    BY <1>2, <1>3 DEF LogPush
  <1>5. Current' = Current /\ Filling' = Append(Filling, Record(a)) /\ Record(a) \in Records
    BY <1>0, <1>2, <1>4, PushedParts, RecordType DEF Current, Filling
  <1>6. Taken' = Taken
    BY <1>1, <1>5 DEF Taken
  <1>7. Logged' = Cat(Cat(written, Taken), Append(Filling, Record(a)))
    BY <1>1, <1>5, <1>6, LoggedIs
  <1>8. Cat(Cat(written, Taken), Append(Filling, Record(a)))
            = Append(Cat(Cat(written, Taken), Filling), Record(a))
    BY <1>0, <1>5, LoggedParts, CatAppend
  <1>9. Logged' = Append(Logged, Record(a))
    BY <1>7, <1>8, LoggedIs
  <1> QED
    BY <1>1, <1>5, <1>9, Accepts

LEMMA WriteStores ==
    ASSUME Inv, NEW t \in Flushers, FlushWrite(t), ~fileLost'
    PROVE  Stream!Store("csv") \/ UNCHANGED <<Logged, written>>
  <1>0. /\ TypeOK /\ UNCHANGED cache /\ pc[t] = "write"
        /\ \A u \in Flushers : pc[u] # "clear"
    BY DEF Inv, FlushWrite, FlushInv
  <1>1. /\ Current' = Current /\ Filling' = Filling /\ Taken = Current
        /\ Current \in Seq(Records)
    BY <1>0, BufferedRange DEF Current, Filling, Taken
  <1>2. CASE GoTo(t, "clear") /\ written' = Cat(written, Current)
    <2>1. pc'[t] = "clear"
      BY <1>0, <1>2 DEF GoTo, TypeOK
    <2>2. Taken' = <<>>
      BY <2>1 DEF Taken
    <2>3. written' = Cat(written, Current) /\ written' \in Seq(Records)
      BY <1>0, <1>1, <1>2, LoggedParts
    <2>4. Cat(written', <<>>) = written'
      BY <2>3, CatEmpty
    <2>5. Logged' = Cat(Cat(written', Taken'), Filling')
      BY LoggedIs
    <2>6. Logged' = Cat(written', Filling) /\ Logged = Cat(written', Filling)
      BY <1>1, <2>2, <2>3, <2>4, <2>5, LoggedIs
    <2> QED
      BY <1>0, <1>1, <2>3, <2>6, LoggedParts, Stores
  <1>3. CASE UNCHANGED <<pc, written>>
    <2>1. Taken' = Taken
      BY <1>1, <1>3 DEF Taken
    <2>2. Logged' = Cat(Cat(written', Taken'), Filling')
      BY LoggedIs
    <2> QED
      BY <1>1, <1>3, <2>1, <2>2, LoggedIs
  <1> QED
    BY <1>2, <1>3 DEF FlushWrite, Current, Cat

LEMMA ClearStutters ==
    ASSUME Inv, NEW t \in Flushers, FlushClear(t)
    PROVE  UNCHANGED <<Logged, written>>
  <1>0. /\ TypeOK /\ FlushInv /\ pc[t] = "clear" /\ cache' = Swapped(cache)
        /\ GoTo(t, IF t = "dl" THEN "check" ELSE "done") /\ UNCHANGED written
    BY DEF Inv, FlushClear, fileVars
  <1>1. \A u \in Flushers : pc'[u] # "clear"
    BY <1>0 DEF FlushInv, GoTo, TypeOK
  <1>2. Current' = Filling /\ Filling' = <<>>
    BY <1>0, SwappedSplits DEF Current, Filling, TypeOK
  <1>3. Taken = <<>> /\ Taken' = Filling
    BY <1>0, <1>1, <1>2 DEF Taken
  <1>4. /\ written \in Seq(Records) /\ Filling \in Seq(Records)
        /\ Cat(written, Filling) \in Seq(Records)
    BY <1>0, LoggedParts, CatType
  <1>5. Logged = Cat(written, Filling)
    BY <1>3, <1>4, LoggedIs, CatEmpty
  <1>6. Logged' = Cat(Cat(written', Taken'), Filling')
    BY LoggedIs
  <1>7. Logged' = Cat(written, Filling)
    BY <1>0, <1>2, <1>3, <1>4, <1>6, CatEmpty
  <1> QED
    BY <1>0, <1>5, <1>7

LEMMA ExitStores ==
    ASSUME Inv, Exit, Undisturbed'
    PROVE  Stream!Store("csv") \/ UNCHANGED <<Logged, written>>
  <1>0. /\ TypeOK /\ FlushInv /\ UNCHANGED openFailed
        /\ pc["ctl"] = "done" /\ pc["dl"] \in {"idle", "done"}
    BY DEF Inv, Exit
  <1>1. /\ \A u \in Flushers : pc[u] # "clear"
        /\ m_File # "closed" /\ (m_File = "null" => openFailed)
    BY <1>0 DEF FlushInv, Flushers
  <1>2. Taken = Current
    BY <1>1 DEF Taken
  <1>3. CASE /\ pc' = [t \in Flushers |-> "exited"]
             /\ csv_log_dtor(Swapped(cache), Cat(written, Current))
    <2>1. m_File = "open"
      BY <1>0, <1>1, <1>3 DEF Undisturbed, TypeOK, Flushers
    <2>2. CurrentCache(Swapped(cache)) = Filling
      BY <1>0, SwappedSplits DEF Filling, TypeOK
    <2>3. cache' = EmptyCache /\ written' = Cat(Cat(written, Current), Filling)
      BY <1>3, <2>1, <2>2 DEF csv_log_dtor, Cat
    <2>4. /\ written \in Seq(Records) /\ Current \in Seq(Records) /\ Filling \in Seq(Records)
          /\ Cat(Current, Filling) \in Seq(Records)
      BY <1>0, <1>2, LoggedParts, CatType
    <2>5. written' = Cat(written, Cat(Current, Filling)) /\ written' \in Seq(Records)
      BY <2>3, <2>4, CatAssoc, CatType
    <2>6. Logged = written'
      BY <1>2, <2>3, LoggedIs
    <2>7. Filling' = <<>> /\ Taken' = <<>>
      BY <2>3, EmptyCacheBuffers DEF Filling, Taken, Current
    <2>8. Logged' = Cat(Cat(written', Taken'), Filling')
      BY LoggedIs
    <2>9. Logged' = written' /\ Cat(written', <<>>) = written'
      BY <2>5, <2>7, <2>8, CatEmpty
    <2>10. <<>> \in Seq(Records)
      BY EmptySeq
    <2> QED
      BY <2>4, <2>5, <2>6, <2>9, <2>10, Stores
  <1>4. CASE UNCHANGED <<cache, written, pc>>
    BY <1>4 DEF Logged
  <1> QED
    BY <1>3, <1>4 DEF Exit, Current, Cat

LEMMA InitStream == Init => Stream!StreamInit
  <1> SUFFICES ASSUME Init PROVE Stream!StreamInit
    OBVIOUS
  <1>1. written = <<>> /\ Current = <<>> /\ Filling = <<>>
    BY EmptyCacheBuffers DEF Init, Current, Filling
  <1>2. Taken = <<>>
    BY <1>1 DEF Taken
  <1>3. <<>> \in Seq(Records)
    BY EmptySeq
  <1>4. Cat(<<>>, <<>>) = <<>>
    BY <1>3, CatEmpty
  <1>5. Logged = <<>>
    BY <1>1, <1>2, <1>4, LoggedIs
  <1> QED
    BY <1>1, <1>5 DEF Stream!StreamInit

LEMMA NextStream ==
    ASSUME Inv, StaleInv, [Next]_vars, Undisturbed'
    PROVE  [Stream!StreamNext]_(Stream!streamVars)
  <1> SUFFICES \/ Stream!Store("csv")
               \/ \E r \in Records : Stream!Accept("csv", r)
               \/ UNCHANGED <<Logged, written>>
    BY DEF Stream!StreamNext, Stream!streamVars
  <1>1. CASE \E a \in Apps : LogBegin(a) \/ LogReadsAgain(a)
    BY <1>1 DEF LogBegin, LogReadsAgain, fileVars, pcVars, Logged
  <1>2. CASE \E a \in Apps : LogPush(a)
    <2>1. overlapped = {}
      BY <1>2 DEF LogPush, Undisturbed
    <2> QED
      BY <1>2, <2>1, PushAccepts
  <1>3. CASE \E t \in Flushers : FlushBegin(t)
    <2>1. PICK t \in Flushers : FlushBegin(t)
      BY <1>3
    <2>2. /\ UNCHANGED <<cache, written>> /\ GoTo(t, "write") /\ pc[t] = "idle"
          /\ TypeOK
      BY <2>1 DEF FlushBegin, fileVars, Inv
    <2>3. (\E u \in Flushers : pc'[u] = "clear") <=> \E u \in Flushers : pc[u] = "clear"
      BY <2>2 DEF GoTo, TypeOK
    <2> QED
      BY <2>2, <2>3 DEF Logged
  <1>4. CASE \E t \in Flushers : FlushWrite(t)
    BY <1>4, WriteStores DEF Undisturbed
  <1>5. CASE \E t \in Flushers : FlushClear(t)
    BY <1>5, ClearStutters
  <1>6. CASE do_logging
    <2>1. /\ UNCHANGED <<cache, written>> /\ pc["dl"] \in {"check", "close", "open"}
          /\ \E place \in {"close", "open", "done", "idle"} : GoTo("dl", place)
      BY <1>6 DEF do_logging, is_need_rotate, close, open, RoundEnds, fileVars
    <2>2. (\E u \in Flushers : pc'[u] = "clear") <=> \E u \in Flushers : pc[u] = "clear"
      BY <2>1 DEF GoTo, TypeOK, Inv
    <2> QED
      BY <2>1, <2>2 DEF Logged
  <1>7. CASE Exit
    BY <1>7, ExitStores
  <1>8. CASE UNCHANGED vars
    BY <1>8 DEF vars, fileVars, pcVars, Logged
  <1> QED
    BY <1>1, <1>2, <1>3, <1>4, <1>5, <1>6, <1>7, <1>8 DEF Next

\* As long as no log() meets a flush() or a log(), csv_log implements LogStream,
\* the specification of the sinks that lock: the files are a growing prefix of
\* what was logged, in one order for all threads.
THEOREM SpecStoresUndisturbed == Spec => StoresUndisturbed
  <1>1. Spec => [](Inv /\ StaleInv)
    <2>1. Init => Inv /\ StaleInv
      BY InitInv, InitStale
    <2>2. Inv /\ StaleInv /\ [Next]_vars => Inv' /\ StaleInv'
      BY NextInv, NextStale
    <2> QED
      BY <2>1, <2>2, PTL DEF Spec
  <1>2. Init => Stream!StreamInit
    BY InitStream
  <1>3. Inv /\ StaleInv /\ [Next]_vars =>
           [Undisturbed' => [Stream!StreamNext]_(Stream!streamVars)]_vars
    BY NextStream
  <1> QED
    BY <1>1, <1>2, <1>3, PTL DEF Spec, StoresUndisturbed
=============================================================================
