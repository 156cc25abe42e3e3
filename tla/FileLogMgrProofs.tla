-------------------------- MODULE FileLogMgrProofs --------------------------
(***************************************************************************)
(* Proofs about FileLogMgr, for any number of file_logs, lines and threads *)
(* and any mix of failing opens and renames.                               *)
(*                                                                         *)
(* Inv is inductive by itself: it says where lines may be at which point   *)
(* of a flush.  On top of it, KeptFrom follows the lines through every     *)
(* step, with or without rotations that share a second; NothingLost and    *)
(* RecentIntact are read off it, and the remaining properties off those.   *)
(***************************************************************************)
EXTENDS FileLogMgr, ABCacheTheorems

LEMMA LevelOfSub ==
    \A k \in Sub : LevelOf(k) \in 0..7
  BY FileLogMgrAssumption DEF Sub, LevelOf

\* OnDisk with Cat.
LEMMA OnDiskCat ==
    \A k : OnDisk(k) = Cat(Cat(older[k], newest[k]), current[k])
  BY Zenon DEF OnDisk, Cat

\* What file_log k has on disk, if "gone" is all that its older files hold.
DiskFrom(gone, k) == Cat(Cat(gone, newest[k]), current[k])

\* What is on disk is a sequence of lines.
LEMMA OnDiskType ==
    ASSUME TypeOK, NEW k \in Sub
    PROVE  OnDisk(k) \in Seq(Lines)
  BY OnDiskCat, CatType DEF TypeOK

\* Draining stdio buffers moves lines to the disk and changes none.
LEMMA DrainMoves ==
    ASSUME TypeOK, FileInv, NEW K \in SUBSET Sub, Drain(K)
    PROVE  /\ current' \in [Sub -> Seq(Lines)]
           /\ newest' \in [Sub -> Seq(Lines)]
           /\ older' \in [Sub -> Seq(Lines)]
           /\ buffer' \in [Sub -> Seq(Lines)]
           /\ \A k \in Sub :
                /\ buffer'[k] \in {<<>>, buffer[k]}
                /\ k \in K /\ m_File[k] # "null" => buffer'[k] = <<>>
                /\ m_File[k] = "renamed" => current'[k] = <<>>
                /\ \A g \in Seq(Lines) :
                      Cat(DiskFrom(g, k)', buffer'[k]) = Cat(DiskFrom(g, k), buffer[k])
                /\ Cat(OnDisk(k)', buffer'[k]) = Cat(OnDisk(k), buffer[k])
                /\ k \notin K \/ buffer[k] = <<>> => OnDisk(k)' = OnDisk(k)
           /\ older' = older
  <1> DEFINE D == {k \in K : m_File[k] # "null"}
  <1>1. /\ current' = [k \in Sub |-> IF k \in D /\ m_File[k] = "named"
                                     THEN Cat(current[k], buffer[k])
                                     ELSE current[k]]
        /\ newest'  = [k \in Sub |-> IF k \in D /\ m_File[k] = "renamed"
                                     THEN Cat(newest[k], buffer[k])
                                     ELSE newest[k]]
        /\ buffer'  = [k \in Sub |-> IF k \in D THEN <<>> ELSE buffer[k]]
        /\ older' = older
    BY Zenon DEF Drain, Cat
  <1>2. \A k \in Sub :
          /\ current[k] \in Seq(Lines) /\ newest[k] \in Seq(Lines)
          /\ older[k] \in Seq(Lines) /\ buffer[k] \in Seq(Lines)
          /\ m_File[k] \in {"null", "named", "renamed"}
    BY DEF TypeOK
  <1>3. \A k \in Sub : /\ Cat(current[k], buffer[k]) \in Seq(Lines)
                       /\ Cat(newest[k], buffer[k]) \in Seq(Lines)
                       /\ <<>> \in Seq(Lines)
    BY <1>2, CatType, EmptySeq
  <1>4. /\ current' \in [Sub -> Seq(Lines)]
        /\ newest' \in [Sub -> Seq(Lines)]
        /\ older' \in [Sub -> Seq(Lines)]
        /\ buffer' \in [Sub -> Seq(Lines)]
    <2>1. older' \in [Sub -> Seq(Lines)]
      BY <1>1 DEF TypeOK
    <2> QED
      BY <1>1, <1>2, <1>3, <2>1
  <1>5. ASSUME NEW k \in Sub
        PROVE  /\ buffer'[k] \in {<<>>, buffer[k]}
               /\ k \in K /\ m_File[k] # "null" => buffer'[k] = <<>>
               /\ m_File[k] = "renamed" => current'[k] = <<>>
    BY <1>1, <1>2, <1>4, CatEmpty DEF FileInv
  <1>6. ASSUME NEW k \in Sub, NEW g \in Seq(Lines)
        PROVE  Cat(DiskFrom(g, k)', buffer'[k]) = Cat(DiskFrom(g, k), buffer[k])
    <2> DEFINE b == newest[k]  c == current[k]  d == buffer[k]
    <2>1. DiskFrom(g, k)' = Cat(Cat(g, newest'[k]), current'[k])
      BY DEF DiskFrom
    <2>2. DiskFrom(g, k) = Cat(Cat(g, b), c)
      BY DEF DiskFrom
    <2>3. /\ Cat(g, b) \in Seq(Lines) /\ DiskFrom(g, k) \in Seq(Lines)
          /\ Cat(DiskFrom(g, k), d) \in Seq(Lines)
      <3>1. Cat(g, b) \in Seq(Lines)
        BY <1>2, CatType
      <3>2. DiskFrom(g, k) \in Seq(Lines)
        BY <1>2, <2>2, <3>1, CatType
      <3> QED
        BY <1>2, <3>1, <3>2, CatType
    <2>4. CASE k \notin D
      BY <1>1, <2>1, <2>2, <2>4
    <2>5. CASE k \in D /\ m_File[k] = "named"
      <3>1. newest'[k] = b /\ current'[k] = Cat(c, d) /\ buffer'[k] = <<>>
        BY <1>1, <2>5
      <3>2. Cat(Cat(g, b), Cat(c, d)) = Cat(DiskFrom(g, k), d)
        BY <1>2, <2>2, <2>3, CatAssoc
      <3> QED
        BY <2>1, <2>3, <3>1, <3>2, CatEmpty
    <2>6. CASE k \in D /\ m_File[k] = "renamed"
      <3>1. newest'[k] = Cat(b, d) /\ current'[k] = <<>> /\ c = <<>> /\ buffer'[k] = <<>>
        BY <1>1, <2>6 DEF FileInv
      <3>2. DiskFrom(g, k) = Cat(g, b)
        BY <2>2, <2>3, <3>1, CatEmpty
      <3>3. Cat(g, Cat(b, d)) = Cat(DiskFrom(g, k), d)
        BY <1>2, <3>2, CatAssoc
      <3> QED
        BY <2>1, <2>3, <3>1, <3>3, CatEmpty
    <2> QED
      BY <1>2, <2>4, <2>5, <2>6
  <1>8. ASSUME NEW k \in Sub
        PROVE  Cat(OnDisk(k)', buffer'[k]) = Cat(OnDisk(k), buffer[k])
    <2>1. PICK g \in Seq(Lines) : g = older[k]
      BY <1>2
    <2>2. OnDisk(k) = DiskFrom(g, k) /\ OnDisk(k)' = DiskFrom(g, k)'
      <3>1. OnDisk(k)' = Cat(Cat(older'[k], newest'[k]), current'[k])
        BY Zenon DEF OnDisk, Cat
      <3> QED
        BY <1>1, <2>1, <3>1, OnDiskCat DEF DiskFrom
    <2> QED
      BY <1>6, <2>2
  <1>7. ASSUME NEW k \in Sub, k \notin K \/ buffer[k] = <<>>
        PROVE  OnDisk(k)' = OnDisk(k)
    <2>1. OnDisk(k)' \in Seq(Lines)
      <3>1. OnDisk(k)' = Cat(Cat(older'[k], newest'[k]), current'[k])
        BY Zenon DEF OnDisk, Cat
      <3> QED
        BY <1>4, <3>1, CatType
    <2>2. CASE buffer[k] = <<>>
      <3>1. buffer'[k] = <<>>
        BY <1>5, <2>2
      <3> QED
        BY <1>8, <2>1, <2>2, <3>1, OnDiskType, CatEmpty
    <2>3. CASE k \notin K
      <3>1. /\ older'[k] = older[k] /\ newest'[k] = newest[k]
            /\ current'[k] = current[k]
        BY <1>1, <2>3
      <3> QED
        BY <3>1, Zenon DEF OnDisk
    <2> QED
      BY <1>7, <2>2, <2>3
  <1> QED
    BY <1>1, <1>4, <1>5, <1>6, <1>7, <1>8

-----------------------------------------------------------------------------
(***************************************************************************)
(* Inv is inductive.                                                       *)
(***************************************************************************)
LEMMA InitInv == Init => Inv
  <1> SUFFICES ASSUME Init PROVE Inv
    OBVIOUS
  <1>0. /\ EmptyCache \in CacheType(Lines)
        /\ Len(FillingCache(EmptyCache)) = 0 /\ Len(Buffered(EmptyCache)) = 0
        /\ <<>> \in Seq(Lines) /\ 0 \in 0..NumSub /\ NumSub \in Nat
    BY EmptyCacheBuffers, EmptySeq, FileLogMgrAssumption
  <1>1. TypeOK
    BY <1>0, LevelOfSub DEF Init, TypeOK
  <1>2. FlushInv /\ BufferInv /\ FileInv
    BY DEF Init, FlushInv, BufferInv, FileInv
  <1>3. MarkInv
    <2> SUFFICES ASSUME NEW k \in Sub
                 PROVE  /\ mark[k] = Len(accepted[k]) - Len(FillingCache(cache[k]))
                        /\ prevMark[k] = Len(accepted[k]) - Len(Buffered(cache[k]))
      BY DEF MarkInv
    <2>1. /\ mark[k] = 0 /\ prevMark[k] = 0
          /\ cache[k] = EmptyCache /\ accepted[k] = <<>>
      BY DEF Init
    <2>2. Len(accepted[k]) = 0
      BY <1>0, <2>1, EmptySeq
    <2> QED
      BY <1>0, <2>1, <2>2
  <1> QED
    BY <1>1, <1>2, <1>3 DEF Inv

LEMMA LogCheckInv ==
    ASSUME Inv, NEW t \in Apps, NEW k \in Sub, NEW line \in Lines,
           LogCheck(t, k, line)
    PROVE  Inv'
  <1> USE DEF LogCheck, fileVars, flushVars
  <1>1. TypeOK'
    <2>1. passed \cup {[thread |-> t, sub |-> k, line |-> line]} \subseteq Call
      BY DEF Inv, TypeOK, Call
    <2>2. passed' \subseteq Call
      BY <2>1
    <2> QED
      BY <2>2 DEF Inv, TypeOK
  <1>2. FlushInv' /\ BufferInv' /\ FileInv' /\ MarkInv'
    BY DEF Inv, FlushInv, BufferInv, FileInv, MarkInv
  <1> QED
    BY <1>1, <1>2 DEF Inv

LEMMA LogPushInv ==
    ASSUME Inv, NEW c \in passed, LogPush(c)
    PROVE  Inv'
  <1> DEFINE k == c.sub  l == c.line  d == PushBack(cache[k], l)
  <1>1. /\ k \in Sub /\ l \in Lines
        /\ cache[k] \in CacheType(Lines) /\ accepted[k] \in Seq(Lines)
        /\ cache \in [Sub -> CacheType(Lines)] /\ accepted \in [Sub -> Seq(Lines)]
    BY DEF Inv, TypeOK, Call
  <1>2. /\ d \in CacheType(Lines)
        /\ FillingCache(d) = Append(FillingCache(cache[k]), l)
        /\ Buffered(d) = Append(Buffered(cache[k]), l)
    BY <1>1, PushBackAppends
  <1>3. /\ Append(accepted[k], l) \in Seq(Lines)
        /\ Len(Append(accepted[k], l)) = Len(accepted[k]) + 1
        /\ Len(FillingCache(d)) = Len(FillingCache(cache[k])) + 1
        /\ Len(Buffered(d)) = Len(Buffered(cache[k])) + 1
        /\ Len(accepted[k]) \in Nat
        /\ Len(FillingCache(cache[k])) \in Nat /\ Len(Buffered(cache[k])) \in Nat
    BY <1>1, <1>2, CacheParts, AppendProperties, LenProperties
  <1>4. /\ cache' = [cache EXCEPT ![k] = d]
        /\ accepted' = [accepted EXCEPT ![k] = Append(accepted[k], l)]
        /\ passed' = passed \ {c}
        /\ UNCHANGED <<subLevel, fileVars, flushVars, crashed, mark, prevMark>>
    BY DEF LogPush
  <1> HIDE DEF d
  <1>5. TypeOK'
    BY <1>1, <1>2, <1>3, <1>4 DEF Inv, TypeOK, fileVars, flushVars
  <1>6. FlushInv' /\ BufferInv' /\ FileInv'
    BY <1>4 DEF Inv, FlushInv, BufferInv, FileInv, fileVars, flushVars
  <1>7. MarkInv'
    <2> SUFFICES ASSUME NEW j \in Sub
                 PROVE  /\ mark'[j] = Len(accepted'[j]) - Len(FillingCache(cache'[j]))
                        /\ prevMark'[j] = Len(accepted'[j]) - Len(Buffered(cache'[j]))
      BY DEF MarkInv
    <2>1. CASE j = k
      <3>1. /\ mark[k] = Len(accepted[k]) - Len(FillingCache(cache[k]))
            /\ prevMark[k] = Len(accepted[k]) - Len(Buffered(cache[k]))
        BY <1>1 DEF Inv, MarkInv
      <3>2. /\ accepted'[k] = Append(accepted[k], l) /\ cache'[k] = d
            /\ mark'[k] = mark[k] /\ prevMark'[k] = prevMark[k]
        BY <1>1, <1>4
      <3>3. /\ Len(accepted'[k]) = Len(accepted[k]) + 1
            /\ Len(FillingCache(cache'[k])) = Len(FillingCache(cache[k])) + 1
            /\ Len(Buffered(cache'[k])) = Len(Buffered(cache[k])) + 1
        BY <1>3, <3>2
      <3>4. \A m, x, y : x \in Nat /\ y \in Nat /\ m = x - y
                              => m = (x + 1) - (y + 1)
        OBVIOUS
      <3>5. mark[k] = (Len(accepted[k]) + 1) - (Len(FillingCache(cache[k])) + 1)
        BY <1>3, <3>1, <3>4
      <3>6. prevMark[k] = (Len(accepted[k]) + 1) - (Len(Buffered(cache[k])) + 1)
        BY <1>3, <3>1, <3>4
      <3> QED
        BY <2>1, <3>2, <3>3, <3>5, <3>6, Zenon
    <2>2. CASE j # k
      BY <1>1, <1>4, <2>2 DEF Inv, MarkInv
    <2> QED
      BY <2>1, <2>2
  <1> QED
    BY <1>5, <1>6, <1>7 DEF Inv

LEMMA FlushBeginInv ==
    ASSUME Inv, NEW t \in Callers, FlushBegin(t)
    PROVE  Inv'
  <1> USE FileLogMgrAssumption DEF FlushBegin, Free, logVars, fileVars
  <1>1. TypeOK'
    BY DEF Inv, TypeOK
  <1>2. FlushInv'
    BY DEF Inv, FlushInv
  <1>3. FileInv' /\ MarkInv'
    BY DEF Inv, FileInv, MarkInv
  <1>4. BufferInv'
    BY DEF Inv, BufferInv, FlushInv
  <1> QED
    BY <1>1, <1>2, <1>3, <1>4 DEF Inv

LEMMA FlushTakeInv ==
    ASSUME Inv, FlushTake
    PROVE  Inv'
  <1> DEFINE c == cache[at]  d == Swapped(cache[at])
  <1>1. /\ at \in Sub /\ c \in CacheType(Lines) /\ accepted[at] \in Seq(Lines)
        /\ cache \in [Sub -> CacheType(Lines)]
        /\ mark \in [Sub -> Nat] /\ prevMark \in [Sub -> Nat]
    <2>1. at \in Sub
      BY FileLogMgrAssumption DEF Inv, TypeOK, FlushTake, Sub
    <2> QED
      BY <2>1 DEF Inv, TypeOK
  <1>2. /\ d \in CacheType(Lines) /\ CurrentCache(c) \in Seq(Lines)
        /\ Len(FillingCache(d)) = 0
        /\ Buffered(d) = FillingCache(c)
        /\ Len(accepted[at]) \in Nat
    BY <1>1, SwappedSplits, CacheParts, EmptySeq, LenProperties
  <1>3. /\ batch' = CurrentCache(c)
        /\ cache' = [cache EXCEPT ![at] = d]
        /\ mark' = [mark EXCEPT ![at] = Len(accepted[at])]
        /\ prevMark' = [prevMark EXCEPT ![at] = mark[at]]
        /\ writing' = TRUE /\ ~writing /\ at # 0
        /\ UNCHANGED <<subLevel, passed, accepted, fileVars, m_Locker, at, crashed>>
    BY DEF FlushTake
  <1> HIDE DEF c, d
  <1>4. TypeOK'
    BY <1>1, <1>2, <1>3 DEF Inv, TypeOK, fileVars
  <1>5. FlushInv' /\ BufferInv' /\ FileInv'
    BY <1>3 DEF Inv, FlushInv, BufferInv, FileInv, fileVars
  <1>6. MarkInv'
    <2> SUFFICES ASSUME NEW k \in Sub
                 PROVE  /\ mark'[k] = Len(accepted'[k]) - Len(FillingCache(cache'[k]))
                        /\ prevMark'[k] = Len(accepted'[k]) - Len(Buffered(cache'[k]))
      BY DEF MarkInv
    <2>1. CASE k = at
      <3>1. mark[at] = Len(accepted[at]) - Len(FillingCache(c))
        BY <1>1 DEF Inv, MarkInv, c
      <3> QED
        BY <1>1, <1>2, <1>3, <2>1, <3>1
    <2>2. CASE k # at
      BY <1>1, <1>3, <2>2 DEF Inv, MarkInv
    <2> QED
      BY <2>1, <2>2
  <1> QED
    BY <1>4, <1>5, <1>6 DEF Inv

LEMMA FlushWriteInv ==
    ASSUME Inv, FlushWrite
    PROVE  Inv'
  <1> USE DEF FlushWrite, logVars
  <1>1. TypeOK'
    <2>1. /\ batch \in Seq(Lines) /\ batch # <<>> /\ at \in Sub
          /\ buffer \in [Sub -> Seq(Lines)] /\ buffer[at] \in Seq(Lines)
      <3>1. writing /\ batch # <<>>
        OBVIOUS
      <3>2. at \in 0..NumSub /\ at # 0 /\ NumSub \in Nat
        BY <3>1, FileLogMgrAssumption DEF Inv, TypeOK, FlushInv
      <3>3. at \in Sub
        BY <3>2 DEF Sub
      <3>4. batch \in Seq(Lines) /\ buffer \in [Sub -> Seq(Lines)]
        BY DEF Inv, TypeOK
      <3> QED
        BY <3>1, <3>3, <3>4
    <2>2. /\ Head(batch) \in Lines /\ Tail(batch) \in Seq(Lines)
          /\ Append(buffer[at], Head(batch)) \in Seq(Lines)
      BY <2>1, HeadTailProperties, AppendProperties
    <2>3. buffer' \in [Sub -> Seq(Lines)] /\ batch' \in Seq(Lines)
      BY <2>1, <2>2
    <2> QED
      BY <2>3 DEF Inv, TypeOK
  <1>2. FlushInv' /\ FileInv' /\ MarkInv'
    BY DEF Inv, FlushInv, FileInv, MarkInv
  <1>3. BufferInv'
    BY DEF Inv, BufferInv, TypeOK
  <1> QED
    BY <1>1, <1>2, <1>3 DEF Inv

LEMMA FlushEndInv ==
    ASSUME Inv, FlushEnd
    PROVE  Inv'
  <1> DEFINE K == IF m_File[at] = "null" THEN Sub ELSE {at}
  <1>1. at \in Sub /\ K \in SUBSET Sub
    BY FileLogMgrAssumption DEF Inv, TypeOK, FlushInv, FlushEnd, Sub
  <1>2. Drain(K) /\ TypeOK /\ FileInv
    BY DEF FlushEnd, Inv
  <1>3. /\ current' \in [Sub -> Seq(Lines)] /\ newest' \in [Sub -> Seq(Lines)]
        /\ older' \in [Sub -> Seq(Lines)] /\ buffer' \in [Sub -> Seq(Lines)]
        /\ \A k \in Sub :
             /\ buffer'[k] \in {<<>>, buffer[k]}
             /\ k \in K /\ m_File[k] # "null" => buffer'[k] = <<>>
             /\ m_File[k] = "renamed" => current'[k] = <<>>
    <2> HIDE DEF K
    <2> QED
      BY <1>1, <1>2, DrainMoves
  <1>4. /\ writing /\ batch = <<>> /\ writing' = FALSE
        /\ at' = IF at < NumSub THEN at + 1 ELSE 0
        /\ m_Locker' = IF at < NumSub THEN m_Locker ELSE NoThread
        /\ UNCHANGED <<subLevel, logVars, m_File, batch, crashed, mark, prevMark>>
    BY DEF FlushEnd
  <1>5. TypeOK'
    <2>1. at' \in 0..NumSub
      BY <1>1, <1>4, FileLogMgrAssumption DEF Sub
    <2>2. m_Locker' \in Callers \cup {NoThread}
      BY <1>4 DEF Inv, TypeOK
    <2> QED
      BY <1>3, <1>4, <2>1, <2>2 DEF Inv, TypeOK, logVars
  <1>6. FlushInv'
    BY <1>1, <1>4, FileLogMgrAssumption DEF Inv, FlushInv, Sub
  <1>7. BufferInv'
    BY <1>1, <1>3, <1>4 DEF Inv, BufferInv
  <1>8. FileInv' /\ MarkInv'
    BY <1>3, <1>4 DEF Inv, FileInv, MarkInv, logVars
  <1> QED
    BY <1>5, <1>6, <1>7, <1>8 DEF Inv

LEMMA StdioWritesEarlyInv ==
    ASSUME Inv, NEW j \in Sub, StdioWritesEarly(j)
    PROVE  Inv'
  <1>1. /\ current' \in [Sub -> Seq(Lines)] /\ newest' \in [Sub -> Seq(Lines)]
        /\ older' \in [Sub -> Seq(Lines)] /\ buffer' \in [Sub -> Seq(Lines)]
        /\ \A k \in Sub : /\ buffer'[k] \in {<<>>, buffer[k]}
                          /\ m_File[k] = "renamed" => current'[k] = <<>>
    BY DrainMoves DEF StdioWritesEarly, Inv
  <1> USE DEF StdioWritesEarly, logVars, flushVars
  <1>2. TypeOK'
    BY <1>1 DEF Inv, TypeOK
  <1>3. FlushInv' /\ MarkInv'
    BY DEF Inv, FlushInv, MarkInv
  <1>4. BufferInv' /\ FileInv'
    BY <1>1 DEF Inv, BufferInv, FileInv
  <1> QED
    BY <1>2, <1>3, <1>4 DEF Inv

\* While m_Locker is free every stdio buffer is empty, so that close() and
\* open() find nothing to write out.
LEMMA FreeBuffersEmpty ==
    ASSUME Inv, Free
    PROVE  \A k \in Sub : buffer[k] = <<>>
  BY DEF Inv, Free, FlushInv, BufferInv, Sub

LEMMA CloseInv ==
    ASSUME Inv, Close
    PROVE  Inv'
  <1>1. /\ current' \in [Sub -> Seq(Lines)] /\ newest' \in [Sub -> Seq(Lines)]
        /\ older' \in [Sub -> Seq(Lines)] /\ buffer' \in [Sub -> Seq(Lines)]
        /\ \A k \in Sub : buffer'[k] = <<>>
    BY DrainMoves, FreeBuffersEmpty DEF Close, Inv
  <1> USE DEF Close, logVars, flushVars
  <1>2. TypeOK'
    BY <1>1 DEF Inv, TypeOK
  <1>3. FlushInv' /\ MarkInv'
    BY DEF Inv, FlushInv, MarkInv
  <1>4. BufferInv' /\ FileInv'
    BY <1>1 DEF Inv, BufferInv, FileInv
  <1> QED
    BY <1>2, <1>3, <1>4 DEF Inv

LEMMA RotateInv ==
    ASSUME Inv, Rotate
    PROVE  Inv'
  <1>1. PICK R \in SUBSET Sub, S \in SUBSET Sub : Renamed(R, S)
    BY DEF Rotate
  <1>2. /\ older'   = [k \in Sub |-> IF k \in R \ S
                                     THEN Cat(older[k], newest[k]) ELSE older[k]]
        /\ newest'  = [k \in Sub |-> IF k \in R THEN current[k] ELSE newest[k]]
        /\ current' = [k \in Sub |-> IF k \in R THEN <<>> ELSE current[k]]
        /\ m_File'  = [k \in Sub |-> IF k \in R /\ m_File[k] = "named"
                                     THEN "renamed" ELSE m_File[k]]
    BY <1>1, Zenon DEF Renamed, Cat
  <1>3. \A k \in Sub : /\ Cat(older[k], newest[k]) \in Seq(Lines)
                       /\ <<>> \in Seq(Lines)
    BY CatType, EmptySeq DEF Inv, TypeOK
  <1>4. UNCHANGED <<subLevel, logVars, buffer, flushVars, crashed, mark, prevMark>>
    BY DEF Rotate
  <1> USE DEF logVars, flushVars
  <1>5. TypeOK'
    BY <1>2, <1>3, <1>4 DEF Inv, TypeOK
  <1>6. FlushInv' /\ MarkInv'
    BY <1>4 DEF Inv, FlushInv, MarkInv
  <1>7. BufferInv'
    BY <1>4, FreeBuffersEmpty DEF Rotate, BufferInv
  <1>8. FileInv'
    BY <1>2 DEF Inv, FileInv, TypeOK
  <1> QED
    BY <1>5, <1>6, <1>7, <1>8 DEF Inv

LEMMA OpenInv ==
    ASSUME Inv, Open
    PROVE  Inv'
  <1>1. PICK n \in 0..NumSub :
            /\ Drain((1 .. n + 1) \cap Sub)
            /\ m_File' = [k \in Sub |-> IF k <= n THEN "named"
                                        ELSE IF k = n + 1 THEN "null"
                                        ELSE m_File[k]]
    BY DEF Open
  <1>2. /\ current' \in [Sub -> Seq(Lines)] /\ newest' \in [Sub -> Seq(Lines)]
        /\ older' \in [Sub -> Seq(Lines)] /\ buffer' \in [Sub -> Seq(Lines)]
        /\ \A k \in Sub : /\ buffer'[k] = <<>>
                          /\ m_File[k] = "renamed" => current'[k] = <<>>
    <2>1. (1 .. n + 1) \cap Sub \in SUBSET Sub
      OBVIOUS
    <2> QED
      BY <1>1, <2>1, DrainMoves, FreeBuffersEmpty DEF Open, Inv
  <1>3. /\ subLevel' = [k \in Sub |-> LevelOf(k)]
        /\ UNCHANGED <<logVars, flushVars, crashed, mark, prevMark>>
    BY DEF Open
  <1> USE DEF logVars, flushVars
  <1>4. TypeOK'
    BY <1>1, <1>2, <1>3, LevelOfSub DEF Inv, TypeOK
  <1>5. FlushInv' /\ MarkInv'
    BY <1>3 DEF Inv, FlushInv, MarkInv
  <1>6. BufferInv'
    BY <1>2 DEF BufferInv
  <1>7. FileInv'
    <2> SUFFICES ASSUME NEW k \in Sub, m_File'[k] = "renamed"
                 PROVE  current'[k] = <<>>
      BY DEF FileInv
    <2>1. m_File[k] = "renamed"
      BY <1>1
    <2> QED
      BY <1>2, <2>1
  <1> QED
    BY <1>4, <1>5, <1>6, <1>7 DEF Inv

LEMMA SetLevelInv ==
    ASSUME Inv, NEW level \in SetLevels, SetLevel(level)
    PROVE  Inv'
  <1> USE DEF SetLevel, logVars, fileVars, flushVars
  <1>1. TypeOK'
    BY FileLogMgrAssumption DEF Inv, TypeOK
  <1>2. FlushInv' /\ BufferInv' /\ FileInv' /\ MarkInv'
    BY DEF Inv, FlushInv, BufferInv, FileInv, MarkInv
  <1> QED
    BY <1>1, <1>2 DEF Inv

LEMMA StutterInv ==
    ASSUME Inv, UNCHANGED vars
    PROVE  Inv'
  BY DEF vars, logVars, fileVars, flushVars, Inv, TypeOK, FlushInv, BufferInv,
         FileInv, MarkInv

LEMMA NextInv == Inv /\ [Next]_vars => Inv'
  BY LogCheckInv, LogPushInv, FlushBeginInv, FlushTakeInv, FlushWriteInv,
     FlushEndInv, StdioWritesEarlyInv, CloseInv, RotateInv, OpenInv,
     SetLevelInv, StutterInv DEF Next

\* Every variable keeps its type.
THEOREM TypeCorrect == Spec => []TypeOK
  <1>1. Spec => []Inv
    BY InitInv, NextInv, PTL DEF Spec
  <1>2. Inv => TypeOK
    BY DEF Inv
  <1> QED
    BY <1>1, <1>2, PTL

\* When flush() has returned, no line of any file_log is left in a stdio
\* buffer: whatever a flush took from a cache, the operating system has.
FlushedIsDurable ==
    m_Locker = NoThread => \A k \in Sub : buffer[k] = <<>>

\* Whenever no flush runs, every stdio buffer is empty, in whatever seconds the
\* files are rotated.
THEOREM FlushDurable == Spec => []FlushedIsDurable
  <1>1. Spec => []Inv
    BY InitInv, NextInv, PTL DEF Spec
  <1>2. Inv => FlushedIsDurable
    BY DEF Inv, FlushInv, BufferInv, FlushedIsDurable, Sub
  <1> QED
    BY <1>1, <1>2, PTL

-----------------------------------------------------------------------------
(***************************************************************************)
(* Conservation and order of the lines.  Flow(k) is what left the caches   *)
(* of file_log k.  The steps are looked at with any sequence in the place  *)
(* of older[k], which no step but a rotation changes: it stands for what   *)
(* the older files hold, and for what they should hold.                    *)
(***************************************************************************)
Flow(k) == Cat(Cat(OnDisk(k), buffer[k]), Taken(k))
Kept(k) == accepted[k] = Cat(Flow(k), Buffered(cache[k]))

FlowFrom(gone, k) == Cat(Cat(DiskFrom(gone, k), buffer[k]), Taken(k))
KeptFrom(gone, k) == accepted[k] = Cat(FlowFrom(gone, k), Buffered(cache[k]))

LEMMA KeptIsNothingLost ==
    /\ NothingLost <=> \A k \in Sub : Kept(k)
    /\ NothingLost' <=> \A k \in Sub : Kept(k)'
  BY Zenon DEF NothingLost, Kept, Flow, Cat

LEMMA FlowTypes ==
    ASSUME TypeOK, NEW k \in Sub
    PROVE  /\ OnDisk(k) \in Seq(Lines) /\ buffer[k] \in Seq(Lines)
           /\ Taken(k) \in Seq(Lines) /\ batch \in Seq(Lines)
           /\ Cat(OnDisk(k), buffer[k]) \in Seq(Lines) /\ Flow(k) \in Seq(Lines)
           /\ cache[k] \in CacheType(Lines) /\ accepted[k] \in Seq(Lines)
           /\ Buffered(cache[k]) \in Seq(Lines)
  <1>1. /\ OnDisk(k) \in Seq(Lines) /\ buffer[k] \in Seq(Lines)
        /\ Taken(k) \in Seq(Lines) /\ batch \in Seq(Lines)
        /\ cache[k] \in CacheType(Lines) /\ accepted[k] \in Seq(Lines)
    BY OnDiskType, EmptySeq DEF TypeOK, Taken
  <1>2. /\ Cat(OnDisk(k), buffer[k]) \in Seq(Lines)
        /\ Buffered(cache[k]) \in Seq(Lines)
    BY <1>1, CatType, CacheParts
  <1> QED
    BY <1>1, <1>2, CatType DEF Flow

LEMMA FlowFromTypes ==
    ASSUME TypeOK, NEW k \in Sub, NEW g \in Seq(Lines)
    PROVE  /\ DiskFrom(g, k) \in Seq(Lines)
           /\ Cat(DiskFrom(g, k), buffer[k]) \in Seq(Lines)
           /\ FlowFrom(g, k) \in Seq(Lines)
  <1>1. newest[k] \in Seq(Lines) /\ current[k] \in Seq(Lines)
    BY DEF TypeOK
  <1>2. Cat(g, newest[k]) \in Seq(Lines)
    BY <1>1, CatType
  <1>3. DiskFrom(g, k) \in Seq(Lines)
    BY <1>1, <1>2, CatType DEF DiskFrom
  <1>4. Cat(DiskFrom(g, k), buffer[k]) \in Seq(Lines)
    BY <1>3, FlowTypes, CatType
  <1> QED
    BY <1>3, <1>4, FlowTypes, CatType DEF FlowFrom

\* A step that moves no line between the caches and the flow keeps both.
LEMMA SameFlow ==
    ASSUME NEW k \in Sub, NEW g \in Seq(Lines), KeptFrom(g, k),
           UNCHANGED <<accepted, cache>>,
           Cat(DiskFrom(g, k)', buffer'[k]) = Cat(DiskFrom(g, k), buffer[k]),
           Taken(k)' = Taken(k)
    PROVE  KeptFrom(g, k)'
  <1>1. FlowFrom(g, k)' = FlowFrom(g, k)
    BY DEF FlowFrom
  <1> QED
    BY <1>1 DEF KeptFrom

LEMMA SameFiles ==
    ASSUME NEW k \in Sub, NEW g \in Seq(Lines),
           UNCHANGED <<current, newest, buffer>>
    PROVE  Cat(DiskFrom(g, k)', buffer'[k]) = Cat(DiskFrom(g, k), buffer[k])
  BY DEF DiskFrom

LEMMA LogPushKeeps ==
    ASSUME Inv, NEW c \in passed, LogPush(c),
           NEW k \in Sub, NEW g \in Seq(Lines), KeptFrom(g, k)
    PROVE  KeptFrom(g, k)'
  <1> DEFINE l == c.line
  <1>1. l \in Lines /\ c.sub \in Sub
    BY DEF Inv, TypeOK, Call
  <1>2. /\ cache' = [cache EXCEPT ![c.sub] = PushBack(cache[c.sub], l)]
        /\ accepted' = [accepted EXCEPT ![c.sub] = Append(accepted[c.sub], l)]
        /\ UNCHANGED <<fileVars, flushVars>>
    BY DEF LogPush
  <1>3. FlowFrom(g, k)' = FlowFrom(g, k)
    BY <1>2 DEF FlowFrom, DiskFrom, Taken, fileVars, flushVars
  <1>4. CASE k = c.sub
    <2>1. /\ cache'[k] = PushBack(cache[k], l)
          /\ accepted'[k] = Append(accepted[k], l)
      BY <1>2, <1>4 DEF Inv, TypeOK
    <2>2. Buffered(cache'[k]) = Append(Buffered(cache[k]), l)
      BY <1>1, <2>1, FlowTypes, PushBackAppends DEF Inv
    <2>3. Cat(FlowFrom(g, k), Append(Buffered(cache[k]), l))
              = Append(Cat(FlowFrom(g, k), Buffered(cache[k])), l)
      <3> DEFINE f == FlowFrom(g, k)  b == Buffered(cache[k])
      <3>1. f \in Seq(Lines) /\ b \in Seq(Lines)
        BY FlowTypes, FlowFromTypes DEF Inv
      <3> HIDE DEF f, b, l
      <3>2. Cat(f, Append(b, l)) = Append(Cat(f, b), l)
        BY <1>1, <3>1, CatAppend
      <3> QED
        BY <3>2 DEF f, b
    <2> QED
      BY <1>3, <2>1, <2>2, <2>3 DEF KeptFrom
  <1>5. CASE k # c.sub
    <2>1. cache'[k] = cache[k] /\ accepted'[k] = accepted[k]
      BY <1>2, <1>5 DEF Inv, TypeOK
    <2> QED
      BY <1>3, <2>1 DEF KeptFrom
  <1> QED
    BY <1>4, <1>5

LEMMA FlushTakeKeeps ==
    ASSUME Inv, FlushTake, NEW k \in Sub, NEW g \in Seq(Lines), KeptFrom(g, k)
    PROVE  KeptFrom(g, k)'
  <1> DEFINE c == cache[k]  X == Cat(DiskFrom(g, k), buffer[k])
  <1>1. /\ cache' = [cache EXCEPT ![at] = Swapped(cache[at])]
        /\ batch' = CurrentCache(cache[at]) /\ batch = <<>>
        /\ UNCHANGED <<accepted, fileVars, at>>
    BY DEF FlushTake, Inv, FlushInv
  <1>2. Cat(DiskFrom(g, k)', buffer'[k]) = X
    BY <1>1, SameFiles DEF fileVars
  <1>3. CASE k = at
    <2>1. cache'[k] = Swapped(c) /\ Taken(k)' = CurrentCache(c) /\ Taken(k) = <<>>
      BY <1>1, <1>3 DEF Inv, TypeOK, Taken
    <2>2. /\ X \in Seq(Lines) /\ CurrentCache(c) \in Seq(Lines)
          /\ Buffered(Swapped(c)) \in Seq(Lines)
          /\ Cat(CurrentCache(c), Buffered(Swapped(c))) = Buffered(c)
      BY FlowTypes, FlowFromTypes, CacheParts, SwappedSplits DEF Inv
    <2>3. accepted[k] = Cat(X, Buffered(c))
      BY <2>1, <2>2, CatEmpty DEF KeptFrom, FlowFrom
    <2>4. accepted[k] = Cat(Cat(X, CurrentCache(c)), Buffered(Swapped(c)))
      BY <2>2, <2>3, CatAssoc
    <2> QED
      BY <1>1, <1>2, <2>1, <2>4 DEF KeptFrom, FlowFrom
  <1>4. CASE k # at
    <2>1. cache'[k] = cache[k] /\ Taken(k)' = Taken(k)
      BY <1>1, <1>4 DEF Inv, TypeOK, Taken
    <2> QED
      BY <1>1, <1>2, <2>1 DEF KeptFrom, FlowFrom
  <1> QED
    BY <1>3, <1>4

LEMMA FlushWriteKeeps ==
    ASSUME Inv, FlushWrite, NEW k \in Sub, NEW g \in Seq(Lines), KeptFrom(g, k)
    PROVE  KeptFrom(g, k)'
  <1>1. /\ UNCHANGED <<accepted, cache, current, newest, older, at>>
        /\ batch # <<>>
        /\ \/ /\ buffer' = [buffer EXCEPT ![at] = Append(buffer[at], Head(batch))]
              /\ batch' = Tail(batch)
           \/ UNCHANGED <<buffer, batch>>
    BY DEF FlushWrite, logVars
  <1>2. DiskFrom(g, k)' = DiskFrom(g, k)
    BY <1>1 DEF DiskFrom
  <1>3. CASE UNCHANGED <<buffer, batch>> \/ k # at
    <2>1. buffer'[k] = buffer[k] /\ Taken(k)' = Taken(k)
      BY <1>1, <1>3 DEF Inv, TypeOK, Taken
    <2> QED
      BY <1>1, <1>2, <2>1, SameFlow
  <1>4. CASE /\ buffer' = [buffer EXCEPT ![at] = Append(buffer[at], Head(batch))]
             /\ batch' = Tail(batch) /\ k = at
    <2> DEFINE d == DiskFrom(g, k)  b == buffer[k]
    <2>1. /\ buffer'[k] = Append(b, Head(batch))
          /\ Taken(k)' = Tail(batch) /\ Taken(k) = batch
      BY <1>1, <1>4 DEF Inv, TypeOK, Taken
    <2>2. /\ d \in Seq(Lines) /\ b \in Seq(Lines) /\ batch \in Seq(Lines)
          /\ Head(batch) \in Lines /\ Tail(batch) \in Seq(Lines)
          /\ Append(b, Head(batch)) \in Seq(Lines)
      BY <1>1, FlowTypes, FlowFromTypes, HeadTailProperties, AppendProperties DEF Inv
    <2>3. Cat(Cat(d, Append(b, Head(batch))), Tail(batch))
              = Cat(d, Cat(Append(b, Head(batch)), Tail(batch)))
      <3> DEFINE e == Append(b, Head(batch))  t == Tail(batch)
      <3>1. d \in Seq(Lines) /\ e \in Seq(Lines) /\ t \in Seq(Lines)
        BY <2>2
      <3> HIDE DEF d, e, t
      <3>2. Cat(Cat(d, e), t) = Cat(d, Cat(e, t))
        BY <3>1, CatAssoc
      <3> QED
        BY <3>2 DEF d, e, t
    <2>4. Cat(Append(b, Head(batch)), Tail(batch)) = Cat(b, batch)
      BY <1>1, <2>2, CatHeadTail
    <2>5. Cat(d, Cat(b, batch)) = Cat(Cat(d, b), batch)
      BY <2>2, CatAssoc
    <2>6. FlowFrom(g, k)' = FlowFrom(g, k)
      BY <1>2, <2>1, <2>3, <2>4, <2>5 DEF FlowFrom
    <2> QED
      BY <1>1, <2>6 DEF KeptFrom
  <1> QED
    BY <1>1, <1>3, <1>4

\* The steps that drain stdio buffers.
LEMMA DrainKeeps ==
    ASSUME Inv, NEW K \in SUBSET Sub, Drain(K), UNCHANGED <<accepted, cache>>,
           NEW k \in Sub, NEW g \in Seq(Lines), KeptFrom(g, k), Taken(k)' = Taken(k)
    PROVE  KeptFrom(g, k)' /\ older' = older
  <1>1. Cat(DiskFrom(g, k)', buffer'[k]) = Cat(DiskFrom(g, k), buffer[k])
    BY DrainMoves DEF Inv
  <1> QED
    BY <1>1, SameFlow, Zenon DEF Drain

\* rotate() moves whole files; only a second one in the same second loses any.
LEMMA RotateMovesFiles ==
    ASSUME ~SameSecond, TypeOK, Rotate, NEW k \in Sub
    PROVE  OnDisk(k)' = OnDisk(k)
  <1>1. PICK R \in SUBSET Sub : Renamed(R, {})
    BY DEF Rotate
  <1>2. /\ older'   = [j \in Sub |-> IF j \in R \ {} THEN Cat(older[j], newest[j])
                                     ELSE older[j]]
        /\ newest'  = [j \in Sub |-> IF j \in R THEN current[j] ELSE newest[j]]
        /\ current' = [j \in Sub |-> IF j \in R THEN <<>> ELSE current[j]]
    BY <1>1, Zenon DEF Renamed, Cat
  <1>3. OnDisk(k)' = Cat(Cat(older'[k], newest'[k]), current'[k])
    BY Zenon DEF OnDisk, Cat
  <1>4. CASE k \in R
    BY <1>2, <1>3, <1>4, OnDiskCat, OnDiskType, CatEmpty
  <1>5. CASE k \notin R
    BY <1>2, <1>3, <1>5, OnDiskCat
  <1> QED
    BY <1>4, <1>5

LEMMA RotateKeeps ==
    ASSUME Inv, Rotate, NEW k \in Sub, NEW g \in Seq(Lines), KeptFrom(g, k)
    PROVE  \/ KeptFrom(g, k)' /\ older'[k] = older[k]
           \/ \E h \in Seq(Lines) :
                /\ h = newest[k] /\ KeptFrom(Cat(g, h), k)'
                /\ older'[k] = Cat(older[k], h) \/ SameSecond
  <1>1. PICK R \in SUBSET Sub, S \in SUBSET Sub :
            Renamed(R, S) /\ (SameSecond \/ S = {})
    BY DEF Rotate
  <1>2. /\ older'   = [j \in Sub |-> IF j \in R \ S THEN Cat(older[j], newest[j])
                                     ELSE older[j]]
        /\ newest'  = [j \in Sub |-> IF j \in R THEN current[j] ELSE newest[j]]
        /\ current' = [j \in Sub |-> IF j \in R THEN <<>> ELSE current[j]]
    BY <1>1, Zenon DEF Renamed, Cat
  <1>3. /\ UNCHANGED <<accepted, cache, buffer>>
        /\ Taken(k)' = Taken(k)
    BY DEF Rotate, logVars, flushVars, Taken
  <1>4. CASE k \notin R
    <2>1. older'[k] = older[k] /\ newest'[k] = newest[k] /\ current'[k] = current[k]
      BY <1>2, <1>4
    <2>2. DiskFrom(g, k)' = DiskFrom(g, k)
      BY <2>1 DEF DiskFrom
    <2> QED
      BY <1>3, <2>1, <2>2, SameFlow
  <1>5. CASE k \in R
    <2>1. PICK h \in Seq(Lines) : h = newest[k]
      BY DEF Inv, TypeOK
    <2>2. newest'[k] = current[k] /\ current'[k] = <<>>
      BY <1>2, <1>5
    <2>3. DiskFrom(Cat(g, h), k)' = DiskFrom(g, k)
      <3>1. DiskFrom(g, k) \in Seq(Lines) /\ DiskFrom(g, k) = Cat(Cat(g, h), current[k])
        BY <2>1, FlowFromTypes DEF Inv, DiskFrom
      <3>2. DiskFrom(Cat(g, h), k)' = Cat(Cat(Cat(g, h), current[k]), <<>>)
        BY <2>2 DEF DiskFrom
      <3> QED
        BY <3>1, <3>2, CatEmpty
    <2>4. KeptFrom(Cat(g, h), k)'
      BY <1>3, <2>3 DEF KeptFrom, FlowFrom
    <2>5. older'[k] = Cat(older[k], h) \/ SameSecond
      BY <1>1, <1>2, <1>5, <2>1
    <2> QED
      BY <2>1, <2>4, <2>5
  <1> QED
    BY <1>4, <1>5

LEMMA InitKeeps ==
    ASSUME Init, NEW k \in Sub
    PROVE  KeptFrom(<<>>, k) /\ older[k] = <<>>
  <1>1. /\ older[k] = <<>> /\ newest[k] = <<>> /\ current[k] = <<>>
        /\ buffer[k] = <<>> /\ batch = <<>> /\ accepted[k] = <<>>
        /\ cache[k] = EmptyCache
    BY DEF Init
  <1>2. Taken(k) = <<>> /\ Buffered(cache[k]) = <<>>
    BY <1>1, EmptyCacheBuffers DEF Taken
  <1>3. <<>> \in Seq(Lines) /\ Cat(<<>>, <<>>) = <<>>
    BY EmptySeq, CatEmpty
  <1>4. DiskFrom(<<>>, k) = <<>>
    BY <1>1, <1>3 DEF DiskFrom
  <1> QED
    BY <1>1, <1>2, <1>3, <1>4 DEF KeptFrom, FlowFrom

\* The lines stay behind what is gone; a rotation adds the newest file to that.
LEMMA NextKeeps ==
    ASSUME Inv, [Next]_vars, NEW k \in Sub, NEW g \in Seq(Lines), KeptFrom(g, k)
    PROVE  \/ KeptFrom(g, k)' /\ older'[k] = older[k]
           \/ \E h \in Seq(Lines) :
                /\ h = newest[k] /\ KeptFrom(Cat(g, h), k)'
                /\ older'[k] = Cat(older[k], h) \/ SameSecond
  <1>r. CASE Rotate
    BY <1>r, RotateKeeps
  <1> DEFINE Stays == KeptFrom(g, k)' /\ older' = older
  <1>1. ASSUME NEW t \in Apps, NEW j \in Sub, NEW line \in Lines,
               LogCheck(t, j, line)
        PROVE  Stays
    BY <1>1, SameFiles, SameFlow DEF LogCheck, fileVars, flushVars, Taken
  <1>2. ASSUME NEW c \in passed, LogPush(c) PROVE Stays
    BY <1>2, LogPushKeeps DEF LogPush, fileVars
  <1>3. ASSUME NEW t \in Callers, FlushBegin(t) PROVE Stays
    <2>1. Taken(k)' = Taken(k)
      BY <1>3 DEF FlushBegin, Free, Inv, FlushInv, Taken
    <2> QED
      BY <1>3, <2>1, SameFiles, SameFlow DEF FlushBegin, logVars, fileVars
  <1>4. CASE FlushTake
    BY <1>4, FlushTakeKeeps DEF FlushTake, fileVars
  <1>5. CASE FlushWrite
    BY <1>5, FlushWriteKeeps DEF FlushWrite
  <1>6. CASE FlushEnd
    <2> DEFINE K == IF m_File[at] = "null" THEN Sub ELSE {at}
    <2>1. Drain(K) /\ K \in SUBSET Sub
      BY <1>6, FileLogMgrAssumption DEF FlushEnd, Inv, TypeOK, FlushInv, Sub
    <2>2. Taken(k)' = Taken(k) /\ UNCHANGED <<accepted, cache>>
      BY <1>6 DEF FlushEnd, Taken, logVars
    <2> HIDE DEF K
    <2> QED
      BY <2>1, <2>2, DrainKeeps
  <1>7. ASSUME NEW j \in Sub, StdioWritesEarly(j) PROVE Stays
    <2>1. Drain({j}) /\ {j} \in SUBSET Sub
      BY <1>7 DEF StdioWritesEarly
    <2>2. Taken(k)' = Taken(k) /\ UNCHANGED <<accepted, cache>>
      BY <1>7 DEF StdioWritesEarly, Taken, logVars, flushVars
    <2> QED
      BY <2>1, <2>2, DrainKeeps
  <1>8. CASE Close
    <2>1. Drain(Sub) /\ Sub \in SUBSET Sub
      BY <1>8 DEF Close
    <2>2. Taken(k)' = Taken(k) /\ UNCHANGED <<accepted, cache>>
      BY <1>8 DEF Close, Taken, logVars, flushVars
    <2> QED
      BY <2>1, <2>2, DrainKeeps
  <1>9. CASE Open
    <2>1. PICK n \in 0..NumSub : Drain((1 .. n + 1) \cap Sub)
      BY <1>9 DEF Open
    <2>2. Taken(k)' = Taken(k) /\ UNCHANGED <<accepted, cache>>
      BY <1>9 DEF Open, Taken, logVars, flushVars
    <2> DEFINE K == (1 .. n + 1) \cap Sub
    <2>3. Drain(K) /\ K \in SUBSET Sub
      BY <2>1
    <2> HIDE DEF K
    <2> QED
      BY <2>2, <2>3, DrainKeeps
  <1>10. ASSUME NEW level \in SetLevels, SetLevel(level) PROVE Stays
    BY <1>10, SameFiles, SameFlow DEF SetLevel, logVars, fileVars, flushVars, Taken
  <1>11. CASE UNCHANGED vars
    BY <1>11, SameFiles, SameFlow DEF vars, logVars, fileVars, flushVars, Taken
  <1> QED
    BY <1>r, <1>1, <1>2, <1>3, <1>4, <1>5, <1>6, <1>7, <1>8, <1>9, <1>10, <1>11 DEF Next

\* NothingLost and what the steps are looked at with.
LEMMA KeptIsKeptFrom ==
    \A k : Kept(k) <=> KeptFrom(older[k], k)
  BY OnDiskCat DEF Kept, KeptFrom, Flow, FlowFrom, DiskFrom

LEMMA NextNothingLost ==
    ASSUME ~SameSecond, Inv, NothingLost, [Next]_vars
    PROVE  NothingLost'
  <1> SUFFICES ASSUME NEW k \in Sub PROVE Kept(k)'
    BY KeptIsNothingLost
  <1>1. PICK g \in Seq(Lines) : g = older[k]
    BY DEF Inv, TypeOK
  <1>2. KeptFrom(g, k)
    BY <1>1, KeptIsNothingLost, KeptIsKeptFrom
  <1>3. ASSUME NEW h, KeptFrom(h, k)', older'[k] = h PROVE Kept(k)'
    <2>1. OnDisk(k)' = Cat(Cat(older'[k], newest'[k]), current'[k])
      BY Zenon DEF OnDisk, Cat
    <2>2. OnDisk(k)' = DiskFrom(h, k)'
      BY <1>3, <2>1 DEF DiskFrom
    <2> QED
      BY <1>3, <2>2 DEF Kept, KeptFrom, Flow, FlowFrom
  <1> QED
    BY <1>1, <1>2, <1>3, NextKeeps

\* No line is lost, duplicated or reordered between log() and the files, as
\* long as a file is not rotated twice in one second.
THEOREM LinesConserved ==
    ASSUME ~SameSecond
    PROVE  Spec => []NothingLost
  <1>1. Spec => []Inv
    BY InitInv, NextInv, PTL DEF Spec
  <1>2. Init => NothingLost
    BY InitKeeps, KeptIsNothingLost, KeptIsKeptFrom
  <1>3. Inv /\ NothingLost /\ [Next]_vars => NothingLost'
    BY NextNothingLost
  <1> QED
    BY <1>1, <1>2, <1>3, PTL DEF Spec

-----------------------------------------------------------------------------
(***************************************************************************)
(* Whatever the rotations destroy is older than everything else.           *)
(***************************************************************************)
LEMMA SuffixOfCat ==
    ASSUME NEW S, NEW g \in Seq(S), NEW t \in Seq(S)
    PROVE  IsSuffix(t, Cat(g, t))
  <1> DEFINE a == Cat(g, t)  m == Len(g)  n == Len(t)
  <1>1. /\ m \in Nat /\ n \in Nat /\ a \in Seq(S) /\ Len(a) = m + n
        /\ \A i \in 1..m + n : a[i] = IF i <= m THEN g[i] ELSE t[i - m]
    BY ConcatProperties, LenProperties DEF Cat
  <1> HIDE DEF a, m
  <1>2. /\ Reverse(t) = [i \in 1..n |-> t[(n - i) + 1]]
        /\ Reverse(a) = [i \in 1..m + n |-> a[(m + n - i) + 1]]
    BY <1>1 DEF Reverse
  <1> HIDE DEF n
  <1>3. ASSUME NEW i \in 1..n PROVE Reverse(a)[i] = Reverse(t)[i]
    <2>1. /\ i \in 1..m + n /\ (m + n - i) + 1 \in 1..m + n
          /\ ~((m + n - i) + 1 <= m) /\ ((m + n - i) + 1) - m = (n - i) + 1
      BY <1>1
    <2> QED
      BY <1>1, <1>2, <2>1
  <1>4. /\ Reverse(t) \in Seq(S) /\ Len(Reverse(t)) = n
        /\ Reverse(a) \in Seq(S) /\ Len(Reverse(a)) = m + n
    <2>1. \A i \in 1..n : t[(n - i) + 1] \in S
      BY <1>1, ElementOfSeq DEF n
    <2>2. \A i \in 1..m + n : a[(m + n - i) + 1] \in S
      BY <1>1, ElementOfSeq
    <2> QED
      BY <1>1, <1>2, <2>1, <2>2
  <1>5. SubSeq(Reverse(t), 1, n) = SubSeq(Reverse(a), 1, n)
    BY <1>1, <1>3, <1>4
  <1> QED
    BY <1>1, <1>4, <1>5 DEF IsSuffix, IsPrefix, a

\* There is something that was destroyed or is in older files, and all the rest of
\* what was accepted is there, behind it.
RecentInv == \A k \in Sub : \E g \in Seq(Lines) : KeptFrom(g, k)

LEMMA RecentInvIntact ==
    ASSUME TypeOK, RecentInv
    PROVE  RecentIntact
  <1> SUFFICES ASSUME NEW k \in Sub
               PROVE  IsSuffix(newest[k] \o current[k] \o buffer[k] \o Taken(k)
                                   \o Buffered(cache[k]), accepted[k])
    BY DEF RecentIntact
  <1>1. PICK g \in Seq(Lines) : KeptFrom(g, k)
    BY DEF RecentInv
  <1> DEFINE n == newest[k]  c == current[k]  b == buffer[k]  t == Taken(k)
             r == Buffered(cache[k])
  <1>2. /\ n \in Seq(Lines) /\ c \in Seq(Lines) /\ b \in Seq(Lines) /\ t \in Seq(Lines)
        /\ r \in Seq(Lines)
    BY FlowTypes DEF TypeOK
  <1>3. accepted[k] = Cat(Cat(Cat(Cat(Cat(g, n), c), b), t), r)
    BY <1>1 DEF KeptFrom, FlowFrom, DiskFrom
  <1>4. newest[k] \o current[k] \o buffer[k] \o Taken(k) \o Buffered(cache[k])
            = Cat(Cat(Cat(Cat(n, c), b), t), r)
    BY Zenon DEF Cat
  <1> HIDE DEF n, c, b, t, r
  <1>5. /\ Cat(n, c) \in Seq(Lines) /\ Cat(Cat(n, c), b) \in Seq(Lines)
        /\ Cat(Cat(Cat(n, c), b), t) \in Seq(Lines)
        /\ Cat(Cat(Cat(Cat(n, c), b), t), r) \in Seq(Lines)
    <2>1. Cat(n, c) \in Seq(Lines)
      BY <1>2, CatType
    <2>2. Cat(Cat(n, c), b) \in Seq(Lines)
      BY <1>2, <2>1, CatType
    <2>3. Cat(Cat(Cat(n, c), b), t) \in Seq(Lines)
      BY <1>2, <2>2, CatType
    <2> QED
      BY <1>2, <2>1, <2>2, <2>3, CatType
  <1>6. Cat(Cat(g, n), c) = Cat(g, Cat(n, c))
    BY <1>2, CatAssoc
  <1>7. Cat(Cat(g, Cat(n, c)), b) = Cat(g, Cat(Cat(n, c), b))
    BY <1>2, <1>5, CatAssoc
  <1>8. Cat(Cat(g, Cat(Cat(n, c), b)), t) = Cat(g, Cat(Cat(Cat(n, c), b), t))
    BY <1>2, <1>5, CatAssoc
  <1>9. Cat(Cat(g, Cat(Cat(Cat(n, c), b), t)), r) = Cat(g, Cat(Cat(Cat(Cat(n, c), b), t), r))
    BY <1>2, <1>5, CatAssoc
  <1> QED
    BY <1>3, <1>4, <1>5, <1>6, <1>7, <1>8, <1>9, SuffixOfCat

\* What a rotation in the same second as the one before destroys is older than all
\* the lines left: those are the latest accepted, without a gap.
THEOREM RecentLinesIntact == Spec => []RecentIntact
  <1>1. Spec => []Inv
    BY InitInv, NextInv, PTL DEF Spec
  <1>2. Init => RecentInv
    BY InitKeeps, EmptySeq DEF RecentInv
  <1>3. Inv /\ RecentInv /\ [Next]_vars => RecentInv'
    <2> SUFFICES ASSUME Inv, RecentInv, [Next]_vars, NEW k \in Sub
                 PROVE  \E g \in Seq(Lines) : KeptFrom(g, k)'
      BY DEF RecentInv
    <2>1. PICK g \in Seq(Lines) : KeptFrom(g, k)
      BY DEF RecentInv
    <2>2. \A h \in Seq(Lines) : Cat(g, h) \in Seq(Lines)
      BY CatType
    <2> QED
      BY <2>1, <2>2, NextKeeps
  <1>4. Inv /\ RecentInv => RecentIntact
    BY RecentInvIntact DEF Inv
  <1> QED
    BY <1>1, <1>2, <1>3, <1>4, PTL DEF Spec

\* The bookkeeping of two flushes: what left the caches is what had been
\* accepted when the last flush but one took its cache.
LEMMA FlowLength ==
    ASSUME Inv, NEW k \in Sub, Kept(k)
    PROVE  Len(Flow(k)) = prevMark[k]
  <1> DEFINE b == Buffered(cache[k])  f == Flow(k)  a == accepted[k]
  <1>1. /\ f \in Seq(Lines) /\ b \in Seq(Lines)
        /\ a = Cat(f, b) /\ prevMark[k] = Len(a) - Len(b)
    BY FlowTypes DEF Inv, MarkInv, Kept
  <1> HIDE DEF a, b, f
  <1>2. Len(a) = Len(f) + Len(b) /\ Len(f) \in Nat /\ Len(b) \in Nat
    BY <1>1, CatType, LenProperties
  <1> QED
    BY <1>1, <1>2 DEF f

\* Two flushes bring a line to the disk.
THEOREM TwoFlushes ==
    ASSUME ~SameSecond
    PROVE  Spec => []TwoFlushesReachDisk
  <1>1. Spec => []Inv
    BY InitInv, NextInv, PTL DEF Spec
  <1>2. Spec => []NothingLost
    BY LinesConserved
  <1>3. Inv /\ NothingLost => TwoFlushesReachDisk
    <2> SUFFICES ASSUME Inv, NothingLost, m_Locker = NoThread, NEW k \in Sub
                 PROVE  Len(OnDisk(k)) >= prevMark[k]
      BY DEF TwoFlushesReachDisk
    <2>1. Taken(k) = <<>> /\ buffer[k] = <<>>
      BY DEF Inv, FlushInv, BufferInv, Taken, Sub
    <2>2. Flow(k) = OnDisk(k) /\ OnDisk(k) \in Seq(Lines)
      BY <2>1, FlowTypes, CatEmpty DEF Flow, Inv
    <2>3. Len(Flow(k)) = prevMark[k]
      BY FlowLength, KeptIsNothingLost
    <2>4. Len(OnDisk(k)) \in Nat
      BY <2>2, LenProperties
    <2> QED
      BY <2>2, <2>3, <2>4
  <1> QED
    BY <1>1, <1>2, <1>3, PTL

-----------------------------------------------------------------------------
(***************************************************************************)
(* The manager implements LogStream.                                       *)
(***************************************************************************)
Disks == [k \in Sub |-> OnDisk(k)]

\* What is on disk, with what is in the stdio buffer, is a prefix of what was
\* accepted.
LEMMA WrittenIsPrefix ==
    ASSUME TypeOK, NEW j \in Sub, Kept(j), Cat(OnDisk(j), buffer[j]) # <<>>
    PROVE  LET w == Cat(OnDisk(j), buffer[j]) IN
           Len(w) <= Len(accepted[j]) /\ SubSeq(accepted[j], 1, Len(w)) = w
  <1> DEFINE w == Cat(OnDisk(j), buffer[j])  t == Taken(j)
             r == Buffered(cache[j])  a == accepted[j]
  <1>1. /\ w \in Seq(Lines) /\ t \in Seq(Lines) /\ r \in Seq(Lines)
        /\ a = Cat(Cat(w, t), r) /\ w # <<>>
    BY FlowTypes DEF Kept, Flow
  <1> HIDE DEF w, t, r, a
  <1>2. Cat(t, r) \in Seq(Lines)
    BY <1>1, CatType
  <1>3. a = Cat(w, Cat(t, r))
    BY <1>1, CatAssoc
  <1>4. /\ Len(a) = Len(w) + Len(Cat(t, r))
        /\ Len(w) \in Nat /\ Len(Cat(t, r)) \in Nat
    BY <1>1, <1>2, <1>3, CatType, LenProperties
  <1>5. SubSeq(a, 1, Len(w)) = w
    BY <1>1, <1>2, <1>3, CatPrefix
  <1> QED
    BY <1>4, <1>5 DEF a, w

\* A step that writes out the stdio buffer of file_log j is a Store of the
\* abstract specification.
LEMMA WriteOutStores ==
    ASSUME Inv, NEW j \in Sub, Kept(j), UNCHANGED accepted,
           OnDisk(j)' = Cat(OnDisk(j), buffer[j]), buffer[j] # <<>>,
           \A k \in Sub \ {j} : OnDisk(k)' = OnDisk(k)
    PROVE  Stream!Store(j)
  <1> DEFINE w == Cat(OnDisk(j), buffer[j])
  <1>1. /\ w \in Seq(Lines) /\ Len(w) = Len(OnDisk(j)) + Len(buffer[j])
        /\ Len(OnDisk(j)) \in Nat /\ Len(buffer[j]) \in Nat \ {0}
        /\ Len(accepted[j]) \in Nat
    BY FlowTypes, CatType, LenProperties, EmptySeq DEF Inv
  <1>2. w # <<>>
    BY <1>1, EmptySeq
  <1>3. Len(w) <= Len(accepted[j]) /\ SubSeq(accepted[j], 1, Len(w)) = w
    BY <1>2, WrittenIsPrefix DEF Inv
  <1>4. OnDisk(j)' = w
    OBVIOUS
  <1> HIDE DEF w
  <1>5. Disks' = [Disks EXCEPT ![j] = SubSeq(accepted[j], 1, Len(w))]
    BY <1>3, <1>4 DEF Disks
  <1>6. Len(w) \in Len(Disks[j]) + 1 .. Len(accepted[j])
    BY <1>1, <1>3 DEF Disks
  <1> QED
    BY <1>5, <1>6 DEF Stream!Store, Disks

\* A step that drains stdio buffers is a Store of the file_log the flush is
\* at, or leaves the disk as it is.
LEMMA DrainStores ==
    ASSUME Inv, NothingLost, NEW K \in SUBSET Sub, Drain(K), UNCHANGED accepted
    PROVE  \/ \E j \in Sub : Stream!Store(j)
           \/ UNCHANGED <<accepted, Disks>>
  <1>1. \A k \in Sub :
          /\ buffer'[k] \in {<<>>, buffer[k]}
          /\ k \in K /\ m_File[k] # "null" => buffer'[k] = <<>>
          /\ Cat(OnDisk(k)', buffer'[k]) = Cat(OnDisk(k), buffer[k])
          /\ k \notin K \/ buffer[k] = <<>> => OnDisk(k)' = OnDisk(k)
    BY DrainMoves DEF Inv
  <1>2. CASE \E j \in K : buffer[j] # <<>>
    <2>1. PICK j \in K : buffer[j] # <<>>
      BY <1>2
    <2>2. j \in Sub /\ j = at /\ m_File[j] # "null"
      BY <2>1 DEF Inv, BufferInv
    <2>3. \A k \in Sub \ {j} : OnDisk(k)' = OnDisk(k)
      BY <1>1, <2>2 DEF Inv, BufferInv
    <2>4. buffer'[j] = <<>>
      BY <1>1, <2>1, <2>2
    <2>5. OnDisk(j)' \in Seq(Lines)
      <3>1. /\ older' \in [Sub -> Seq(Lines)] /\ newest' \in [Sub -> Seq(Lines)]
            /\ current' \in [Sub -> Seq(Lines)]
        BY DrainMoves DEF Inv
      <3>2. OnDisk(j)' = Cat(Cat(older'[j], newest'[j]), current'[j])
        BY Zenon DEF OnDisk, Cat
      <3> QED
        BY <2>2, <3>1, <3>2, CatType
    <2>6. OnDisk(j)' = Cat(OnDisk(j), buffer[j])
      BY <1>1, <2>2, <2>4, <2>5, CatEmpty
    <2>7. Kept(j)
      BY <2>2, KeptIsNothingLost
    <2> QED
      BY <2>1, <2>2, <2>3, <2>6, <2>7, WriteOutStores
  <1>3. CASE \A j \in K : buffer[j] = <<>>
    <2>1. \A k \in Sub : OnDisk(k)' = OnDisk(k)
      BY <1>1, <1>3
    <2> QED
      BY <2>1 DEF Disks
  <1> QED
    BY <1>2, <1>3

LEMMA SameDisks ==
    ASSUME UNCHANGED <<current, newest, older>>
    PROVE  UNCHANGED Disks
  BY DEF Disks, OnDisk

LEMMA InitStream == Init => Stream!StreamInit
  <1> SUFFICES ASSUME Init PROVE Stream!StreamInit
    OBVIOUS
  <1>1. <<>> \in Seq(Lines) /\ Cat(<<>>, <<>>) = <<>>
    BY EmptySeq, CatEmpty
  <1>2. \A k \in Sub : OnDisk(k) = <<>>
    BY <1>1, OnDiskCat DEF Init
  <1> QED
    BY <1>2 DEF Init, Stream!StreamInit

LEMMA NextStream ==
    ASSUME ~SameSecond, Inv, NothingLost, [Next]_vars
    PROVE  [Stream!StreamNext]_(Stream!streamVars)
  <1> SUFFICES \/ \E j \in Sub : Stream!Store(j)
               \/ \E j \in Sub, line \in Lines : Stream!Accept(j, line)
               \/ UNCHANGED <<accepted, Disks>>
    BY DEF Stream!StreamNext, Stream!streamVars, Disks
  <1>1. ASSUME NEW t \in Apps, NEW j \in Sub, NEW line \in Lines,
               LogCheck(t, j, line)
        PROVE  UNCHANGED <<accepted, Disks>>
    BY <1>1, SameDisks DEF LogCheck, fileVars
  <1>2. ASSUME NEW c \in passed, LogPush(c)
        PROVE  Stream!Accept(c.sub, c.line)
    BY <1>2, SameDisks DEF LogPush, fileVars, Stream!Accept, Disks
  <1>3. ASSUME NEW t \in Callers, FlushBegin(t)
        PROVE  UNCHANGED <<accepted, Disks>>
    BY <1>3, SameDisks DEF FlushBegin, logVars, fileVars
  <1>4. CASE FlushTake
    BY <1>4, SameDisks DEF FlushTake, fileVars
  <1>5. CASE FlushWrite
    BY <1>5, SameDisks DEF FlushWrite, logVars
  <1>6. CASE FlushEnd
    <2> DEFINE K == IF m_File[at] = "null" THEN Sub ELSE {at}
    <2>1. Drain(K) /\ K \in SUBSET Sub /\ UNCHANGED accepted
      BY <1>6, FileLogMgrAssumption
         DEF FlushEnd, logVars, Inv, TypeOK, FlushInv, Sub
    <2> HIDE DEF K
    <2> QED
      BY <2>1, DrainStores
  <1>7. ASSUME NEW j \in Sub, StdioWritesEarly(j)
        PROVE  \/ \E k \in Sub : Stream!Store(k)
               \/ UNCHANGED <<accepted, Disks>>
    <2>1. Drain({j}) /\ {j} \in SUBSET Sub /\ UNCHANGED accepted
      BY <1>7 DEF StdioWritesEarly, logVars
    <2> QED
      BY <2>1, DrainStores
  <1>8. CASE Close
    <2>1. Drain(Sub) /\ Sub \in SUBSET Sub /\ UNCHANGED accepted
      BY <1>8 DEF Close, logVars
    <2> QED
      BY <2>1, DrainStores
  <1>9. CASE Rotate
    <2>1. \A k \in Sub : OnDisk(k)' = OnDisk(k)
      BY <1>9, RotateMovesFiles DEF Inv
    <2> QED
      BY <1>9, <2>1 DEF Rotate, logVars, Disks
  <1>10. CASE Open
    <2>1. PICK n \in 0..NumSub : Drain((1 .. n + 1) \cap Sub)
      BY <1>10 DEF Open
    <2> DEFINE K == (1 .. n + 1) \cap Sub
    <2>2. Drain(K) /\ K \in SUBSET Sub /\ UNCHANGED accepted
      BY <1>10, <2>1 DEF Open, logVars
    <2> HIDE DEF K
    <2> QED
      BY <2>2, DrainStores
  <1>11. ASSUME NEW level \in SetLevels, SetLevel(level)
         PROVE  UNCHANGED <<accepted, Disks>>
    BY <1>11, SameDisks DEF SetLevel, logVars, fileVars
  <1>12. CASE UNCHANGED vars
    BY <1>12, SameDisks DEF vars, logVars, fileVars
  <1>13. ASSUME NEW c \in passed
         PROVE  c.sub \in Sub /\ c.line \in Lines
    BY DEF Inv, TypeOK, Call
  <1> QED
    BY <1>1, <1>2, <1>3, <1>4, <1>5, <1>6, <1>7, <1>8, <1>9, <1>10, <1>11,
       <1>12, <1>13 DEF Next

\* What is on disk is always a growing prefix of what was accepted: the manager
\* implements LogStream, as long as a file is not rotated twice in one second.
THEOREM Refinement ==
    ASSUME ~SameSecond
    PROVE  Spec => StoresInOrder
  <1>1. Spec => []Inv
    BY InitInv, NextInv, PTL DEF Spec
  <1>2. Spec => []NothingLost
    BY LinesConserved
  <1>3. Init => Stream!StreamInit
    BY InitStream
  <1>4. Inv /\ NothingLost /\ [Next]_vars => [Stream!StreamNext]_(Stream!streamVars)
    BY NextStream
  <1> QED
    BY <1>1, <1>2, <1>3, <1>4, PTL DEF Spec, StoresInOrder, Stream!StreamSpec
=============================================================================
