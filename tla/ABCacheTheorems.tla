--------------------------- MODULE ABCacheTheorems ---------------------------
(***************************************************************************)
(* What the operators of ABCache do to the lines they buffer, for every    *)
(* set of lines.  The proofs about the sinks cite these lemmas and never   *)
(* look inside a cache.                                                    *)
(*                                                                         *)
(* The SMT backend expands "\o" into function constructors, and then gets  *)
(* lost in sums of lengths.  The proofs therefore write Cat(s, t) for      *)
(* s \o t, which stays folded, and use the laws of Cat below.              *)
(***************************************************************************)
EXTENDS ABCache, SequenceTheorems, TLAPS

Cat(s, t) == s \o t

\* A concatenation is a sequence, as long as its parts together.
LEMMA CatType ==
    \A S : \A s, t \in Seq(S) :
        /\ Cat(s, t) \in Seq(S)
        /\ Len(Cat(s, t)) = Len(s) + Len(t)
  BY ConcatProperties DEF Cat

\* Concatenation is associative.
LEMMA CatAssoc ==
    \A S : \A s, t, u \in Seq(S) : Cat(Cat(s, t), u) = Cat(s, Cat(t, u))
  BY ConcatAssociative DEF Cat

\* The empty sequence is neutral on both sides.
LEMMA CatEmpty ==
    \A S : \A s \in Seq(S) : Cat(s, <<>>) = s /\ Cat(<<>>, s) = s
  BY ConcatEmptySeq DEF Cat

\* Appending to the right part appends to the whole.
LEMMA CatAppend ==
    \A S : \A s, t \in Seq(S) : \A e \in S :
        Cat(s, Append(t, e)) = Append(Cat(s, t), e)
  <1> TAKE S
  <1> TAKE s, t \in Seq(S)
  <1> TAKE e \in S
  <1>1. <<e>> \in Seq(S)
    OBVIOUS
  <1>2. s \o t \in Seq(S)
    BY ConcatProperties
  <1>3. /\ Append(t, e) = t \o <<e>>
        /\ Append(s \o t, e) = (s \o t) \o <<e>>
    BY <1>2, AppendIsConcat
  <1> QED
    BY <1>1, <1>3, ConcatAssociative DEF Cat

\* The first element of the right part may move to the end of the left one.
LEMMA CatHeadTail ==
    \A S : \A s, t \in Seq(S) :
        t # <<>> => Cat(Append(s, Head(t)), Tail(t)) = Cat(s, t)
  <1> SUFFICES ASSUME NEW S, NEW s \in Seq(S), NEW t \in Seq(S), t # <<>>
               PROVE  Append(s, Head(t)) \o Tail(t) = s \o t
    BY DEF Cat
  <1> DEFINE h == <<Head(t)>>  r == Tail(t)
  <1>1. Head(t) \in S /\ r \in Seq(S) /\ h \in Seq(S)
    BY HeadTailProperties
  <1>2. t = h \o r
    BY HeadTailProperties
  <1>3. Append(s, Head(t)) = s \o h
    BY <1>1, AppendIsConcat
  <1>4. (s \o h) \o r = s \o (h \o r)
    <2> HIDE DEF h, r
    <2> QED
      BY <1>1, ConcatAssociative
  <1> QED
    BY <1>2, <1>3, <1>4

\* The left part is a prefix.
LEMMA CatPrefix ==
    \A S : \A s, t \in Seq(S) : s # <<>> => SubSeq(Cat(s, t), 1, Len(s)) = s
  BY SubSeqOfConcat1, SubSeqFull, EmptySeq, LenProperties DEF Cat

-----------------------------------------------------------------------------
\* The two caches of a cache record are sequences of lines.
LEMMA CacheParts ==
    ASSUME NEW Lines, NEW c \in CacheType(Lines)
    PROVE  /\ CurrentCache(c) \in Seq(Lines)
           /\ FillingCache(c) \in Seq(Lines)
           /\ Buffered(c) \in Seq(Lines)
           /\ Buffered(c) = Cat(CurrentCache(c), FillingCache(c))
           /\ Len(Buffered(c)) = Len(CurrentCache(c)) + Len(FillingCache(c))
  <1>1. CurrentCache(c) \in Seq(Lines) /\ FillingCache(c) \in Seq(Lines)
    BY DEF CacheType, CurrentCache, FillingCache
  <1>2. Buffered(c) = Cat(CurrentCache(c), FillingCache(c))
    BY DEF Buffered, Cat
  <1> QED
    BY <1>1, <1>2, CatType

\* A constructed sink buffers nothing.
LEMMA EmptyCacheBuffers ==
    ASSUME NEW Lines
    PROVE  /\ EmptyCache \in CacheType(Lines)
           /\ CurrentCache(EmptyCache) = <<>>
           /\ FillingCache(EmptyCache) = <<>>
           /\ Buffered(EmptyCache) = <<>>
  <1>1. /\ EmptyCache \in CacheType(Lines)
        /\ CurrentCache(EmptyCache) = <<>>
        /\ FillingCache(EmptyCache) = <<>>
    BY EmptySeq DEF EmptyCache, CacheType, CurrentCache, FillingCache
  <1> QED
    BY <1>1, CacheParts, EmptySeq, CatEmpty

\* log() appends its line to the lines already buffered, and leaves the cache
\* the next flush takes alone.
LEMMA PushBackAppends ==
    ASSUME NEW Lines, NEW c \in CacheType(Lines), NEW line \in Lines
    PROVE  /\ PushBack(c, line) \in CacheType(Lines)
           /\ CurrentCache(PushBack(c, line)) = CurrentCache(c)
           /\ FillingCache(PushBack(c, line)) = Append(FillingCache(c), line)
           /\ Buffered(PushBack(c, line)) = Append(Buffered(c), line)
  <1> DEFINE d == PushBack(c, line)
  <1>1. /\ Append(FillingCache(c), line) \in Seq(Lines)
        /\ CurrentCache(c) \in Seq(Lines)
        /\ FillingCache(c) \in Seq(Lines)
    BY CacheParts, AppendProperties
  <1>2. /\ d \in CacheType(Lines)
        /\ CurrentCache(d) = CurrentCache(c)
        /\ FillingCache(d) = Append(FillingCache(c), line)
    BY <1>1 DEF CacheType, PushBack, CurrentCache, FillingCache
  <1>3. Cat(CurrentCache(c), Append(FillingCache(c), line))
            = Append(Cat(CurrentCache(c), FillingCache(c)), line)
    BY <1>1, CatAppend
  <1> QED
    BY <1>2, <1>3, CacheParts

\* flush() splits what is buffered: the cache it takes holds the older lines,
\* and the rest stays buffered for the next flush.
LEMMA SwappedSplits ==
    ASSUME NEW Lines, NEW c \in CacheType(Lines)
    PROVE  /\ Swapped(c) \in CacheType(Lines)
           /\ CurrentCache(Swapped(c)) = FillingCache(c)
           /\ FillingCache(Swapped(c)) = <<>>
           /\ Buffered(Swapped(c)) = FillingCache(c)
           /\ Cat(CurrentCache(c), Buffered(Swapped(c))) = Buffered(c)
  <1>1. /\ Swapped(c) \in CacheType(Lines)
        /\ CurrentCache(Swapped(c)) = FillingCache(c)
        /\ FillingCache(Swapped(c)) = <<>>
    BY EmptySeq DEF CacheType, Swapped, CurrentCache, FillingCache
  <1>2. Buffered(Swapped(c)) = FillingCache(c)
    BY <1>1, CacheParts, CatEmpty
  <1> QED
    BY <1>1, <1>2, CacheParts
=============================================================================
