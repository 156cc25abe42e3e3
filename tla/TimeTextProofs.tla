--------------------------- MODULE TimeTextProofs ---------------------------
(***************************************************************************)
(* Proofs about TimeText, for any dates and texts: what the strptime()     *)
(* that util.cpp has for Windows leaves in a broken-down time, and that it *)
(* reads back what was printed.                                            *)
(*                                                                         *)
(* A rest of a text is described by where it starts in the whole           *)
(* (Follows), and the calls of strptime() by how much of the expanded      *)
(* format they have read (ReadUpTo).  The invariant (ParseInv) says that   *)
(* these go together: what has been read is stored as it was printed       *)
(* (Sound), or the damage has been met, and nothing but white space can be *)
(* read any more (Stuck).                                                  *)
(***************************************************************************)
EXTENDS TimeText, SequenceTheorems, WellFoundedInduction, TLAPS

-----------------------------------------------------------------------------
(***************************************************************************)
(* Numbers and sequences.                                                  *)
(***************************************************************************)

LEMMA LeastOf ==
    ASSUME NEW S \in SUBSET Nat, S # {}
    PROVE  Min(S) \in S /\ \A x \in S : Min(S) <= x
  <1> DEFINE Less == {p \in Nat \X Nat : p[1] < p[2]}
  <1>1. IsWellFoundedOn(Less, Nat)
    BY NatLessThanWellFounded DEF OpToRel
  <1>2. PICK m \in S : \A x \in S : ~(<<x, m>> \in Less)
    <2> HIDE DEF Less
    <2> QED
      BY <1>1, WFMin
  <1>3. \A x \in S : m <= x
    <2> SUFFICES ASSUME NEW x \in S PROVE m <= x
      OBVIOUS
    <2>1. m \in Nat /\ x \in Nat
      OBVIOUS
    <2>2. ~(<<x, m>> \in Less)
      BY <1>2
    <2>3. <<x, m>> \in Nat \X Nat /\ <<x, m>>[1] = x /\ <<x, m>>[2] = m
      BY <2>1
    <2>4. ~(<<x, m>>[1] < <<x, m>>[2])
      BY <2>2, <2>3
    <2> QED
      BY <2>1, <2>3, <2>4
  <1> QED
    BY <1>3 DEF Min

LEMMA GreatestOf ==
    ASSUME NEW n \in Nat, NEW S \in SUBSET (0..n), S # {}
    PROVE  Max(S) \in S /\ \A x \in S : x <= Max(S)
  <1> DEFINE R == {n - x : x \in S}
  <1>1. R \in SUBSET Nat /\ R # {}
    OBVIOUS
  <1>2. PICK m \in R : m = Min(R) /\ \A x \in R : m <= x
    <2> HIDE DEF R
    <2> QED
      BY <1>1, LeastOf
  <1>3. PICK g \in S : m = n - g
    BY <1>2
  <1>4. \A x \in S : x <= g
    <2> SUFFICES ASSUME NEW x \in S PROVE x <= g
      OBVIOUS
    <2>1. m <= n - x
      BY <1>2
    <2>2. x \in Int /\ g \in Int
      OBVIOUS
    <2> QED
      BY <1>3, <2>1, <2>2
  <1>5. \A y \in S : (\A x \in S : x <= y) => y = g
    <2> SUFFICES ASSUME NEW y \in S, \A x \in S : x <= y PROVE y = g
      OBVIOUS
    <2>1. y <= g /\ g <= y /\ y \in Int /\ g \in Int
      BY <1>4
    <2> QED
      BY <2>1
  <1> QED
    BY <1>4, <1>5 DEF Max

\* A statement about the numbers up to n, by the least that is not.
LEMMA AllUpTo ==
    ASSUME NEW n \in Nat, NEW Good \in SUBSET Nat,
           \A i \in 1..n : (i = 1 \/ (i - 1) \in Good) => i \in Good
    PROVE  \A i \in 1..n : i \in Good
  <1> DEFINE Bad == {i \in 1..n : i \notin Good}
  <1> SUFFICES ASSUME Bad # {} PROVE FALSE
    OBVIOUS
  <1>1. Bad \in SUBSET Nat
    OBVIOUS
  <1>2. PICK m \in Bad : \A x \in Bad : m <= x
    <2> HIDE DEF Bad
    <2> QED
      BY <1>1, LeastOf
  <1>3. m \in 1..n /\ m \notin Good
    OBVIOUS
  <1>4. CASE m = 1
    BY <1>3, <1>4
  <1>5. CASE m # 1
    <2>1. m - 1 \in 1..n
      BY <1>3, <1>5
    <2>2. m - 1 \notin Bad
      BY <1>2, <1>3, <2>1
    <2> QED
      BY <1>3, <2>1, <2>2
  <1> QED
    BY <1>4, <1>5

\* A function on 1..n is a sequence of length n.
LEMMA FunctionIsSeq ==
    ASSUME NEW S, NEW n \in Nat, NEW s \in [1..n -> S]
    PROVE  s \in Seq(S) /\ Len(s) = n
  <1>1. s \in Seq(S)
    BY SeqDef
  <1>2. Len(s) \in Nat /\ DOMAIN s = 1 .. Len(s)
    BY <1>1, LenProperties
  <1>3. 1 .. Len(s) = 1 .. n
    BY <1>2
  <1> QED
    <2> SUFFICES Len(s) <= n /\ n <= Len(s)
      BY <1>1, <1>2
    <2>1. ASSUME NEW k \in Nat PROVE k \in 1..n <=> k \in 1..Len(s)
      BY <1>3
    <2> QED
      BY <1>2, <2>1

\* What FlattenSeq builds its result from.
LEMMA FlattenSeqSteps ==
    ASSUME NEW S, NEW seqs \in Seq(Seq(S)), seqs # <<>>
    PROVE  \E flat :
              /\ \A i \in 1..Len(seqs) :
                    /\ flat[i] \in Seq(S)
                    /\ flat[i] = IF i = 1 THEN seqs[i] ELSE flat[i-1] \o seqs[i]
              /\ FlattenSeq(seqs) = flat[Len(seqs)]
  <1> DEFINE n == Len(seqs)
             From(g, i) == IF i = 1 THEN seqs[i] ELSE g[i-1] \o seqs[i]
             Upto(k) == \E g : g = [i \in 1..k |-> From(g, i)]
             Good == {k \in Nat : Upto(k)}
  <1>1. n \in Nat /\ n # 0 /\ \A i \in 1..n : seqs[i] \in Seq(S)
    BY EmptySeq, LenProperties
  <1>2. ASSUME NEW k \in 1..n, k = 1 \/ (k - 1) \in Good PROVE k \in Good
    <2>1. CASE k = 1
      <3> DEFINE g == [i \in 1..1 |-> seqs[i]]
      <3>1. g = [i \in 1..1 |-> From(g, i)]
        OBVIOUS
      <3> QED
        BY <2>1, <3>1
    <2>2. CASE k # 1
      <3>1. PICK f : f = [i \in 1..(k - 1) |-> From(f, i)]
        BY <1>2, <2>2
      <3> DEFINE g == [i \in 1..k |-> IF i = k THEN f[k - 1] \o seqs[k] ELSE f[i]]
      <3>2. ASSUME NEW i \in 1..k PROVE g[i] = From(g, i)
        <4>1. CASE i = k
          <5>0. k - 1 \in 1..k /\ k - 1 # k
            BY <1>1, <2>2
          <5>1. g[i] = f[k - 1] \o seqs[k] /\ g[k - 1] = f[k - 1] /\ i # 1
            BY <2>2, <4>1, <5>0
          <5> QED
            BY <4>1, <5>1
        <4>2. CASE i # k /\ i = 1
          <5>1. g[i] = f[i] /\ f[i] = seqs[i]
            BY <3>1, <4>2
          <5> QED
            BY <4>2, <5>1
        <4>3. CASE i # k /\ i # 1
          <5>1. i \in 1..(k - 1) /\ i - 1 \in 1..k /\ i - 1 # k
            BY <4>3
          <5>2. f[i] = From(f, i)
            BY <3>1, <5>1
          <5>3. g[i] = f[i] /\ g[i - 1] = f[i - 1]
            BY <4>3, <5>1
          <5> QED
            BY <4>3, <5>2, <5>3
        <4> QED
          BY <4>1, <4>2, <4>3
      <3>3. g = [i \in 1..k |-> From(g, i)]
        <4>1. g = [i \in 1..k |-> g[i]]
          OBVIOUS
        <4> HIDE DEF g, From
        <4> QED
          BY <3>2, <4>1
      <3>4. Upto(k)
        <4> HIDE DEF g, From
        <4> QED
          BY <3>3
      <3>5. k \in Nat
        BY <1>1
      <3> HIDE DEF Upto
      <3> QED
        BY <3>4, <3>5
    <2> QED
      BY <2>1, <2>2
  <1>3. n \in Good
    <2>1. Good \in SUBSET Nat
      OBVIOUS
    <2> HIDE DEF Good
    <2>2. \A i \in 1..n : i \in Good
      BY <1>1, <1>2, <2>1, AllUpTo
    <2> QED
      BY <1>1, <2>2
  <1> DEFINE flatten[i \in 1..n] == IF i = 1 THEN seqs[i] ELSE flatten[i-1] \o seqs[i]
  <1>4. flatten = [i \in 1..n |-> IF i = 1 THEN seqs[i] ELSE flatten[i-1] \o seqs[i]]
    BY <1>3
  <1>5. FlattenSeq(seqs) = flatten[n]
    BY <1>1 DEF FlattenSeq
  <1> HIDE DEF flatten
  <1> DEFINE Fits == {i \in Nat : flatten[i] \in Seq(S)}
  <1>6. ASSUME NEW i \in 1..n, i = 1 \/ (i - 1) \in Fits PROVE i \in Fits
    <2>1. seqs[i] \in Seq(S)
      BY <1>1
    <2>2. CASE i = 1
      BY <1>4, <2>1, <2>2
    <2>3. CASE i # 1
      <3>1. flatten[i] = flatten[i-1] \o seqs[i] /\ flatten[i-1] \in Seq(S)
        BY <1>4, <1>6, <2>3
      <3>2. flatten[i-1] \o seqs[i] \in Seq(S)
        BY <2>1, <3>1, ConcatProperties
      <3>3. i \in Nat
        BY <1>1
      <3>4. flatten[i] \in Seq(S)
        BY <3>1, <3>2
      <3> QED
        BY <3>3, <3>4
    <2> QED
      BY <2>2, <2>3
  <1>7. \A i \in 1..n : flatten[i] \in Seq(S)
    <2>1. Fits \in SUBSET Nat
      OBVIOUS
    <2> HIDE DEF Fits
    <2>2. \A i \in 1..n : i \in Fits
      BY <1>1, <1>6, <2>1, AllUpTo
    <2> QED
      BY <2>2 DEF Fits
  <1>8. \A i \in 1..n : flatten[i] = IF i = 1 THEN seqs[i] ELSE flatten[i-1] \o seqs[i]
    BY <1>4
  <1> QED
    BY <1>5, <1>7, <1>8

\* Sequences of S, one after the other, are one.
LEMMA FlattenSeqType ==
    ASSUME NEW S, NEW seqs \in Seq(Seq(S))
    PROVE  FlattenSeq(seqs) \in Seq(S)
  <1>1. Len(seqs) \in Nat
    BY LenProperties
  <1>2. CASE seqs = <<>>
    <2>1. FlattenSeq(seqs) = seqs
      BY <1>2, EmptySeq DEF FlattenSeq
    <2> QED
      BY <1>2, <2>1, EmptySeq
  <1>3. CASE seqs # <<>>
    <2>1. Len(seqs) \in 1..Len(seqs)
      BY <1>1, <1>3, EmptySeq
    <2> QED
      BY <1>3, <2>1, FlattenSeqSteps
  <1> QED
    BY <1>2, <1>3

-----------------------------------------------------------------------------
(***************************************************************************)
(* What is printed is a sequence of characters, and what is read leaves a  *)
(* broken-down time in its ranges.                                         *)
(***************************************************************************)

LEMMA CharOfDomain == DOMAIN CharOf = {"-", ":", "/", "%"}
  BY DEF CharOf

LEMMA NumberDomain ==
    DOMAIN Number = {"C", "d", "e", "k", "H", "l", "I", "j", "M", "m", "S", "U", "W", "w",
                     "Y", "y"}
  BY Zenon DEF Number

LEMMA NumberLimits ==
    /\ \A d \in {"C", "y"} : Number[d] = <<0, 99>>
    /\ \A d \in {"d", "e"} : Number[d] = <<1, 31>>
    /\ \A d \in {"H", "k"} : Number[d] = <<0, 23>>
    /\ \A d \in {"I", "l", "m"} : Number[d] = <<1, 12>>
    /\ Number["j"] = <<1, 366>> /\ Number["M"] = <<0, 59>> /\ Number["S"] = <<0, 61>>
    /\ Number["w"] = <<0, 6>> /\ Number["Y"] = <<0, LastYear>>
  <1>0. \A d \in DOMAIN Number : Number[d] = Limits(d)
    BY DEF Number
  <1>1. \A d \in {"C", "y"} : Number[d] = <<0, 99>>
    BY <1>0, NumberDomain DEF Limits
  <1>2. \A d \in {"d", "e"} : Number[d] = <<1, 31>>
    BY <1>0, NumberDomain DEF Limits
  <1>3. \A d \in {"H", "k"} : Number[d] = <<0, 23>>
    BY <1>0, NumberDomain DEF Limits
  <1>4. \A d \in {"I", "l", "m"} : Number[d] = <<1, 12>>
    BY <1>0, NumberDomain DEF Limits
  <1>5. Number["j"] = <<1, 366>>
    BY <1>0, NumberDomain DEF Limits
  <1>6. Number["M"] = <<0, 59>>
    BY <1>0, NumberDomain DEF Limits
  <1>7. Number["S"] = <<0, 61>>
    BY <1>0, NumberDomain DEF Limits
  <1>8. Number["w"] = <<0, 6>>
    BY <1>0, NumberDomain DEF Limits
  <1>9. Number["Y"] = <<0, LastYear>>
    BY <1>0, NumberDomain DEF Limits
  <1> QED
    BY <1>1, <1>2, <1>3, <1>4, <1>5, <1>6, <1>7, <1>8, <1>9

LEMMA LayoutType ==
    /\ Layouts \subseteq Seq(Characters)
    /\ Known \subseteq Characters
    /\ \A d \in DOMAIN Expansion : Expansion[d] \in Seq(Characters)
  <1>1. ASSUME NEW fmt \in Layouts PROVE fmt \in Seq(Characters)
    <2>1. fmt \in Seq(STRING)
      BY TimeTextAssumption DEF TimeTextAssumption
    <2>2. Len(fmt) \in Nat /\ DOMAIN fmt = 1..Len(fmt) /\ fmt \in [1..Len(fmt) -> STRING]
      BY <2>1, LenProperties
    <2>3. \A i \in 1..Len(fmt) : fmt[i] \in Range(fmt)
      BY <2>2 DEF Range
    <2>4. \A i \in 1..Len(fmt) : fmt[i] \in Characters
      BY <2>3 DEF Characters
    <2>5. fmt \in [1..Len(fmt) -> Characters]
      BY <2>2, <2>4
    <2> QED
      BY <2>2, <2>5, FunctionIsSeq
  <1>2. Known \subseteq Characters
    BY DEF Characters
  <1>3. \A c \in {"m", "/", "d", "y", "H", ":", "M", "I", "S", "blank", "p", "x", "X"} :
           c \in Characters
    <2>1. \A c \in {"blank", "p"} : c \in Known
      BY DEF Known
    <2>2. \A c \in {"/", ":"} : c \in Known
      BY DEF Known, CharOf
    <2>3. \A c \in {"x", "X"} : c \in Known
      BY DEF Known, Expansion
    <2>4. \A c \in {"m", "d", "y", "H", "M", "I", "S"} : c \in Known
      BY NumberDomain DEF Known
    <2> QED
      BY <1>2, <2>1, <2>2, <2>3, <2>4
  <1>4. ASSUME NEW d \in DOMAIN Expansion PROVE Expansion[d] \in Seq(Characters)
    <2>1. /\ <<"m", "/", "d", "/", "y">> \in Seq(Characters)
          /\ <<"H", ":", "M">> \in Seq(Characters)
          /\ <<"I", ":", "M", ":", "S", "blank", "p">> \in Seq(Characters)
          /\ <<"H", ":", "M", ":", "S">> \in Seq(Characters)
          /\ <<"x", "blank", "X">> \in Seq(Characters)
      BY <1>3
    <2>2. d \in {"D", "x", "R", "r", "T", "X", "c"}
      BY DEF Expansion
    <2>3. \/ Expansion[d] = <<"m", "/", "d", "/", "y">>
          \/ Expansion[d] = <<"H", ":", "M">>
          \/ Expansion[d] = <<"I", ":", "M", ":", "S", "blank", "p">>
          \/ Expansion[d] = <<"H", ":", "M", ":", "S">>
          \/ Expansion[d] = <<"x", "blank", "X">>
      BY <2>2 DEF Expansion
    <2> QED
      BY <2>1, <2>3
  <1> QED
    BY <1>1, <1>2, <1>4

LEMMA ExpandedType ==
    ASSUME NEW fmt \in Seq(Characters)
    PROVE  Expanded(fmt) \in Seq(Characters)
  <1> DEFINE piece(d) == IF d \in DOMAIN Expansion THEN Expansion[d] ELSE <<d>>
             pieces == [i \in DOMAIN fmt |-> piece(fmt[i])]
  <1>1. Len(fmt) \in Nat /\ DOMAIN fmt = 1..Len(fmt) /\ fmt \in [1..Len(fmt) -> Characters]
    BY LenProperties
  <1>2. ASSUME NEW d \in Characters PROVE piece(d) \in Seq(Characters)
    <2>1. <<d>> \in Seq(Characters)
      BY <1>2
    <2> QED
      BY <2>1, LayoutType
  <1> HIDE DEF piece
  <1>3. pieces \in [1..Len(fmt) -> Seq(Characters)]
    BY <1>1, <1>2
  <1> HIDE DEF pieces
  <1>4. pieces \in Seq(Seq(Characters))
    BY <1>1, <1>3, FunctionIsSeq
  <1>5. FlattenSeq(pieces) \in Seq(Characters)
    BY <1>4, FlattenSeqType
  <1> QED
    BY <1>5 DEF Expanded, pieces, piece

LEMMA PrintedType ==
    ASSUME NEW t \in Dates, NEW d
    PROVE  Printed(d, t) \in Seq(Nat)
  <1>1. /\ t.year \in 0..LastYear /\ t.mon \in 1..12 /\ t.mday \in 1..31 /\ t.hour \in 0..23
        /\ t.min \in 0..59 /\ t.sec \in 0..61 /\ t.wday \in 0..6 /\ t.yday \in 1..366
    <2>1. t \in [year : 0..LastYear, mon : 1..12, mday : 1..31, hour : 0..23,
                 min : 0..59, sec : 0..61, wday : 0..6, yday : 1..366]
      BY TimeTextAssumption DEF TimeTextAssumption
    <2> QED
      BY <2>1
  <1>1a. t.year \in Nat
    <2>1. LastYear \in Nat
      BY DEF LastYear
    <2> QED
      BY <1>1, <2>1
  <1>2. ASSUME NEW n \in Nat PROVE n \div 10 \in Nat /\ n % 10 \in Nat
    BY <1>2
  <1>3. ASSUME NEW n \in Nat PROVE Two(n) \in Seq(Nat)
    BY <1>2, <1>3 DEF Two
  <1>4. ASSUME NEW n \in Nat PROVE n \div 100 \in Nat /\ n % 100 \in Nat
    BY <1>4
  <1>5. ASSUME NEW n \in Nat PROVE Four(n) \in Seq(Nat)
    BY <1>3, <1>4, <1>5, ConcatProperties DEF Four
  <1>6. ASSUME NEW n \in Nat PROVE <<n>> \in Seq(Nat)
    BY <1>6
  <1>7. Printed(d, t) = <<>> \/
        d \in {"Y", "C", "y", "m", "d", "e", "H", "k", "I", "l", "M", "S", "j", "U", "W", "w",
               "p", "A", "a", "B", "b", "h", "blank", "n", "t"} \cup DOMAIN CharOf
    <2> SUFFICES ASSUME ~(d \in {"Y", "C", "y", "m", "d", "e", "H", "k", "I", "l", "M", "S",
                                 "j", "U", "W", "w", "p", "A", "a", "B", "b", "h",
                                 "blank", "n", "t"} \cup DOMAIN CharOf)
                 PROVE  Printed(d, t) = <<>>
      OBVIOUS
    <2> QED
      BY DEF Printed
  <1>8. CASE d = "Y"
    <2>1. Printed(d, t) = Four(t.year)
      BY <1>8, CharOfDomain DEF Printed
    <2>2. t.year \in Nat
      BY <1>1a
    <2> QED
      BY <1>5, <2>1, <2>2
  <1>9. CASE d \in {"C", "y"}
    <2>1. \E n \in {t.year \div 100, t.year % 100} : Printed(d, t) = Two(n)
      BY <1>9, CharOfDomain DEF Printed
    <2>2. t.year \in Nat
      BY <1>1a
    <2> QED
      BY <1>3, <1>4, <2>1, <2>2
  <1>10. CASE d \in {"m", "d", "H", "k", "M", "S"}
    <2>1. \E n \in {t.mon, t.mday, t.hour, t.min, t.sec} : Printed(d, t) = Two(n)
      BY <1>10, CharOfDomain DEF Printed
    <2>2. t.mon \in Nat /\ t.mday \in Nat /\ t.hour \in Nat /\ t.min \in Nat /\ t.sec \in Nat
      BY <1>1
    <2> QED
      BY <1>3, <2>1, <2>2
  <1>11. CASE d = "e"
    <2>1. <<Blank, t.mday>> \in Seq(Nat) /\ Two(t.mday) \in Seq(Nat)
      <3>1. t.mday \in Nat /\ Blank \in Nat
        BY <1>1 DEF Blank
      <3> QED
        BY <1>3, <3>1
    <2>2. Printed(d, t) \in {<<Blank, t.mday>>, Two(t.mday)}
      BY <1>11, CharOfDomain DEF Printed
    <2> QED
      BY <2>1, <2>2
  <1>12. CASE d \in {"I", "l"}
    <2>1. (IF t.hour % 12 = 0 THEN 12 ELSE t.hour % 12) \in Nat
      BY <1>1
    <2>2. Printed(d, t) = Two(IF t.hour % 12 = 0 THEN 12 ELSE t.hour % 12)
      BY <1>12, CharOfDomain DEF Printed
    <2> QED
      BY <1>3, <2>1, <2>2
  <1>13. CASE d = "j"
    <2>1. t.yday \in Nat
      BY <1>1
    <2>2. <<t.yday \div 100>> \in Seq(Nat) /\ Two(t.yday % 100) \in Seq(Nat)
      BY <1>3, <1>4, <1>6, <2>1
    <2>3. Printed(d, t) = <<t.yday \div 100>> \o Two(t.yday % 100)
      BY <1>13, CharOfDomain DEF Printed
    <2> QED
      BY <2>2, <2>3, ConcatProperties
  <1>14. CASE d \in {"U", "W"}
    <2>1. t.yday \div 7 \in Nat
      BY <1>1
    <2>2. Printed(d, t) = Two(t.yday \div 7)
      BY <1>14, CharOfDomain DEF Printed
    <2> QED
      BY <1>3, <2>1, <2>2
  <1>15. CASE d = "p"
    <2>1. t.hour \div 12 + 1 \in {1, 2}
      BY <1>1
    <2>2. am_pm[t.hour \div 12 + 1] \in Nat
      BY <2>1 DEF am_pm
    <2>3. Printed(d, t) = <<am_pm[t.hour \div 12 + 1]>>
      BY <1>15, CharOfDomain DEF Printed
    <2> QED
      BY <1>6, <2>2, <2>3
  <1>16. CASE d \in {"w", "A", "a", "B", "b", "h"}
    <2>1. /\ t.wday \in Nat /\ day(t.wday) \in Nat /\ abday(t.wday) \in Nat
          /\ mon(t.mon) \in Nat /\ abmon(t.mon) \in Nat
      BY <1>1 DEF day, abday, mon, abmon
    <2>2. \E n \in {t.wday, day(t.wday), abday(t.wday), mon(t.mon), abmon(t.mon)} :
             Printed(d, t) = <<n>>
      BY <1>16, CharOfDomain DEF Printed
    <2> QED
      BY <1>6, <2>1, <2>2
  <1>17. CASE d \in {"blank", "n", "t"} \cup DOMAIN CharOf
    <2>1. Printed(d, t) = <<Blank>> \/ (d \in DOMAIN CharOf /\ Printed(d, t) = <<CharOf[d]>>)
      BY <1>17, CharOfDomain DEF Printed
    <2>2. Blank \in Nat /\ (d \in DOMAIN CharOf => CharOf[d] \in Nat)
      BY DEF Blank, CharOf
    <2> QED
      BY <1>6, <2>1, <2>2
  <1> QED
    <2>1. CASE Printed(d, t) = <<>>
      BY <2>1, EmptySeq
    <2> QED
      BY <1>7, <1>8, <1>9, <1>10, <1>11, <1>12, <1>13, <1>14, <1>15, <1>16, <1>17, <2>1

LEMMA TextOfType ==
    ASSUME NEW fmt \in Layouts, NEW t \in Dates
    PROVE  TextOf(fmt, t) \in Seq(Nat)
  <1>1. Flat(fmt) \in Seq(Characters)
    BY LayoutType, ExpandedType DEF Flat
  <1>2. Len(Flat(fmt)) \in Nat /\ DOMAIN Flat(fmt) = 1..Len(Flat(fmt))
    BY <1>1, LenProperties
  <1> DEFINE texts == [i \in DOMAIN Flat(fmt) |-> Printed(Flat(fmt)[i], t)]
  <1>3. texts \in [1..Len(Flat(fmt)) -> Seq(Nat)]
    BY <1>2, PrintedType
  <1> HIDE DEF texts
  <1>4. texts \in Seq(Seq(Nat))
    BY <1>2, <1>3, FunctionIsSeq
  <1>5. FlattenSeq(texts) \in Seq(Nat)
    BY <1>4, FlattenSeqType
  <1> QED
    BY <1>5 DEF TextOf, texts

-----------------------------------------------------------------------------
FrameType == [fmt : Seq(Characters), alt : SUBSET {"E", "O"}, split : BOOLEAN]
TimeType  == [sec : 0..61, min : 0..59, hour : 0..23, mday : 0..31, mon : 0..11,
              year : Int, wday : 0..6, yday : 0..365]

\* As long as strptime() reads, a call of it has not returned.
TimeTextInv == TimeTextTypeOK /\ (Reading => frames # <<>>)

LEMMA OneMore ==
    ASSUME NEW S, NEW s \in Seq(S), NEW a \in S
    PROVE  s \o <<a>> \in Seq(S) /\ s \o <<a>> # <<>>
  <1>1. <<a>> \in Seq(S) /\ Len(<<a>>) = 1
    OBVIOUS
  <1>2. s \o <<a>> \in Seq(S) /\ Len(s \o <<a>>) = Len(s) + 1 /\ Len(s) \in Nat
    BY <1>1, ConcatProperties, LenProperties
  <1> QED
    BY <1>2, EmptySeq

\* The call of strptime() that is running, and those that wait for it.
LEMMA Running ==
    ASSUME TimeTextInv, Reading
    PROVE  /\ frames \in Seq(FrameType) /\ Len(frames) \in Nat /\ Len(frames) # 0
           /\ Top \in FrameType
           /\ Front(frames) \in Seq(FrameType)
           /\ Len(frames) # 1 => Front(frames) # <<>>
           /\ Format # "" => Tail(Top.fmt) \in Seq(Characters)
  <1>1. frames \in Seq(FrameType) /\ frames # <<>>
    BY DEF TimeTextInv, TimeTextTypeOK, FrameType
  <1> DEFINE n == Len(frames)
  <1>2. n \in Nat /\ n # 0 /\ frames \in [1..n -> FrameType]
    BY <1>1, EmptySeq, LenProperties
  <1>3. Top \in FrameType
    BY <1>2 DEF Top, Last
  <1>4. Front(frames) \in Seq(FrameType) /\ Len(Front(frames)) = n - 1
    <2>1. \A i \in 1 .. n - 1 : frames[i] \in FrameType
      BY <1>2
    <2>2. /\ SubSeq(frames, 1, n - 1) \in Seq(FrameType)
          /\ Len(SubSeq(frames, 1, n - 1)) = IF 1 <= n - 1 THEN n - 1 - 1 + 1 ELSE 0
      <3> HIDE DEF n
      <3> QED
        BY <1>2, <2>1, SubSeqProperties
    <2> HIDE DEF n
    <2> QED
      BY <1>2, <2>2 DEF Front, n
  <1>5. n # 1 => Front(frames) # <<>>
    BY <1>2, <1>4, EmptySeq
  <1>6. Format # "" => Tail(Top.fmt) \in Seq(Characters)
    <2>1. Top.fmt \in Seq(Characters)
      BY <1>3 DEF FrameType
    <2>2. Format # "" => Top.fmt # <<>>
      BY DEF Format
    <2> QED
      BY <2>1, <2>2, HeadTailProperties
  <1> QED
    BY <1>1, <1>2, <1>3, <1>4, <1>5, <1>6

LEMMA OnwardsInv ==
    ASSUME TimeTextInv, Reading, Format # "", NEW split \in BOOLEAN, Onwards(split)
    PROVE  frames' \in Seq(FrameType) /\ frames' # <<>>
  <1> DEFINE next == [fmt |-> Tail(Top.fmt), alt |-> {}, split |-> split]
  <1>1. next \in FrameType
    BY Running DEF FrameType
  <1> HIDE DEF next
  <1>2. frames' = Front(frames) \o <<next>>
    BY DEF Onwards, next
  <1>3. Front(frames) \in Seq(FrameType)
    BY Running
  <1> QED
    BY <1>1, <1>2, <1>3, OneMore

\* What is left of a text.
LEMMA RestType ==
    ASSUME NEW S, NEW s \in Seq(S), NEW k \in 0..Len(s)
    PROVE  SubSeq(s, k + 1, Len(s)) \in Seq(S)
  <1>1. Len(s) \in Nat /\ s \in [1..Len(s) -> S]
    BY LenProperties
  <1>2. \A i \in (k + 1) .. Len(s) : s[i] \in S
    BY <1>1
  <1>3. k + 1 \in Int /\ Len(s) \in Int
    BY <1>1
  <1> QED
    BY <1>2, <1>3, SubSeqProperties

\* conv_num() reads no more digits than there are characters.
LEMMA DigitsReadType ==
    ASSUME NEW chars \in Seq(Nat), chars # <<>>, NEW ulim
    PROVE  DigitsRead(chars, ulim) \in 1..Len(chars)
  <1> DEFINE n == Len(chars)
             most == Min({n, 4})
             S == {k \in 1..most : k = 4 \/ ~More(chars, k, ulim)}
  <1>1. n \in Nat /\ n >= 1
    BY EmptySeq, LenProperties
  <1>2. most \in {n, 4} /\ most <= n /\ most <= 4
    <2>1. {n, 4} \in SUBSET Nat /\ {n, 4} # {}
      BY <1>1
    <2> HIDE DEF n
    <2> QED
      BY <1>1, <2>1, LeastOf
  <1>3. S \in SUBSET Nat /\ S \subseteq 1..n
    <2> HIDE DEF most
    <2> QED
      BY <1>1, <1>2
  <1>4. most \in S
    <2>1. most \in 1..most
      <3> HIDE DEF most
      <3> QED
        BY <1>1, <1>2
    <2>2. most = 4 \/ ~More(chars, most, ulim)
      <3>1. CASE most = 4
        BY <3>1
      <3>2. CASE most = n
        <4>1. ~(most < Len(chars))
          BY <1>1, <3>2
        <4> QED
          BY <4>1 DEF More
      <3> QED
        BY <1>2, <3>1, <3>2
    <2> HIDE DEF most
    <2> QED
      BY <2>1, <2>2
  <1>5. DigitsRead(chars, ulim) = Min(S)
    BY DEF DigitsRead
  <1> HIDE DEF S
  <1> QED
    BY <1>3, <1>4, <1>5, LeastOf

\* A number within the limits of its conversion is within the range of its field.
LEMMA StoredType ==
    ASSUME NEW d \in DOMAIN Number, NEW v \in Number[d][1] .. Number[d][2],
           NEW split \in BOOLEAN, tm \in TimeType
    PROVE  Stored(d, v, split) \in TimeType
  <1>1. CASE d \in {"C", "Y", "y"}
    <2>1. v \in Int
      <3>1. Number["C"] = <<0, 99>> /\ Number["y"] = <<0, 99>> /\ Number["Y"] = <<0, LastYear>>
        BY NumberLimits
      <3> QED
        BY <1>1, <3>1
    <2>2. tm.year \in Int /\ TM_YEAR_BASE \in Int
      BY DEF TimeType, TM_YEAR_BASE
    <2>3. PICK y \in Int, z \in Int, c \in Int :
             /\ y = (tm.year % 100) + v * 100 /\ z = (tm.year \div 100) * 100 + v
             /\ c = v * 100
      BY <2>1, <2>2
    <2>4. \E w \in {y, z, c, v - TM_YEAR_BASE, v + 2000 - TM_YEAR_BASE,
                    v + 1900 - TM_YEAR_BASE} :
             Stored(d, v, split) = [tm EXCEPT !.year = w]
      <3>1. CASE d = "C"
        BY <2>3, <3>1 DEF Stored
      <3>2. CASE d = "Y"
        BY <3>2 DEF Stored
      <3>3. CASE d = "y"
        <4> DEFINE w == IF split THEN (tm.year \div 100) * 100 + v
                        ELSE (IF v <= 68 THEN v + 2000 ELSE v + 1900) - TM_YEAR_BASE
        <4>1. Stored(d, v, split) = [tm EXCEPT !.year = w]
          BY <3>3 DEF Stored
        <4>2. w \in {z, v + 2000 - TM_YEAR_BASE, v + 1900 - TM_YEAR_BASE}
          <5> DEFINE full == IF v <= 68 THEN v + 2000 ELSE v + 1900
          <5>1. full \in {v + 2000, v + 1900}
            OBVIOUS
          <5> HIDE DEF full
          <5>2. PICK b : b = full - TM_YEAR_BASE
            OBVIOUS
          <5>3. b \in {v + 2000 - TM_YEAR_BASE, v + 1900 - TM_YEAR_BASE}
            BY <2>1, <2>2, <5>1, <5>2
          <5>4. w = IF split THEN z ELSE b
            BY <2>3, <5>2 DEF full
          <5> HIDE DEF w
          <5>5. w = z \/ w = b
            BY <5>4, Zenon
          <5> QED
            BY <5>3, <5>5
        <4> HIDE DEF w
        <4> QED
          BY <4>1, <4>2
      <3> QED
        BY <1>1, <3>1, <3>2, <3>3
    <2>5. ASSUME NEW w \in Int PROVE [tm EXCEPT !.year = w] \in TimeType
      BY DEF TimeType
    <2> QED
      BY <2>1, <2>2, <2>4, <2>5
  <1>2. CASE d \in {"d", "e"}
    <2>1. Number["d"] = <<1, 31>> /\ Number["e"] = <<1, 31>>
      BY NumberLimits
    <2>2. v \in 0..31 /\ Stored(d, v, split) = [tm EXCEPT !.mday = v]
      BY <1>2, <2>1 DEF Stored
    <2> QED
      BY <2>2 DEF TimeType
  <1>3. CASE d \in {"H", "k"}
    <2>1. Number["H"] = <<0, 23>> /\ Number["k"] = <<0, 23>>
      BY NumberLimits
    <2>2. v \in 0..23 /\ Stored(d, v, split) = [tm EXCEPT !.hour = v]
      BY <1>3, <2>1 DEF Stored
    <2> QED
      BY <2>2 DEF TimeType
  <1>4. CASE d \in {"I", "l"}
    <2>1. Number["I"] = <<1, 12>> /\ Number["l"] = <<1, 12>>
      BY NumberLimits
    <2>2. (IF v = 12 THEN 0 ELSE v) \in 0..23
      BY <1>4, <2>1
    <2>3. Stored(d, v, split) = [tm EXCEPT !.hour = IF v = 12 THEN 0 ELSE v]
      BY <1>4 DEF Stored
    <2> QED
      BY <2>2, <2>3 DEF TimeType
  <1>5. CASE d = "j"
    <2>1. Number["j"] = <<1, 366>>
      BY NumberLimits
    <2>2. v - 1 \in 0..365 /\ Stored(d, v, split) = [tm EXCEPT !.yday = v - 1]
      BY <1>5, <2>1 DEF Stored
    <2> QED
      BY <2>2 DEF TimeType
  <1>6. CASE d = "M"
    <2>1. Number["M"] = <<0, 59>>
      BY NumberLimits
    <2>2. v \in 0..59 /\ Stored(d, v, split) = [tm EXCEPT !.min = v]
      BY <1>6, <2>1 DEF Stored
    <2> QED
      BY <2>2 DEF TimeType
  <1>7. CASE d = "m"
    <2>1. Number["m"] = <<1, 12>>
      BY NumberLimits
    <2>2. v - 1 \in 0..11 /\ Stored(d, v, split) = [tm EXCEPT !.mon = v - 1]
      BY <1>7, <2>1 DEF Stored
    <2> QED
      BY <2>2 DEF TimeType
  <1>8. CASE d = "S"
    <2>1. Number["S"] = <<0, 61>>
      BY NumberLimits
    <2>2. v \in 0..61 /\ Stored(d, v, split) = [tm EXCEPT !.sec = v]
      BY <1>8, <2>1 DEF Stored
    <2> QED
      BY <2>2 DEF TimeType
  <1>9. CASE d \in {"U", "W"}
    BY <1>9 DEF Stored
  <1>10. CASE d = "w"
    <2>1. Number["w"] = <<0, 6>>
      BY NumberLimits
    <2>2. v \in 0..6 /\ Stored(d, v, split) = [tm EXCEPT !.wday = v]
      BY <1>10, <2>1 DEF Stored
    <2> QED
      BY <2>2 DEF TimeType
  <1>11. d \in {"C", "d", "e", "k", "H", "l", "I", "j", "M", "m", "S", "U", "W", "w", "Y", "y"}
    BY NumberDomain
  <1> QED
    BY <1>1, <1>2, <1>3, <1>4, <1>5, <1>6, <1>7, <1>8, <1>9, <1>10, <1>11

LEMMA TimeWith ==
    ASSUME NEW t \in TimeType
    PROVE  /\ \A i \in 0..11 : [t EXCEPT !.mon = i] \in TimeType
           /\ \A i \in 0..6 : [t EXCEPT !.wday = i] \in TimeType
           /\ \A h \in 0..23 : [t EXCEPT !.hour = h] \in TimeType
  <1>1. ASSUME NEW i \in 0..11 PROVE [t EXCEPT !.mon = i] \in TimeType
    BY DEF TimeType
  <1>2. ASSUME NEW i \in 0..6 PROVE [t EXCEPT !.wday = i] \in TimeType
    BY DEF TimeType
  <1>3. ASSUME NEW h \in 0..23 PROVE [t EXCEPT !.hour = h] \in TimeType
    BY DEF TimeType
  <1> QED
    BY <1>1, <1>2, <1>3

LEMMA TimeTextInitInv ==
    ASSUME TimeTextInit
    PROVE  TimeTextInv
  <1>1. frames = <<>> /\ bp = <<>> /\ result = "none" /\ layout = <<>> /\ damage = 0
    BY DEF TimeTextInit
  <1>2. frames \in Seq(FrameType) /\ bp \in Seq(Nat)
    BY <1>1, EmptySeq
  <1>3. tm \in TimeType
    BY DEF TimeTextInit, NoTime, TimeType
  <1>4. date \in Dates
    BY TimeTextAssumption DEF TimeTextInit, TimeTextAssumption
  <1> QED
    BY <1>1, <1>2, <1>3, <1>4 DEF TimeTextInv, TimeTextTypeOK, FrameType, TimeType, Reading

LEMMA TimeTextNextInv ==
    ASSUME TimeTextInv, [TimeTextNext]_timeTextVars
    PROVE  TimeTextInv'
  <1>0. /\ frames \in Seq(FrameType) /\ bp \in Seq(Nat) /\ tm \in TimeType
        /\ result \in {"none", "reading", "end of text", "nullptr"} /\ date \in Dates
        /\ layout \in Layouts \cup {<<>>} /\ damage \in Nat
        /\ result = "reading" => frames # <<>>
    BY DEF TimeTextInv, TimeTextTypeOK, FrameType, TimeType, Reading
  <1>a. ASSUME frames' \in Seq(FrameType), bp' \in Seq(Nat), tm' \in TimeType,
               result' \in {"none", "reading", "end of text", "nullptr"}, date' \in Dates,
               layout' \in Layouts \cup {<<>>}, damage' \in Nat,
               result' = "reading" => frames' # <<>>
        PROVE  TimeTextInv'
    BY <1>a DEF TimeTextInv, TimeTextTypeOK, FrameType, TimeType, Reading
  <1>1. CASE UNCHANGED timeTextVars
    BY <1>0, <1>1, <1>a DEF timeTextVars
  <1>f. CASE Fails
    BY <1>0, <1>f, <1>a DEF Fails
  <1>2. ASSUME NEW t \in Dates, NEW fmt \in Layouts, ParseBegin(t, fmt)
        PROVE  TimeTextInv'
    <2>1. TextOf(fmt, t) \in Seq(Nat)
      BY TextOfType
    <2>2. PICK whole \in Seq(Nat) : whole = TextOf(fmt, t)
      BY <2>1
    <2>3. Len(whole) \in Nat /\ whole \in [1..Len(whole) -> Nat]
      BY LenProperties
    <2>4. bp' \in Seq(Nat) /\ damage' \in Nat
      <3>1. CASE bp' = whole /\ damage' = 0
        BY <3>1
      <3>2. ASSUME NEW i \in 1..Len(whole),
                   bp' \in {[whole EXCEPT ![i] = Letter], SubSeq(whole, 1, i - 1)},
                   damage' = Len(whole) - i + 1
            PROVE  bp' \in Seq(Nat) /\ damage' \in Nat
        <4>1. [whole EXCEPT ![i] = Letter] \in Seq(Nat)
          BY ExceptSeq DEF Letter
        <4>2. SubSeq(whole, 1, i - 1) \in Seq(Nat)
          <5>1. \A k \in 1 .. i - 1 : whole[k] \in Nat
            BY <2>3
          <5>2. 1 \in Int /\ i - 1 \in Int
            BY <2>3
          <5> QED
            BY <5>1, <5>2, SubSeqProperties
        <4>3. damage' \in Nat
          BY <2>3, <3>2
        <4> QED
          BY <3>2, <4>1, <4>2, <4>3
      <3> QED
        BY <1>2, <2>2, <3>1, <3>2 DEF ParseBegin
    <2>5. frames' \in Seq(FrameType) /\ frames' # <<>>
      <3>1. Frame(fmt) \in FrameType
        BY LayoutType DEF Frame, FrameType
      <3>2. frames' = <<Frame(fmt)>>
        BY <1>2 DEF ParseBegin
      <3>3. <<Frame(fmt)>> \in Seq(FrameType) /\ Len(<<Frame(fmt)>>) = 1
        BY <3>1
      <3> QED
        BY <3>2, <3>3, EmptySeq
    <2> QED
      BY <1>0, <1>2, <1>a, <2>4, <2>5 DEF ParseBegin
  <1>3. ASSUME Reading, NEW split \in BOOLEAN, Onwards(split), Format # "",
               bp' \in Seq(Nat), tm' \in TimeType, UNCHANGED <<result, date, layout, damage>>
        PROVE  TimeTextInv'
    <2>1. frames' \in Seq(FrameType) /\ frames' # <<>>
      BY <1>3, OnwardsInv
    <2> QED
      BY <1>0, <1>3, <1>a, <2>1
  <1>4. Reading => Top.split \in BOOLEAN /\ Top.alt \in SUBSET {"E", "O"}
    BY Running DEF FrameType
  <1>5. bp # <<>> => Tail(bp) \in Seq(Nat)
    BY <1>0, HeadTailProperties
  <1>6. CASE ReadBlanks
    <2> DEFINE blanks == {k \in 0..Len(bp) : \A i \in 1..k : bp[i] = Blank}
    <2>1. Len(bp) \in Nat
      BY <1>0, LenProperties
    <2>2. 0 \in blanks
      BY <2>1
    <2>3. blanks \in SUBSET (0..Len(bp))
      OBVIOUS
    <2>4. Max(blanks) \in 0..Len(bp)
      <3> HIDE DEF blanks
      <3> QED
        BY <2>1, <2>2, <2>3, GreatestOf
    <2>5. bp' = SubSeq(bp, Max(blanks) + 1, Len(bp))
      BY <1>6 DEF ReadBlanks
    <2> HIDE DEF blanks
    <2>6. bp' \in Seq(Nat)
      BY <1>0, <2>4, <2>5, RestType
    <2> QED
      BY <1>0, <1>3, <1>4, <1>6, <2>6 DEF ReadBlanks
  <1>7. CASE ReadLiteral
    <2>1. Format # ""
      BY <1>7, CharOfDomain DEF ReadLiteral
    <2> QED
      BY <1>0, <1>3, <1>4, <1>5, <1>7, <1>f, <2>1 DEF ReadLiteral
  <1>8. CASE ReadModifier
    <2>1. CASE Fails
      BY <1>f, <2>1
    <2>2. CASE Top.alt = {}
      <3> DEFINE next == [fmt |-> Tail(Top.fmt), alt |-> {Format}, split |-> Top.split]
      <3>1. Reading /\ Format \in {"E", "O"} /\ frames' = Front(frames) \o <<next>>
            /\ UNCHANGED <<bp, tm, result, date, layout, damage>>
        BY <1>8, <2>2 DEF ReadModifier
      <3>2. next \in FrameType
        BY <1>4, <3>1, Running DEF FrameType
      <3> HIDE DEF next
      <3>3. frames' \in Seq(FrameType) /\ frames' # <<>>
        BY <3>1, <3>2, Running, OneMore
      <3> QED
        BY <1>0, <1>a, <3>1, <3>3
    <2> QED
      BY <1>8, <2>1, <2>2 DEF ReadModifier
  <1>9. CASE ReadExpansion
    <2> DEFINE next == [fmt |-> Tail(Top.fmt), alt |-> {}, split |-> Top.split]
               called == Frame(Expansion[Format])
    <2>1. Reading /\ Format \in DOMAIN Expansion /\ frames' = Front(frames) \o <<next, called>>
          /\ UNCHANGED <<bp, tm, result, date, layout, damage>>
      BY <1>9 DEF ReadExpansion
    <2>2. Format # ""
      BY <2>1 DEF Expansion
    <2>3. next \in FrameType
      BY <1>4, <2>1, <2>2, Running DEF FrameType
    <2>4. called \in FrameType
      BY <2>1, LayoutType DEF Frame, FrameType
    <2> HIDE DEF next, called
    <2>5. frames' \in Seq(FrameType) /\ frames' # <<>>
      <3>1. Front(frames) \in Seq(FrameType)
        BY <2>1, Running
      <3>2. <<next, called>> \in Seq(FrameType) /\ Len(<<next, called>>) = 2
        BY <2>3, <2>4
      <3>3. frames' \in Seq(FrameType) /\ Len(frames') = Len(Front(frames)) + 2
        BY <2>1, <3>1, <3>2, ConcatProperties
      <3> QED
        BY <3>1, <3>3, EmptySeq, LenProperties
    <2> QED
      BY <1>0, <1>a, <2>1, <2>5
  <1>10. CASE ReadName
    <2>1. CASE Fails
      BY <1>f, <2>1
    <2>2. ASSUME bp # <<>>, bp' = Tail(bp), Onwards(Top.split), NEW i \in 0..11,
                 tm' = [tm EXCEPT !.mon = i] \/ (i \in 0..6 /\ tm' = [tm EXCEPT !.wday = i]),
                 UNCHANGED <<result, date, layout, damage>>
          PROVE  TimeTextInv'
      <3>1. tm' \in TimeType
        BY <1>0, <2>2, TimeWith
      <3>2. Reading /\ Format # ""
        BY <1>10 DEF ReadName
      <3> QED
        BY <1>3, <1>4, <1>5, <2>2, <3>1, <3>2
    <2>3. CASE Format \in {"A", "a"} /\ ~Fails
      <3>1. PICK i \in {k \in 0..6 : bp # <<>> /\ Head(bp) \in {day(k), abday(k)}} :
               /\ tm' = [tm EXCEPT !.wday = i] /\ bp' = Tail(bp) /\ Onwards(Top.split)
               /\ UNCHANGED <<result, date, layout, damage>>
        BY <1>10, <2>3 DEF ReadName
      <3>2. i \in 0..6 /\ i \in 0..11
        OBVIOUS
      <3> QED
        BY <2>2, <3>1, <3>2
    <2>4. CASE Format \notin {"A", "a"} /\ ~Fails
      <3>1. PICK i \in {k \in 0..11 : bp # <<>> /\ Head(bp) \in {mon(k + 1), abmon(k + 1)}} :
               /\ tm' = [tm EXCEPT !.mon = i] /\ bp' = Tail(bp) /\ Onwards(Top.split)
               /\ UNCHANGED <<result, date, layout, damage>>
        BY <1>10, <2>4 DEF ReadName
      <3> QED
        BY <2>2, <3>1
    <2> QED
      BY <2>1, <2>3, <2>4
  <1>11. CASE ReadHalf
    <2>1. CASE Fails
      BY <1>f, <2>1
    <2>2. CASE ~Fails
      <3>1. /\ Reading /\ Format # "" /\ tm.hour <= 11 /\ bp' = <<>> /\ Onwards(Top.split)
            /\ tm' = [tm EXCEPT !.hour = IF bp = <<am_pm[2]>> THEN @ + 12 ELSE @]
            /\ UNCHANGED <<result, date, layout, damage>>
        BY <1>11, <2>2 DEF ReadHalf
      <3>2. PICK h \in 0..23 : tm' = [tm EXCEPT !.hour = h]
        <4>1. tm.hour \in 0..23
          BY <1>0 DEF TimeType
        <4>2. PICK h \in 0..23 : h = tm.hour
          BY <4>1
        <4>3. h + 12 \in 0..23
          <5>1. h <= 11
            BY <3>1, <4>2
          <5> QED
            BY <5>1
        <4>4. tm' = [tm EXCEPT !.hour = h] \/ tm' = [tm EXCEPT !.hour = h + 12]
          BY <3>1, <4>2
        <4> QED
          BY <4>3, <4>4
      <3>3. tm' \in TimeType
        BY <1>0, <3>2, TimeWith
      <3>4. bp' \in Seq(Nat)
        BY <3>1, EmptySeq
      <3> QED
        BY <1>3, <1>4, <3>1, <3>3, <3>4
    <2> QED
      BY <2>1, <2>2
  <1>12. CASE ReadNumber
    <2>1. CASE Fails
      BY <1>f, <2>1
    <2>2. CASE ~Fails
      <3> DEFINE k == DigitsRead(bp, Number[Format][2])
                 v == Value(SubSeq(bp, 1, k))
      <3>1. /\ Reading /\ Format \in DOMAIN Number /\ bp # <<>>
            /\ v \in Number[Format][1] .. Number[Format][2]
            /\ tm' = Stored(Format, v, Top.split) /\ bp' = SubSeq(bp, k + 1, Len(bp))
            /\ Onwards(Top.split \/ Format \in {"C", "y"})
            /\ UNCHANGED <<result, date, layout, damage>>
        BY <1>12, <2>2 DEF ReadNumber
      <3>2. k \in 0..Len(bp)
        <4>1. k \in 1..Len(bp) /\ Len(bp) \in Nat
          BY <1>0, <3>1, DigitsReadType, LenProperties
        <4> HIDE DEF k
        <4> QED
          BY <4>1
      <3>3. Format # ""
        BY <3>1, NumberDomain
      <3> HIDE DEF k, v
      <3>4. bp' \in Seq(Nat)
        BY <1>0, <3>1, <3>2, RestType
      <3>5. tm' \in TimeType
        BY <1>0, <1>4, <3>1, StoredType
      <3>6. (Top.split \/ Format \in {"C", "y"}) \in BOOLEAN
        OBVIOUS
      <3> QED
        BY <1>3, <3>1, <3>3, <3>4, <3>5, <3>6
    <2> QED
      BY <2>1, <2>2
  <1>13. CASE ReadUnknown
    BY <1>13, <1>f DEF ReadUnknown
  <1>14. CASE ParseEnd
    <2>1. Reading /\ frames' = Front(frames)
      BY <1>14 DEF ParseEnd
    <2>2. frames' \in Seq(FrameType) /\ (Len(frames) # 1 => frames' # <<>>)
      BY <2>1, Running
    <2>3. result' = IF Len(frames) = 1 THEN "end of text" ELSE result
      BY <1>14 DEF ParseEnd
    <2> QED
      BY <1>0, <1>14, <1>a, <2>2, <2>3 DEF ParseEnd
  <1> QED
    BY <1>1, <1>2, <1>6, <1>7, <1>8, <1>9, <1>10, <1>11, <1>12, <1>13, <1>14 DEF TimeTextNext

\* The strptime() for Windows stores nothing that is not in the range of its
\* field, whatever the text and the format: an hour after PM, and a month or a
\* day of the year that it counts from zero, too.
THEOREM SpecTimeTextTypeOK == TimeTextSpec => []TimeTextTypeOK
  <1>1. TimeTextInit => TimeTextInv
    BY TimeTextInitInv
  <1>2. TimeTextInv /\ [TimeTextNext]_timeTextVars => TimeTextInv'
    BY TimeTextNextInv
  <1>3. TimeTextInv => TimeTextTypeOK
    BY DEF TimeTextInv
  <1> QED
    BY <1>1, <1>2, <1>3, PTL DEF TimeTextSpec

-----------------------------------------------------------------------------
(***************************************************************************)
(* Reading back.  ParseInverts does not hold of every format: %C and %y, or*)
(* %H and %I, store the same field, each in its own way, and a text that   *)
(* ends with %Y or %j can lose more than one digit and still be read.  The *)
(* formats here print each field with one conversion, as a number, with    *)
(* signs and white space in between, and end otherwise.  ParseInverts holds*)
(* of them, whatever their length; those of util.cpp are among them.       *)
(***************************************************************************)
Fields    == {"Y", "m", "d", "H", "M", "S", "j", "w"}
Blanks    == {"blank", "n", "t"}
Literals  == {"-", ":", "/", "%"}
Plain     == Fields \cup Blanks \cup Literals
Shorthand == {"R", "T", "X"}

PlainLayouts ==
    {fmt \in Seq(Plain \cup Shorthand) :
        fmt # <<>> /\ fmt[Len(fmt)] \notin {"Y", "j"} \cup Blanks}

\* off[i] is where the i-th of seqs ends in the sequence of all of them.
Laid(off, seqs) ==
    /\ off \in [0..Len(seqs) -> Nat]
    /\ off[0] = 0 /\ off[Len(seqs)] = Len(FlattenSeq(seqs))
    /\ \A i \in 1..Len(seqs) :
          /\ off[i] = off[i - 1] + Len(seqs[i])
          /\ \A j \in 1..Len(seqs[i]) : FlattenSeq(seqs)[off[i - 1] + j] = seqs[i][j]

EndsOf(seqs) == CHOOSE off : Laid(off, seqs)

\* What Expanded and TextOf put together.
PieceOf(d)     == IF d \in DOMAIN Expansion THEN Expansion[d] ELSE <<d>>
Pieces(fmt)    == [i \in DOMAIN fmt |-> PieceOf(fmt[i])]
TextPieces(fmt, t)  == [i \in DOMAIN fmt |-> Printed(fmt[i], t)]

\* f is what is left of s after its first q.
Suffix(f, s, q) ==
    q \in 0..Len(s) /\ Len(f) = Len(s) - q /\ \A i \in 1..Len(f) : f[i] = s[q + i]

\* The calls fs have read the first p conversions of the expanded format.
ReadUpTo(fs, fmt, p) ==
    LET ends == EndsOf(Pieces(fmt)) IN
    \/ \E q \in 0..Len(fmt) :
          /\ Len(fs) = 1 /\ fs[1].alt = {}
          /\ Suffix(fs[1].fmt, fmt, q)
          /\ p = ends[q]
    \/ \E q \in 1..Len(fmt), r \in 0..5 :
          /\ Len(fs) = 2 /\ fs[1].alt = {} /\ fs[2].alt = {}
          /\ fmt[q] \in Shorthand
          /\ Suffix(fs[1].fmt, fmt, q)
          /\ Suffix(fs[2].fmt, Expansion[fmt[q]], r)
          /\ p = ends[q - 1] + r

\* The field that d stores is that of the date.
AsPrinted(d) ==
    /\ d = "Y" => tm.year = date.year - TM_YEAR_BASE
    /\ d = "m" => tm.mon = date.mon - 1
    /\ d = "d" => tm.mday = date.mday
    /\ d = "H" => tm.hour = date.hour
    /\ d = "M" => tm.min = date.min
    /\ d = "S" => tm.sec = date.sec
    /\ d = "j" => tm.yday = date.yday - 1
    /\ d = "w" => tm.wday = date.wday

\* Where the damage is.
Cut(text) == Len(text) + 1 - damage

\* What follows the first o characters of text is in rest, up to the character
\* before the cut-th, at which the text ends or is damaged.
Follows(rest, o, text, cut) ==
    /\ Len(rest) >= cut - 1 - o
    /\ \A k \in 1 .. cut - 1 - o : rest[k] = text[o + k]
    /\ Len(rest) = cut - 1 - o \/ rest[cut - o] = Letter

\* The first p conversions of fmt, whose texts end at ends, have been read right.
\* The blanks that follow may have been skipped.
Sound(fmt, text, ends, p) ==
    /\ \E o \in ends[p] .. Cut(text) - 1 :
          /\ Follows(bp, o, text, Cut(text))
          /\ damage = 0 => Len(bp) = Len(text) - o
          /\ \A j \in ends[p] + 1 .. o : text[j] = Blank
    /\ \A k \in 1..p : AsPrinted(fmt[k])

\* The damage has been read: nothing but blanks can be read any more.
Stuck(fmt, text, ends, p) ==
    /\ damage # 0
    /\ bp = <<>> \/ bp[1] = Letter
    /\ ends[p] >= Cut(text)
    /\ p = Len(fmt) =>
          damage = 1 /\ \A k \in 1..Len(fmt) : fmt[k] # fmt[Len(fmt)] => AsPrinted(fmt[k])

ReadRight(p) ==
    LET fmt  == Expanded(layout)
        text == TextOf(layout, date)
        ends == EndsOf(TextPieces(fmt, date)) IN
    Sound(fmt, text, ends, p) \/ Stuck(fmt, text, ends, p)

ParseInv ==
    layout \in PlainLayouts =>
      /\ Reading =>
            \E p \in 0..Len(Expanded(layout)) : ReadUpTo(frames, layout, p) /\ ReadRight(p)
      /\ result = "nullptr" => damage # 0
      /\ result = "end of text" =>
            LET fmt == Expanded(layout) IN
            /\ damage = 0 => bp = <<>> /\ \A k \in 1..Len(fmt) : AsPrinted(fmt[k])
            /\ damage # 0 =>
                  /\ damage = 1
                  /\ \A k \in 1..Len(fmt) : fmt[k] # fmt[Len(fmt)] => AsPrinted(fmt[k])

-----------------------------------------------------------------------------
(***************************************************************************)
(* Where the pieces of a sequence are.                                     *)
(***************************************************************************)

LEMMA TwoParts ==
    ASSUME NEW S, NEW a \in Seq(S), NEW b \in Seq(S)
    PROVE  /\ Len(a) \in Nat /\ Len(b) \in Nat /\ Len(a \o b) = Len(a) + Len(b)
           /\ \A x \in 1..Len(a) : (a \o b)[x] = a[x]
           /\ \A x \in 1..Len(b) : (a \o b)[Len(a) + x] = b[x]
  <1>1. Len(a) \in Nat /\ Len(b) \in Nat
    BY LenProperties
  <1>2. /\ Len(a \o b) = Len(a) + Len(b)
        /\ \A x \in 1 .. Len(a) + Len(b) :
              (a \o b)[x] = IF x <= Len(a) THEN a[x] ELSE b[x - Len(a)]
    BY ConcatProperties
  <1>3. PICK m \in Nat, n \in Nat : m = Len(a) /\ n = Len(b)
    BY <1>1
  <1>4. ASSUME NEW x \in 1..m PROVE (a \o b)[x] = a[x]
    <2>1. x \in 1 .. m + n /\ x <= m
      OBVIOUS
    <2> QED
      BY <1>2, <1>3, <2>1
  <1>5. ASSUME NEW x \in 1..n PROVE (a \o b)[m + x] = b[x]
    <2>1. m + x \in 1 .. m + n /\ ~(m + x <= m) /\ m + x - m = x
      OBVIOUS
    <2> QED
      BY <1>2, <1>3, <2>1
  <1> QED
    BY <1>1, <1>2, <1>3, <1>4, <1>5

LEMMA FlattenSeqLaid ==
    ASSUME NEW S, NEW seqs \in Seq(Seq(S))
    PROVE  Laid(EndsOf(seqs), seqs)
  <1>0. PICK n \in Nat : n = Len(seqs)
    BY LenProperties
  <1> SUFFICES \E off : Laid(off, seqs)
    BY DEF EndsOf
  <1>1. n \in Nat /\ \A i \in 1..n : seqs[i] \in Seq(S) /\ Len(seqs[i]) \in Nat
    BY <1>0, LenProperties
  <1>2. CASE seqs = <<>>
    <2>1. FlattenSeq(seqs) = seqs /\ n = 0
      BY <1>0, <1>2, EmptySeq DEF FlattenSeq
    <2> DEFINE off == [i \in 0..0 |-> 0]
    <2>2. off \in [0..n -> Nat] /\ off[0] = 0
      BY <2>1
    <2> HIDE DEF off
    <2>3. Laid(off, seqs)
      BY <1>0, <2>1, <2>2 DEF Laid
    <2> QED
      BY <2>3
  <1>3. CASE seqs # <<>>
    <2>1. PICK flat :
             /\ \A i \in 1..n :
                   /\ flat[i] \in Seq(S)
                   /\ flat[i] = IF i = 1 THEN seqs[i] ELSE flat[i-1] \o seqs[i]
             /\ FlattenSeq(seqs) = flat[n]
      BY <1>0, <1>3, FlattenSeqSteps
    <2>2. n # 0
      BY <1>0, <1>3, EmptySeq
    <2>3. \A i \in 1..n : Len(flat[i]) \in Nat
      BY <2>1, LenProperties
    <2>4. PICK off \in [0..n -> Nat] : off[0] = 0 /\ \A i \in 1..n : off[i] = Len(flat[i])
      <3> DEFINE f == [i \in 0..n |-> IF i = 0 THEN 0 ELSE Len(flat[i])]
      <3>1. f \in [0..n -> Nat] /\ f[0] = 0 /\ \A i \in 1..n : f[i] = Len(flat[i])
        BY <1>1, <2>3
      <3> HIDE DEF f
      <3> QED
        BY <3>1
    <2>4a. off[n] = Len(FlattenSeq(seqs)) /\ \A i \in 0..n : off[i] \in Nat
      BY <1>1, <2>1, <2>2, <2>4
    \* The i-th sequence is where it should be in the first k.
    <2> DEFINE In(k, i) == \A j \in 1..Len(seqs[i]) : flat[k][off[i - 1] + j] = seqs[i][j]
               Good == {k \in Nat : \A i \in 1..k : /\ off[i] = off[i - 1] + Len(seqs[i])
                                                   /\ off[i] <= off[k] /\ In(k, i)}
    <2>5. ASSUME NEW k \in 1..n, k = 1 \/ (k - 1) \in Good PROVE k \in Good
      <3>1. CASE k = 1
        <4>1. flat[1] = seqs[1] /\ off[1] = Len(seqs[1]) /\ off[0] = 0 /\ Len(seqs[1]) \in Nat
          BY <1>1, <2>1, <2>4, <3>1
        <4>2. In(1, 1)
          BY <4>1
        <4>3. off[1] = off[1 - 1] + Len(seqs[1])
          BY <4>1
        <4> HIDE DEF In
        <4> QED
          BY <3>1, <4>1, <4>2, <4>3
      <3>2. CASE k # 1
        <4>1. k - 1 \in 1..n /\ k \in Nat
          BY <1>1, <3>2
        <4>2. PICK a \in Seq(S), b \in Seq(S), m \in Nat, w \in Nat :
                 /\ a = flat[k - 1] /\ b = seqs[k] /\ m = Len(a) /\ w = Len(b)
          BY <1>1, <2>1, <2>3, <4>1
        <4>3. /\ flat[k] = a \o b /\ off[k - 1] = m /\ off[k] = m + w
              /\ \A x \in 1..m : flat[k][x] = a[x]
              /\ \A x \in 1..w : flat[k][m + x] = b[x]
          <5>1. flat[k] = a \o b
            BY <2>1, <3>2, <4>2
          <5>2. off[k - 1] = m /\ off[k] = Len(flat[k])
            BY <2>4, <4>1, <4>2
          <5>3. /\ Len(a \o b) = Len(a) + Len(b)
                /\ \A x \in 1..Len(a) : (a \o b)[x] = a[x]
                /\ \A x \in 1..Len(b) : (a \o b)[Len(a) + x] = b[x]
            BY TwoParts
          <5>4. off[k] = m + w
            BY <4>2, <5>1, <5>2, <5>3
          <5> QED
            BY <4>2, <5>1, <5>2, <5>3, <5>4, Zenon
        <4>4. In(k, k)
          BY <4>2, <4>3
        <4>5. ASSUME NEW i \in 1..(k-1)
              PROVE  off[i] = off[i - 1] + Len(seqs[i]) /\ off[i] <= off[k] /\ In(k, i)
          <5>1. off[i] = off[i - 1] + Len(seqs[i]) /\ off[i] <= off[k-1] /\ In(k-1, i)
            BY <2>5, <3>2, <4>5
          <5>2. PICK u \in Nat, v \in Nat : u = off[i - 1] /\ v = Len(seqs[i])
            <6>1. i \in 1..n /\ i - 1 \in 0..n
              BY <4>1
            <6> QED
              BY <1>1, <2>4a, <6>1
          <5>3. off[i] = u + v /\ u + v <= m /\ off[i] <= off[k]
            <6>1. off[i] = u + v
              BY <5>1, <5>2
            <6>2. off[i] <= m /\ off[k] = m + w
              BY <4>3, <5>1
            <6> QED
              BY <6>1, <6>2
          <5>4. ASSUME NEW j \in 1..v
                PROVE  flat[k][u + j] = seqs[i][j]
            <6>1. u + j \in 1..m
              BY <5>3
            <6>2. flat[k - 1][u + j] = seqs[i][j]
              BY <5>1, <5>2
            <6> QED
              BY <4>2, <4>3, <6>1, <6>2
          <5> QED
            BY <5>1, <5>2, <5>3, <5>4
        <4> HIDE DEF In
        <4>6. off[k] <= off[k] /\ off[k] = off[k - 1] + Len(seqs[k])
          BY <4>2, <4>3
        <4>7. \A i \in 1..k : off[i] = off[i - 1] + Len(seqs[i]) /\ off[i] <= off[k] /\ In(k, i)
          <5>1. \A i \in 1..k : i = k \/ i \in 1..(k-1)
            BY <4>1
          <5> QED
            BY <4>4, <4>5, <4>6, <5>1
        <4> QED
          BY <4>1, <4>7
      <3> QED
        BY <3>1, <3>2
    <2>6. n \in Good
      <3>1. Good \in SUBSET Nat
        OBVIOUS
      <3> HIDE DEF Good
      <3>2. \A i \in 1..n : i \in Good
        BY <1>1, <2>5, <3>1, AllUpTo
      <3> QED
        BY <1>1, <2>2, <3>2
    <2>7. Laid(off, seqs)
      BY <2>1, <2>4, <2>4a, <2>6, <1>0 DEF Laid
    <2> QED
      BY <2>7
  <1> QED
    BY <1>2, <1>3

\* The ends grow.
LEMMA EndsGrow ==
    ASSUME NEW S, NEW seqs \in Seq(Seq(S))
    PROVE  \A i \in 0..Len(seqs) : EndsOf(seqs)[i] <= EndsOf(seqs)[Len(seqs)]
  <1> DEFINE off == EndsOf(seqs)
  <1>0. PICK n \in Nat : n = Len(seqs)
    BY LenProperties
  <1>1. n \in Nat /\ \A i \in 1..n : Len(seqs[i]) \in Nat
    BY <1>0, LenProperties
  <1>2. off \in [0..n -> Nat] /\ \A i \in 1..n : off[i] = off[i - 1] + Len(seqs[i])
    BY <1>0, FlattenSeqLaid DEF Laid
  <1> HIDE DEF off
  <1> DEFINE Good == {k \in Nat : off[n - k] <= off[n]}
  <1>3. ASSUME NEW k \in 1..n, k = 1 \/ (k - 1) \in Good PROVE k \in Good
    <2>1. n - k + 1 \in 1..n /\ n - k \in 0..n /\ n - k + 1 - 1 = n - k /\ n - (k - 1) = n - k + 1
      BY <1>1
    <2>2. off[n - k + 1] = off[n - k] + Len(seqs[n - k + 1])
      BY <1>2, <2>1
    <2>3. /\ off[n - k] \in Nat /\ off[n - k + 1] \in Nat /\ off[n] \in Nat
          /\ Len(seqs[n - k + 1]) \in Nat
      BY <1>1, <1>2, <2>1
    <2>4. off[n - k + 1] <= off[n]
      BY <1>1, <1>3, <2>1, <2>3
    <2>5. off[n - k] <= off[n]
      BY <2>2, <2>3, <2>4
    <2> QED
      BY <2>5
  <1>4. \A k \in 1..n : k \in Good
    <2>1. Good \in SUBSET Nat
      OBVIOUS
    <2> HIDE DEF Good
    <2> QED
      BY <1>1, <1>3, <2>1, AllUpTo
  <1>5. ASSUME NEW i \in 0..n PROVE off[i] <= off[n]
    <2>1. CASE i = n
      BY <1>1, <1>2, <2>1
    <2>2. CASE i # n
      <3>1. n - i \in 1..n /\ n - (n - i) = i
        BY <1>1, <2>2
      <3> QED
        BY <1>4, <3>1
    <2> QED
      BY <2>1, <2>2
  <1> QED
    BY <1>0, <1>5 DEF off

-----------------------------------------------------------------------------
(***************************************************************************)
(* Digits.                                                                 *)
(***************************************************************************)

\* The fold over the indices of at most four digits.
LEMMA FoldOfDigits ==
    ASSUME NEW s, NEW n \in 1..4, DOMAIN s = 1..n, \A i \in 1..n : s[i] \in Nat
    PROVE  \E val :
              /\ val[0] = 0 /\ \A k \in 1..n : val[k] = 10 * val[k - 1] + s[k]
              /\ Value(s) = val[n]
  <1> DEFINE D == 1..n
             Step(g, T) == IF T = {} THEN 0 ELSE 10 * g[T \ {Max(T)}] + s[Max(T)]
             upto1(T) == IF 1 \in T THEN s[1] ELSE 0
             upto2(T) == IF 2 \in T THEN 10 * upto1(T) + s[2] ELSE upto1(T)
             upto3(T) == IF 3 \in T THEN 10 * upto2(T) + s[3] ELSE upto2(T)
             upto4(T) == IF 4 \in T THEN 10 * upto3(T) + s[4] ELSE upto3(T)
             all == [T \in SUBSET D |-> upto4(T)]
  <1>1. ASSUME NEW T \in SUBSET D, T # {}
        PROVE  Max(T) \in T /\ \A x \in T : x <= Max(T)
    <2>1. T \in SUBSET (0..n) /\ n \in Nat
      OBVIOUS
    <2> QED
      BY <1>1, <2>1, GreatestOf
  <1>2. ASSUME NEW T \in SUBSET D PROVE upto4(T) = Step(all, T)
    <2>1. CASE T = {}
      BY <2>1
    <2>2. CASE T # {}
      <3>1. PICK m \in T : m = Max(T) /\ \A x \in T : x <= m
        BY <1>1, <2>2
      <3>2. PICK U \in SUBSET D : U = T \ {m}
        OBVIOUS
      <3>3. all[U] = upto4(U)
        OBVIOUS
      <3>4. m \in {1, 2, 3, 4} /\ m \in D
        OBVIOUS
      <3>5. \A i \in {1, 2, 3, 4} : i > m => i \notin T
        BY <3>1
      <3>6. \A i \in {1, 2, 3, 4} : i \in U <=> i \in T /\ i # m
        BY <3>2
      <3>7. Step(all, T) = 10 * upto4(U) + s[m]
        BY <2>2, <3>1, <3>2, <3>3
      <3> HIDE DEF all, Step
      <3>8. CASE m = 1
        <4>1. 1 \in T /\ 1 \notin U /\ \A i \in {2, 3, 4} : i \notin T /\ i \notin U
          BY <3>1, <3>5, <3>6, <3>8
        <4>2. upto4(T) = s[1] /\ upto4(U) = 0
          BY <4>1
        <4>3. s[1] \in Nat
          BY <3>4, <3>8
        <4> HIDE DEF upto4
        <4> QED
          BY <3>7, <3>8, <4>2, <4>3
      <3>9. CASE m = 2
        <4>1. 2 \in T /\ 2 \notin U /\ \A i \in {3, 4} : i \notin T /\ i \notin U
          BY <3>1, <3>5, <3>6, <3>9
        <4>2. 1 \in T <=> 1 \in U
          BY <3>6, <3>9
        <4>3. upto1(T) = upto1(U)
          BY <4>2
        <4> HIDE DEF upto1
        <4>4. upto4(T) = 10 * upto1(T) + s[2] /\ upto4(U) = upto1(U)
          BY <4>1
        <4> HIDE DEF upto4
        <4> QED
          BY <3>7, <3>9, <4>3, <4>4
      <3>10. CASE m = 3
        <4>1. 3 \in T /\ 3 \notin U /\ 4 \notin T /\ 4 \notin U
          BY <3>1, <3>5, <3>6, <3>10
        <4>2. (1 \in T <=> 1 \in U) /\ (2 \in T <=> 2 \in U)
          BY <3>6, <3>10
        <4>3. upto2(T) = upto2(U)
          BY <4>2
        <4> HIDE DEF upto2
        <4>4. upto4(T) = 10 * upto2(T) + s[3] /\ upto4(U) = upto2(U)
          BY <4>1
        <4> HIDE DEF upto4
        <4> QED
          BY <3>7, <3>10, <4>3, <4>4
      <3>11. CASE m = 4
        <4>1. 4 \in T /\ 4 \notin U
          BY <3>1, <3>6, <3>11
        <4>2. (1 \in T <=> 1 \in U) /\ (2 \in T <=> 2 \in U) /\ (3 \in T <=> 3 \in U)
          BY <3>6, <3>11
        <4>3. upto3(T) = upto3(U)
          BY <4>2
        <4> HIDE DEF upto3
        <4>4. upto4(T) = 10 * upto3(T) + s[4] /\ upto4(U) = upto3(U)
          BY <4>1
        <4> HIDE DEF upto4
        <4> QED
          BY <3>7, <3>11, <4>3, <4>4
      <3> QED
        BY <3>4, <3>8, <3>9, <3>10, <3>11
    <2> QED
      BY <2>1, <2>2
  <1>3. \E iter : iter = [T \in SUBSET D |-> Step(iter, T)]
    <2>1. all = [T \in SUBSET D |-> all[T]] /\ \A T \in SUBSET D : all[T] = upto4(T)
      OBVIOUS
    <2> HIDE DEF all, upto4, Step
    <2>2. all = [T \in SUBSET D |-> Step(all, T)]
      BY <1>2, <2>1
    <2> QED
      BY <2>2
  <1> HIDE DEF all
  <1> DEFINE f == CHOOSE iter : iter = [T \in SUBSET D |-> Step(iter, T)]
  <1>4. f = [T \in SUBSET D |-> Step(f, T)]
    <2> HIDE DEF Step
    <2> QED
      BY <1>3
  <1>5. Value(s) = f[D]
    BY DEF Value, FoldLeft, MapThenFoldSet
  <1> HIDE DEF f
  <1>6. f[{}] = 0
    BY <1>4
  <1>7. ASSUME NEW k \in 1..n PROVE f[1..k] = 10 * f[1 .. k - 1] + s[k]
    <2>1. 1..k \in SUBSET D /\ 1..k # {} /\ 1 .. k - 1 = (1..k) \ {k}
      OBVIOUS
    <2>2. Max(1..k) = k
      <3>1. PICK T \in SUBSET D : T = 1..k
        BY <2>1
      <3>2. Max(T) \in T /\ \A x \in T : x <= Max(T)
        BY <1>1, <2>1, <3>1
      <3>3. PICK m \in Nat : m = Max(T)
        BY <3>1, <3>2
      <3>4. m <= k /\ k <= m
        BY <3>1, <3>2, <3>3
      <3> QED
        BY <3>1, <3>3, <3>4
    <2>3. f[1..k] = Step(f, 1..k)
      BY <1>4, <2>1
    <2> QED
      BY <2>1, <2>2, <2>3
  <1> DEFINE val == [k \in 0..n |-> f[1..k]]
  <1>8. val[0] = 0
    <2>1. 1..0 = {}
      OBVIOUS
    <2> QED
      BY <1>6, <2>1
  <1>9. \A k \in 0..n : val[k] = f[1..k]
    OBVIOUS
  <1> HIDE DEF val
  <1>10. \A k \in 1..n : val[k] = 10 * val[k - 1] + s[k]
    <2>1. \A k \in 1..n : k - 1 \in 0..n /\ k \in 0..n
      OBVIOUS
    <2> QED
      BY <1>7, <1>9, <2>1
  <1>11. Value(s) = val[n]
    BY <1>5, <1>9
  <1> QED
    BY <1>8, <1>10, <1>11

\* A number is read off its digits.
LEMMA ValueOf ==
    ASSUME NEW s, NEW n \in 1..4, DOMAIN s = 1..n, \A i \in 1..n : s[i] \in Nat
    PROVE  /\ n = 1 => Value(s) = s[1]
           /\ n = 2 => Value(s) = 10 * s[1] + s[2]
           /\ n = 3 => Value(s) = 10 * (10 * s[1] + s[2]) + s[3]
           /\ n = 4 => Value(s) = 10 * (10 * (10 * s[1] + s[2]) + s[3]) + s[4]
  <1>1. PICK val :
          /\ val[0] = 0 /\ \A k \in 1..n : val[k] = 10 * val[k - 1] + s[k]
          /\ Value(s) = val[n]
    BY FoldOfDigits
  <1>2. val[1] = s[1] /\ s[1] \in Nat
    <2>1. 1 \in 1..n
      OBVIOUS
    <2>2. val[1] = 10 * val[1 - 1] + s[1]
      BY <1>1, <2>1
    <2> QED
      BY <1>1, <2>1, <2>2
  <1>3. n >= 2 => val[2] = 10 * s[1] + s[2] /\ s[2] \in Nat
    <2> SUFFICES ASSUME n >= 2 PROVE val[2] = 10 * s[1] + s[2] /\ s[2] \in Nat
      OBVIOUS
    <2>1. 2 \in 1..n
      OBVIOUS
    <2>2. val[2] = 10 * val[2 - 1] + s[2]
      BY <1>1, <2>1
    <2> QED
      BY <1>2, <2>1, <2>2
  <1>4. n >= 3 => val[3] = 10 * (10 * s[1] + s[2]) + s[3] /\ s[3] \in Nat
    <2> SUFFICES ASSUME n >= 3
                 PROVE  val[3] = 10 * (10 * s[1] + s[2]) + s[3] /\ s[3] \in Nat
      OBVIOUS
    <2>1. 3 \in 1..n
      OBVIOUS
    <2>2. val[3] = 10 * val[3 - 1] + s[3]
      BY <1>1, <2>1
    <2> QED
      BY <1>2, <1>3, <2>1, <2>2
  <1>5. n = 4 => val[4] = 10 * (10 * (10 * s[1] + s[2]) + s[3]) + s[4]
    <2> SUFFICES ASSUME n = 4
                 PROVE  val[4] = 10 * (10 * (10 * s[1] + s[2]) + s[3]) + s[4]
      OBVIOUS
    <2>1. 4 \in 1..n
      OBVIOUS
    <2>2. val[4] = 10 * val[4 - 1] + s[4]
      BY <1>1, <2>1
    <2> QED
      BY <1>2, <1>3, <1>4, <2>1, <2>2
  <1> QED
    BY <1>1, <1>2, <1>3, <1>4, <1>5

\* The digits that are read are the first that nothing more is read after.
LEMMA DigitsReadIs ==
    ASSUME NEW chars \in Seq(Nat), NEW ulim, NEW g \in 1..4, g <= Len(chars),
           \A k \in 1 .. g - 1 : More(chars, k, ulim), g = 4 \/ ~More(chars, g, ulim)
    PROVE  DigitsRead(chars, ulim) = g
  <1>1. PICK n \in Nat : n = Len(chars)
    BY LenProperties
  <1>2. PICK most : most = Min({n, 4})
    OBVIOUS
  <1>3. most \in {n, 4} /\ most <= n /\ most <= 4
    <2>1. {n, 4} \in SUBSET Nat /\ {n, 4} # {}
      OBVIOUS
    <2> QED
      BY <1>2, <2>1, LeastOf
  <1>4. g \in 1..most /\ 1..most \subseteq Nat
    BY <1>1, <1>3
  <1> DEFINE S == {k \in 1..most : k = 4 \/ ~More(chars, k, ulim)}
  <1>5. g \in S /\ S \in SUBSET Nat
    BY <1>4
  <1>6. \A k \in S : g <= k
    BY <1>4
  <1>7. DigitsRead(chars, ulim) = Min(S)
    BY <1>1, <1>2 DEF DigitsRead
  <1> HIDE DEF S
  <1>8. Min(S) \in S /\ Min(S) <= g
    BY <1>5, LeastOf
  <1>9. PICK m \in Nat : m = Min(S)
    BY <1>5, <1>8
  <1>10. g <= m /\ m <= g
    BY <1>6, <1>8, <1>9
  <1> QED
    BY <1>7, <1>9, <1>10

LEMMA Prefix ==
    ASSUME NEW chars \in Seq(Nat), NEW k \in 1..4, k <= Len(chars)
    PROVE  /\ DOMAIN SubSeq(chars, 1, k) = 1..k
           /\ \A i \in 1..k : SubSeq(chars, 1, k)[i] = chars[i] /\ chars[i] \in Nat
  <1>1. PICK n \in Nat : n = Len(chars) /\ chars \in [1..n -> Nat]
    BY LenProperties
  <1>2. \A i \in 1..k : chars[i] \in Nat
    BY <1>1
  <1>3. /\ SubSeq(chars, 1, k) \in Seq(Nat)
        /\ Len(SubSeq(chars, 1, k)) = k
        /\ \A i \in 1 .. k - 1 + 1 : SubSeq(chars, 1, k)[i] = chars[1 + i - 1]
    BY <1>2, SubSeqProperties
  <1>4. \A i \in 1..k : SubSeq(chars, 1, k)[i] = chars[i]
    BY <1>3
  <1> QED
    BY <1>2, <1>3, <1>4, LenProperties

\* The number that d prints, and how many digits it has.
FieldOf(d, t) ==
    CASE d = "Y" -> t.year [] d = "m" -> t.mon [] d = "d" -> t.mday [] d = "H" -> t.hour
      [] d = "M" -> t.min  [] d = "S" -> t.sec [] d = "j" -> t.yday [] d = "w" -> t.wday

WidthOf(d) == CASE d = "Y" -> 4 [] d = "j" -> 3 [] d = "w" -> 1 [] OTHER -> 2

LEMMA PrintedDigits ==
    ASSUME NEW t \in Dates, NEW d \in Fields
    PROVE  \E v \in Nat, lo \in Nat, hi \in Nat :
             /\ v = FieldOf(d, t) /\ Number[d] = <<lo, hi>> /\ lo <= v /\ v <= hi
             /\ \/ WidthOf(d) = 1 /\ hi = 6 /\ Printed(d, t) = <<v>>
                \/ WidthOf(d) = 2 /\ 10 <= hi /\ hi <= 99 /\ Printed(d, t) = Two(v)
                \/ WidthOf(d) = 3 /\ hi = 366 /\ Printed(d, t) = <<v \div 100>> \o Two(v % 100)
                \/ WidthOf(d) = 4 /\ hi = LastYear /\ Printed(d, t) = Four(v)
  <1>0. t \in [year : 0..LastYear, mon : 1..12, mday : 1..31, hour : 0..23,
               min : 0..59, sec : 0..61, wday : 0..6, yday : 1..366]
    BY TimeTextAssumption DEF TimeTextAssumption
  <1>1. /\ t.mon \in 1..12 /\ t.mday \in 1..31 /\ t.hour \in 0..23
        /\ t.min \in 0..59 /\ t.sec \in 0..61 /\ t.wday \in 0..6
    BY <1>0
  <1>a. LastYear \in Nat
    BY DEF LastYear
  <1>2. d \in {"Y", "m", "d", "H", "M", "S", "j", "w"}
    BY DEF Fields
  <1>3. CASE d = "Y"
    <2>1. FieldOf(d, t) = t.year /\ WidthOf(d) = 4
      BY <1>3 DEF FieldOf, WidthOf
    <2>2. Number[d] = <<0, LastYear>>
      BY <1>3, NumberLimits
    <2>3. Printed(d, t) = Four(t.year)
      BY <1>3, CharOfDomain DEF Printed
    <2>4. PICK v \in Nat : v = t.year /\ v <= LastYear
      <3>1. t.year \in 0..LastYear
        BY <1>0
      <3> QED
        BY <1>a, <3>1
    <2>5. v = FieldOf(d, t) /\ Number[d] = <<0, LastYear>>
      BY <2>1, <2>2, <2>4
    <2>6. Printed(d, t) = Four(v)
      BY <2>3, <2>4
    <2> QED
      BY <1>a, <2>1, <2>4, <2>5, <2>6
  <1>4. CASE d = "j"
    <2>1. FieldOf(d, t) = t.yday /\ WidthOf(d) = 3
      BY <1>4 DEF FieldOf, WidthOf
    <2>2. Number[d] = <<1, 366>>
      BY <1>4, NumberLimits
    <2>3. Printed(d, t) = <<t.yday \div 100>> \o Two(t.yday % 100)
      BY <1>4, CharOfDomain DEF Printed
    <2>4. PICK v \in Nat : v = t.yday /\ 1 <= v /\ v <= 366
      <3>1. t.yday \in 1..366
        BY <1>0
      <3> QED
        BY <3>1
    <2>5. v = FieldOf(d, t) /\ Number[d] = <<1, 366>>
      BY <2>1, <2>2, <2>4
    <2>6. Printed(d, t) = <<v \div 100>> \o Two(v % 100)
      BY <2>3, <2>4
    <2>7. PICK lo \in Nat, hi \in Nat : lo = 1 /\ hi = 366
      OBVIOUS
    <2>8. Number[d] = <<lo, hi>> /\ lo <= v /\ v <= hi
      BY <2>4, <2>5, <2>7
    <2> QED
      BY <2>1, <2>5, <2>6, <2>7, <2>8
  <1>5. CASE d = "w"
    <2>1. FieldOf(d, t) = t.wday /\ WidthOf(d) = 1
      BY <1>5 DEF FieldOf, WidthOf
    <2>2. Number[d] = <<0, 6>>
      BY <1>5, NumberLimits
    <2>3. Printed(d, t) = <<t.wday>>
      BY <1>5, CharOfDomain DEF Printed
    <2> QED
      BY <1>1, <2>1, <2>2, <2>3
  <1>6. CASE d \in {"m", "d", "H", "M", "S"}
    <2>1. WidthOf(d) = 2
      BY <1>6 DEF WidthOf
    <2>2. Printed(d, t) = Two(FieldOf(d, t))
      <3>1. d \notin DOMAIN CharOf
        BY <1>6, CharOfDomain
      <3> QED
        BY <1>6, <3>1 DEF Printed, FieldOf
    <2>3. \E lo \in 0..1, hi \in 12..61 :
             Number[d] = <<lo, hi>> /\ FieldOf(d, t) \in lo..hi
      <3>1. CASE d = "m"
        BY <1>1, <3>1, NumberLimits DEF FieldOf
      <3>2. CASE d = "d"
        BY <1>1, <3>2, NumberLimits DEF FieldOf
      <3>3. CASE d = "H"
        BY <1>1, <3>3, NumberLimits DEF FieldOf
      <3>4. CASE d = "M"
        BY <1>1, <3>4, NumberLimits DEF FieldOf
      <3>5. CASE d = "S"
        BY <1>1, <3>5, NumberLimits DEF FieldOf
      <3> QED
        BY <1>6, <3>1, <3>2, <3>3, <3>4, <3>5
    <2>4. PICK lo \in 0..1, hi \in 12..61 : Number[d] = <<lo, hi>> /\ FieldOf(d, t) \in lo..hi
      BY <2>3
    <2>5. PICK v \in Nat : v = FieldOf(d, t) /\ lo <= v /\ v <= hi
      BY <2>4
    <2>6. lo \in Nat /\ hi \in Nat /\ 10 <= hi /\ hi <= 99
      OBVIOUS
    <2> QED
      BY <2>1, <2>2, <2>4, <2>5, <2>6
  <1> QED
    BY <1>2, <1>3, <1>4, <1>5, <1>6

LEMMA TwoDigits ==
    ASSUME NEW n \in Nat, n <= 99
    PROVE  \E a \in 0..9, b \in 0..9 : Two(n) = <<a, b>> /\ n = 10 * a + b
  <1>1. PICK a \in Int, b \in Int : a = n \div 10 /\ b = n % 10
    OBVIOUS
  <1>2. a \in 0..9 /\ b \in 0..9 /\ n = 10 * a + b
    BY <1>1
  <1>3. Two(n) = <<a, b>>
    BY <1>1 DEF Two
  <1> QED
    BY <1>2, <1>3

\* The digits p of what d prints, the number v and its limits.
Written(d, t, v, lo, hi, p) ==
    /\ v = FieldOf(d, t) /\ Number[d] = <<lo, hi>> /\ lo <= v /\ v <= hi
    /\ p = Printed(d, t) /\ Len(p) = WidthOf(d) /\ WidthOf(d) \in 1..4
    /\ \/ WidthOf(d) = 1 /\ hi = 6 /\ v = p[1]
       \/ WidthOf(d) = 2 /\ 10 <= hi /\ hi <= 99 /\ v = 10 * p[1] + p[2]
       \/ WidthOf(d) = 3 /\ hi = 366 /\ v = 10 * (10 * p[1] + p[2]) + p[3]
       \/ WidthOf(d) = 4 /\ hi = 9999 /\ v = 10 * (10 * (10 * p[1] + p[2]) + p[3]) + p[4]

LEMMA PrintedLength ==
    ASSUME NEW t \in Dates, NEW d \in Fields
    PROVE  \E v \in Nat, lo \in Nat, hi \in Nat, p \in Seq(0..9) : Written(d, t, v, lo, hi, p)
  <1>1. PICK v \in Nat, lo \in Nat, hi \in Nat :
             /\ v = FieldOf(d, t) /\ Number[d] = <<lo, hi>> /\ lo <= v /\ v <= hi
             /\ \/ WidthOf(d) = 1 /\ hi = 6 /\ Printed(d, t) = <<v>>
                \/ WidthOf(d) = 2 /\ 10 <= hi /\ hi <= 99 /\ Printed(d, t) = Two(v)
                \/ WidthOf(d) = 3 /\ hi = 366 /\ Printed(d, t) = <<v \div 100>> \o Two(v % 100)
                \/ WidthOf(d) = 4 /\ hi = LastYear /\ Printed(d, t) = Four(v)
    BY PrintedDigits
  <1>2. PICK p : p = Printed(d, t)
    OBVIOUS
  <1>3. /\ p \in Seq(0..9) /\ Len(p) = WidthOf(d) /\ WidthOf(d) \in 1..4
        /\ \/ WidthOf(d) = 1 /\ hi = 6 /\ v = p[1]
           \/ WidthOf(d) = 2 /\ 10 <= hi /\ hi <= 99 /\ v = 10 * p[1] + p[2]
           \/ WidthOf(d) = 3 /\ hi = 366 /\ v = 10 * (10 * p[1] + p[2]) + p[3]
           \/ WidthOf(d) = 4 /\ hi = 9999 /\ v = 10 * (10 * (10 * p[1] + p[2]) + p[3]) + p[4]
    <2>3. CASE WidthOf(d) = 1 /\ hi = 6 /\ Printed(d, t) = <<v>>
      <3>1. p = <<v>> /\ v \in 0..9
        BY <1>1, <1>2, <2>3
      <3>2. p \in Seq(0..9) /\ Len(p) = 1 /\ p[1] = v
        BY <3>1
      <3> QED
        BY <2>3, <3>2
    <2>4. CASE WidthOf(d) = 2 /\ 10 <= hi /\ hi <= 99 /\ Printed(d, t) = Two(v)
      <3>1. v <= 99
        BY <1>1, <2>4
      <3>2. PICK a \in 0..9, b \in 0..9 : Two(v) = <<a, b>> /\ v = 10 * a + b
        BY <3>1, TwoDigits
      <3>3. p \in Seq(0..9) /\ Len(p) = 2 /\ p[1] = a /\ p[2] = b
        BY <1>2, <2>4, <3>2
      <3> QED
        BY <2>4, <3>2, <3>3
    <2>5. CASE WidthOf(d) = 3 /\ hi = 366 /\ Printed(d, t) = <<v \div 100>> \o Two(v % 100)
      <3>1. v <= 366
        BY <1>1, <2>5
      <3>2. PICK h \in Nat, r \in Nat : h = v \div 100 /\ r = v % 100 /\ h <= 9 /\ r <= 99
                                        /\ v = 100 * h + r
        BY <3>1
      <3>3. PICK a \in 0..9, b \in 0..9 : Two(r) = <<a, b>> /\ r = 10 * a + b
        BY <3>2, TwoDigits
      <3>4. p \in Seq(0..9) /\ Len(p) = 3 /\ p[1] = h /\ p[2] = a /\ p[3] = b
        <4>1. p = <<h>> \o <<a, b>>
          BY <1>2, <2>5, <3>2, <3>3
        <4>2. <<h>> \in Seq(0..9) /\ <<a, b>> \in Seq(0..9)
          BY <3>2, <3>3
        <4> QED
          BY <4>1, <4>2, TwoParts, ConcatProperties
      <3>5. v = 100 * h + 10 * a + b
        BY <3>2, <3>3
      <3> QED
        BY <2>5, <3>4, <3>5
    <2>6. CASE WidthOf(d) = 4 /\ hi = LastYear /\ Printed(d, t) = Four(v)
      <3>0. hi = 9999
        BY <2>6 DEF LastYear
      <3>1. v <= 9999
        BY <1>1, <3>0
      <3>2. PICK h \in Nat, r \in Nat : h = v \div 100 /\ r = v % 100 /\ h <= 99 /\ r <= 99
                                        /\ v = 100 * h + r
        BY <3>1
      <3>3. PICK a \in 0..9, b \in 0..9 : Two(r) = <<a, b>> /\ r = 10 * a + b
        BY <3>2, TwoDigits
      <3>4. PICK y \in 0..9, x \in 0..9 : Two(h) = <<y, x>> /\ h = 10 * y + x
        BY <3>2, TwoDigits
      <3>5. p \in Seq(0..9) /\ Len(p) = 4 /\ p[1] = y /\ p[2] = x /\ p[3] = a /\ p[4] = b
        <4>1. p = <<y, x>> \o <<a, b>>
          BY <1>2, <2>6, <3>2, <3>3, <3>4 DEF Four
        <4>2. <<y, x>> \in Seq(0..9) /\ <<a, b>> \in Seq(0..9)
          BY <3>3, <3>4
        <4> QED
          BY <4>1, <4>2, TwoParts, ConcatProperties
      <3>6. v = 10 * (10 * (10 * y + x) + a) + b
        BY <3>2, <3>3, <3>4
      <3> QED
        BY <2>6, <3>0, <3>5, <3>6
    <2> QED
      BY <1>1, <2>3, <2>4, <2>5, <2>6
  <1>4. Written(d, t, v, lo, hi, p)
    BY <1>1, <1>2, <1>3 DEF Written
  <1> QED
    BY <1>3, <1>4

LEMMA PrefixValue ==
    ASSUME NEW chars \in Seq(Nat), NEW k \in 1..4, k <= Len(chars)
    PROVE  /\ k = 1 => Value(SubSeq(chars, 1, k)) = chars[1]
           /\ k = 2 => Value(SubSeq(chars, 1, k)) = 10 * chars[1] + chars[2]
           /\ k = 3 => Value(SubSeq(chars, 1, k)) = 10 * (10 * chars[1] + chars[2]) + chars[3]
           /\ k = 4 => Value(SubSeq(chars, 1, k))
                          = 10 * (10 * (10 * chars[1] + chars[2]) + chars[3]) + chars[4]
  <1>1. PICK s : s = SubSeq(chars, 1, k)
    OBVIOUS
  <1>2. DOMAIN s = 1..k /\ \A i \in 1..k : s[i] = chars[i] /\ chars[i] \in Nat
    BY <1>1, Prefix
  <1>3. DOMAIN s = 1..k /\ \A i \in 1..k : s[i] \in Nat
    BY <1>2
  <1>4. CASE k = 1
    <2>1. s[1] = chars[1]
      <3>1. 1 \in 1..k
        BY <1>4
      <3> QED
        BY <1>2, <3>1
    <2>2. Value(s) = s[1]
      <3>1. k = 1 => Value(s) = s[1]
        BY <1>3, ValueOf
      <3> QED
        BY <1>4, <3>1, Zenon
    <2>3. Value(SubSeq(chars, 1, k)) = chars[1]
      BY <1>1, <2>1, <2>2, Zenon
    <2> QED
      BY <1>4, <2>3
  <1>5. CASE k = 2
    <2>1. s[1] = chars[1] /\ s[2] = chars[2]
      <3>1. 1 \in 1..k /\ 2 \in 1..k
        BY <1>5
      <3> QED
        BY <1>2, <3>1
    <2>2. Value(s) = 10 * s[1] + s[2]
      <3>1. k = 2 => Value(s) = 10 * s[1] + s[2]
        BY <1>3, ValueOf
      <3> QED
        BY <1>5, <3>1, Zenon
    <2>3. Value(SubSeq(chars, 1, k)) = 10 * chars[1] + chars[2]
      BY <1>1, <2>1, <2>2, Zenon
    <2> QED
      BY <1>5, <2>3
  <1>6. CASE k = 3
    <2>1. s[1] = chars[1] /\ s[2] = chars[2] /\ s[3] = chars[3]
      <3>1. 1 \in 1..k /\ 2 \in 1..k /\ 3 \in 1..k
        BY <1>6
      <3> QED
        BY <1>2, <3>1
    <2>2. Value(s) = 10 * (10 * s[1] + s[2]) + s[3]
      <3>1. k = 3 => Value(s) = 10 * (10 * s[1] + s[2]) + s[3]
        BY <1>3, ValueOf
      <3> QED
        BY <1>6, <3>1, Zenon
    <2>3. Value(SubSeq(chars, 1, k)) = 10 * (10 * chars[1] + chars[2]) + chars[3]
      BY <1>1, <2>1, <2>2, Zenon
    <2> QED
      BY <1>6, <2>3
  <1>7. CASE k = 4
    <2>1. s[1] = chars[1] /\ s[2] = chars[2] /\ s[3] = chars[3] /\ s[4] = chars[4]
      <3>1. 1 \in 1..k /\ 2 \in 1..k /\ 3 \in 1..k /\ 4 \in 1..k
        BY <1>7
      <3> QED
        BY <1>2, <3>1
    <2>2. Value(s) = 10 * (10 * (10 * s[1] + s[2]) + s[3]) + s[4]
      <3>1. k = 4 => Value(s) = 10 * (10 * (10 * s[1] + s[2]) + s[3]) + s[4]
        BY <1>3, ValueOf
      <3> QED
        BY <1>7, <3>1, Zenon
    <2>3. Value(SubSeq(chars, 1, k)) = 10 * (10 * (10 * chars[1] + chars[2]) + chars[3]) + chars[4]
      BY <1>1, <2>1, <2>2, Zenon
    <2> QED
      BY <1>7, <2>3
  <1> QED
    BY <1>4, <1>5, <1>6, <1>7

\* A number is read digit by digit as it was printed, to its end or to the damage,
\* whatever follows it.
LEMMA ReadDigits ==
    ASSUME NEW t \in Dates, NEW d \in Fields, NEW chars \in Seq(Nat), NEW g \in 1..4,
           g <= Len(chars), g <= WidthOf(d),
           \A k \in 1..g : chars[k] = Printed(d, t)[k],
           g = WidthOf(d) \/ g = Len(chars) \/ chars[g + 1] \notin Digits
    PROVE  /\ DigitsRead(chars, Number[d][2]) = g
           /\ chars[1] \in Digits
           /\ g = WidthOf(d) => /\ Value(SubSeq(chars, 1, g)) = FieldOf(d, t)
                                /\ FieldOf(d, t) \in Number[d][1] .. Number[d][2]
  <1>0. PICK v \in Nat, lo \in Nat, hi \in Nat, p \in Seq(0..9) : Written(d, t, v, lo, hi, p)
    BY PrintedLength
  <1>w. PICK w \in 1..4 : w = WidthOf(d)
    BY <1>0 DEF Written
  <1>1.
             /\ v = FieldOf(d, t) /\ Number[d] = <<lo, hi>> /\ lo <= v /\ v <= hi
             /\ p = Printed(d, t) /\ Len(p) = w
             /\ \/ w = 1 /\ hi = 6 /\ v = p[1]
                \/ w = 2 /\ 10 <= hi /\ hi <= 99 /\ v = 10 * p[1] + p[2]
                \/ w = 3 /\ hi = 366 /\ v = 10 * (10 * p[1] + p[2]) + p[3]
                \/ w = 4 /\ hi = 9999 /\ v = 10 * (10 * (10 * p[1] + p[2]) + p[3]) + p[4]
    BY <1>0, <1>w DEF Written
  <1>2. \A k \in 1..w : p[k] \in 0..9
    BY <1>1, LenProperties
  <1>3. \A k \in 1..g : chars[k] = p[k] /\ k \in 1..w
    BY <1>1, <1>w
  <1>4. \A k \in 1..g : chars[k] \in Digits
    BY <1>2, <1>3 DEF Digits
  <1>x. PICK a \in 0..9, b \in 0..9, c \in 0..9, e \in 0..9 :
           /\ p[1] = a /\ (w >= 2 => p[2] = b) /\ (w >= 3 => p[3] = c) /\ (w = 4 => p[4] = e)
    <2>1. 1 \in 1..w /\ (w >= 2 => 2 \in 1..w) /\ (w >= 3 => 3 \in 1..w) /\ (w = 4 => 4 \in 1..w)
      OBVIOUS
    <2>2. p[1] \in 0..9 /\ (w >= 2 => p[2] \in 0..9) /\ (w >= 3 => p[3] \in 0..9)
          /\ (w = 4 => p[4] \in 0..9)
      BY <1>2, <2>1, Zenon
    <2>3. \E a \in 0..9 : p[1] = a
      BY <2>2
    <2>4. \E b \in 0..9 : w >= 2 => p[2] = b
      BY <2>2
    <2>5. \E c \in 0..9 : w >= 3 => p[3] = c
      BY <2>2
    <2>6. \E e \in 0..9 : w = 4 => p[4] = e
      BY <2>2
    <2> QED
      BY <2>3, <2>4, <2>5, <2>6, Zenon
  <1>y. \/ w = 1 /\ hi = 6 /\ v = a
        \/ w = 2 /\ 10 <= hi /\ hi <= 99 /\ v = 10 * a + b
        \/ w = 3 /\ hi = 366 /\ v = 10 * (10 * a + b) + c
        \/ w = 4 /\ hi = 9999 /\ v = 10 * (10 * (10 * a + b) + c) + e
    <2>1. CASE w = 1
      BY <1>1, <1>x, <2>1
    <2>2. CASE w = 2
      <3>1. 10 <= hi /\ hi <= 99 /\ v = 10 * p[1] + p[2]
        BY <1>1, <2>2
      <3>2. p[1] = a /\ p[2] = b
        <4>1. w >= 2
          BY <2>2
        <4> QED
          BY <1>x, <2>2, <4>1, Zenon
      <3> QED
        BY <2>2, <3>1, <3>2, Zenon
    <2>3. CASE w = 3
      <3>1. hi = 366 /\ v = 10 * (10 * p[1] + p[2]) + p[3]
        BY <1>1, <2>3
      <3>2. p[1] = a /\ p[2] = b /\ p[3] = c
        <4>1. w >= 2 /\ w >= 3
          BY <2>3
        <4> QED
          BY <1>x, <2>3, <4>1, Zenon
      <3> QED
        BY <2>3, <3>1, <3>2, Zenon
    <2>4. CASE w = 4
      <3>1. hi = 9999 /\ v = 10 * (10 * (10 * p[1] + p[2]) + p[3]) + p[4]
        BY <1>1, <2>4
      <3>2. p[1] = a /\ p[2] = b /\ p[3] = c /\ p[4] = e
        <4>1. w >= 2 /\ w >= 3
          BY <2>4
        <4> QED
          BY <1>x, <2>4, <4>1, Zenon
      <3> QED
        BY <2>4, <3>1, <3>2, Zenon
    <2> QED
      BY <2>1, <2>2, <2>3, <2>4
  <1> DEFINE V(k) == Value(SubSeq(chars, 1, k))
  <1>5. ASSUME NEW k \in 1..g
        PROVE  /\ k = 1 => V(k) = a
               /\ k = 2 => V(k) = 10 * a + b
               /\ k = 3 => V(k) = 10 * (10 * a + b) + c
               /\ k = 4 => V(k) = 10 * (10 * (10 * a + b) + c) + e
    <2>1. k \in 1..4 /\ k <= Len(chars) /\ k <= w
      BY <1>w, LenProperties
    <2>2. \A i \in 1..k : chars[i] = p[i]
      BY <1>3
    <2>3. CASE k = 1
      <3>1. chars[1] = p[1]
        <4>1. 1 \in 1..k
          BY <2>3
        <4> QED
          BY <2>2, <4>1
      <3>2. chars[1] = a
        <4>1. w >= 1
          BY <2>1, <2>3
        <4> QED
          BY <1>x, <3>1, <4>1
      <3>3. V(k) = chars[1]
        BY <2>1, <2>3, PrefixValue
      <3> HIDE DEF V
      <3>4. V(k) = a
        BY <3>2, <3>3, Zenon
      <3> QED
        BY <2>3, <3>4
    <2>4. CASE k = 2
      <3>1. chars[1] = p[1] /\ chars[2] = p[2]
        <4>1. 1 \in 1..k /\ 2 \in 1..k
          BY <2>4
        <4> QED
          BY <2>2, <4>1
      <3>2. chars[1] = a /\ chars[2] = b
        <4>1. w >= 2
          BY <2>1, <2>4
        <4> QED
          BY <1>x, <3>1, <4>1
      <3>3. V(k) = 10 * chars[1] + chars[2]
        BY <2>1, <2>4, PrefixValue
      <3> HIDE DEF V
      <3>4. V(k) = 10 * a + b
        BY <3>2, <3>3, Zenon
      <3> QED
        BY <2>4, <3>4
    <2>5. CASE k = 3
      <3>1. chars[1] = p[1] /\ chars[2] = p[2] /\ chars[3] = p[3]
        <4>1. 1 \in 1..k /\ 2 \in 1..k /\ 3 \in 1..k
          BY <2>5
        <4> QED
          BY <2>2, <4>1
      <3>2. chars[1] = a /\ chars[2] = b /\ chars[3] = c
        <4>1. w >= 3
          BY <2>1, <2>5
        <4> QED
          BY <1>x, <3>1, <4>1
      <3>3. V(k) = 10 * (10 * chars[1] + chars[2]) + chars[3]
        BY <2>1, <2>5, PrefixValue
      <3> HIDE DEF V
      <3>4. V(k) = 10 * (10 * a + b) + c
        BY <3>2, <3>3, Zenon
      <3> QED
        BY <2>5, <3>4
    <2>6. CASE k = 4
      <3>1. chars[1] = p[1] /\ chars[2] = p[2] /\ chars[3] = p[3] /\ chars[4] = p[4]
        <4>1. 1 \in 1..k /\ 2 \in 1..k /\ 3 \in 1..k /\ 4 \in 1..k
          BY <2>6
        <4> QED
          BY <2>2, <4>1
      <3>2. chars[1] = a /\ chars[2] = b /\ chars[3] = c /\ chars[4] = e
        <4>1. w >= 4
          BY <2>1, <2>6
        <4> QED
          BY <1>x, <3>1, <4>1
      <3>3. V(k) = 10 * (10 * (10 * chars[1] + chars[2]) + chars[3]) + chars[4]
        BY <2>1, <2>6, PrefixValue
      <3> HIDE DEF V
      <3>4. V(k) = 10 * (10 * (10 * a + b) + c) + e
        BY <3>2, <3>3, Zenon
      <3> QED
        BY <2>6, <3>4
    <2> QED
      BY <2>1, <2>3, <2>4, <2>5, <2>6
  <1>6. ASSUME NEW k \in 1 .. g - 1 PROVE More(chars, k, hi)
    <2>1. k \in 1..g /\ k + 1 \in 1..g /\ k < w /\ k \in 1..3 /\ k < Len(chars)
      BY <1>w, LenProperties
    <2>2. V(k) * 10 <= hi
      <3>1. PICK u \in Nat : u = V(k) /\ u * 10 <= v
        <4>1. /\ k = 1 => V(k) = a
              /\ k = 2 => V(k) = 10 * a + b
              /\ k = 3 => V(k) = 10 * (10 * a + b) + c
          BY <1>5, <2>1
        <4> HIDE DEF V
        <4>2. CASE k = 1
          BY <1>y, <2>1, <4>1, <4>2
        <4>3. CASE k = 2
          BY <1>y, <2>1, <4>1, <4>3
        <4>4. CASE k = 3
          BY <1>y, <2>1, <4>1, <4>4
        <4> QED
          BY <2>1, <4>2, <4>3, <4>4
      <3> QED
        BY <1>1, <3>1
    <2>3. hi \div 10^k # 0
      <3>1. 10^1 = 10 /\ 10^2 = 100 /\ 10^3 = 1000
        OBVIOUS
      <3>2. CASE k = 1
        <4>1. hi >= 10
          BY <1>1, <2>1, <3>2
        <4>2. hi \div 10 # 0
          BY <4>1
        <4> QED
          BY <3>1, <3>2, <4>2
      <3>3. CASE k = 2
        <4>1. hi >= 100
          BY <1>1, <2>1, <3>3
        <4>2. hi \div 100 # 0
          BY <4>1
        <4> QED
          BY <3>1, <3>3, <4>2
      <3>4. CASE k = 3
        <4>1. hi >= 1000
          BY <1>1, <2>1, <3>4
        <4>2. hi \div 1000 # 0
          BY <4>1
        <4> QED
          BY <3>1, <3>4, <4>2
      <3> QED
        BY <2>1, <3>2, <3>3, <3>4
    <2>4. chars[k + 1] \in Digits
      BY <1>4, <2>1
    <2> QED
      BY <2>1, <2>2, <2>3, <2>4 DEF More
  <1>g. g = w \/ g = Len(chars) \/ chars[g + 1] \notin Digits
    BY <1>w
  <1>7. g = 4 \/ ~More(chars, g, hi)
    <2>1. CASE g = Len(chars) \/ chars[g + 1] \notin Digits
      BY <2>1, LenProperties DEF More
    <2>2. CASE g = w /\ g # 4
      <3>1. 10^1 = 10 /\ 10^2 = 100 /\ 10^3 = 1000
        OBVIOUS
      <3>2. hi \div 10^g = 0
        <4>1. CASE g = 1
          <5>1. hi \div 10 = 0
            BY <1>1, <2>2, <4>1
          <5> QED
            BY <3>1, <4>1, <5>1
        <4>2. CASE g = 2
          <5>0. hi <= 99
            BY <1>1, <2>2, <4>2
          <5>1. hi \div 100 = 0
            BY <5>0
          <5> QED
            BY <3>1, <4>2, <5>1
        <4>3. CASE g = 3
          <5>1. hi \div 1000 = 0
            BY <1>1, <2>2, <4>3
          <5> QED
            BY <3>1, <4>3, <5>1
        <4> QED
          BY <2>2, <4>1, <4>2, <4>3
      <3> QED
        BY <3>2 DEF More
    <2> QED
      BY <1>g, <2>1, <2>2
  <1>8. Number[d][1] = lo /\ Number[d][2] = hi
    BY <1>1
  <1>9. DigitsRead(chars, hi) = g
    BY <1>6, <1>7, DigitsReadIs
  <1>10. g = w => V(g) = v
    <2>1. g \in 1..g
      OBVIOUS
    <2>2. /\ g = 1 => V(g) = a
          /\ g = 2 => V(g) = 10 * a + b
          /\ g = 3 => V(g) = 10 * (10 * a + b) + c
          /\ g = 4 => V(g) = 10 * (10 * (10 * a + b) + c) + e
      BY <1>5, <2>1
    <2> HIDE DEF V
    <2> QED
      BY <1>y, <2>2
  <1>11. v \in lo..hi
    BY <1>1
  <1>12. g = WidthOf(d) => V(g) = FieldOf(d, t) /\ FieldOf(d, t) \in lo..hi
    <2> HIDE DEF V
    <2> QED
      BY <1>1, <1>w, <1>10, <1>11
  <1>13. chars[1] \in Digits
    BY <1>4
  <1> HIDE DEF V
  <1>14. DigitsRead(chars, Number[d][2]) = g
    BY <1>8, <1>9, Zenon
  <1>15. FieldOf(d, t) \in lo..hi <=> FieldOf(d, t) \in Number[d][1] .. Number[d][2]
    BY <1>8, Zenon
  <1> QED
    BY <1>12, <1>13, <1>14, <1>15, Zenon DEF V

-----------------------------------------------------------------------------
(***************************************************************************)
(* The format with its shorthands, and what the calls have read of it.     *)
(***************************************************************************)

LEMMA PieceIs ==
    ASSUME NEW d \in Plain \cup Shorthand
    PROVE  /\ PieceOf(d) \in Seq(Plain) /\ Len(PieceOf(d)) \in 1..5
           /\ PieceOf(d)[Len(PieceOf(d))] \notin {"Y", "j"} \cup Blanks \/ d \in Plain
           /\ d \in Plain => PieceOf(d) = <<d>> /\ d \notin DOMAIN Expansion
           /\ d \in Shorthand => PieceOf(d) = Expansion[d] /\ d \in DOMAIN Expansion
  <1>1. DOMAIN Expansion = {"D", "x", "R", "r", "T", "X", "c"}
    BY DEF Expansion
  <1>2. CASE d \in Plain
    <2>1. d \notin DOMAIN Expansion
      BY <1>1, <1>2 DEF Plain, Fields, Blanks, Literals
    <2>2. d \notin Shorthand
      BY <1>2 DEF Plain, Fields, Blanks, Literals, Shorthand
    <2>3. PieceOf(d) = <<d>>
      BY <2>1 DEF PieceOf
    <2> QED
      BY <1>2, <2>1, <2>2, <2>3
  <1>3. CASE d \in Shorthand
    <2>1. d \in DOMAIN Expansion /\ d \in {"R", "T", "X"}
      BY <1>1, <1>3 DEF Shorthand
    <2>2. Expansion[d] = IF d = "R" THEN <<"H", ":", "M">> ELSE <<"H", ":", "M", ":", "S">>
      BY <2>1 DEF Expansion
    <2>3. {"H", ":", "M", "S"} \subseteq Plain /\ {"M", "S"} \cap ({"Y", "j"} \cup Blanks) = {}
      BY DEF Plain, Fields, Blanks, Literals
    <2>4. PieceOf(d) = Expansion[d]
      BY <2>1 DEF PieceOf
    <2>5. d \notin Plain
      BY <2>1 DEF Plain, Fields, Blanks, Literals
    <2>6. CASE d = "R"
      <3>1. PieceOf(d) = <<"H", ":", "M">>
        BY <2>2, <2>4, <2>6
      <3>2. PieceOf(d) \in Seq(Plain) /\ Len(PieceOf(d)) = 3 /\ PieceOf(d)[3] = "M"
        BY <2>3, <3>1
      <3> QED
        BY <2>1, <2>3, <2>4, <2>5, <3>2
    <2>7. CASE d # "R"
      <3>1. PieceOf(d) = <<"H", ":", "M", ":", "S">>
        BY <2>2, <2>4, <2>7
      <3>2. PieceOf(d) \in Seq(Plain) /\ Len(PieceOf(d)) = 5 /\ PieceOf(d)[5] = "S"
        BY <2>3, <3>1
      <3> QED
        BY <2>1, <2>3, <2>4, <2>5, <3>2
    <2> QED
      BY <2>6, <2>7
  <1> QED
    BY <1>2, <1>3

\* Where the pieces of a format end in the expanded one.
LEMMA PiecesLaid ==
    ASSUME NEW fmt \in Seq(Plain \cup Shorthand)
    PROVE  /\ Pieces(fmt) \in Seq(Seq(Plain)) /\ Len(Pieces(fmt)) = Len(fmt)
           /\ \A i \in 1..Len(fmt) : Pieces(fmt)[i] = PieceOf(fmt[i])
           /\ Expanded(fmt) = FlattenSeq(Pieces(fmt)) /\ Expanded(fmt) \in Seq(Plain)
  <1>1. PICK n \in Nat : n = Len(fmt) /\ fmt \in [1..n -> Plain \cup Shorthand]
    BY LenProperties
  <1>2. DOMAIN fmt = 1..n
    BY <1>1
  <1>3. Pieces(fmt) \in [1..n -> Seq(Plain)]
    BY <1>1, <1>2, PieceIs DEF Pieces
  <1>4. Pieces(fmt) \in Seq(Seq(Plain)) /\ Len(Pieces(fmt)) = n
    BY <1>3, FunctionIsSeq
  <1>5. Expanded(fmt) = FlattenSeq(Pieces(fmt))
    BY DEF Expanded, Pieces, PieceOf
  <1>6. \A i \in 1..n : Pieces(fmt)[i] = PieceOf(fmt[i])
    BY <1>2 DEF Pieces
  <1> QED
    BY <1>1, <1>4, <1>5, <1>6, FlattenSeqType

\* A format without shorthands is its own expansion.
LEMMA ExpandedPlain ==
    ASSUME NEW fmt \in Seq(Plain)
    PROVE  Expanded(fmt) = fmt
  <1>1. PICK n \in Nat : n = Len(fmt) /\ fmt \in [1..n -> Plain]
    BY LenProperties
  <1>2. fmt \in [1..n -> Plain \cup Shorthand]
    BY <1>1
  <1>3. fmt \in Seq(Plain \cup Shorthand)
    BY <1>2, FunctionIsSeq
  <1>4. PICK off : off = EndsOf(Pieces(fmt))
    OBVIOUS
  <1>5. PICK s : s = Expanded(fmt)
    OBVIOUS
  <1>6. \A i \in 1..n : Pieces(fmt)[i] = <<fmt[i]>>
    <2> SUFFICES ASSUME NEW i \in 1..n PROVE Pieces(fmt)[i] = <<fmt[i]>>
      OBVIOUS
    <2>1. fmt[i] \in Plain
      BY <1>1
    <2>2. Pieces(fmt)[i] = PieceOf(fmt[i])
      BY <1>1, <1>3, PiecesLaid
    <2> QED
      BY <2>1, <2>2, PieceIs
  <1>7. /\ off \in [0..n -> Nat] /\ off[0] = 0 /\ off[n] = Len(s)
        /\ \A i \in 1..n : off[i] = off[i - 1] + 1 /\ s[off[i - 1] + 1] = fmt[i]
    <2>1. Laid(off, Pieces(fmt)) /\ Len(Pieces(fmt)) = n /\ s = FlattenSeq(Pieces(fmt))
      BY <1>1, <1>3, <1>4, <1>5, PiecesLaid, FlattenSeqLaid
    <2>2. \A i \in 1..n : Len(Pieces(fmt)[i]) = 1 /\ 1 \in 1..Len(Pieces(fmt)[i])
                          /\ Pieces(fmt)[i][1] = fmt[i]
      <3> SUFFICES ASSUME NEW i \in 1..n, NEW b, b = Pieces(fmt)[i]
                   PROVE  Len(b) = 1 /\ 1 \in 1..Len(b) /\ b[1] = fmt[i]
        BY Zenon
      <3>1. b = <<fmt[i]>>
        BY <1>6
      <3> QED
        BY <3>1
    <2> QED
      BY <2>1, <2>2 DEF Laid
  <1>8. \A i \in 1..n : off[i] = i
    <2> DEFINE Good == {i \in Nat : off[i] = i}
    <2>1. ASSUME NEW i \in 1..n, i = 1 \/ (i - 1) \in Good PROVE i \in Good
      <3>1. off[i - 1] = i - 1
        BY <1>7, <2>1
      <3>2. off[i] = off[i - 1] + 1
        BY <1>7
      <3> QED
        BY <3>1, <3>2
    <2>2. Good \in SUBSET Nat
      OBVIOUS
    <2> HIDE DEF Good
    <2>3. \A i \in 1..n : i \in Good
      BY <2>1, <2>2, AllUpTo
    <2> QED
      BY <2>3 DEF Good
  <1>9. Len(s) = n
    <2>1. n = 0 \/ n \in 1..n
      OBVIOUS
    <2> QED
      BY <1>7, <1>8, <2>1
  <1>10. \A i \in 1..n : s[i] = fmt[i]
    <2> SUFFICES ASSUME NEW i \in 1..n PROVE s[i] = fmt[i]
      OBVIOUS
    <2>1. off[i - 1] = i - 1
      BY <1>7, <1>8
    <2>2. s[off[i - 1] + 1] = fmt[i] /\ i - 1 + 1 = i
      BY <1>7
    <2> QED
      BY <2>1, <2>2
  <1>11. s \in Seq(Plain)
    BY <1>3, <1>5, PiecesLaid
  <1>12. s \in [1..n -> Plain]
    BY <1>9, <1>11, LenProperties
  <1>13. s = fmt
    BY <1>1, <1>10, <1>12
  <1> QED
    BY <1>5, <1>13

\* The last of what a format of these prints is neither a year, nor a day of the
\* year, nor a blank.
LEMMA ExpandedLast ==
    ASSUME NEW fmt \in PlainLayouts
    PROVE  /\ Expanded(fmt) \in Seq(Plain) /\ Len(Expanded(fmt)) \in Nat \ {0}
           /\ Expanded(fmt)[Len(Expanded(fmt))] \notin {"Y", "j"} \cup Blanks
           /\ Flat(fmt) = Expanded(fmt)
  <1>1. fmt \in Seq(Plain \cup Shorthand) /\ fmt # <<>>
        /\ fmt[Len(fmt)] \notin {"Y", "j"} \cup Blanks
    BY DEF PlainLayouts
  <1>2. PICK n \in Nat : n = Len(fmt) /\ n # 0 /\ fmt \in [1..n -> Plain \cup Shorthand]
    BY <1>1, EmptySeq, LenProperties
  <1>3. PICK off : off = EndsOf(Pieces(fmt))
    OBVIOUS
  <1>4. PICK s : s = Expanded(fmt)
    OBVIOUS
  <1>5. s \in Seq(Plain) /\ s = FlattenSeq(Pieces(fmt)) /\ Pieces(fmt) \in Seq(Seq(Plain))
        /\ Len(Pieces(fmt)) = n
    BY <1>1, <1>2, <1>4, PiecesLaid
  <1>6. PICK d, b : d = fmt[n] /\ b = PieceOf(d)
    OBVIOUS
  <1>7. d \in Plain \cup Shorthand /\ Pieces(fmt)[n] = b
    BY <1>1, <1>2, <1>6, PiecesLaid
  <1>8. PICK k \in 1..5 : k = Len(b) /\ b[k] \notin {"Y", "j"} \cup Blanks
    <2>1. Len(b) \in 1..5 /\ (b[Len(b)] \notin {"Y", "j"} \cup Blanks \/ d \in Plain)
          /\ (d \in Plain => b = <<d>>)
      BY <1>6, <1>7, PieceIs
    <2>2. d \notin {"Y", "j"} \cup Blanks
      BY <1>1, <1>2, <1>6
    <2>3. CASE d \in Plain
      <3>1. Len(b) = 1 /\ b[1] = d
        BY <2>1, <2>3
      <3> QED
        BY <2>2, <3>1
    <2> QED
      BY <2>1, <2>3
  <1>9. Laid(off, Pieces(fmt))
    BY <1>3, <1>5, FlattenSeqLaid
  <1>10. /\ off \in [0..n -> Nat] /\ off[n] = Len(s) /\ off[n] = off[n - 1] + k
         /\ s[off[n - 1] + k] = b[k]
    <2>1. n \in 1..n /\ k \in 1..k
      BY <1>2
    <2> QED
      BY <1>5, <1>7, <1>8, <1>9, <2>1 DEF Laid
  <1>11. Len(s) \in Nat \ {0} /\ s[Len(s)] = b[k]
    <2>1. off[n - 1] \in Nat
      BY <1>2, <1>10
    <2> QED
      BY <1>10, <2>1
  <1>12. Flat(fmt) = s
    BY <1>4, <1>5, ExpandedPlain DEF Flat
  <1> QED
    BY <1>4, <1>5, <1>8, <1>11, <1>12

\* The conversion that is next in the expanded format, and where it is.
LEMMA NextInLayout ==
    ASSUME NEW fmt \in PlainLayouts, NEW ends, ends = EndsOf(Pieces(fmt)),
           NEW e, e = Expanded(fmt)
    PROVE  /\ ends \in [0..Len(fmt) -> Nat] /\ ends[0] = 0 /\ ends[Len(fmt)] = Len(e)
           /\ \A i \in 1..Len(fmt) :
                 /\ fmt[i] \in Plain \cup Shorthand
                 /\ ends[i] = ends[i - 1] + Len(PieceOf(fmt[i]))
                 /\ \A j \in 1..Len(PieceOf(fmt[i])) : e[ends[i - 1] + j] = PieceOf(fmt[i])[j]
           /\ \A i \in 0..Len(fmt) : ends[i] <= Len(e)
  <1>1. fmt \in Seq(Plain \cup Shorthand)
    BY DEF PlainLayouts
  <1>2. /\ Pieces(fmt) \in Seq(Seq(Plain)) /\ Len(Pieces(fmt)) = Len(fmt)
        /\ \A i \in 1..Len(fmt) : Pieces(fmt)[i] = PieceOf(fmt[i])
        /\ e = FlattenSeq(Pieces(fmt))
    BY <1>1, PiecesLaid
  <1>3. Laid(ends, Pieces(fmt)) /\ \A i \in 0..Len(fmt) : ends[i] <= ends[Len(fmt)]
    <2>1. Laid(ends, Pieces(fmt))
      BY <1>2, FlattenSeqLaid
    <2>2. \A i \in 0..Len(Pieces(fmt)) : ends[i] <= ends[Len(Pieces(fmt))]
      BY <1>2, EndsGrow
    <2> QED
      BY <1>2, <2>1, <2>2
  <1>4. PICK n : n = Len(fmt) /\ n \in Nat
    BY <1>1, LenProperties
  <1>a. PICK ps, m : ps = Pieces(fmt) /\ m = Len(e)
    OBVIOUS
  <1>5. /\ Len(ps) = n /\ FlattenSeq(ps) = e /\ \A i \in 1..n : ps[i] = PieceOf(fmt[i])
    BY <1>2, <1>4, <1>a, Zenon
  <1>6. Laid(ends, ps)
    BY <1>3, <1>a
  <1>7. /\ ends \in [0..n -> Nat] /\ ends[0] = 0 /\ ends[n] = m
        /\ \A i \in 1..n : /\ ends[i] = ends[i - 1] + Len(ps[i])
                           /\ \A j \in 1..Len(ps[i]) : e[ends[i - 1] + j] = ps[i][j]
    <2>1. /\ ends \in [0..Len(ps) -> Nat]
          /\ ends[0] = 0 /\ ends[Len(ps)] = Len(FlattenSeq(ps))
          /\ \A i \in 1..Len(ps) :
                /\ ends[i] = ends[i - 1] + Len(ps[i])
                /\ \A j \in 1..Len(ps[i]) : FlattenSeq(ps)[ends[i - 1] + j] = ps[i][j]
      BY <1>6, Zenon DEF Laid
    <2> QED
      BY <1>5, <1>a, <2>1
  <1>8. \A i \in 1..n : /\ ends[i] = ends[i - 1] + Len(PieceOf(fmt[i]))
                        /\ \A j \in 1..Len(PieceOf(fmt[i])) :
                              e[ends[i - 1] + j] = PieceOf(fmt[i])[j]
    <2> SUFFICES ASSUME NEW i \in 1..n
                 PROVE  /\ ends[i] = ends[i - 1] + Len(PieceOf(fmt[i]))
                        /\ \A j \in 1..Len(PieceOf(fmt[i])) :
                              e[ends[i - 1] + j] = PieceOf(fmt[i])[j]
      OBVIOUS
    <2>1. ps[i] = PieceOf(fmt[i])
      BY <1>5
    <2>2. /\ ends[i] = ends[i - 1] + Len(ps[i])
          /\ \A j \in 1..Len(ps[i]) : e[ends[i - 1] + j] = ps[i][j]
      BY <1>7
    <2> QED
      BY <2>1, <2>2, Zenon
  <1>9. \A i \in 1..n : fmt[i] \in Plain \cup Shorthand
    BY <1>1, <1>4, LenProperties
  <1>10. \A i \in 0..n : ends[i] <= m
    BY <1>3, <1>4, <1>a, <1>7, Zenon
  <1> QED
    BY <1>4, <1>a, <1>7, <1>8, <1>9, <1>10, Zenon

\* The first of what is left.
LEMMA FirstLeft ==
    ASSUME NEW S, NEW f \in Seq(S), NEW s, NEW n \in Nat, n = Len(s), NEW q \in Nat,
           Suffix(f, s, q)
    PROVE  /\ f = <<>> <=> q = n
           /\ f # <<>> => /\ q + 1 \in 1..n /\ Head(f) = s[q + 1]
                          /\ Suffix(Tail(f), s, q + 1)
  <1>1. PICK m \in Nat : m = Len(f)
    BY LenProperties
  <1>2. m = n - q /\ q \in 0..n /\ \A i \in 1..m : f[i] = s[q + i]
    BY <1>1 DEF Suffix
  <1>3. f = <<>> <=> m = 0
    BY <1>1, EmptySeq
  <1>4. f = <<>> <=> q = n
    BY <1>2, <1>3
  <1>5. ASSUME f # <<>>
        PROVE  q + 1 \in 1..n /\ Head(f) = s[q + 1] /\ Suffix(Tail(f), s, q + 1)
    <2>1. m # 0 /\ 1 \in 1..m /\ q + 1 \in 1..n /\ m - 1 \in Nat
      BY <1>2, <1>3, <1>5
    <2>2. Head(f) = f[1] /\ Len(Tail(f)) = m - 1 /\ \A i \in 1 .. m - 1 : Tail(f)[i] = f[i + 1]
      BY <1>1, <1>5, HeadTailProperties
    <2>3. ASSUME NEW i \in 1 .. m - 1 PROVE Tail(f)[i] = s[(q + 1) + i]
      <3>1. i + 1 \in 1..m /\ q + (i + 1) = (q + 1) + i
        BY <1>2
      <3> QED
        BY <1>2, <2>2, <3>1
    <2>4. m - 1 = n - (q + 1) /\ q + 1 \in 0..n
      BY <1>2, <2>1
    <2>5. Suffix(Tail(f), s, q + 1)
      BY <2>2, <2>3, <2>4 DEF Suffix
    <2> QED
      BY <1>2, <2>1, <2>2, <2>5
  <1> QED
    BY <1>4, <1>5

LEMMA FrontPlus ==
    ASSUME NEW S, NEW s \in Seq(S), s # <<>>, NEW add \in Seq(S)
    PROVE  /\ Len(Front(s)) = Len(s) - 1 /\ \A i \in 1 .. Len(s) - 1 : Front(s)[i] = s[i]
           /\ Len(Front(s) \o add) = Len(s) - 1 + Len(add)
           /\ \A i \in 1 .. Len(s) - 1 : (Front(s) \o add)[i] = s[i]
           /\ \A i \in 1..Len(add) : (Front(s) \o add)[Len(s) - 1 + i] = add[i]
  <1>1. PICK n : n = Len(s) /\ n \in Nat
    BY LenProperties
  <1>2. n - 1 \in Nat /\ \A i \in 1 .. n - 1 : s[i] \in S
    BY <1>1, EmptySeq, LenProperties
  <1>3. PICK f : f = Front(s)
    OBVIOUS
  <1>4. f = SubSeq(s, 1, n - 1)
    BY <1>1, <1>3 DEF Front
  <1>5. /\ f \in Seq(S) /\ Len(f) = n - 1 /\ \A i \in 1 .. n - 1 : f[i] = s[i]
    <2>1. /\ SubSeq(s, 1, n - 1) \in Seq(S)
          /\ Len(SubSeq(s, 1, n - 1)) = IF 1 <= n - 1 THEN n - 1 - 1 + 1 ELSE 0
          /\ \A i \in 1 .. n - 1 - 1 + 1 : SubSeq(s, 1, n - 1)[i] = s[1 + i - 1]
      BY <1>2, SubSeqProperties
    <2> QED
      BY <1>2, <1>4, <2>1
  <1>6. /\ Len(f \o add) = n - 1 + Len(add)
        /\ \A i \in 1 .. n - 1 : (f \o add)[i] = f[i]
        /\ \A i \in 1..Len(add) : (f \o add)[n - 1 + i] = add[i]
    <2>1. /\ Len(f \o add) = Len(f) + Len(add)
          /\ \A x \in 1..Len(f) : (f \o add)[x] = f[x]
          /\ \A x \in 1..Len(add) : (f \o add)[Len(f) + x] = add[x]
      <3>1. f \in Seq(S)
        BY <1>5
      <3> QED
        BY <3>1, TwoParts
    <2>2. Len(f) = n - 1
      BY <1>5
    <2> QED
      BY <2>1, <2>2
  <1>7. \A i \in 1 .. n - 1 : (f \o add)[i] = s[i]
    BY <1>5, <1>6
  <1> QED
    BY <1>1, <1>3, <1>5, <1>6, <1>7, Zenon

LEMMA PlainNotShorthand == \A d \in Plain : d \notin Shorthand
  BY DEF Plain, Fields, Blanks, Literals, Shorthand

\* What is next, f being left of the format.
LEMMA NextPiece ==
    ASSUME NEW fmt \in PlainLayouts, NEW f \in Seq(Characters), NEW q \in 0..Len(fmt),
           Suffix(f, fmt, q), NEW p, p = EndsOf(Pieces(fmt))[q], NEW e, e = Expanded(fmt)
    PROVE  /\ p \in 0..Len(e) /\ (f = <<>> => p = Len(e))
           /\ f # <<>> => /\ q + 1 \in 1..Len(fmt) /\ Head(f) = fmt[q + 1]
                          /\ Head(f) \in Plain \cup Shorthand
                          /\ Suffix(Tail(f), fmt, q + 1)
           /\ f # <<>> /\ Head(f) \in Plain =>
                 /\ p + 1 \in 1..Len(e) /\ Head(f) = e[p + 1]
                 /\ p + 1 = EndsOf(Pieces(fmt))[q + 1]
  <1>1. PICK L : L = Len(fmt) /\ L \in Nat
    <2>1. fmt \in Seq(Plain \cup Shorthand)
      BY DEF PlainLayouts
    <2> QED
      BY <2>1, LenProperties
  <1>2. PICK n : n = Len(e) /\ n \in Nat
    <2>1. Len(Expanded(fmt)) \in Nat
      BY ExpandedLast
    <2> QED
      BY <2>1
  <1>3. PICK ends : ends = EndsOf(Pieces(fmt))
    OBVIOUS
  <1>4. /\ ends \in [0..L -> Nat] /\ ends[0] = 0 /\ ends[L] = n
        /\ \A i \in 1..L : /\ fmt[i] \in Plain \cup Shorthand
                           /\ ends[i] = ends[i - 1] + Len(PieceOf(fmt[i]))
                           /\ \A j \in 1..Len(PieceOf(fmt[i])) :
                                 e[ends[i - 1] + j] = PieceOf(fmt[i])[j]
        /\ \A i \in 0..L : ends[i] <= n
    <2>1. /\ ends \in [0..Len(fmt) -> Nat] /\ ends[0] = 0 /\ ends[Len(fmt)] = Len(e)
          /\ \A i \in 1..Len(fmt) :
                /\ fmt[i] \in Plain \cup Shorthand
                /\ ends[i] = ends[i - 1] + Len(PieceOf(fmt[i]))
                /\ \A j \in 1..Len(PieceOf(fmt[i])) : e[ends[i - 1] + j] = PieceOf(fmt[i])[j]
          /\ \A i \in 0..Len(fmt) : ends[i] <= Len(e)
      BY <1>3, NextInLayout
    <2> QED
      BY <1>1, <1>2, <2>1
  <1>6. q \in 0..L /\ q \in Nat /\ p = ends[q]
    BY <1>1, <1>3
  <1>7. /\ f = <<>> <=> q = L
        /\ f # <<>> => q + 1 \in 1..L /\ Head(f) = fmt[q + 1] /\ Suffix(Tail(f), fmt, q + 1)
    BY <1>1, <1>6, FirstLeft
  <1>8. p \in 0..n
    <2>1. ends[q] <= n /\ ends[q] \in Nat
      BY <1>1, <1>4, <1>6
    <2> QED
      BY <1>2, <1>6, <2>1
  <1>9. f = <<>> => p = n
    BY <1>4, <1>6, <1>7, Zenon
  <1>10. f # <<>> => /\ q + 1 \in 1..L /\ Head(f) = fmt[q + 1] /\ Head(f) \in Plain \cup Shorthand
                     /\ Suffix(Tail(f), fmt, q + 1)
    BY <1>4, <1>7
  <1>11. ASSUME f # <<>>, Head(f) \in Plain
         PROVE  p + 1 \in 1..n /\ Head(f) = e[p + 1] /\ p + 1 = ends[q + 1]
    <2>1. PICK i : i = q + 1 /\ i \in 1..L /\ i \in 0..L /\ i - 1 = q
      BY <1>6, <1>10, <1>11
    <2>2. PICK d : d = Head(f) /\ d = fmt[i] /\ d \in Plain
      BY <1>10, <1>11, <2>1
    <2>3. PieceOf(d) = <<d>>
      BY <2>2, PieceIs
    <2>4. Len(<<d>>) = 1 /\ <<d>>[1] = d /\ 1 \in 1..1
      OBVIOUS
    <2>5. ends[i] = ends[q] + Len(PieceOf(d))
          /\ \A j \in 1..Len(PieceOf(d)) : e[ends[q] + j] = PieceOf(d)[j]
      BY <1>4, <2>1, <2>2, Zenon
    <2>6. ends[i] = p + 1 /\ e[p + 1] = d
      BY <1>6, <2>3, <2>4, <2>5, Zenon
    <2>7. ends[i] <= n
      BY <1>4, <2>1
    <2> QED
      BY <1>2, <1>8, <2>1, <2>2, <2>6, <2>7
  <1> QED
    BY <1>1, <1>2, <1>3, <1>8, <1>9, <1>10, <1>11, Zenon

LEMMA FramesLeft ==
    ASSUME NEW fs \in Seq(FrameType), fs # <<>>, NEW new \in FrameType
    PROVE  /\ Len(fs) = 1 => /\ Len(Front(fs) \o <<new>>) = 1
                             /\ (Front(fs) \o <<new>>)[1] = new
           /\ Len(fs) = 2 => /\ Len(Front(fs)) = 1 /\ Front(fs)[1] = fs[1]
                             /\ Len(Front(fs) \o <<new>>) = 2
                             /\ (Front(fs) \o <<new>>)[1] = fs[1]
                             /\ (Front(fs) \o <<new>>)[2] = new
  <1>1. PICK n : n = Len(fs) /\ n \in Nat
    BY LenProperties
  <1>2. PICK one : one = <<new>>
    OBVIOUS
  <1>3. one \in Seq(FrameType) /\ Len(one) = 1 /\ one[1] = new
    BY <1>2
  <1>4. PICK f, a : f = Front(fs) /\ a = f \o one
    OBVIOUS
  <1>5. /\ Len(f) = n - 1 /\ \A i \in 1 .. n - 1 : f[i] = fs[i]
        /\ Len(a) = n - 1 + Len(one) /\ \A i \in 1 .. n - 1 : a[i] = fs[i]
        /\ \A i \in 1..Len(one) : a[n - 1 + i] = one[i]
    <2>1. one \in Seq(FrameType)
      BY <1>3
    <2>2. /\ Len(Front(fs)) = Len(fs) - 1 /\ \A i \in 1 .. Len(fs) - 1 : Front(fs)[i] = fs[i]
          /\ Len(Front(fs) \o one) = Len(fs) - 1 + Len(one)
          /\ \A i \in 1 .. Len(fs) - 1 : (Front(fs) \o one)[i] = fs[i]
          /\ \A i \in 1..Len(one) : (Front(fs) \o one)[Len(fs) - 1 + i] = one[i]
      BY <2>1, FrontPlus
    <2> QED
      BY <1>1, <1>4, <2>2, Zenon
  <1>6. CASE n = 1
    <2>1. Len(a) = 1 /\ a[1] = new
      BY <1>3, <1>5, <1>6
    <2> QED
      BY <1>1, <1>2, <1>4, <1>6, <2>1
  <1>7. CASE n = 2
    <2>1. 1 \in 1 .. n - 1 /\ 1 \in 1..1 /\ n - 1 + 1 = 2 /\ n - 1 = 1
      BY <1>7
    <2>2. Len(a) = 2 /\ a[1] = fs[1] /\ a[2] = new /\ Len(f) = 1 /\ f[1] = fs[1]
      BY <1>3, <1>5, <2>1
    <2> QED
      BY <1>1, <1>2, <1>4, <1>7, <2>2
  <1> QED
    BY <1>1, <1>6, <1>7

LEMMA CalledLeft ==
    ASSUME NEW fs \in Seq(FrameType), Len(fs) = 1, NEW two \in Seq(FrameType), Len(two) = 2
    PROVE  /\ Len(Front(fs) \o two) = 2
           /\ (Front(fs) \o two)[1] = two[1] /\ (Front(fs) \o two)[2] = two[2]
  <1>1. fs # <<>>
    BY EmptySeq
  <1>2. /\ Len(Front(fs) \o two) = Len(fs) - 1 + Len(two)
        /\ \A i \in 1..Len(two) : (Front(fs) \o two)[Len(fs) - 1 + i] = two[i]
    BY <1>1, FrontPlus
  <1>3. PICK r : r = Front(fs) \o two
    OBVIOUS
  <1>4. Len(r) = 1 - 1 + 2 /\ \A i \in 1..2 : r[1 - 1 + i] = two[i]
    BY <1>2, <1>3, Zenon
  <1>5. 1 \in 1..2 /\ 2 \in 1..2 /\ 1 - 1 + 1 = 1 /\ 1 - 1 + 2 = 2
    OBVIOUS
  <1> QED
    BY <1>3, <1>4, <1>5

\* What may be next when the calls fs have read the first p conversions of fmt,
\* which is e in full: f is left of the format of the call that runs.
Forward(fs, fmt, p, e, f) ==
    /\ Last(fs).alt = {} /\ p \in 0..Len(e) /\ f \in Seq(Characters)
    /\ f # <<>> => Head(f) \in Plain \cup Shorthand
    /\ f # <<>> /\ Head(f) \in Plain =>
          /\ p + 1 \in 1..Len(e) /\ Head(f) = e[p + 1]
          /\ \A new \in FrameType : new.alt = {} /\ new.fmt = Tail(f)
                => ReadUpTo(Front(fs) \o <<new>>, fmt, p + 1)
    /\ f # <<>> /\ Head(f) \in Shorthand =>
          \A two \in Seq(FrameType) :
             Len(two) = 2 /\ two[1].alt = {} /\ two[1].fmt = Tail(f)
             /\ two[2].alt = {} /\ two[2].fmt = Expansion[Head(f)]
                => ReadUpTo(Front(fs) \o two, fmt, p)
    /\ f = <<>> => /\ Len(fs) = 1 => p = Len(e)
                   /\ Len(fs) # 1 => ReadUpTo(Front(fs), fmt, p)

LEMMA NextConversion ==
    ASSUME NEW fs \in Seq(FrameType), NEW fmt \in PlainLayouts, NEW p, ReadUpTo(fs, fmt, p),
           NEW e, e = Expanded(fmt), NEW f, f = Last(fs).fmt
    PROVE  Forward(fs, fmt, p, e, f)
  <1>1. PICK ends : ends = EndsOf(Pieces(fmt))
    OBVIOUS
  <1>2. Len(fs) \in Nat /\ DOMAIN fs = 1..Len(fs) /\ \A i \in 1..Len(fs) : fs[i] \in FrameType
    BY LenProperties
  <1>3. \A x \in FrameType : x.fmt \in Seq(Characters)
    BY DEF FrameType
  <1>4. PICK n : n = Len(e) /\ n \in Nat
    <2>1. Len(Expanded(fmt)) \in Nat
      BY ExpandedLast
    <2> QED
      BY <2>1
  <1>5. ASSUME NEW q \in 0..Len(fmt), Len(fs) = 1, fs[1].alt = {},
               Suffix(fs[1].fmt, fmt, q), p = ends[q]
        PROVE  /\ Last(fs).alt = {} /\ p \in 0..n /\ f \in Seq(Characters)
               /\ f # <<>> => Head(f) \in Plain \cup Shorthand
               /\ f # <<>> /\ Head(f) \in Plain =>
                     /\ p + 1 \in 1..n /\ Head(f) = e[p + 1]
                     /\ \A new \in FrameType : new.alt = {} /\ new.fmt = Tail(f)
                           => ReadUpTo(Front(fs) \o <<new>>, fmt, p + 1)
               /\ f # <<>> /\ Head(f) \in Shorthand =>
                     \A two \in Seq(FrameType) :
                        Len(two) = 2 /\ two[1].alt = {} /\ two[1].fmt = Tail(f)
                        /\ two[2].alt = {} /\ two[2].fmt = Expansion[Head(f)]
                           => ReadUpTo(Front(fs) \o two, fmt, p)
               /\ f = <<>> => p = n
    <2>1. fs # <<>> /\ 1 \in 1..Len(fs)
      BY <1>2, <1>5, EmptySeq
    <2>2. f = fs[1].fmt /\ f \in Seq(Characters) /\ Last(fs).alt = {}
      BY <1>2, <1>3, <1>5, <2>1 DEF Last
    <2>3. Suffix(f, fmt, q)
      BY <1>5, <2>2
    <2>4. p = EndsOf(Pieces(fmt))[q]
      BY <1>1, <1>5
    <2>5. /\ p \in 0..n /\ (f = <<>> => p = n)
          /\ f # <<>> => /\ q + 1 \in 1..Len(fmt) /\ Head(f) = fmt[q + 1]
                         /\ Head(f) \in Plain \cup Shorthand
                         /\ Suffix(Tail(f), fmt, q + 1)
          /\ f # <<>> /\ Head(f) \in Plain =>
                /\ p + 1 \in 1..n /\ Head(f) = e[p + 1]
                /\ p + 1 = EndsOf(Pieces(fmt))[q + 1]
      <3>1. /\ p \in 0..Len(e) /\ (f = <<>> => p = Len(e))
            /\ f # <<>> => /\ q + 1 \in 1..Len(fmt) /\ Head(f) = fmt[q + 1]
                           /\ Head(f) \in Plain \cup Shorthand
                           /\ Suffix(Tail(f), fmt, q + 1)
            /\ f # <<>> /\ Head(f) \in Plain =>
                  /\ p + 1 \in 1..Len(e) /\ Head(f) = e[p + 1]
                  /\ p + 1 = EndsOf(Pieces(fmt))[q + 1]
        BY <2>2, <2>3, <2>4, NextPiece
      <3> QED
        BY <1>4, <3>1, Zenon
    <2>6. ASSUME f # <<>>, Head(f) \in Plain,
                 NEW new \in FrameType, new.alt = {}, new.fmt = Tail(f)
          PROVE  ReadUpTo(Front(fs) \o <<new>>, fmt, p + 1)
      <3>1. PICK r : r = Front(fs) \o <<new>>
        OBVIOUS
      <3>2. Len(r) = 1 /\ r[1] = new
        BY <1>5, <2>1, <3>1, FramesLeft
      <3>3. q + 1 \in 0..Len(fmt)
        BY <2>5, <2>6
      <3>4. Suffix(r[1].fmt, fmt, q + 1) /\ p + 1 = EndsOf(Pieces(fmt))[q + 1] /\ r[1].alt = {}
        BY <2>5, <2>6, <3>2
      <3> QED
        BY <3>1, <3>2, <3>3, <3>4 DEF ReadUpTo
    <2>7. ASSUME f # <<>>, Head(f) \in Shorthand, NEW two \in Seq(FrameType), Len(two) = 2,
                 two[1].alt = {}, two[1].fmt = Tail(f), two[2].alt = {},
                 two[2].fmt = Expansion[Head(f)]
          PROVE  ReadUpTo(Front(fs) \o two, fmt, p)
      <3>1. PICK r, x : r = Front(fs) \o two /\ x = Expansion[Head(f)]
        OBVIOUS
      <3>2. Len(r) = 2 /\ r[1] = two[1] /\ r[2] = two[2]
        BY <1>5, <2>7, <3>1, CalledLeft
      <3>3. q + 1 \in 1..Len(fmt) /\ q + 1 - 1 = q
        BY <2>5, <2>7
      <3>4. Suffix(x, x, 0)
        <4>1. x \in Seq(Plain)
          BY <2>7, <3>1, PieceIs
        <4>2. PICK m : m = Len(x) /\ m \in Nat
          BY <4>1, LenProperties
        <4> QED
          BY <4>2 DEF Suffix
      <3>5. p = EndsOf(Pieces(fmt))[q + 1 - 1] + 0
        <4>1. p \in Nat
          BY <1>4, <2>5
        <4> QED
          BY <2>4, <3>3, <4>1
      <3>6. /\ fmt[q + 1] \in Shorthand /\ Suffix(r[1].fmt, fmt, q + 1)
            /\ Suffix(r[2].fmt, Expansion[fmt[q + 1]], 0) /\ r[1].alt = {} /\ r[2].alt = {}
        BY <2>5, <2>7, <3>1, <3>2, <3>4
      <3>7. PICK i, z : i = q + 1 /\ z = 0
        OBVIOUS
      <3>8. /\ i \in 1..Len(fmt) /\ z \in 0..5 /\ p = EndsOf(Pieces(fmt))[i - 1] + z
            /\ fmt[i] \in Shorthand /\ Suffix(r[1].fmt, fmt, i)
            /\ Suffix(r[2].fmt, Expansion[fmt[i]], z)
        BY <3>3, <3>5, <3>6, <3>7
      <3>9. ReadUpTo(r, fmt, p)
        BY <3>2, <3>6, <3>8 DEF ReadUpTo
      <3> QED
        BY <3>1, <3>9
    <2> QED
      BY <2>2, <2>5, <2>6, <2>7, Zenon
  <1>6. ASSUME NEW q \in 1..Len(fmt), NEW r \in 0..5, Len(fs) = 2, fs[1].alt = {},
               fs[2].alt = {}, fmt[q] \in Shorthand, Suffix(fs[1].fmt, fmt, q),
               Suffix(fs[2].fmt, Expansion[fmt[q]], r), p = ends[q - 1] + r
        PROVE  /\ Last(fs).alt = {} /\ p \in 0..n /\ f \in Seq(Characters)
               /\ f # <<>> => Head(f) \in Plain
               /\ f # <<>> =>
                     /\ p + 1 \in 1..n /\ Head(f) = e[p + 1]
                     /\ \A new \in FrameType : new.alt = {} /\ new.fmt = Tail(f)
                           => ReadUpTo(Front(fs) \o <<new>>, fmt, p + 1)
               /\ f = <<>> => ReadUpTo(Front(fs), fmt, p)
    <2>1. fs # <<>> /\ 2 \in 1..Len(fs)
      <3>1. Len(fs) = 2
        BY <1>6
      <3> QED
        BY <3>1, EmptySeq
    <2>2. f = fs[2].fmt /\ f \in Seq(Characters) /\ Last(fs).alt = {}
      BY <1>2, <1>3, <1>6, <2>1 DEF Last
    <2>3. PICK x : x = Expansion[fmt[q]]
      OBVIOUS
    <2>4. x = PieceOf(fmt[q]) /\ x \in Seq(Plain) /\ Len(x) \in 1..5
      BY <1>6, <2>3, PieceIs
    <2>5. PICK m \in 1..5 : m = Len(x)
      BY <2>4
    <2>6. PICK base \in Nat : /\ base = ends[q - 1] /\ ends[q] = base + m /\ base + m <= n
                              /\ \A j \in 1..m : e[base + j] = x[j]
      <3>1. PICK L : L = Len(fmt) /\ L \in Nat
        <4>1. fmt \in Seq(Plain \cup Shorthand)
          BY DEF PlainLayouts
        <4> QED
          BY <4>1, LenProperties
      <3>2. /\ ends \in [0..Len(fmt) -> Nat]
            /\ \A i \in 1..Len(fmt) :
                  /\ ends[i] = ends[i - 1] + Len(PieceOf(fmt[i]))
                  /\ \A j \in 1..Len(PieceOf(fmt[i])) : e[ends[i - 1] + j] = PieceOf(fmt[i])[j]
            /\ \A i \in 0..Len(fmt) : ends[i] <= Len(e)
        BY <1>1, NextInLayout
      <3>3. /\ ends[q] = ends[q - 1] + m
            /\ \A j \in 1..m : e[ends[q - 1] + j] = x[j]
        BY <2>4, <2>5, <3>2
      <3>4. q - 1 \in 0..L /\ q \in 0..L
        BY <3>1
      <3>5. ends[q - 1] \in Nat /\ ends[q] <= n
        BY <1>4, <3>1, <3>2, <3>4
      <3> QED
        BY <3>3, <3>5
    <2>7. PICK k \in 0..5 : k = r /\ p = base + k
      BY <1>6, <2>6
    <2>8. /\ f = <<>> <=> k = m
          /\ f # <<>> => k + 1 \in 1..m /\ Head(f) = x[k + 1] /\ Suffix(Tail(f), x, k + 1)
      <3>1. Suffix(f, x, k) /\ k \in Nat /\ m \in Nat
        BY <1>6, <2>2, <2>3, <2>7
      <3> QED
        BY <2>2, <2>5, <3>1, FirstLeft
    <2>9. k <= m
      <3>1. f # <<>> => k <= m
        BY <2>8
      <3> QED
        BY <2>8, <3>1
    <2>10. p \in 0..n
      BY <1>4, <2>6, <2>7, <2>9
    <2>11. ASSUME f # <<>>
           PROVE  /\ Head(f) \in Plain /\ p + 1 \in 1..n /\ Head(f) = e[p + 1]
                  /\ k + 1 \in 0..5 /\ p + 1 = base + (k + 1)
      <3>1. k + 1 \in 1..m /\ Head(f) = x[k + 1]
        BY <2>8, <2>11
      <3>2. x[k + 1] \in Plain
        BY <2>4, <2>5, <3>1, LenProperties
      <3>3. p + 1 = base + (k + 1) /\ p + 1 \in 1..n
        <4>1. k + 1 <= m /\ base + m <= n /\ p = base + k
          BY <2>6, <2>7, <3>1
        <4> QED
          BY <1>4, <4>1
      <3>4. e[base + (k + 1)] = x[k + 1]
        BY <2>6, <3>1
      <3>5. k + 1 \in 0..5
        BY <3>1
      <3> QED
        BY <3>1, <3>2, <3>3, <3>4, <3>5
    <2>12. ASSUME f # <<>>, NEW new \in FrameType, new.alt = {}, new.fmt = Tail(f)
           PROVE  ReadUpTo(Front(fs) \o <<new>>, fmt, p + 1)
      <3>1. PICK t : t = Front(fs) \o <<new>>
        OBVIOUS
      <3>2. Len(t) = 2 /\ t[1] = fs[1] /\ t[2] = new
        BY <1>6, <2>1, <3>1, FramesLeft
      <3>3. /\ t[1].alt = {} /\ t[2].alt = {} /\ Suffix(t[1].fmt, fmt, q)
            /\ Suffix(t[2].fmt, Expansion[fmt[q]], k + 1)
        BY <1>6, <2>3, <2>8, <2>12, <3>2
      <3>4. k + 1 \in 0..5 /\ p + 1 = EndsOf(Pieces(fmt))[q - 1] + (k + 1)
        BY <1>1, <2>6, <2>11, <2>12
      <3> QED
        BY <1>6, <3>1, <3>2, <3>3, <3>4 DEF ReadUpTo
    <2>13. ASSUME f = <<>> PROVE ReadUpTo(Front(fs), fmt, p)
      <3>1. PICK t : t = Front(fs)
        OBVIOUS
      <3>2. Len(t) = 1 /\ t[1] = fs[1]
        <4>1. fs[1] \in FrameType
          BY <1>2, <1>6
        <4> QED
          BY <1>6, <2>1, <3>1, <4>1, FramesLeft
      <3>3. p = EndsOf(Pieces(fmt))[q]
        BY <1>1, <2>6, <2>7, <2>8, <2>13
      <3>4. q \in 0..Len(fmt)
        OBVIOUS
      <3> QED
        BY <1>6, <3>1, <3>2, <3>3, <3>4 DEF ReadUpTo
    <2> QED
      BY <2>2, <2>10, <2>11, <2>12, <2>13
  <1>7. CASE \E q \in 0..Len(fmt) :
               Len(fs) = 1 /\ fs[1].alt = {} /\ Suffix(fs[1].fmt, fmt, q) /\ p = ends[q]
    <2>1. PICK q \in 0..Len(fmt) :
             Len(fs) = 1 /\ fs[1].alt = {} /\ Suffix(fs[1].fmt, fmt, q) /\ p = ends[q]
      BY <1>7
    <2>2. /\ Last(fs).alt = {} /\ p \in 0..Len(e) /\ f \in Seq(Characters)
          /\ f # <<>> => Head(f) \in Plain \cup Shorthand
          /\ f # <<>> /\ Head(f) \in Plain =>
                /\ p + 1 \in 1..Len(e) /\ Head(f) = e[p + 1]
                /\ \A new \in FrameType : new.alt = {} /\ new.fmt = Tail(f)
                      => ReadUpTo(Front(fs) \o <<new>>, fmt, p + 1)
          /\ f # <<>> /\ Head(f) \in Shorthand =>
                \A two \in Seq(FrameType) :
                   Len(two) = 2 /\ two[1].alt = {} /\ two[1].fmt = Tail(f)
                   /\ two[2].alt = {} /\ two[2].fmt = Expansion[Head(f)]
                      => ReadUpTo(Front(fs) \o two, fmt, p)
          /\ f = <<>> => p = Len(e)
      BY <1>4, <1>5, <2>1, Zenon
    <2>3. Len(fs) = 1
      BY <2>1
    <2> QED
      BY <2>2, <2>3, Zenon DEF Forward
  <1>8. CASE \E q \in 1..Len(fmt), r \in 0..5 :
               /\ Len(fs) = 2 /\ fs[1].alt = {} /\ fs[2].alt = {} /\ fmt[q] \in Shorthand
               /\ Suffix(fs[1].fmt, fmt, q) /\ Suffix(fs[2].fmt, Expansion[fmt[q]], r)
               /\ p = ends[q - 1] + r
    <2>1. PICK q \in 1..Len(fmt), r \in 0..5 :
               /\ Len(fs) = 2 /\ fs[1].alt = {} /\ fs[2].alt = {} /\ fmt[q] \in Shorthand
               /\ Suffix(fs[1].fmt, fmt, q) /\ Suffix(fs[2].fmt, Expansion[fmt[q]], r)
               /\ p = ends[q - 1] + r
      BY <1>8
    <2> QED
      <3>1. /\ Last(fs).alt = {} /\ p \in 0..n /\ f \in Seq(Characters)
            /\ f # <<>> => Head(f) \in Plain
            /\ f # <<>> =>
                  /\ p + 1 \in 1..n /\ Head(f) = e[p + 1]
                  /\ \A new \in FrameType : new.alt = {} /\ new.fmt = Tail(f)
                        => ReadUpTo(Front(fs) \o <<new>>, fmt, p + 1)
            /\ f = <<>> => ReadUpTo(Front(fs), fmt, p)
        BY <1>6, <2>1, Zenon
      <3>2. Len(fs) # 1
        BY <2>1
      <3>3. f # <<>> => Head(f) \in Plain \cup Shorthand /\ Head(f) \notin Shorthand
        BY <3>1, PlainNotShorthand
      <3> QED
        BY <1>4, <3>1, <3>2, <3>3, Zenon DEF Forward
  <1> QED
    BY <1>1, <1>7, <1>8 DEF ReadUpTo

LEMMA NextFormat ==
    ASSUME TimeTextInv, Reading, layout \in PlainLayouts,
           NEW p, ReadUpTo(frames, layout, p), NEW e, e = Expanded(layout)
    PROVE  /\ p \in 0..Len(e) /\ Top.alt = {}
           /\ Top.fmt # <<>> => Format \in Plain \cup Shorthand
           /\ Format \in Plain =>
                 /\ p + 1 \in 1..Len(e) /\ Format = e[p + 1]
                 /\ \A split \in BOOLEAN : Onwards(split) => ReadUpTo(frames', layout, p + 1)
           /\ ReadExpansion => ReadUpTo(frames', layout, p)
           /\ ParseEnd => /\ Len(frames) = 1 => p = Len(e)
                          /\ Len(frames) # 1 => ReadUpTo(frames', layout, p)
  <1>1. PICK fs : fs = frames
    OBVIOUS
  <1>2. fs \in Seq(FrameType) /\ Top \in FrameType /\ Top = Last(fs)
    BY <1>1, Running DEF Top
  <1>3. PICK f : f = Top.fmt
    OBVIOUS
  <1>4. ReadUpTo(fs, layout, p) /\ f = Last(fs).fmt
    BY <1>1, <1>2, <1>3
  <1>5. PICK lay : lay = layout
    OBVIOUS
  <1>6. /\ Last(fs).alt = {} /\ p \in 0..Len(e) /\ f \in Seq(Characters)
        /\ f # <<>> => Head(f) \in Plain \cup Shorthand
        /\ f # <<>> /\ Head(f) \in Plain =>
              /\ p + 1 \in 1..Len(e) /\ Head(f) = e[p + 1]
              /\ \A new \in FrameType : new.alt = {} /\ new.fmt = Tail(f)
                    => ReadUpTo(Front(fs) \o <<new>>, lay, p + 1)
        /\ f # <<>> /\ Head(f) \in Shorthand =>
              \A two \in Seq(FrameType) :
                 Len(two) = 2 /\ two[1].alt = {} /\ two[1].fmt = Tail(f)
                 /\ two[2].alt = {} /\ two[2].fmt = Expansion[Head(f)]
                    => ReadUpTo(Front(fs) \o two, lay, p)
        /\ f = <<>> => /\ Len(fs) = 1 => p = Len(e)
                       /\ Len(fs) # 1 => ReadUpTo(Front(fs), lay, p)
    <2>1. lay \in PlainLayouts /\ e = Expanded(lay) /\ ReadUpTo(fs, lay, p)
      BY <1>4, <1>5
    <2>2. Forward(fs, lay, p, e, f)
      BY <1>2, <1>4, <2>1, NextConversion
    <2> QED
      BY <2>2, Zenon DEF Forward
  <1>7. f # <<>> => Format = Head(f)
    BY <1>3, Zenon DEF Format
  <1>8. Format \in Plain \cup DOMAIN Expansion => f # <<>>
    <2>1. \A d \in Plain \cup DOMAIN Expansion : d # ""
      BY Zenon DEF Plain, Fields, Blanks, Literals, Expansion
    <2> QED
      BY <1>3, <2>1, Zenon DEF Format
  <1>9. f # <<>> => Tail(f) \in Seq(Characters)
    BY <1>6, HeadTailProperties
  <1>10. ASSUME NEW split \in BOOLEAN, Format \in Plain, Onwards(split)
         PROVE  ReadUpTo(frames', layout, p + 1)
    <2>1. PICK new : new = [fmt |-> Tail(f), alt |-> {}, split |-> split]
      OBVIOUS
    <2>2. f # <<>> /\ Head(f) \in Plain /\ Tail(f) \in Seq(Characters)
      BY <1>7, <1>8, <1>9, <1>10
    <2>3. new \in FrameType /\ new.alt = {} /\ new.fmt = Tail(f)
      BY <2>1, <2>2 DEF FrameType
    <2>4. frames' = Front(fs) \o <<new>>
      BY <1>1, <1>3, <1>10, <2>1 DEF Onwards
    <2>5. ReadUpTo(Front(fs) \o <<new>>, lay, p + 1)
      BY <1>6, <2>2, <2>3
    <2> QED
      BY <1>5, <2>4, <2>5
  <1>11. ASSUME ReadExpansion PROVE ReadUpTo(frames', layout, p)
    <2>1. Format \in DOMAIN Expansion
      BY <1>11 DEF ReadExpansion
    <2>2. f # <<>> /\ Head(f) \in Shorthand /\ Tail(f) \in Seq(Characters) /\ Head(f) = Format
      <3>1. f # <<>> /\ Format = Head(f) /\ Head(f) \in Plain \cup Shorthand
        BY <1>6, <1>7, <1>8, <2>1
      <3>2. Head(f) \notin Plain
        BY <2>1, <3>1, PieceIs
      <3> QED
        BY <1>9, <3>1, <3>2
    <2>3. PICK new, called : /\ new = [fmt |-> Tail(f), alt |-> {}, split |-> Top.split]
                             /\ called = Frame(Expansion[Format])
      OBVIOUS
    <2>4. new \in FrameType /\ new.alt = {} /\ new.fmt = Tail(f)
      <3>1. Top.split \in BOOLEAN
        BY <1>2 DEF FrameType
      <3> QED
        BY <2>2, <2>3, <3>1 DEF FrameType
    <2>5. called \in FrameType /\ called.alt = {} /\ called.fmt = Expansion[Head(f)]
      <3>1. Expansion[Format] \in Seq(Characters)
        BY <2>1, LayoutType
      <3> QED
        BY <2>2, <2>3, <3>1 DEF Frame, FrameType
    <2>c. PICK two : two = <<new, called>>
      OBVIOUS
    <2>6. frames' = Front(fs) \o two
      BY <1>1, <1>3, <1>11, <2>3, <2>c, Zenon DEF ReadExpansion
    <2>7. ReadUpTo(Front(fs) \o two, lay, p)
      <3>1. /\ two \in Seq(FrameType) /\ Len(two) = 2 /\ two[1] = new /\ two[2] = called
        BY <2>4, <2>5, <2>c
      <3> QED
        BY <1>6, <2>2, <2>4, <2>5, <3>1
    <2> QED
      BY <1>5, <2>6, <2>7, Zenon
  <1>12. ASSUME ParseEnd
         PROVE  /\ Len(frames) = 1 => p = Len(e)
                /\ Len(frames) # 1 => ReadUpTo(frames', layout, p)
    <2>1. f = <<>>
      <3>1. Format = "" /\ \A d \in Plain \cup Shorthand : d # ""
        BY <1>12, Zenon DEF ParseEnd, Plain, Fields, Blanks, Literals, Shorthand
      <3> QED
        BY <1>6, <1>7, <3>1, Zenon
    <2>2. frames' = Front(fs)
      BY <1>1, <1>12, Zenon DEF ParseEnd
    <2> QED
      BY <1>1, <1>5, <1>6, <2>1, <2>2, Zenon
  <1> QED
    BY <1>2, <1>3, <1>6, <1>7, <1>8, <1>10, <1>11, <1>12, Zenon

LEMMA FirstFrame ==
    ASSUME NEW fmt \in PlainLayouts
    PROVE  ReadUpTo(<<Frame(fmt)>>, fmt, 0)
  <1>1. PICK fs : fs = <<Frame(fmt)>>
    OBVIOUS
  <1>2. Len(fs) = 1 /\ fs[1].alt = {} /\ fs[1].fmt = fmt
    BY <1>1 DEF Frame
  <1>3. PICK n : n = Len(fmt) /\ n \in Nat
    <2>1. fmt \in Seq(Plain \cup Shorthand)
      BY DEF PlainLayouts
    <2> QED
      BY <2>1, LenProperties
  <1>4. Suffix(fmt, fmt, 0)
    BY <1>3 DEF Suffix
  <1>5. PICK ends : ends = EndsOf(Pieces(fmt))
    OBVIOUS
  <1>6. ends[0] = 0
    BY <1>5, NextInLayout
  <1>7. 0 \in 0..Len(fmt)
    BY <1>3
  <1> QED
    BY <1>1, <1>2, <1>4, <1>5, <1>6, <1>7 DEF ReadUpTo

\* Where the text of each conversion ends.
LEMMA TextLaid ==
    ASSUME NEW fmt \in PlainLayouts, NEW t \in Dates, NEW e, e = Expanded(fmt),
           NEW text, text = TextOf(fmt, t), NEW ends, ends = EndsOf(TextPieces(e, t))
    PROVE  /\ text \in Seq(Nat) /\ ends \in [0..Len(e) -> Nat]
           /\ ends[0] = 0 /\ ends[Len(e)] = Len(text)
           /\ \A i \in 1..Len(e) :
                 /\ ends[i] = ends[i - 1] + Len(Printed(e[i], t))
                 /\ \A j \in 1..Len(Printed(e[i], t)) :
                       text[ends[i - 1] + j] = Printed(e[i], t)[j]
           /\ \A i \in 0..Len(e) : ends[i] <= Len(text)
  <1>1. e \in Seq(Plain) /\ Flat(fmt) = e
    BY ExpandedLast
  <1>2. PICK n : n = Len(e) /\ n \in Nat /\ DOMAIN e = 1..n
    BY <1>1, LenProperties
  <1>3. PICK ps : ps = TextPieces(e, t)
    OBVIOUS
  <1>4. ps \in [1..n -> Seq(Nat)] /\ \A i \in 1..n : ps[i] = Printed(e[i], t)
    BY <1>2, <1>3, PrintedType DEF TextPieces
  <1>5. ps \in Seq(Seq(Nat)) /\ Len(ps) = n
    BY <1>2, <1>4, FunctionIsSeq
  <1>6. text = FlattenSeq(ps)
    BY <1>1, <1>3 DEF TextOf, TextPieces
  <1>7. text \in Seq(Nat)
    BY <1>5, <1>6, FlattenSeqType
  <1>8. ends = EndsOf(ps) /\ Laid(ends, ps)
    BY <1>3, <1>5, FlattenSeqLaid
  <1>9. /\ ends \in [0..Len(ps) -> Nat]
        /\ ends[0] = 0 /\ ends[Len(ps)] = Len(FlattenSeq(ps))
        /\ \A i \in 1..Len(ps) :
              /\ ends[i] = ends[i - 1] + Len(ps[i])
              /\ \A j \in 1..Len(ps[i]) : FlattenSeq(ps)[ends[i - 1] + j] = ps[i][j]
    BY <1>8, Zenon DEF Laid
  <1>10. \A i \in 0..Len(ps) : ends[i] <= ends[Len(ps)]
    BY <1>5, <1>8, EndsGrow
  <1>11. /\ ends \in [0..n -> Nat] /\ ends[0] = 0 /\ ends[n] = Len(text)
         /\ \A i \in 0..n : ends[i] <= Len(text)
    BY <1>5, <1>6, <1>9, <1>10
  <1>12. ASSUME NEW i \in 1..n
         PROVE  /\ ends[i] = ends[i - 1] + Len(Printed(e[i], t))
                /\ \A j \in 1..Len(Printed(e[i], t)) :
                      text[ends[i - 1] + j] = Printed(e[i], t)[j]
    <2>1. ps[i] = Printed(e[i], t)
      BY <1>4
    <2>2. /\ ends[i] = ends[i - 1] + Len(ps[i])
          /\ \A j \in 1..Len(ps[i]) : text[ends[i - 1] + j] = ps[i][j]
      BY <1>5, <1>6, <1>9
    <2> QED
      BY <2>1, <2>2, Zenon
  <1> QED
    BY <1>2, <1>7, <1>11, <1>12, Zenon

-----------------------------------------------------------------------------
(***************************************************************************)
(* What each conversion reads.                                             *)
(***************************************************************************)

LEMMA RestIs ==
    ASSUME NEW s \in Seq(Nat), NEW k \in 0..Len(s), NEW r, r = SubSeq(s, k + 1, Len(s))
    PROVE  /\ r \in Seq(Nat) /\ Len(r) = Len(s) - k
           /\ \A i \in 1 .. Len(s) - k : r[i] = s[k + i]
  <1>1. PICK n : n = Len(s) /\ n \in Nat /\ s \in [1..n -> Nat]
    BY LenProperties
  <1>2. PICK m : m = k + 1 /\ m \in Int /\ n \in Int /\ k \in 0..n /\ k \in Nat
    BY <1>1
  <1>3. \A i \in m..n : s[i] \in Nat
    BY <1>1, <1>2
  <1>4. /\ SubSeq(s, m, n) \in Seq(Nat)
        /\ Len(SubSeq(s, m, n)) = IF m <= n THEN n - m + 1 ELSE 0
        /\ \A i \in 1 .. n - m + 1 : SubSeq(s, m, n)[i] = s[m + i - 1]
    BY <1>2, <1>3, SubSeqProperties
  <1>5. r = SubSeq(s, m, n)
    BY <1>1, <1>2
  <1>6. Len(r) = n - k
    <2>1. Len(r) = IF m <= n THEN n - m + 1 ELSE 0
      BY <1>4, <1>5, Zenon
    <2>2. CASE m <= n
      BY <1>2, <2>1, <2>2
    <2>3. CASE ~(m <= n)
      BY <1>2, <2>1, <2>3
    <2> QED
      BY <2>2, <2>3
  <1>7. ASSUME NEW i \in 1 .. n - k PROVE r[i] = s[k + i]
    <2>1. i \in 1 .. n - m + 1 /\ m + i - 1 = k + i
      BY <1>1, <1>2
    <2> QED
      BY <1>4, <1>5, <2>1
  <1> QED
    BY <1>1, <1>4, <1>5, <1>6, <1>7

\* The rest follows when characters that are there have been read.
LEMMA FollowsRest ==
    ASSUME NEW b \in Seq(Nat), NEW o \in Nat, NEW text, NEW c \in Int, Follows(b, o, text, c),
           NEW m \in Nat, m <= c - 1 - o, NEW r, r = SubSeq(b, m + 1, Len(b))
    PROVE  /\ Follows(r, o + m, text, c) /\ m <= Len(b)
           /\ Len(r) = Len(b) - m
  <1>1. PICK n : n = Len(b) /\ n \in Nat
    BY LenProperties
  <1>2. /\ n >= c - 1 - o /\ \A k \in 1 .. c - 1 - o : b[k] = text[o + k]
        /\ n = c - 1 - o \/ b[c - o] = Letter
    BY <1>1 DEF Follows
  <1>3. m \in 0..n
    BY <1>1, <1>2
  <1>4. Len(r) = n - m /\ \A i \in 1 .. n - m : r[i] = b[m + i]
    BY <1>1, <1>3, RestIs
  <1>5. Len(r) >= c - 1 - (o + m)
    BY <1>1, <1>2, <1>4
  <1>6. ASSUME NEW k \in 1 .. c - 1 - (o + m) PROVE r[k] = text[o + m + k]
    <2>1. k \in 1 .. n - m /\ m + k \in 1 .. c - 1 - o /\ o + (m + k) = o + m + k
      BY <1>1, <1>2
    <2>2. r[k] = b[m + k] /\ b[m + k] = text[o + (m + k)]
      BY <1>2, <1>4, <2>1
    <2> QED
      BY <2>1, <2>2
  <1>7. Len(r) = c - 1 - (o + m) \/ r[c - (o + m)] = Letter
    <2>1. CASE n = c - 1 - o
      BY <1>1, <1>4, <2>1
    <2>2. CASE n # c - 1 - o
      <3>1. c - (o + m) \in 1 .. n - m /\ m + (c - (o + m)) = c - o
        <4>1. n >= c - o
          <5>1. n \in Nat /\ n >= c - 1 - o
            BY <1>1, <1>2
          <5> QED
            BY <2>2, <5>1
        <4>2. n \in Nat /\ m <= c - 1 - o
          BY <1>1
        <4> QED
          BY <4>1, <4>2
      <3>2. r[c - (o + m)] = b[m + (c - (o + m))]
        BY <1>4, <3>1
      <3> QED
        BY <1>2, <2>2, <3>1, <3>2
    <2> QED
      BY <2>1, <2>2
  <1>8. m <= n
    BY <1>3
  <1>9. Follows(r, o + m, text, c)
    BY <1>5, <1>6, <1>7 DEF Follows
  <1> QED
    BY <1>1, <1>4, <1>8, <1>9

\* The first character is that of the text, or there is the damage.
LEMMA FollowsFirst ==
    ASSUME NEW b \in Seq(Nat), NEW o \in Nat, NEW text, NEW c \in Int, Follows(b, o, text, c)
    PROVE  /\ o < c - 1 => b # <<>> /\ Head(b) = text[o + 1] /\ b[1] = text[o + 1]
           /\ o = c - 1 => b = <<>> \/ b[1] = Letter
           /\ b # <<>> => Head(b) = b[1]
  <1>1. PICK n : n = Len(b) /\ n \in Nat
    BY LenProperties
  <1>2. /\ n >= c - 1 - o /\ \A k \in 1 .. c - 1 - o : b[k] = text[o + k]
        /\ n = c - 1 - o \/ b[c - o] = Letter
    BY <1>1 DEF Follows
  <1>3. b = <<>> <=> n = 0
    BY <1>1, EmptySeq
  <1>4. b # <<>> => Head(b) = b[1]
    BY HeadTailProperties
  <1>5. ASSUME o < c - 1 PROVE b # <<>> /\ b[1] = text[o + 1]
    <2>1. 1 \in 1 .. c - 1 - o /\ n # 0
      BY <1>1, <1>2, <1>5
    <2> QED
      BY <1>2, <1>3, <2>1
  <1>6. ASSUME o = c - 1 PROVE b = <<>> \/ b[1] = Letter
    <2>1. c - 1 - o = 0 /\ c - o = 1
      BY <1>6
    <2> QED
      BY <1>2, <1>3, <2>1
  <1> QED
    BY <1>4, <1>5, <1>6

\* The blanks at the start of b.
LEMMA LeadingBlanks ==
    ASSUME NEW b \in Seq(Nat)
    PROVE  \E m \in 0..Len(b) :
              /\ m = Max({k \in 0..Len(b) : \A i \in 1..k : b[i] = Blank})
              /\ \A i \in 1..m : b[i] = Blank
              /\ m = Len(b) \/ b[m + 1] # Blank
  <1>1. PICK n : n = Len(b) /\ n \in Nat
    BY LenProperties
  <1> DEFINE S == {k \in 0..n : \A i \in 1..k : b[i] = Blank}
  <1>2. S \in SUBSET (0..n) /\ 0 \in S
    BY <1>1
  <1> HIDE DEF S
  <1>3. PICK m : m = Max(S) /\ m \in S /\ \A x \in S : x <= m
    BY <1>1, <1>2, GreatestOf
  <1>4. m \in 0..n /\ \A i \in 1..m : b[i] = Blank
    BY <1>3 DEF S
  <1>5. m = n \/ b[m + 1] # Blank
    <2> SUFFICES ASSUME m # n, b[m + 1] = Blank PROVE FALSE
      OBVIOUS
    <2>1. m + 1 \in 0..n /\ \A i \in 1 .. m + 1 : i \in 1..m \/ i = m + 1
      BY <1>1, <1>4
    <2>2. m + 1 \in S
      BY <1>4, <2>1 DEF S
    <2>3. m + 1 <= m
      BY <1>3, <2>2
    <2> QED
      BY <1>4, <2>3
  <1> QED
    BY <1>1, <1>3, <1>4, <1>5 DEF S

\* The first m characters of b are blanks, and no more of them follow.
BlanksUpTo(b, m) ==
    m \in 0..Len(b) /\ (\A i \in 1..m : b[i] = Blank) /\ (m = Len(b) \/ b[m + 1] # Blank)

\* Blanks that are skipped are those of the text.
LEMMA SkipBlanks ==
    ASSUME NEW b \in Seq(Nat), NEW o \in Nat, NEW text, NEW c \in Int, o <= c - 1,
           Follows(b, o, text, c), NEW m, BlanksUpTo(b, m)
    PROVE  /\ m <= c - 1 - o
           /\ \A k \in 1..m : text[o + k] = Blank
           /\ m = 0 /\ o < c - 1 => text[o + 1] # Blank
  <1>1. PICK n : n = Len(b) /\ n \in Nat /\ m \in 0..n
    BY LenProperties DEF BlanksUpTo
  <1>b. (\A i \in 1..m : b[i] = Blank) /\ (m = n \/ b[m + 1] # Blank)
    BY <1>1 DEF BlanksUpTo
  <1>2. /\ n >= c - 1 - o /\ \A k \in 1 .. c - 1 - o : b[k] = text[o + k]
        /\ n = c - 1 - o \/ b[c - o] = Letter
    BY <1>1 DEF Follows
  <1>3. m <= c - 1 - o
    <2> SUFFICES ASSUME ~(m <= c - 1 - o) PROVE FALSE
      OBVIOUS
    <2>1. c - o \in 1..m /\ n # c - 1 - o
      BY <1>1
    <2>2. b[c - o] = Blank /\ b[c - o] = Letter
      BY <1>b, <1>2, <2>1
    <2> QED
      BY <2>2 DEF Blank, Letter
  <1>4. ASSUME NEW k \in 1..m PROVE text[o + k] = Blank
    <2>1. k \in 1 .. c - 1 - o
      BY <1>1, <1>3
    <2> QED
      BY <1>2, <1>b, <2>1
  <1>5. ASSUME m = 0, o < c - 1 PROVE text[o + 1] # Blank
    <2>1. 1 \in 1 .. c - 1 - o /\ m + 1 = 1 /\ m # n
      BY <1>1, <1>2, <1>5
    <2>2. b[1] # Blank
      BY <1>b, <2>1
    <2> QED
      BY <1>2, <2>1, <2>2
  <1> QED
    BY <1>3, <1>4, <1>5

\* A field that is stored as it was printed, and those that are left alone.
LEMMA StoredAs ==
    ASSUME tm \in TimeType, NEW d \in Fields, NEW v, NEW split, tm' = Stored(d, v, split),
           date' = date
    PROVE  /\ v = FieldOf(d, date) => AsPrinted(d)'
           /\ \A x \in Plain : AsPrinted(x) /\ x # d => AsPrinted(x)'
           /\ v = FieldOf(d, date) => \A x \in Plain : AsPrinted(x) => AsPrinted(x)'
  <1>1. v = FieldOf(d, date) => AsPrinted(d)'
    BY DEF Fields, Stored, FieldOf, AsPrinted, TimeType, TM_YEAR_BASE
  <1>2. ASSUME NEW x \in Plain, AsPrinted(x), x # d PROVE AsPrinted(x)'
    <2>1. CASE d = "Y"
      BY <1>2, <2>1 DEF Stored, AsPrinted, TimeType, TM_YEAR_BASE
    <2>2. CASE d = "m"
      BY <1>2, <2>2 DEF Stored, AsPrinted, TimeType, TM_YEAR_BASE
    <2>3. CASE d = "d"
      BY <1>2, <2>3 DEF Stored, AsPrinted, TimeType, TM_YEAR_BASE
    <2>4. CASE d = "H"
      BY <1>2, <2>4 DEF Stored, AsPrinted, TimeType, TM_YEAR_BASE
    <2>5. CASE d = "M"
      BY <1>2, <2>5 DEF Stored, AsPrinted, TimeType, TM_YEAR_BASE
    <2>6. CASE d = "S"
      BY <1>2, <2>6 DEF Stored, AsPrinted, TimeType, TM_YEAR_BASE
    <2>7. CASE d = "j"
      BY <1>2, <2>7 DEF Stored, AsPrinted, TimeType, TM_YEAR_BASE
    <2>8. CASE d = "w"
      BY <1>2, <2>8 DEF Stored, AsPrinted, TimeType, TM_YEAR_BASE
    <2> QED
      BY <2>1, <2>2, <2>3, <2>4, <2>5, <2>6, <2>7, <2>8 DEF Fields
  <1>3. ASSUME v = FieldOf(d, date), NEW x \in Plain, AsPrinted(x) PROVE AsPrinted(x)'
    <2>1. CASE x = d
      BY <1>1, <1>3, <2>1
    <2>2. CASE x # d
      BY <1>2, <1>3, <2>2
    <2> QED
      BY <2>1, <2>2
  <1> QED
    BY <1>1, <1>2, <1>3

\* text is what the conversions e print of t, and ends where each of them ends.
PrintedBy(e, text, ends, t) ==
    /\ e \in Seq(Plain) /\ Len(e) \in Nat \ {0} /\ e[Len(e)] \notin {"Y", "j"} \cup Blanks
    /\ text \in Seq(Nat) /\ ends \in [0..Len(e) -> Nat]
    /\ ends[0] = 0 /\ ends[Len(e)] = Len(text)
    /\ \A i \in 1..Len(e) :
          /\ ends[i] = ends[i - 1] + Len(Printed(e[i], t))
          /\ \A j \in 1..Len(Printed(e[i], t)) : text[ends[i - 1] + j] = Printed(e[i], t)[j]
    /\ \A i \in 0..Len(e) : ends[i] <= Len(text)

LEMMA PrintedByIs ==
    ASSUME NEW fmt \in PlainLayouts, NEW t \in Dates
    PROVE  PrintedBy(Expanded(fmt), TextOf(fmt, t), EndsOf(TextPieces(Expanded(fmt), t)), t)
  <1>1. PICK e : e = Expanded(fmt)
    OBVIOUS
  <1>2. PICK text, ends : text = TextOf(fmt, t) /\ ends = EndsOf(TextPieces(e, t))
    OBVIOUS
  <1>3. e \in Seq(Plain) /\ Len(e) \in Nat \ {0} /\ e[Len(e)] \notin {"Y", "j"} \cup Blanks
    BY <1>1, ExpandedLast
  <1>4. /\ text \in Seq(Nat) /\ ends \in [0..Len(e) -> Nat]
        /\ ends[0] = 0 /\ ends[Len(e)] = Len(text)
        /\ \A i \in 1..Len(e) :
              /\ ends[i] = ends[i - 1] + Len(Printed(e[i], t))
              /\ \A j \in 1..Len(Printed(e[i], t)) :
                    text[ends[i - 1] + j] = Printed(e[i], t)[j]
        /\ \A i \in 0..Len(e) : ends[i] <= Len(text)
    BY <1>1, <1>2, TextLaid
  <1>5. PrintedBy(e, text, ends, t)
    BY <1>3, <1>4 DEF PrintedBy
  <1> QED
    BY <1>1, <1>2, <1>5, Zenon

\* The conversion after p.
LEMMA NextPrinted ==
    ASSUME NEW e, NEW text, NEW ends, NEW t \in Dates, PrintedBy(e, text, ends, t),
           NEW p \in 0..Len(e), p + 1 \in 1..Len(e)
    PROVE  /\ ends[p] \in Nat /\ Len(text) \in Nat /\ ends[p + 1] <= Len(text)
           /\ ends[p + 1] = ends[p] + Len(Printed(e[p + 1], t)) /\ ends[p + 1] \in Nat
           /\ \A j \in 1..Len(Printed(e[p + 1], t)) :
                 text[ends[p] + j] = Printed(e[p + 1], t)[j]
           /\ e[p + 1] \in Plain
  <1>1. PICK n : n = Len(e) /\ n \in Nat /\ p \in 0..n /\ p + 1 \in 1..n /\ e \in [1..n -> Plain]
    BY LenProperties DEF PrintedBy
  <1>2. PICK q : q = p + 1 /\ q \in 1..n /\ q - 1 = p /\ q \in 0..n
    BY <1>1
  <1>3. /\ ends[q] = ends[q - 1] + Len(Printed(e[q], t))
        /\ \A j \in 1..Len(Printed(e[q], t)) : text[ends[q - 1] + j] = Printed(e[q], t)[j]
        /\ ends[q] <= Len(text) /\ ends[p] \in Nat /\ ends[q] \in Nat
    BY <1>1, <1>2 DEF PrintedBy
  <1>4. Len(text) \in Nat /\ e[q] \in Plain
    BY <1>1, <1>2, LenProperties DEF PrintedBy
  <1> QED
    BY <1>2, <1>3, <1>4

LEMMA PrintedMark ==
    ASSUME NEW d, NEW t
    PROVE  /\ d \in Blanks => Printed(d, t) = <<Blank>>
           /\ d \in Literals => Printed(d, t) = <<CharOf[d]>>
  <1>1. d \in Blanks => Printed(d, t) = <<Blank>>
    BY CharOfDomain DEF Printed, Blanks
  <1>2. d \in Literals => Printed(d, t) = <<CharOf[d]>>
    BY CharOfDomain DEF Printed, Literals
  <1> QED
    BY <1>1, <1>2

\* What Sound and Stuck say of a text whose rest is b.
LEMMA SoundAt ==
    ASSUME NEW e, NEW text, NEW ends, NEW p, Sound(e, text, ends, p)
    PROVE  \E o \in ends[p] .. Cut(text) - 1 :
              /\ Follows(bp, o, text, Cut(text))
              /\ damage = 0 => Len(bp) = Len(text) - o
              /\ \A j \in ends[p] + 1 .. o : text[j] = Blank
  BY DEF Sound

\* Nothing of a number, or of what is printed literally, is a blank: the text
\* has been read up to there and no further.
LEMMA NothingSkipped ==
    ASSUME NEW e, NEW text, NEW ends, NEW t \in Dates, PrintedBy(e, text, ends, t),
           NEW p \in 0..Len(e), p + 1 \in 1..Len(e),
           Len(Printed(e[p + 1], t)) >= 1, Printed(e[p + 1], t)[1] # Blank,
           NEW o \in Int, ends[p] <= o, \A j \in ends[p] + 1 .. o : text[j] = Blank
    PROVE  o = ends[p] /\ o \in Nat
  <1>1. PICK x : x = ends[p] /\ x \in Nat
    BY NextPrinted
  <1>2. 1 \in 1..Len(Printed(e[p + 1], t))
    <2>1. ends[p + 1] = x + Len(Printed(e[p + 1], t)) /\ ends[p + 1] \in Nat
      BY <1>1, NextPrinted
    <2>2. PICK w : w = Len(Printed(e[p + 1], t)) /\ w >= 1
      OBVIOUS
    <2>3. Printed(e[p + 1], t) \in Seq(Nat)
      BY PrintedType
    <2>4. w \in Nat
      BY <2>2, <2>3, LenProperties
    <2> QED
      BY <2>2, <2>4
  <1>3. text[x + 1] # Blank
    BY <1>1, <1>2, NextPrinted
  <1>4. ~(x + 1 <= o)
    <2> SUFFICES ASSUME x + 1 <= o PROVE FALSE
      OBVIOUS
    <2>1. x + 1 \in x + 1 .. o
      BY <1>1
    <2> QED
      BY <1>1, <1>3, <2>1
  <1> QED
    BY <1>1, <1>4

\* White space.
LEMMA BlanksRead ==
    ASSUME TimeTextInv, NEW e, NEW text, NEW ends, PrintedBy(e, text, ends, date),
           NEW p \in 0..Len(e), p + 1 \in 1..Len(e), Format = e[p + 1],
           Sound(e, text, ends, p) \/ Stuck(e, text, ends, p), ReadBlanks
    PROVE  (Sound(e, text, ends, p + 1) \/ Stuck(e, text, ends, p + 1))'
  <1>1. bp \in Seq(Nat) /\ date \in Dates /\ damage \in Nat
    BY DEF TimeTextInv, TimeTextTypeOK
  <1>2. PICK m \in 0..Len(bp) :
           /\ m = Max({k \in 0..Len(bp) : \A i \in 1..k : bp[i] = Blank})
           /\ \A i \in 1..m : bp[i] = Blank
           /\ m = Len(bp) \/ bp[m + 1] # Blank
    BY <1>1, LeadingBlanks
  <1>3. PICK n : n = Len(bp) /\ n \in Nat /\ m \in 0..n
    BY <1>1, LenProperties
  <1>4. bp' = SubSeq(bp, m + 1, Len(bp)) /\ UNCHANGED <<tm, date, damage>>
    BY <1>2 DEF ReadBlanks
  <1>5. e[p + 1] \in Blanks /\ Printed(e[p + 1], date) = <<Blank>>
    <2>1. e[p + 1] \in Blanks
      BY DEF ReadBlanks, Blanks
    <2> QED
      BY <2>1, PrintedMark
  <1>6. PICK x, y, z : /\ x = ends[p] /\ y = ends[p + 1] /\ z = Len(text)
                       /\ x \in Nat /\ z \in Nat /\ y = x + 1 /\ y <= z /\ text[x + 1] = Blank
    <2>1. PICK pr : pr = Printed(e[p + 1], date) /\ pr = <<Blank>>
      BY <1>5
    <2>2. Len(pr) = 1 /\ pr[1] = Blank /\ 1 \in 1..Len(pr)
      BY <2>1
    <2>3. /\ ends[p] \in Nat /\ Len(text) \in Nat /\ ends[p + 1] <= Len(text)
          /\ ends[p + 1] = ends[p] + Len(pr) /\ ends[p + 1] \in Nat
          /\ \A j \in 1..Len(pr) : text[ends[p] + j] = pr[j]
      <3>1. /\ ends[p] \in Nat /\ Len(text) \in Nat /\ ends[p + 1] <= Len(text)
            /\ ends[p + 1] = ends[p] + Len(Printed(e[p + 1], date)) /\ ends[p + 1] \in Nat
            /\ \A j \in 1..Len(Printed(e[p + 1], date)) :
                  text[ends[p] + j] = Printed(e[p + 1], date)[j]
        BY <1>1, NextPrinted
      <3> QED
        BY <2>1, <3>1, Zenon
    <2>4. text[ends[p] + 1] = Blank /\ ends[p + 1] = ends[p] + 1
      BY <2>2, <2>3
    <2> QED
      BY <2>3, <2>4
  <1>7. p + 1 # Len(e)
    BY <1>5 DEF PrintedBy
  <1>8. Len(bp') = n - m /\ (\A i \in 1 .. n - m : bp'[i] = bp[m + i])
    BY <1>1, <1>3, <1>4, RestIs
  <1>9. PICK c : c = Cut(text) /\ c = z + 1 - damage /\ c \in Int /\ Cut(text)' = c
    BY <1>1, <1>4, <1>6 DEF Cut
  <1>10. m = 0 /\ (bp = <<>> \/ bp[1] = Letter) => bp' = <<>> \/ bp'[1] = Letter
    <2>1. CASE n = 0
      <3>1. Len(bp') = 0 /\ bp' \in Seq(Nat)
        BY <1>1, <1>3, <1>4, <1>8, <2>1, RestType
      <3> QED
        BY <3>1, EmptySeq
    <2>2. CASE n # 0 /\ m = 0
      <3>1. bp'[1] = bp[1]
        BY <1>3, <1>8, <2>2
      <3>2. bp # <<>>
        BY <1>3, <2>2, EmptySeq
      <3> QED
        BY <3>1, <3>2
    <2> QED
      BY <1>3, <2>1, <2>2
  <1>11. CASE Stuck(e, text, ends, p)
    <2>1. damage # 0 /\ (bp = <<>> \/ bp[1] = Letter) /\ x >= c
      BY <1>6, <1>9, <1>11 DEF Stuck
    <2>2. m = 0
      <3>1. CASE bp = <<>>
        BY <1>3, <3>1, EmptySeq
      <3>2. CASE bp[1] = Letter
        <4>1. ~(1 \in 1..m)
          BY <1>2, <3>2 DEF Letter, Blank
        <4> QED
          BY <1>3, <4>1
      <3> QED
        BY <2>1, <3>1, <3>2
    <2>3. (bp' = <<>> \/ bp'[1] = Letter) /\ y >= c /\ damage' # 0
      BY <1>4, <1>6, <1>9, <1>10, <2>1, <2>2
    <2> QED
      BY <1>6, <1>7, <1>9, <2>3 DEF Stuck
  <1>12. CASE Sound(e, text, ends, p)
    <2>1. PICK o \in ends[p] .. Cut(text) - 1 :
             /\ Follows(bp, o, text, Cut(text))
             /\ damage = 0 => Len(bp) = Len(text) - o
             /\ \A j \in ends[p] + 1 .. o : text[j] = Blank
      BY <1>12, SoundAt
    <2>2. o \in Nat /\ x <= o /\ o <= c - 1 /\ Follows(bp, o, text, c)
          /\ (damage = 0 => n = z - o) /\ \A j \in x + 1 .. o : text[j] = Blank
      BY <1>3, <1>6, <1>9, <2>1
    <2>3. /\ m <= c - 1 - o /\ \A k \in 1..m : text[o + k] = Blank
          /\ m = 0 /\ o < c - 1 => text[o + 1] # Blank
      <3>0. m \in 0..Len(bp)
        OBVIOUS
      <3>1. (\A i \in 1..m : bp[i] = Blank) /\ (m = Len(bp) \/ bp[m + 1] # Blank)
        BY <1>2
      <3>2. o \in Nat /\ c \in Int /\ o <= c - 1 /\ Follows(bp, o, text, c)
        BY <1>9, <2>2
      <3> QED
        <4>1. BlanksUpTo(bp, m)
          BY <3>0, <3>1 DEF BlanksUpTo
        <4> QED
          BY <1>1, <3>2, <4>1, SkipBlanks
    <2>4. CASE x + 1 <= o + m
      <3>1. Follows(bp', o + m, text, c)
        <4>1. m \in Nat /\ m <= c - 1 - o
          BY <1>3, <2>3
        <4>2. o \in Nat /\ c \in Int /\ Follows(bp, o, text, c)
          BY <1>9, <2>2
        <4> QED
          BY <1>1, <1>4, <4>1, <4>2, FollowsRest
      <3>2. o + m \in y .. c - 1
        <4>1. m \in Nat /\ m <= c - 1 - o /\ o \in Nat /\ c \in Int /\ x \in Nat
              /\ y = x + 1
          BY <1>3, <1>6, <1>9, <2>2, <2>3
        <4> QED
          BY <2>4, <4>1
      <3>3. damage = 0 => Len(bp') = z - (o + m)
        <4>1. z \in Nat /\ m \in Nat /\ o \in Nat /\ n \in Nat
          BY <1>3, <1>6, <2>2
        <4>2. Len(bp') = n - m /\ (damage = 0 => n = z - o)
          BY <1>8, <2>2
        <4> QED
          BY <4>1, <4>2
      <3>4. \A j \in y + 1 .. o + m : text[j] = Blank
        <4> TAKE j \in y + 1 .. o + m
        <4>1. CASE j <= o
          BY <1>6, <2>2, <4>1
        <4>2. CASE ~(j <= o)
          <5>1. j - o \in 1..m /\ o + (j - o) = j
            BY <1>3, <1>6, <2>2, <4>2
          <5> QED
            BY <2>3, <5>1
        <4> QED
          BY <4>1, <4>2
      <3>5. \A k \in 1 .. p + 1 : AsPrinted(e[k])'
        <4>1. \A k \in 1..p : AsPrinted(e[k])
          BY <1>12 DEF Sound
        <4>2. ASSUME NEW k \in 1..p PROVE AsPrinted(e[k])'
          BY <1>4, <4>1 DEF AsPrinted
        <4>3. AsPrinted(e[p + 1])'
          BY <1>5 DEF AsPrinted, Blanks
        <4>4. \A k \in 1 .. p + 1 : k \in 1..p \/ k = p + 1
          <5>1. Len(e) \in Nat
            BY DEF PrintedBy
          <5> QED
            BY <5>1
        <4> QED
          BY <4>2, <4>3, <4>4
      <3> QED
        BY <1>4, <1>6, <1>9, <3>1, <3>2, <3>3, <3>4, <3>5 DEF Sound
    <2>5. CASE ~(x + 1 <= o + m)
      <3>1. o = x /\ m = 0
        BY <1>3, <1>6, <2>2, <2>5
      <3>2. o = c - 1
        BY <1>6, <1>9, <2>2, <2>3, <3>1
      <3>3. bp = <<>> \/ bp[1] = Letter
        BY <1>1, <1>9, <2>2, <3>2, FollowsFirst
      <3>4. y >= c /\ damage' # 0
        BY <1>1, <1>4, <1>6, <1>9, <3>1, <3>2
      <3> QED
        BY <1>6, <1>7, <1>9, <1>10, <3>1, <3>3, <3>4 DEF Stuck
    <2> QED
      BY <2>4, <2>5
  <1> QED
    BY <1>11, <1>12

LEMMA FollowsTail ==
    ASSUME NEW b \in Seq(Nat), NEW o \in Nat, NEW text, NEW c \in Int, Follows(b, o, text, c),
           o < c - 1, b # <<>>
    PROVE  Follows(Tail(b), o + 1, text, c) /\ Len(Tail(b)) = Len(b) - 1
  <1>1. PICK m \in Nat : m = 1
    OBVIOUS
  <1>2. PICK r : r = SubSeq(b, m + 1, Len(b))
    OBVIOUS
  <1>3. m <= c - 1 - o
    BY <1>1
  <1>4. Follows(r, o + m, text, c) /\ Len(r) = Len(b) - m
    <2>1. SubSeq(b, m + 1, Len(b)) = r
      BY <1>2
    <2>2. Follows(r, o + m, text, c)
      BY <1>2, <1>3, FollowsRest, ZenonT(30)
    <2>3. Len(r) = Len(b) - m
      BY <1>2, <1>3, FollowsRest
    <2> QED
      BY <2>2, <2>3
  <1>5. r = Tail(b)
    BY <1>1, <1>2
  <1> QED
    BY <1>1, <1>4, <1>5

\* What is printed literally.
LEMMA LiteralRead ==
    ASSUME TimeTextInv, NEW e, NEW text, NEW ends, PrintedBy(e, text, ends, date),
           NEW p \in 0..Len(e), p + 1 \in 1..Len(e), Format = e[p + 1],
           Sound(e, text, ends, p) \/ Stuck(e, text, ends, p), ReadLiteral
    PROVE  \/ Fails /\ damage # 0
           \/ /\ Sound(e, text, ends, p + 1)'
              /\ Onwards(Top.split) /\ UNCHANGED <<result, date, layout, damage>>
  <1>1. bp \in Seq(Nat) /\ date \in Dates /\ damage \in Nat
    BY DEF TimeTextInv, TimeTextTypeOK
  <1>2. e[p + 1] \in Literals /\ Printed(e[p + 1], date) = <<CharOf[e[p + 1]]>>
    <2>1. e[p + 1] \in Literals
      BY CharOfDomain DEF ReadLiteral, Literals
    <2> QED
      BY <2>1, PrintedMark
  <1>3. PICK ch : ch = CharOf[Format] /\ ch \in Nat /\ ch # Blank /\ ch # Letter
    <2>1. CharOf[Format] \in 11..14
      BY <1>2 DEF CharOf, Literals
    <2> QED
      BY <2>1 DEF Blank, Letter
  <1>4. PICK x, y, z : /\ x = ends[p] /\ y = ends[p + 1] /\ z = Len(text)
                       /\ x \in Nat /\ z \in Nat /\ y = x + 1 /\ y <= z /\ text[x + 1] = ch
    <2>1. PICK pr : pr = Printed(e[p + 1], date) /\ pr = <<ch>>
      BY <1>2, <1>3
    <2>2. Len(pr) = 1 /\ pr[1] = ch /\ 1 \in 1..Len(pr)
      BY <2>1
    <2>3. /\ ends[p] \in Nat /\ Len(text) \in Nat /\ ends[p + 1] <= Len(text)
          /\ ends[p + 1] = ends[p] + Len(pr) /\ ends[p + 1] \in Nat
          /\ \A j \in 1..Len(pr) : text[ends[p] + j] = pr[j]
      <3>1. /\ ends[p] \in Nat /\ Len(text) \in Nat /\ ends[p + 1] <= Len(text)
            /\ ends[p + 1] = ends[p] + Len(Printed(e[p + 1], date)) /\ ends[p + 1] \in Nat
            /\ \A j \in 1..Len(Printed(e[p + 1], date)) :
                  text[ends[p] + j] = Printed(e[p + 1], date)[j]
        BY <1>1, NextPrinted
      <3> QED
        BY <2>1, <3>1, Zenon
    <2>4. text[ends[p] + 1] = ch /\ ends[p + 1] = ends[p] + 1
      BY <2>2, <2>3
    <2> QED
      BY <2>3, <2>4
  <1>5. PICK c : c = Cut(text) /\ c = z + 1 - damage /\ c \in Int
    BY <1>1, <1>4 DEF Cut
  <1>6. ASSUME bp = <<>> \/ bp[1] = Letter PROVE Fails
    <2>1. bp # <<>> => Head(bp) = bp[1]
      BY <1>1, HeadTailProperties
    <2>2. ~(bp # <<>> /\ Head(bp) = CharOf[Format])
      BY <1>3, <1>6, <2>1
    <2> QED
      BY <2>2 DEF ReadLiteral
  <1>7. CASE Stuck(e, text, ends, p)
    BY <1>6, <1>7 DEF Stuck
  <1>8. CASE Sound(e, text, ends, p)
    <2>1. PICK o \in ends[p] .. Cut(text) - 1 :
             /\ Follows(bp, o, text, Cut(text))
             /\ damage = 0 => Len(bp) = Len(text) - o
             /\ \A j \in ends[p] + 1 .. o : text[j] = Blank
      BY <1>8, SoundAt
    <2>2. o = x
      <3> SUFFICES ASSUME o # x PROVE FALSE
        OBVIOUS
      <3>1. x + 1 \in x + 1 .. o
        BY <1>4, <1>5, <2>1
      <3>2. text[x + 1] = Blank
        BY <1>4, <2>1, <3>1
      <3> QED
        BY <1>3, <1>4, <3>2
    <2>3. x <= c - 1 /\ Follows(bp, x, text, c) /\ (damage = 0 => Len(bp) = z - x)
      BY <1>4, <1>5, <2>1, <2>2
    <2>4. CASE x = c - 1
      <3>1. bp = <<>> \/ bp[1] = Letter
        BY <1>1, <1>4, <1>5, <2>3, <2>4, FollowsFirst
      <3>2. damage # 0
        BY <1>1, <1>4, <1>5, <2>4
      <3> QED
        BY <1>6, <3>1, <3>2
    <2>5. CASE x < c - 1
      <3>1. bp # <<>> /\ Head(bp) = ch
        BY <1>1, <1>4, <1>5, <2>3, <2>5, FollowsFirst
      <3>2. /\ bp' = Tail(bp) /\ Onwards(Top.split)
            /\ UNCHANGED <<tm, result, date, layout, damage>>
        BY <1>3, <3>1 DEF ReadLiteral
      <3>5. Follows(bp', x + 1, text, c) /\ Len(bp') = Len(bp) - 1
        <4>1. x \in Nat /\ c \in Int /\ x < c - 1 /\ Follows(bp, x, text, c)
          BY <1>4, <1>5, <2>3, <2>5
        <4>2. Follows(Tail(bp), x + 1, text, c) /\ Len(Tail(bp)) = Len(bp) - 1
          BY <1>1, <3>1, <4>1, FollowsTail
        <4> QED
          BY <3>2, <4>2, Zenon
      <3>6. \A k \in 1 .. p + 1 : AsPrinted(e[k])'
        <4>1. \A k \in 1..p : AsPrinted(e[k])
          BY <1>8 DEF Sound
        <4>2. ASSUME NEW k \in 1..p PROVE AsPrinted(e[k])'
          BY <3>2, <4>1 DEF AsPrinted
        <4>3. AsPrinted(e[p + 1])'
          BY <1>2 DEF AsPrinted, Literals
        <4>4. \A k \in 1 .. p + 1 : k \in 1..p \/ k = p + 1
          <5>1. Len(e) \in Nat
            BY DEF PrintedBy
          <5> QED
            BY <5>1
        <4> QED
          BY <4>2, <4>3, <4>4
      <3>7. y \in y .. c - 1 /\ y \in Nat /\ x + 1 = y /\ \A j \in y + 1 .. y : text[j] = Blank
        BY <1>4, <1>5, <2>5
      <3>8. damage = 0 => Len(bp') = z - y
        <4>1. PICK n : n = Len(bp) /\ n \in Nat
          BY <1>1, LenProperties
        <4>2. Len(bp') = n - 1 /\ (damage = 0 => n = z - x)
          BY <2>3, <3>5, <4>1
        <4>3. z \in Nat /\ x \in Nat /\ y = x + 1
          BY <1>4
        <4> QED
          BY <4>1, <4>2, <4>3
      <3>9. Cut(text)' = c /\ Follows(bp', y, text, c)
        BY <1>5, <3>2, <3>5, <3>7 DEF Cut
      <3>10. Sound(e, text, ends, p + 1)'
        <4>1. PICK q : q = p + 1
          OBVIOUS
        <4>2. /\ y \in ends[q] .. Cut(text)' - 1 /\ Follows(bp', y, text, Cut(text)')
              /\ damage' = 0 => Len(bp') = Len(text) - y
              /\ \A j \in ends[q] + 1 .. y : text[j] = Blank
          BY <1>4, <3>2, <3>7, <3>8, <3>9, <4>1
        <4>3. \A k \in 1..q : AsPrinted(e[k])'
          BY <3>6, <4>1
        <4>4. Sound(e, text, ends, q)'
          BY <4>2, <4>3 DEF Sound
        <4> QED
          BY <4>1, <4>4
      <3> QED
        BY <3>2, <3>10
    <2> QED
      BY <1>4, <1>5, <2>3, <2>4, <2>5
  <1> QED
    BY <1>7, <1>8

\* Of a number that the text goes on with, all of the digits are read, or those
\* before the damage.
LEMMA NumberThere ==
    ASSUME NEW t \in Dates, NEW d \in Fields, NEW b \in Seq(Nat), NEW o \in Nat, NEW text,
           NEW c \in Int, Follows(b, o, text, c), o < c - 1,
           \A j \in 1..WidthOf(d) : text[o + j] = Printed(d, t)[j]
    PROVE  /\ b # <<>> /\ Head(b) \in Digits /\ WidthOf(d) \in 1..4
           /\ \E g \in 1..4 :
                 /\ g <= Len(b) /\ g = DigitsRead(b, Number[d][2])
                 /\ \/ /\ g = WidthOf(d) /\ g <= c - 1 - o
                       /\ Value(SubSeq(b, 1, g)) = FieldOf(d, t)
                       /\ FieldOf(d, t) \in Number[d][1] .. Number[d][2]
                    \/ g = c - 1 - o /\ g < WidthOf(d)
  <1>1. PICK n : n = Len(b) /\ n \in Nat
    BY LenProperties
  <1>2. /\ n >= c - 1 - o /\ \A k \in 1 .. c - 1 - o : b[k] = text[o + k]
        /\ n = c - 1 - o \/ b[c - o] = Letter
    BY <1>1 DEF Follows
  <1>3. PICK w : w = WidthOf(d) /\ w \in 1..4
    <2>1. PICK v \in Nat, lo \in Nat, hi \in Nat, p \in Seq(0..9) : Written(d, t, v, lo, hi, p)
      BY PrintedLength
    <2> QED
      BY <2>1 DEF Written
  <1>4. PICK a : a = c - 1 - o /\ a \in Int /\ a >= 1 /\ a <= n /\ c - o = a + 1
    BY <1>2
  <1>5. PICK g \in 1..4 : g <= w /\ g <= a /\ (g = w \/ g = a)
    <2>1. CASE w <= a
      BY <1>3, <1>4, <2>1
    <2>2. CASE ~(w <= a)
      BY <1>3, <1>4, <2>2
    <2> QED
      BY <2>1, <2>2
  <1>6. ASSUME NEW k \in 1..g PROVE b[k] = Printed(d, t)[k]
    <2>1. k \in 1 .. c - 1 - o /\ k \in 1..w
      BY <1>3, <1>4, <1>5
    <2> QED
      BY <1>2, <1>3, <2>1
  <1>7. g = w \/ g = n \/ b[g + 1] \notin Digits
    <2> SUFFICES ASSUME g # w, g # n PROVE b[g + 1] \notin Digits
      OBVIOUS
    <2>1. g = a /\ n # c - 1 - o /\ c - o = g + 1
      BY <1>4, <1>5
    <2>2. b[g + 1] = Letter
      BY <1>2, <2>1
    <2> QED
      BY <2>2 DEF Letter, Digits
  <1>8. g <= Len(b) /\ g <= WidthOf(d) /\ (g = WidthOf(d) \/ g = Len(b) \/ b[g + 1] \notin Digits)
    BY <1>1, <1>3, <1>4, <1>5, <1>7
  <1>9. /\ DigitsRead(b, Number[d][2]) = g /\ b[1] \in Digits
        /\ g = WidthOf(d) => /\ Value(SubSeq(b, 1, g)) = FieldOf(d, t)
                             /\ FieldOf(d, t) \in Number[d][1] .. Number[d][2]
    BY <1>6, <1>8, ReadDigits, Zenon
  <1>10. b # <<>> /\ Head(b) = b[1]
    <2>1. n # 0
      BY <1>4, <1>1
    <2>2. b # <<>>
      BY <1>1, <2>1, EmptySeq
    <2> QED
      BY <2>2, HeadTailProperties
  <1>11. b # <<>> /\ Head(b) \in Digits /\ WidthOf(d) \in 1..4
    BY <1>3, <1>9, <1>10
  <1>12. (g = WidthOf(d) /\ g <= c - 1 - o) \/ (g = c - 1 - o /\ g < WidthOf(d))
    BY <1>3, <1>4, <1>5
  <1> QED
    BY <1>8, <1>9, <1>11, <1>12, Zenon

\* The text of a field has as many digits as WidthOf says, the last one, which is
\* neither %Y nor %j, at most two.
LEMMA FieldWidth ==
    ASSUME NEW t \in Dates, NEW d \in Fields
    PROVE  /\ Len(Printed(d, t)) = WidthOf(d) /\ WidthOf(d) \in 1..4
           /\ Printed(d, t)[1] # Blank
           /\ d \notin {"Y", "j"} => WidthOf(d) <= 2
  <1>1. PICK v \in Nat, lo \in Nat, hi \in Nat, p \in Seq(0..9) : Written(d, t, v, lo, hi, p)
    BY PrintedLength
  <1>2. p = Printed(d, t) /\ Len(p) = WidthOf(d) /\ WidthOf(d) \in 1..4
    BY <1>1 DEF Written
  <1>3. p[1] # Blank
    <2>1. PICK n : n = Len(p) /\ n \in 1..4 /\ p \in [1..n -> 0..9]
      BY <1>2, LenProperties
    <2>2. p[1] \in 0..9
      BY <2>1
    <2> QED
      BY <2>2 DEF Blank
  <1>4. d \notin {"Y", "j"} => WidthOf(d) <= 2
    BY DEF WidthOf
  <1> QED
    BY <1>2, <1>3, <1>4

\* What ReadNumber does, if it goes on.
LEMMA NumberTaken ==
    ASSUME TimeTextInv, ReadNumber, NEW g, g = DigitsRead(bp, Number[Format][2]),
           bp # <<>>, Head(bp) \in Digits
    PROVE  \/ Fails /\ Value(SubSeq(bp, 1, g)) \notin Number[Format][1] .. Number[Format][2]
           \/ /\ tm' = Stored(Format, Value(SubSeq(bp, 1, g)), Top.split)
              /\ bp' = SubSeq(bp, g + 1, Len(bp))
              /\ \E split \in BOOLEAN : Onwards(split)
              /\ UNCHANGED <<result, date, layout, damage>>
  <1> DEFINE k == DigitsRead(bp, Number[Format][2])
             v == Value(SubSeq(bp, 1, k))
  <1>1. IF v \notin Number[Format][1] .. Number[Format][2] THEN Fails
        ELSE /\ tm' = Stored(Format, v, Top.split)
             /\ bp' = SubSeq(bp, k + 1, Len(bp))
             /\ Onwards(Top.split \/ Format \in {"C", "y"})
             /\ UNCHANGED <<result, date, layout, damage>>
    BY DEF ReadNumber
  <1>2. (Top.split \/ Format \in {"C", "y"}) \in BOOLEAN
    OBVIOUS
  <1>3. k = g
    OBVIOUS
  <1> HIDE DEF k
  <1>4. CASE v \notin Number[Format][1] .. Number[Format][2]
    BY <1>1, <1>3, <1>4
  <1>5. CASE v \in Number[Format][1] .. Number[Format][2]
    BY <1>1, <1>2, <1>3, <1>5
  <1> QED
    BY <1>4, <1>5

\* A number.
LEMMA NumberRead ==
    ASSUME TimeTextInv, NEW e, NEW text, NEW ends, PrintedBy(e, text, ends, date),
           NEW p \in 0..Len(e), p + 1 \in 1..Len(e), Format = e[p + 1],
           Sound(e, text, ends, p) \/ Stuck(e, text, ends, p), ReadNumber
    PROVE  \/ Fails /\ damage # 0
           \/ /\ (Sound(e, text, ends, p + 1) \/ Stuck(e, text, ends, p + 1))'
              /\ \E split \in BOOLEAN : Onwards(split)
              /\ UNCHANGED <<result, date, layout, damage>>
  <1>1. bp \in Seq(Nat) /\ date \in Dates /\ damage \in Nat /\ tm \in TimeType
    BY DEF TimeTextInv, TimeTextTypeOK, TimeType
  <1>2. PICK d \in Fields : d = Format /\ d = e[p + 1]
    <2>1. e[p + 1] \in Plain
      BY <1>1, NextPrinted
    <2>2. Format \in DOMAIN Number
      BY DEF ReadNumber
    <2>3. Format \in Fields
      BY <2>1, <2>2, NumberDomain DEF Plain, Blanks, Literals
    <2> QED
      BY <2>3
  <1>3. PICK w : w = WidthOf(d) /\ w \in 1..4 /\ w = Len(Printed(d, date))
                 /\ Printed(d, date)[1] # Blank /\ (d \notin {"Y", "j"} => w <= 2)
    BY <1>1, FieldWidth
  <1>4. PICK x, y, z : /\ x = ends[p] /\ y = ends[p + 1] /\ z = Len(text)
                       /\ x \in Nat /\ z \in Nat /\ y = x + w /\ y <= z
                       /\ \A j \in 1..w : text[x + j] = Printed(d, date)[j]
    <2>1. /\ ends[p] \in Nat /\ Len(text) \in Nat /\ ends[p + 1] <= Len(text)
          /\ ends[p + 1] = ends[p] + Len(Printed(e[p + 1], date)) /\ ends[p + 1] \in Nat
          /\ \A j \in 1..Len(Printed(e[p + 1], date)) :
                text[ends[p] + j] = Printed(e[p + 1], date)[j]
      BY <1>1, NextPrinted
    <2>2. w = Len(Printed(e[p + 1], date)) /\ Printed(e[p + 1], date) = Printed(d, date)
      BY <1>2, <1>3, Zenon
    <2> QED
      BY <2>1, <2>2, Zenon
  <1>5. PICK c : c = Cut(text) /\ c = z + 1 - damage /\ c \in Int
    BY <1>1, <1>4 DEF Cut
  <1>6. ASSUME bp = <<>> \/ bp[1] = Letter PROVE Fails
    <2>1. bp # <<>> => Head(bp) = bp[1]
      BY <1>1, HeadTailProperties
    <2>2. bp = <<>> \/ Head(bp) \notin Digits
      BY <1>6, <2>1 DEF Letter, Digits
    <2> QED
      BY <2>2 DEF ReadNumber
  <1>7. CASE Stuck(e, text, ends, p)
    BY <1>6, <1>7 DEF Stuck
  <1>8. CASE Sound(e, text, ends, p)
    <2>1. PICK o \in ends[p] .. Cut(text) - 1 :
             /\ Follows(bp, o, text, Cut(text))
             /\ damage = 0 => Len(bp) = Len(text) - o
             /\ \A j \in ends[p] + 1 .. o : text[j] = Blank
      BY <1>8, SoundAt
    <2>2. o = x
      <3> SUFFICES ASSUME o # x PROVE FALSE
        OBVIOUS
      <3>1. x + 1 \in x + 1 .. o
        BY <1>4, <1>5, <2>1
      <3>2. text[x + 1] = Blank
        BY <1>4, <2>1, <3>1
      <3>3. 1 \in 1..w
        BY <1>3
      <3> QED
        BY <1>3, <1>4, <3>2, <3>3
    <2>3. x <= c - 1 /\ Follows(bp, x, text, c) /\ (damage = 0 => Len(bp) = z - x)
      BY <1>4, <1>5, <2>1, <2>2
    <2>4. CASE x = c - 1
      <3>1. bp = <<>> \/ bp[1] = Letter
        BY <1>1, <1>4, <1>5, <2>3, <2>4, FollowsFirst
      <3>2. damage # 0
        BY <1>1, <1>3, <1>4, <1>5, <2>4
      <3> QED
        BY <1>6, <3>1, <3>2
    <2>5. CASE x < c - 1
      <3>0. x \in Nat /\ c \in Int /\ Follows(bp, x, text, c) /\ x < c - 1
            /\ \A j \in 1..WidthOf(d) : text[x + j] = Printed(d, date)[j]
        BY <1>3, <1>4, <1>5, <2>3, <2>5
      <3>1. /\ bp # <<>> /\ Head(bp) \in Digits
            /\ \E g \in 1..4 :
                 /\ g <= Len(bp) /\ g = DigitsRead(bp, Number[d][2])
                 /\ \/ /\ g = WidthOf(d) /\ g <= c - 1 - x
                       /\ Value(SubSeq(bp, 1, g)) = FieldOf(d, date)
                       /\ FieldOf(d, date) \in Number[d][1] .. Number[d][2]
                    \/ g = c - 1 - x /\ g < WidthOf(d)
        BY <1>1, <3>0, NumberThere
      <3>2. PICK g \in 1..4 :
                 /\ g <= Len(bp) /\ g = DigitsRead(bp, Number[d][2])
                 /\ \/ /\ g = w /\ g <= c - 1 - x
                       /\ Value(SubSeq(bp, 1, g)) = FieldOf(d, date)
                       /\ FieldOf(d, date) \in Number[d][1] .. Number[d][2]
                    \/ g = c - 1 - x /\ g < w
        BY <1>3, <3>1
      <3>3. PICK v : v = Value(SubSeq(bp, 1, g))
        OBVIOUS
      <3>4. \/ Fails /\ v \notin Number[d][1] .. Number[d][2]
            \/ /\ tm' = Stored(d, v, Top.split)
               /\ bp' = SubSeq(bp, g + 1, Len(bp))
               /\ \E split \in BOOLEAN : Onwards(split)
               /\ UNCHANGED <<result, date, layout, damage>>
        <4>1. g = DigitsRead(bp, Number[Format][2])
          BY <1>2, <3>2
        <4> QED
          BY <1>2, <3>1, <3>3, <4>1, NumberTaken
      <3>5. CASE ~(/\ tm' = Stored(d, v, Top.split)
                   /\ bp' = SubSeq(bp, g + 1, Len(bp))
                   /\ \E split \in BOOLEAN : Onwards(split)
                   /\ UNCHANGED <<result, date, layout, damage>>)
        <4>1. Fails /\ v \notin Number[d][1] .. Number[d][2]
          BY <3>4, <3>5
        <4>2. g = c - 1 - x /\ g < w
          BY <3>2, <3>3, <4>1
        <4>3. damage # 0
          BY <1>1, <1>3, <1>4, <1>5, <4>2
        <4> QED
          BY <4>1, <4>3
      <3>6. CASE /\ tm' = Stored(d, v, Top.split)
                 /\ bp' = SubSeq(bp, g + 1, Len(bp))
                 /\ \E split \in BOOLEAN : Onwards(split)
                 /\ UNCHANGED <<result, date, layout, damage>>
        <4>0. \A k \in 1..p : AsPrinted(e[k]) /\ e[k] \in Plain
          <5>1. \A k \in 1..p : AsPrinted(e[k])
            BY <1>8 DEF Sound
          <5>2. PICK n : n = Len(e) /\ n \in Nat /\ e \in [1..n -> Plain] /\ p \in 0..n
            BY LenProperties DEF PrintedBy
          <5>3. \A k \in 1..p : e[k] \in Plain
            BY <5>2
          <5> QED
            BY <5>1, <5>3
        <4>1. /\ v = FieldOf(d, date) => AsPrinted(d)'
              /\ \A k \in Plain : AsPrinted(k) /\ k # d => AsPrinted(k)'
              /\ v = FieldOf(d, date) => \A k \in Plain : AsPrinted(k) => AsPrinted(k)'
          BY <1>1, <3>6, StoredAs
        <4>2. \A k \in 1 .. p + 1 : k \in 1..p \/ k = p + 1
          <5>1. Len(e) \in Nat
            BY DEF PrintedBy
          <5> QED
            BY <5>1
        <4>3. g \in 0..Len(bp) /\ g \in Nat
          BY <1>1, <3>2, LenProperties
        <4>4. PICK n : n = Len(bp) /\ n \in Nat
          BY <1>1, LenProperties
        <4>5. Len(bp') = n - g /\ bp' \in Seq(Nat) /\ \A i \in 1 .. n - g : bp'[i] = bp[g + i]
          BY <1>1, <3>6, <4>3, <4>4, RestIs
        <4>6. Cut(text)' = c
          BY <1>5, <3>6 DEF Cut
        <4>a. PICK dm \in Nat : dm = damage /\ dm = damage' /\ c = z + 1 - dm
          BY <1>1, <1>5, <3>6
        <4>d. c = z + 1 - dm /\ dm \in Nat
          BY <4>a
        <4>b. /\ x \in Nat /\ z \in Nat /\ w \in Nat /\ g \in Nat /\ g >= 1 /\ c \in Int
              /\ y = x + w /\ y <= z /\ y \in Nat
          BY <1>3, <1>4, <1>5
        <4>7. CASE /\ g = w /\ g <= c - 1 - x
                   /\ v = FieldOf(d, date)
          <5>1. Follows(bp', y, text, c)
            <6>1. x + g = y
              BY <1>4, <4>7
            <6>2. bp' = SubSeq(bp, g + 1, Len(bp)) /\ Follows(bp, x, text, c) /\ g <= c - 1 - x
                  /\ x \in Nat /\ c \in Int
              BY <1>4, <1>5, <2>3, <3>6, <4>7
            <6>3. Follows(bp', x + g, text, c)
              BY <1>1, <4>3, <6>2, FollowsRest, ZenonT(30)
            <6> QED
              BY <6>1, <6>3
          <5>2. y \in y .. c - 1 /\ \A j \in y + 1 .. y : text[j] = Blank
            <6>1. g = w /\ g <= c - 1 - x
              BY <4>7
            <6>2. y \in y .. c - 1
              BY <4>b, <6>1
            <6> QED
              BY <4>b, <6>2
          <5>3. damage = 0 => Len(bp') = z - y
            <6>1. x \in Nat /\ z \in Nat /\ y = x + w /\ w \in Nat /\ g = w
              BY <1>3, <1>4, <4>7
            <6>2. Len(bp') = n - g /\ (damage = 0 => n = z - x)
              BY <2>3, <4>4, <4>5
            <6> QED
              BY <4>4, <6>1, <6>2
          <5>4. \A k \in 1 .. p + 1 : AsPrinted(e[k])'
            BY <1>2, <4>0, <4>1, <4>2, <4>7
          <5>5. PICK q : q = p + 1
            OBVIOUS
          <5>6. /\ y \in ends[q] .. Cut(text)' - 1 /\ Follows(bp', y, text, Cut(text)')
                /\ damage' = 0 => Len(bp') = Len(text) - y
                /\ \A j \in ends[q] + 1 .. y : text[j] = Blank
            BY <1>4, <3>6, <4>6, <5>1, <5>2, <5>3, <5>5
          <5>7. \A k \in 1..q : AsPrinted(e[k])'
            BY <5>4, <5>5
          <5>8. Sound(e, text, ends, q)'
            BY <5>6, <5>7 DEF Sound
          <5> QED
            BY <3>6, <5>5, <5>8
        <4>8. CASE g = c - 1 - x /\ g < w
          <5>1. y >= c /\ damage' # 0
            <6>1. y >= c
              BY <4>b, <4>8
            <6>2. dm # 0
              BY <4>d, <4>b, <6>1
            <6> QED
              BY <4>a, <6>1, <6>2
          <5>2. bp' = <<>> \/ bp'[1] = Letter
            <6>1. n = c - 1 - x \/ bp[c - x] = Letter
              BY <2>3, <4>4 DEF Follows
            <6>2. CASE n = g
              <7>1. Len(bp') = 0
                BY <4>4, <4>5, <6>2
              <7> QED
                BY <4>5, <7>1, EmptySeq
            <6>3. CASE n # g
              <7>1. 1 \in 1 .. n - g /\ c - x = g + 1
                <8>1. n - g >= 1
                  BY <3>2, <4>3, <4>4, <6>3
                <8> QED
                  BY <4>b, <4>8, <8>1
              <7>2. bp'[1] = bp[g + 1] /\ bp[g + 1] = Letter
                BY <4>5, <4>8, <6>1, <6>3, <7>1
              <7> QED
                BY <7>2
            <6> QED
              BY <6>2, <6>3
          <5>3. ASSUME p + 1 = Len(e)
                PROVE  damage' = 1 /\ \A k \in 1..Len(e) : e[k] # e[Len(e)] => AsPrinted(e[k])'
            <6>1. d \notin {"Y", "j"} /\ y = z
              <7>1. e[Len(e)] \notin {"Y", "j"} /\ ends[Len(e)] = Len(text)
                BY DEF PrintedBy
              <7> QED
                BY <1>2, <1>4, <5>3, <7>1
            <6>2. damage' = 1
              <7>1. w <= 2
                BY <1>3, <6>1
              <7> QED
                <8>1. w = 2 /\ g = 1
                  BY <4>b, <4>8, <7>1
                <8>2. c = z
                  BY <4>b, <4>8, <6>1, <8>1
                <8>3. dm = 1
                  BY <4>d, <4>b, <8>2
                <8> QED
                  BY <4>a, <8>3
            <6>3. ASSUME NEW k \in 1..Len(e), e[k] # e[Len(e)] PROVE AsPrinted(e[k])'
              <7>1. k \in 1..p
                BY <4>2, <5>3, <6>3
              <7> QED
                BY <1>2, <4>0, <4>1, <5>3, <6>3, <7>1
            <6> QED
              BY <6>2, <6>3
          <5>4. PICK q : q = p + 1
            OBVIOUS
          <5>5. /\ damage' # 0 /\ (bp' = <<>> \/ bp'[1] = Letter) /\ ends[q] >= Cut(text)'
                /\ q = Len(e) => damage' = 1
                        /\ \A k \in 1..Len(e) : e[k] # e[Len(e)] => AsPrinted(e[k])'
            BY <1>4, <4>6, <5>1, <5>2, <5>3, <5>4
          <5>6. Stuck(e, text, ends, q)'
            BY <5>5 DEF Stuck
          <5> QED
            BY <3>6, <5>4, <5>6
        <4> QED
          BY <3>2, <3>3, <4>7, <4>8
      <3> QED
        BY <3>5, <3>6
    <2> QED
      BY <1>4, <1>5, <2>3, <2>4, <2>5
  <1> QED
    BY <1>7, <1>8

-----------------------------------------------------------------------------
(***************************************************************************)
(* The invariant.                                                          *)
(***************************************************************************)

\* The conversions at which something is read.
LEMMA SomethingLeft ==
    ASSUME ReadBlanks \/ ReadLiteral \/ ReadModifier \/ ReadExpansion \/ ReadName \/ ReadHalf
              \/ ReadNumber
    PROVE  Reading /\ Top.fmt # <<>>
  <1>1. Top.fmt = <<>> => Format = ""
    BY Zenon DEF Format
  <1>2. Reading /\ Format # ""
    <2>1. CASE ReadBlanks
      BY <2>1 DEF ReadBlanks
    <2>2. CASE ReadLiteral
      BY <2>2, CharOfDomain DEF ReadLiteral
    <2>3. CASE ReadModifier
      BY <2>3 DEF ReadModifier
    <2>4. CASE ReadExpansion
      BY <2>4 DEF ReadExpansion, Expansion
    <2>5. CASE ReadName
      BY <2>5 DEF ReadName
    <2>6. CASE ReadHalf
      BY <2>6 DEF ReadHalf
    <2>7. CASE ReadNumber
      BY <2>7, NumberDomain DEF ReadNumber
    <2> QED
      BY <2>1, <2>2, <2>3, <2>4, <2>5, <2>6, <2>7
  <1> QED
    BY <1>1, <1>2, Zenon

\* The printed text, with or without damage, is at its start.
LEMMA BeginsRight ==
    ASSUME NEW fmt \in PlainLayouts, NEW t \in Dates, ParseBegin(t, fmt)
    PROVE  ReadUpTo(frames', layout', 0) /\ ReadRight(0)'
  <1>1. PICK e, text, ends : /\ e = Expanded(fmt) /\ text = TextOf(fmt, t)
                             /\ ends = EndsOf(TextPieces(e, t))
    OBVIOUS
  <1>2. layout' = fmt /\ date' = t /\ frames' = <<Frame(fmt)>>
    BY DEF ParseBegin
  <1>3. ReadUpTo(frames', layout', 0)
    BY <1>2, FirstFrame
  <1>4. text \in Seq(Nat) /\ ends[0] = 0
    BY <1>1, TextLaid
  <1>5. PICK n : n = Len(text) /\ n \in Nat /\ text \in [1..n -> Nat]
    BY <1>4, LenProperties
  <1>6. ASSUME Cut(text)' \in 1 .. n + 1, Follows(bp', 0, text, Cut(text)'),
               damage' = 0 => Len(bp') = n
        PROVE  ReadRight(0)'
    <2>1. /\ 0 \in ends[0] .. Cut(text)' - 1 /\ Follows(bp', 0, text, Cut(text)')
          /\ damage' = 0 => Len(bp') = Len(text) - 0
          /\ \A j \in ends[0] + 1 .. 0 : text[j] = Blank
      BY <1>4, <1>5, <1>6
    <2>2. \A k \in 1..0 : AsPrinted(e[k])'
      OBVIOUS
    <2>3. Sound(e, text, ends, 0)'
      BY <2>1, <2>2 DEF Sound
    <2> QED
      BY <1>1, <1>2, <2>3 DEF ReadRight
  <1>7. \/ bp' = text /\ damage' = 0
        \/ \E i \in 1..n : /\ bp' \in {[text EXCEPT ![i] = Letter], SubSeq(text, 1, i - 1)}
                           /\ damage' = n - i + 1
    BY <1>1, <1>5 DEF ParseBegin
  <1>8. CASE bp' = text /\ damage' = 0
    <2>1. Cut(text)' = n + 1
      BY <1>5, <1>8 DEF Cut
    <2>2. Follows(text, 0, text, n + 1)
      BY <1>5 DEF Follows
    <2>3. Cut(text)' \in 1 .. n + 1
      BY <1>5, <2>1
    <2>4. Follows(bp', 0, text, Cut(text)')
      BY <1>8, <2>1, <2>2
    <2>5. damage' = 0 => Len(bp') = n
      BY <1>5, <1>8
    <2> QED
      BY <1>3, <1>6, <2>3, <2>4, <2>5
  <1>9. ASSUME NEW i \in 1..n, damage' = n - i + 1,
               bp' \in {[text EXCEPT ![i] = Letter], SubSeq(text, 1, i - 1)}
        PROVE  ReadRight(0)'
    <2>1. Cut(text)' = i /\ damage' # 0 /\ i \in 1 .. n + 1
      BY <1>5, <1>9 DEF Cut
    <2>2. CASE bp' = [text EXCEPT ![i] = Letter]
      <3>1. PICK b : b = bp' /\ b \in [1..n -> Nat] /\ b[i] = Letter
                     /\ \A k \in 1 .. i - 1 : b[k] = text[k]
        BY <1>5, <2>2 DEF Letter
      <3>2. Len(b) = n
        BY <1>5, <3>1
      <3>3. Follows(b, 0, text, i)
        BY <1>5, <3>1, <3>2 DEF Follows
      <3> QED
        BY <1>6, <2>1, <3>1, <3>3
    <2>3. CASE bp' = SubSeq(text, 1, i - 1)
      <3>1. PICK h : h = i - 1 /\ h \in 0..n
        BY <1>5
      <3>2. PICK b : b = SubSeq(text, 1, h)
        OBVIOUS
      <3>3. Len(b) = h /\ \A k \in 1..h : b[k] = text[k]
        <4>1. \A k \in 1..h : text[k] \in Nat
          BY <1>5, <3>1
        <4>2. 1 \in Int /\ h \in Int
          BY <1>5, <3>1
        <4>3. /\ Len(b) = IF 1 <= h THEN h - 1 + 1 ELSE 0
              /\ \A k \in 1 .. h - 1 + 1 : b[k] = text[1 + k - 1]
          BY <3>2, <4>1, <4>2, SubSeqProperties
        <4>4. Len(b) = h
          BY <1>5, <3>1, <4>3
        <4>5. ASSUME NEW k \in 1..h PROVE b[k] = text[k]
          <5>1. k \in 1 .. h - 1 + 1 /\ 1 + k - 1 = k
            BY <1>5, <3>1
          <5> QED
            BY <4>3, <5>1
        <4> QED
          BY <4>4, <4>5
      <3>4. Follows(b, 0, text, i)
        BY <1>5, <3>1, <3>3 DEF Follows
      <3>5. bp' = b
        BY <2>3, <3>1, <3>2
      <3> QED
        BY <1>6, <2>1, <3>4, <3>5
    <2> QED
      BY <1>9, <2>2, <2>3
  <1> QED
    BY <1>3, <1>7, <1>8, <1>9

\* The end of the format.
LEMMA EndsRight ==
    ASSUME damage \in Nat, bp \in Seq(Nat), NEW e, NEW text, NEW ends,
           PrintedBy(e, text, ends, date),
           Sound(e, text, ends, Len(e)) \/ Stuck(e, text, ends, Len(e))
    PROVE  /\ damage = 0 => bp = <<>> /\ \A k \in 1..Len(e) : AsPrinted(e[k])
           /\ damage # 0 => /\ damage = 1
                            /\ \A k \in 1..Len(e) : e[k] # e[Len(e)] => AsPrinted(e[k])
  <1>1. PICK z : z = Len(text) /\ z \in Nat /\ ends[Len(e)] = z
    BY LenProperties DEF PrintedBy
  <1>2. CASE Sound(e, text, ends, Len(e))
    <2>1. PICK o \in ends[Len(e)] .. Cut(text) - 1 : damage = 0 => Len(bp) = Len(text) - o
      BY <1>2, SoundAt
    <2>2. PICK dm \in Nat : dm = damage
      OBVIOUS
    <2>3. Cut(text) = z + 1 - dm
      BY <1>1, <2>2 DEF Cut
    <2>4. o = z /\ dm = 0
      BY <1>1, <2>1, <2>2, <2>3
    <2>5. Len(bp) = 0
      BY <1>1, <2>1, <2>2, <2>4
    <2>6. bp = <<>>
      BY <2>5, EmptySeq
    <2>7. \A k \in 1..Len(e) : AsPrinted(e[k])
      BY <1>2 DEF Sound
    <2> QED
      BY <2>2, <2>4, <2>6, <2>7
  <1>3. CASE Stuck(e, text, ends, Len(e))
    BY <1>3 DEF Stuck
  <1> QED
    BY <1>2, <1>3

LEMMA ParseInvInit ==
    ASSUME TimeTextInit
    PROVE  ParseInv
  <1>1. result = "none"
    BY DEF TimeTextInit
  <1> QED
    BY <1>1 DEF ParseInv, Reading

LEMMA ParseInvNext ==
    ASSUME TimeTextInv, ParseInv, [TimeTextNext]_timeTextVars
    PROVE  ParseInv'
  <1>0. /\ bp \in Seq(Nat) /\ date \in Dates /\ damage \in Nat
        /\ result \in {"none", "reading", "end of text", "nullptr"}
    BY DEF TimeTextInv, TimeTextTypeOK
  <1>1. CASE UNCHANGED timeTextVars
    <2>1. UNCHANGED <<frames, bp, tm, result, date, layout, damage>>
      BY <1>1 DEF timeTextVars
    <2>2. (Reading' <=> Reading) /\ \A d : AsPrinted(d)' <=> AsPrinted(d)
      BY <2>1 DEF Reading, AsPrinted
    <2>3. \A p : ReadRight(p)' <=> ReadRight(p)
      BY <2>1, <2>2, Zenon DEF ReadRight, Sound, Stuck, Cut
    <2> SUFFICES ASSUME layout \in PlainLayouts PROVE ParseInv'
      BY <2>1 DEF ParseInv
    <2>4. Reading' =>
             \E p \in 0..Len(Expanded(layout')) : ReadUpTo(frames', layout', p) /\ ReadRight(p)'
      BY <2>1, <2>2, <2>3 DEF ParseInv
    <2>5. result' = "nullptr" => damage' # 0
      BY <2>1 DEF ParseInv
    <2>6. CASE result = "end of text"
      <3>1. PICK e : e = Expanded(layout)
        OBVIOUS
      <3>2. /\ damage = 0 => bp = <<>> /\ \A k \in 1..Len(e) : AsPrinted(e[k])
            /\ damage # 0 => /\ damage = 1
                             /\ \A k \in 1..Len(e) : e[k] # e[Len(e)] => AsPrinted(e[k])
        BY <2>1, <2>6, <3>1 DEF ParseInv
      <3>3. /\ damage' = 0 => bp' = <<>> /\ \A k \in 1..Len(e) : AsPrinted(e[k])'
            /\ damage' # 0 => /\ damage' = 1
                              /\ \A k \in 1..Len(e) : e[k] # e[Len(e)] => AsPrinted(e[k])'
        BY <2>1, <2>2, <3>2
      <3>4. e = Expanded(layout')
        BY <2>1, <3>1
      <3> QED
        BY <2>1, <2>6, <3>3, <3>4 DEF ParseInv, Reading
    <2>7. CASE result # "end of text"
      BY <2>1, <2>4, <2>5, <2>7 DEF ParseInv
    <2> QED
      BY <2>6, <2>7
  <1>2. ASSUME NEW t \in Dates, NEW fmt \in Layouts, ParseBegin(t, fmt)
        PROVE  ParseInv'
    <2>0. layout' = fmt
      BY <1>2 DEF ParseBegin
    <2> SUFFICES ASSUME fmt \in PlainLayouts PROVE ParseInv'
      BY <2>0 DEF ParseInv
    <2>1. fmt \in PlainLayouts
      OBVIOUS
    <2>2. ReadUpTo(frames', layout', 0) /\ ReadRight(0)'
      BY <1>2, <2>1, BeginsRight
    <2>3. layout' = fmt /\ result' = "reading"
      BY <1>2 DEF ParseBegin
    <2>4. 0 \in 0..Len(Expanded(fmt))
      <3>1. Len(Expanded(fmt)) \in Nat \ {0}
        BY <2>1, ExpandedLast
      <3> QED
        BY <3>1
    <2>5. \E p \in 0..Len(Expanded(layout')) : ReadUpTo(frames', layout', p) /\ ReadRight(p)'
      BY <2>2, <2>3, <2>4
    <2> QED
      BY <2>3, <2>5 DEF ParseInv, Reading
  <1>3. ASSUME Reading, TimeTextNext, \A t \in Dates, fmt \in Layouts : ~ParseBegin(t, fmt)
        PROVE  ParseInv'
    <2>0. layout' = layout
      BY <1>3 DEF TimeTextNext, ReadBlanks, ReadLiteral, ReadModifier, ReadExpansion,
                  ReadName, ReadHalf, ReadNumber, ReadUnknown, ParseEnd, Fails
    <2> SUFFICES ASSUME layout \in PlainLayouts PROVE ParseInv'
      BY <2>0 DEF ParseInv
    <2>1. layout \in PlainLayouts /\ result = "reading"
      BY <1>3 DEF Reading
    <2>2. PICK e, text, ends : /\ e = Expanded(layout) /\ text = TextOf(layout, date)
                               /\ ends = EndsOf(TextPieces(e, date))
      OBVIOUS
    <2>3. PrintedBy(e, text, ends, date)
      BY <1>0, <2>1, <2>2, PrintedByIs, Zenon
    <2>4. PICK p \in 0..Len(e) : ReadUpTo(frames, layout, p) /\ ReadRight(p)
      BY <1>3, <2>1, <2>2 DEF ParseInv
    <2>5. Sound(e, text, ends, p) \/ Stuck(e, text, ends, p)
      BY <2>2, <2>4 DEF ReadRight
    <2>6. /\ Top.alt = {}
          /\ Top.fmt # <<>> => Format \in Plain \cup Shorthand
          /\ Format \in Plain =>
                /\ p + 1 \in 1..Len(e) /\ Format = e[p + 1]
                /\ \A split \in BOOLEAN : Onwards(split) => ReadUpTo(frames', layout, p + 1)
          /\ ReadExpansion => ReadUpTo(frames', layout, p)
          /\ ParseEnd => /\ Len(frames) = 1 => p = Len(e)
                         /\ Len(frames) # 1 => ReadUpTo(frames', layout, p)
      BY <1>3, <2>1, <2>2, <2>4, NextFormat
    <2>a. ASSUME Fails, damage # 0 PROVE ParseInv'
      BY <2>1, <2>a DEF Fails, ParseInv, Reading
    <2>b. ASSUME NEW q \in 0..Len(e), ReadUpTo(frames', layout, q),
                 (Sound(e, text, ends, q) \/ Stuck(e, text, ends, q))',
                 UNCHANGED <<result, date, layout>>
          PROVE  ParseInv'
      <3>1. ReadRight(q)'
        BY <2>2, <2>b DEF ReadRight
      <3>2. \E k \in 0..Len(Expanded(layout')) : ReadUpTo(frames', layout', k) /\ ReadRight(k)'
        BY <2>2, <2>b, <3>1
      <3> QED
        BY <2>1, <2>b, <3>2 DEF ParseInv, Reading
    <2>c. ASSUME Format \in Plain, NEW split \in BOOLEAN, Onwards(split),
                 (Sound(e, text, ends, p + 1) \/ Stuck(e, text, ends, p + 1))',
                 UNCHANGED <<result, date, layout>>
          PROVE  ParseInv'
      <3>1. PICK q : q = p + 1 /\ q \in 1..Len(e) /\ ReadUpTo(frames', layout, q)
        BY <2>6, <2>c
      <3>2. q \in 0..Len(e)
        <4>1. Len(e) \in Nat
          BY <2>3 DEF PrintedBy
        <4> QED
          BY <3>1, <4>1
      <3>3. (Sound(e, text, ends, q) \/ Stuck(e, text, ends, q))'
        BY <2>c, <3>1
      <3> QED
        BY <2>b, <2>c, <3>1, <3>2, <3>3
    <2>d. Top.fmt # <<>> => Top.split \in BOOLEAN
      BY <1>3, Running DEF FrameType
    <2>7. CASE ReadBlanks
      <3>1. Format \in Plain
        BY <2>7 DEF ReadBlanks, Plain, Blanks
      <3>2. p + 1 \in 1..Len(e) /\ Format = e[p + 1]
        BY <2>6, <3>1
      <3>3. (Sound(e, text, ends, p + 1) \/ Stuck(e, text, ends, p + 1))'
        BY <2>3, <2>5, <2>7, <3>2, BlanksRead
      <3>4. Onwards(Top.split) /\ Top.split \in BOOLEAN /\ UNCHANGED <<result, date, layout>>
        BY <2>7, <2>d, SomethingLeft DEF ReadBlanks
      <3> QED
        BY <2>c, <3>1, <3>3, <3>4
    <2>8. CASE ReadLiteral
      <3>1. Format \in Plain
        BY <2>8, CharOfDomain DEF ReadLiteral, Plain, Literals
      <3>2. p + 1 \in 1..Len(e) /\ Format = e[p + 1]
        BY <2>6, <3>1
      <3>3. \/ Fails /\ damage # 0
            \/ /\ Sound(e, text, ends, p + 1)'
               /\ Onwards(Top.split) /\ UNCHANGED <<result, date, layout, damage>>
        BY <2>3, <2>5, <2>8, <3>2, LiteralRead
      <3>4. Top.split \in BOOLEAN
        BY <2>8, <2>d, SomethingLeft
      <3> QED
        BY <2>a, <2>c, <3>1, <3>3, <3>4
    <2>9. CASE ReadNumber
      <3>1. Format \in Plain
        <4>1. Format \in Plain \cup Shorthand
          BY <2>6, <2>9, SomethingLeft
        <4>2. Format \in DOMAIN Number
          BY <2>9 DEF ReadNumber
        <4> QED
          BY <4>1, <4>2, NumberDomain DEF Shorthand
      <3>2. p + 1 \in 1..Len(e) /\ Format = e[p + 1]
        BY <2>6, <3>1
      <3>3. \/ Fails /\ damage # 0
            \/ /\ (Sound(e, text, ends, p + 1) \/ Stuck(e, text, ends, p + 1))'
               /\ \E split \in BOOLEAN : Onwards(split)
               /\ UNCHANGED <<result, date, layout, damage>>
        BY <2>3, <2>5, <2>9, <3>2, NumberRead
      <3> QED
        BY <2>a, <2>c, <3>1, <3>3
    <2>10. CASE ReadExpansion
      <3>1. ReadUpTo(frames', layout, p)
        BY <2>6, <2>10
      <3>2. UNCHANGED <<bp, tm, result, date, layout, damage>>
        BY <2>10 DEF ReadExpansion
      <3>3. (Sound(e, text, ends, p) \/ Stuck(e, text, ends, p))'
        BY <2>5, <3>2 DEF Sound, Stuck, AsPrinted, Cut
      <3> QED
        BY <2>b, <3>1, <3>2, <3>3
    <2>11. ASSUME ReadModifier \/ ReadName \/ ReadHalf PROVE FALSE
      <3>1. Format \in Plain \cup Shorthand
        BY <2>6, <2>11, SomethingLeft
      <3>2. Format \in {"E", "O", "A", "a", "B", "b", "h", "p"}
        BY <2>11 DEF ReadModifier, ReadName, ReadHalf
      <3> QED
        BY <3>1, <3>2 DEF Plain, Fields, Blanks, Literals, Shorthand
    <2>12. ~ReadUnknown
      <3>1. LegalHere
        BY <2>6 DEF LegalHere
      <3>2. CASE Top.fmt # <<>>
        <4>1. Format \in Plain \cup Shorthand
          BY <2>6, <3>2
        <4>2. Plain \cup Shorthand \subseteq
                 {"blank", "n", "t"} \cup DOMAIN CharOf \cup DOMAIN Expansion \cup DOMAIN Number
          BY CharOfDomain, NumberDomain
             DEF Plain, Fields, Blanks, Literals, Shorthand, Expansion
        <4>3. Format \in Known
          BY <4>1, <4>2, Zenon DEF Known
        <4> QED
          BY <3>1, <4>3 DEF ReadUnknown
      <3>3. CASE Top.fmt = <<>>
        <4>1. Format \in Known
          BY <3>3, Zenon DEF Known, Format
        <4> QED
          BY <3>1, <4>1 DEF ReadUnknown
      <3> QED
        BY <3>2, <3>3
    <2>13. CASE ParseEnd /\ Len(frames) = 1
      <3>1. p = Len(e)
        BY <2>6, <2>13
      <3>2. result' = "end of text" /\ UNCHANGED <<bp, tm, date, layout, damage>>
        BY <2>13 DEF ParseEnd
      <3>3. /\ damage = 0 => bp = <<>> /\ \A k \in 1..Len(e) : AsPrinted(e[k])
            /\ damage # 0 => /\ damage = 1
                             /\ \A k \in 1..Len(e) : e[k] # e[Len(e)] => AsPrinted(e[k])
        BY <1>0, <2>3, <2>5, <3>1, EndsRight
      <3>4. \A x : AsPrinted(x) => AsPrinted(x)'
        BY <3>2 DEF AsPrinted
      <3>5. /\ damage' = 0 => bp' = <<>> /\ \A k \in 1..Len(e) : AsPrinted(e[k])'
            /\ damage' # 0 => /\ damage' = 1
                              /\ \A k \in 1..Len(e) : e[k] # e[Len(e)] => AsPrinted(e[k])'
        BY <3>2, <3>3, <3>4
      <3>6. e = Expanded(layout')
        BY <2>2, <3>2
      <3> QED
        BY <2>1, <3>2, <3>5, <3>6 DEF ParseInv, Reading
    <2>14. CASE ParseEnd /\ Len(frames) # 1
      <3>1. ReadUpTo(frames', layout, p)
        BY <2>6, <2>14
      <3>2. UNCHANGED <<bp, tm, result, date, layout, damage>>
        BY <2>14 DEF ParseEnd
      <3>3. (Sound(e, text, ends, p) \/ Stuck(e, text, ends, p))'
        BY <2>5, <3>2 DEF Sound, Stuck, AsPrinted, Cut
      <3> QED
        BY <2>b, <3>1, <3>2, <3>3
    <2> QED
      BY <1>3, <2>7, <2>8, <2>9, <2>10, <2>11, <2>12, <2>13, <2>14 DEF TimeTextNext
  <1>4. TimeTextNext => Reading \/ \E t \in Dates, fmt \in Layouts : ParseBegin(t, fmt)
    BY DEF TimeTextNext, ReadBlanks, ReadLiteral, ReadModifier, ReadExpansion, ReadName,
           ReadHalf, ReadNumber, ReadUnknown, ParseEnd
  <1> QED
    BY <1>1, <1>2, <1>3, <1>4

\* What the invariant says at the end is what ParseInverts asks for.
LEMMA ParseInvInverts ==
    ASSUME TimeTextInv, ParseInv, layout \in PlainLayouts
    PROVE  ParseInverts
  <1>1. CASE result = "end of text"
    <2>1. layout \in PlainLayouts
      OBVIOUS
    <2>2. PICK e : e = Expanded(layout)
      OBVIOUS
    <2>3. /\ e \in Seq(Plain) /\ Len(e) \in Nat \ {0} /\ Flat(layout) = e
      BY <2>1, <2>2, ExpandedLast
    <2>4. PICK n : n = Len(e) /\ n \in Nat \ {0} /\ e \in [1..n -> Plain] /\ DOMAIN e = 1..n
      BY <2>3, LenProperties
    <2>5. /\ damage = 0 => bp = <<>> /\ \A k \in 1..n : AsPrinted(e[k])
          /\ damage # 0 => damage = 1 /\ \A k \in 1..n : e[k] # e[n] => AsPrinted(e[k])
      BY <1>1, <2>2, <2>4 DEF ParseInv
    <2>6. ASSUME NEW d, Sure(d) PROVE d \in Plain /\ AsPrinted(d)
      <3>1. PICK k \in 1..n : e[k] = d
        BY <2>3, <2>4, <2>6 DEF Sure, Has
      <3>2. damage = 0 \/ e[n] # d
        BY <2>3, <2>4, <2>6 DEF Sure, Last
      <3> QED
        BY <2>4, <2>5, <3>1, <3>2
    <2>7. \A d \in {"C", "y", "b", "B", "e", "k", "I", "a", "A"} : ~Sure(d)
      BY <2>6 DEF Plain, Fields, Blanks, Literals
    <2>8. ASSUME Sure("Y") PROVE YearRead = date.year - TM_YEAR_BASE
      <3>1. ~Direct("C")
        <4>1. layout \in Seq(Plain \cup Shorthand)
          BY <2>1 DEF PlainLayouts
        <4>2. PICK m : m = Len(layout) /\ m \in Nat /\ layout \in [1..m -> Plain \cup Shorthand]
          BY <4>1, LenProperties
        <4> QED
          BY <4>2 DEF Direct, Plain, Fields, Blanks, Literals, Shorthand
      <3> QED
        BY <3>1 DEF YearRead
    <2>9. FieldsRead
      BY <2>6, <2>7, <2>8 DEF FieldsRead, AsPrinted
    <2> QED
      BY <1>1, <2>5, <2>9 DEF ParseInverts
  <1>2. CASE result # "end of text"
    BY <1>2 DEF ParseInverts, ParseInv
  <1> QED
    BY <1>1, <1>2

\* The formats of util.cpp are among those the theorem is about.
LEMMA UtilLayouts ==
    {get_timestamp_string, get_timestamp_string2, get_timestamp_string_with_ms}
        \subseteq PlainLayouts
  <1>1. get_timestamp_string \in PlainLayouts
    BY DEF get_timestamp_string, PlainLayouts, Plain, Fields, Blanks, Literals, Shorthand
  <1>2. get_timestamp_string2 \in PlainLayouts
    BY DEF get_timestamp_string2, PlainLayouts, Plain, Fields, Blanks, Literals, Shorthand
  <1>3. get_timestamp_string_with_ms \in PlainLayouts
    BY DEF get_timestamp_string_with_ms, PlainLayouts, Plain, Fields, Blanks, Literals,
           Shorthand
  <1> QED
    BY <1>1, <1>2, <1>3

\* The strptime() that util.cpp has for Windows reads back what std::put_time()
\* prints with the same format, for every date and every format of these
\* conversions that does not end with white space, %Y or %j; the formats of
\* util.cpp are among them.  A text with a wrong character, or cut off, is taken
\* only if that is its last character, and nothing but the last field is then
\* wrong.  (A POSIX build has the strptime() of its C library instead.)
THEOREM SpecParseInverts == TimeTextSpec => [](layout \in PlainLayouts => ParseInverts)
  <1>1. TimeTextInit => TimeTextInv /\ ParseInv
    BY TimeTextInitInv, ParseInvInit
  <1>2. TimeTextInv /\ ParseInv /\ [TimeTextNext]_timeTextVars => TimeTextInv' /\ ParseInv'
    BY TimeTextNextInv, ParseInvNext
  <1>3. TimeTextInv /\ ParseInv => (layout \in PlainLayouts => ParseInverts)
    BY ParseInvInverts
  <1> QED
    BY <1>1, <1>2, <1>3, PTL DEF TimeTextSpec
=============================================================================
