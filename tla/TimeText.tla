------------------------------ MODULE TimeText ------------------------------
(***************************************************************************)
(* Times as text: what get_timestamp_string() and the like print, and the  *)
(* strptime() that util.cpp brings along for Windows (#ifdef _WIN32).      *)
(* This is the one piece of Windows code among these modules: a POSIX      *)
(* build has the strptime() of its C library instead, and sqlite_log reads *)
(* the names of its tables with that.                                      *)
(*                                                                         *)
(* A text is a sequence of characters, and a character a number: a digit   *)
(* is itself.  A weekday, a month, "AM" and "PM" are one character each.   *)
(* A format is a sequence of strings: "Y" is "%Y", "E" a modifier before   *)
(* the letter that follows, "blank" and what is not a letter are there     *)
(* literally.                                                              *)
(* strptime() calls itself for the formats that stand for longer ones:     *)
(* frames is the stack of these calls.                                     *)
(***************************************************************************)
EXTENDS Integers, SequencesExt

CONSTANTS
    Dates,      \* the dates printed
    Layouts     \* the formats they are printed and read with

LastYear == 9999    \* that has four digits

TimeTextAssumption ==
    /\ Dates \subseteq [year : 0..LastYear, mon : 1..12, mday : 1..31, hour : 0..23,
                        min : 0..59, sec : 0..61, wday : 0..6, yday : 1..366]
    /\ Dates # {}
    /\ Layouts \subseteq Seq(STRING)
ASSUME TimeTextAssumption

\* The formats of get_timestamp_string(), get_timestamp_string2() and, but for
\* the milliseconds, get_timestamp_string_with_ms().
get_timestamp_string         == <<"Y", "-", "m", "-", "d", "blank", "X">>
get_timestamp_string2        == <<"Y", "m", "d", "H", "M", "S">>
get_timestamp_string_with_ms ==
    <<"Y", "-", "m", "-", "d", "blank", "H", ":", "M", ":", "S">>

Blank       == 10
CharOf      == [c \in {"-", ":", "/", "%"} |->
                  CASE c = "-" -> 11 [] c = ":" -> 12 [] c = "/" -> 13 [] c = "%" -> 14]
Letter      == 15       \* a character that no format has
am_pm       == <<16, 17>>
day(i)      == 100 + i  \* in full
abday(i)    == 110 + i
mon(i)      == 120 + i
abmon(i)    == 140 + i

TM_YEAR_BASE == 1900

VARIABLES
    frames,     \* the calls of strptime(): the rest of fmt, alt_format, split_year
    bp,         \* the rest of the text
    tm,
    result,     \* "none" before the call; "reading"; "end of text" or "nullptr"
    date,       \* history: the date that was printed
    layout,     \* history: the format it was printed with
    damage      \* history: how many characters there were from the one that
                \* was replaced, or cut off with what follows, to the end

timeTextVars == <<frames, bp, tm, result, date, layout, damage>>

\* std::tm tm = {}
NoTime == [sec |-> 0, min |-> 0, hour |-> 0, mday |-> 0, mon |-> 0, year |-> 0,
           wday |-> 0, yday |-> 0]

TimeTextInit ==
    /\ frames = <<>> /\ bp = <<>> /\ tm = NoTime /\ result = "none"
    /\ date = CHOOSE d \in Dates : TRUE
    /\ layout = <<>> /\ damage = 0

-----------------------------------------------------------------------------
(***************************************************************************)
(* Printing, by std::put_time().                                           *)
(***************************************************************************)
\* What stands for a longer format.
Expansion ==
    [d \in {"D", "x", "R", "r", "T", "X", "c"} |->
        CASE d \in {"D", "x"} -> <<"m", "/", "d", "/", "y">>
          [] d = "R" -> <<"H", ":", "M">>
          [] d = "r" -> <<"I", ":", "M", ":", "S", "blank", "p">>
          [] d \in {"T", "X"} -> <<"H", ":", "M", ":", "S">>
          [] d = "c" -> <<"x", "blank", "X">>]

Expanded(fmt) ==
    LET piece(d) == IF d \in DOMAIN Expansion THEN Expansion[d] ELSE <<d>> IN
    FlattenSeq([i \in DOMAIN fmt |-> piece(fmt[i])])

\* A format without these.
Flat(fmt) == Expanded(Expanded(fmt))

Two(n)  == <<n \div 10, n % 10>>
Four(n) == Two(n \div 100) \o Two(n % 100)

\* The text of one conversion; %e pads with a blank, and a modifier has none.
Printed(d, t) ==
    CASE d = "Y" -> Four(t.year)
      [] d = "C" -> Two(t.year \div 100)
      [] d = "y" -> Two(t.year % 100)
      [] d = "m" -> Two(t.mon)
      [] d = "d" -> Two(t.mday)
      [] d = "e" -> IF t.mday < 10 THEN <<Blank, t.mday>> ELSE Two(t.mday)
      [] d \in {"H", "k"} -> Two(t.hour)
      [] d \in {"I", "l"} -> Two(IF t.hour % 12 = 0 THEN 12 ELSE t.hour % 12)
      [] d = "M" -> Two(t.min)
      [] d = "S" -> Two(t.sec)
      [] d = "j" -> <<t.yday \div 100>> \o Two(t.yday % 100)
      [] d \in {"U", "W"} -> Two(t.yday \div 7)
      [] d = "w" -> <<t.wday>>
      [] d = "p" -> <<am_pm[t.hour \div 12 + 1]>>
      [] d = "A" -> <<day(t.wday)>>
      [] d = "a" -> <<abday(t.wday)>>
      [] d = "B" -> <<mon(t.mon)>>
      [] d \in {"b", "h"} -> <<abmon(t.mon)>>
      [] d \in {"blank", "n", "t"} -> <<Blank>>
      [] d \in DOMAIN CharOf -> <<CharOf[d]>>
      [] OTHER -> <<>>

TextOf(fmt, t) == FlattenSeq([i \in DOMAIN Flat(fmt) |-> Printed(Flat(fmt)[i], t)])

-----------------------------------------------------------------------------
(***************************************************************************)
(* strptime().                                                             *)
(***************************************************************************)
Frame(fmt) == [fmt |-> fmt, alt |-> {}, split |-> FALSE]

\* A date is printed and read back: as it is, with one character replaced, or
\* with its end cut off.
ParseBegin(t, fmt) ==
    /\ result = "none" /\ result' = "reading"
    /\ date' = t /\ layout' = fmt /\ tm' = tm
    /\ frames' = <<Frame(fmt)>>
    /\ LET whole == TextOf(fmt, t) IN
       \/ bp' = whole /\ damage' = 0
       \/ \E i \in 1..Len(whole) :
             /\ bp' \in {[whole EXCEPT ![i] = Letter], SubSeq(whole, 1, i - 1)}
             /\ damage' = Len(whole) - i + 1

Reading  == result = "reading"
Top      == Last(frames)
Format   == IF Top.fmt = <<>> THEN "" ELSE Head(Top.fmt)
Fails    == result' = "nullptr" /\ UNCHANGED <<frames, bp, tm, date, layout, damage>>

\* The rest of the format is next, without modifiers.
Onwards(split) ==
    frames' = Front(frames) \o <<[fmt |-> Tail(Top.fmt), alt |-> {}, split |-> split]>>

\* The modifiers that LEGAL_ALT() lets a conversion have: %k and %l refuse both.
Legal(d) ==
    CASE d = "y" -> {"E", "O"}
      [] d \in {"c", "X", "x", "C", "Y"} -> {"E"}
      [] d \in {"d", "e", "H", "I", "M", "m", "S", "U", "W", "w"} -> {"O"}
      [] OTHER -> {}
LegalHere == Top.alt \subseteq Legal(Format)

\* White space in the format, and %n and %t: any white space, or none.
ReadBlanks ==
    /\ Reading /\ Format \in {"blank", "n", "t"} /\ LegalHere
    /\ LET blanks == {k \in 0..Len(bp) : \A i \in 1..k : bp[i] = Blank} IN
       bp' = SubSeq(bp, Max(blanks) + 1, Len(bp))
    /\ Onwards(Top.split)
    /\ UNCHANGED <<tm, result, date, layout, damage>>

ReadLiteral ==
    /\ Reading /\ Format \in DOMAIN CharOf /\ (Format = "%" \/ LegalHere)
    /\ IF bp # <<>> /\ Head(bp) = CharOf[Format]
       THEN /\ bp' = Tail(bp)
            /\ Onwards(Top.split)
            /\ UNCHANGED <<tm, result, date, layout, damage>>
       ELSE Fails

\* %E and %O: there may be one of them.
ReadModifier ==
    /\ Reading /\ Format \in {"E", "O"}
    /\ IF Top.alt = {}
       THEN /\ frames' = Front(frames) \o
                  <<[fmt |-> Tail(Top.fmt), alt |-> {Format}, split |-> Top.split]>>
            /\ UNCHANGED <<bp, tm, result, date, layout, damage>>
       ELSE Fails

\* strptime(bp, ..., tm) for a format that stands for a longer one: the call has
\* a split_year of its own.
ReadExpansion ==
    /\ Reading /\ Format \in DOMAIN Expansion /\ LegalHere
    /\ frames' = Front(frames) \o
          <<[fmt |-> Tail(Top.fmt), alt |-> {}, split |-> Top.split],
            Frame(Expansion[Format])>>
    /\ UNCHANGED <<bp, tm, result, date, layout, damage>>

\* The weekday or the month, by its full or its short name.
ReadName ==
    /\ Reading /\ Format \in {"A", "a", "B", "b", "h"} /\ LegalHere
    /\ LET isDay == Format \in {"A", "a"}
           named == IF isDay THEN {i \in 0..6 : bp # <<>> /\ Head(bp) \in {day(i), abday(i)}}
                    ELSE {i \in 0..11 : bp # <<>> /\ Head(bp) \in {mon(i + 1), abmon(i + 1)}}
       IN \/ named = {} /\ Fails
          \/ \E i \in named :
                /\ tm' = IF isDay THEN [tm EXCEPT !.wday = i] ELSE [tm EXCEPT !.mon = i]
                /\ bp' = Tail(bp)
                /\ Onwards(Top.split)
                /\ UNCHANGED <<result, date, layout, damage>>

\* %p compares all of the rest of the text.
ReadHalf ==
    /\ Reading /\ Format = "p" /\ LegalHere
    /\ IF tm.hour <= 11 /\ bp \in {<<am_pm[1]>>, <<am_pm[2]>>}
       THEN /\ tm' = [tm EXCEPT !.hour = IF bp = <<am_pm[2]>> THEN @ + 12 ELSE @]
            /\ bp' = <<>>
            /\ Onwards(Top.split)
            /\ UNCHANGED <<result, date, layout, damage>>
       ELSE Fails

-----------------------------------------------------------------------------
Digits      == 0..9
Value(digits) == FoldLeft(LAMBDA n, digit : 10 * n + digit, 0, digits)

\* Mutant of More: as many digits as follow.
MoreDigits(chars, k, ulim) == k < Len(chars) /\ chars[k + 1] \in Digits

\* conv_num() reads on after k digits: the limit bounds their number, and a
\* digit is left alone if the number would get too large with a zero after it.
More(chars, k, ulim) ==
    /\ Value(SubSeq(chars, 1, k)) * 10 <= ulim
    /\ ulim \div 10^k # 0
    /\ k < Len(chars) /\ chars[k + 1] \in Digits

\* At most four, since no limit is above 9999.
DigitsRead(chars, ulim) ==
    Min({k \in 1 .. Min({Len(chars), 4}) : k = 4 \/ ~More(chars, k, ulim)})

\* The limits of each number.
Limits(d) ==
    CASE d \in {"C", "y"} -> <<0, 99>>
      [] d \in {"d", "e"} -> <<1, 31>>
      [] d \in {"H", "k"} -> <<0, 23>>
      [] d \in {"I", "l", "m"} -> <<1, 12>>
      [] d = "j" -> <<1, 366>>
      [] d = "M" -> <<0, 59>>
      [] d = "S" -> <<0, 61>>
      [] d \in {"U", "W"} -> <<0, 53>>
      [] d = "w" -> <<0, 6>>
      [] d = "Y" -> <<0, LastYear>>

Number ==
    [d \in {"C", "d", "e", "k", "H", "l", "I", "j", "M", "m", "S", "U", "W", "w", "Y", "y"}
        |-> Limits(d)]

\* Mutant of Stored: the month is stored as it is read.
StoredMonth(d, v, split) == IF d = "m" THEN [tm EXCEPT !.mon = v] ELSE tm

\* Where a number goes.  %C leaves out TM_YEAR_BASE, and so does %y after it.
Stored(d, v, split) ==
    CASE d = "C" -> [tm EXCEPT !.year = IF split THEN (@ % 100) + v * 100 ELSE v * 100]
      [] d \in {"d", "e"} -> [tm EXCEPT !.mday = v]
      [] d \in {"H", "k"} -> [tm EXCEPT !.hour = v]
      [] d \in {"I", "l"} -> [tm EXCEPT !.hour = IF v = 12 THEN 0 ELSE v]
      [] d = "j" -> [tm EXCEPT !.yday = v - 1]
      [] d = "M" -> [tm EXCEPT !.min = v]
      [] d = "m" -> [tm EXCEPT !.mon = v - 1]
      [] d = "S" -> [tm EXCEPT !.sec = v]
      [] d \in {"U", "W"} -> tm
      [] d = "w" -> [tm EXCEPT !.wday = v]
      [] d = "Y" -> [tm EXCEPT !.year = v - TM_YEAR_BASE]
      [] d = "y" -> [tm EXCEPT !.year =
                        IF split THEN (@ \div 100) * 100 + v
                        ELSE (IF v <= 68 THEN v + 2000 ELSE v + 1900) - TM_YEAR_BASE]

ReadNumber ==
    /\ Reading /\ Format \in DOMAIN Number /\ LegalHere
    /\ IF bp = <<>> \/ Head(bp) \notin Digits THEN Fails
       ELSE LET k == DigitsRead(bp, Number[Format][2])
                v == Value(SubSeq(bp, 1, k)) IN
            IF v \notin Number[Format][1] .. Number[Format][2] THEN Fails
            ELSE /\ tm' = Stored(Format, v, Top.split)
                 /\ bp' = SubSeq(bp, k + 1, Len(bp))
                 /\ Onwards(Top.split \/ Format \in {"C", "y"})
                 /\ UNCHANGED <<result, date, layout, damage>>

-----------------------------------------------------------------------------
Known == {"blank", "n", "t", "E", "O", "A", "a", "B", "b", "h", "p", ""}
            \cup DOMAIN CharOf \cup DOMAIN Expansion \cup DOMAIN Number

\* An unknown conversion, or a modifier that the conversion does not take.
ReadUnknown ==
    /\ Reading /\ Format \notin {"E", "O", "%"}
    /\ Format \notin Known \/ ~LegalHere
    /\ Fails

\* The end of the format: this call of strptime() returns bp.
ParseEnd ==
    /\ Reading /\ Format = "" /\ LegalHere
    /\ frames' = Front(frames)
    /\ result' = IF Len(frames) = 1 THEN "end of text" ELSE result
    /\ UNCHANGED <<bp, tm, date, layout, damage>>

TimeTextNext ==
    \/ \E t \in Dates, fmt \in Layouts : ParseBegin(t, fmt)
    \/ ReadBlanks \/ ReadLiteral \/ ReadModifier \/ ReadExpansion \/ ReadName
    \/ ReadHalf \/ ReadNumber \/ ReadUnknown \/ ParseEnd

TimeTextSpec == TimeTextInit /\ [][TimeTextNext]_timeTextVars

-----------------------------------------------------------------------------
(***************************************************************************)
(* Properties.                                                             *)
(***************************************************************************)

\* What is in the formats.
Characters == Known \cup UNION {Range(fmt) : fmt \in Layouts}

\* Every variable has its type, and a broken-down time its ranges.
TimeTextTypeOK ==
    /\ frames \in Seq([fmt : Seq(Characters), alt : SUBSET {"E", "O"}, split : BOOLEAN])
    /\ bp \in Seq(Nat)
    /\ tm \in [sec : 0..61, min : 0..59, hour : 0..23, mday : 0..31, mon : 0..11,
               year : Int, wday : 0..6, yday : 0..365]
    /\ result \in {"none", "reading", "end of text", "nullptr"}
    /\ date \in Dates
    /\ layout \in Layouts \cup {<<>>}
    /\ damage \in Nat

Has(d)    == \E i \in DOMAIN Flat(layout) : Flat(layout)[i] = d
Direct(d) == \E i \in DOMAIN layout : layout[i] = d

\* The year that is read.  With %C it is 1900 too large for a tm_year, unless a
\* call for a longer format reads it anew; %y is right from 1969 to 2068.
YearRead ==
    CASE Direct("C") /\ Direct("y") -> date.year
      [] Direct("C") /\ ~Has("y") -> (date.year \div 100) * 100
      [] OTHER -> date.year - TM_YEAR_BASE

\* The field is in the format, and not at the damaged end of the text.
Sure(d) == Has(d) /\ (damage = 0 \/ Last(Flat(layout)) # d)

\* These fields are those of the date.
FieldsRead ==
    /\ Sure("Y") \/ Sure("y") \/ (Sure("C") /\ ~Has("y")) => tm.year = YearRead
    /\ Sure("m") \/ Sure("b") \/ Sure("B") => tm.mon = date.mon - 1
    /\ Sure("d") \/ Sure("e") => tm.mday = date.mday
    /\ Sure("H") \/ Sure("k") \/ (Sure("I") /\ Has("p")) => tm.hour = date.hour
    /\ Sure("M") => tm.min = date.min
    /\ Sure("S") => tm.sec = date.sec
    /\ Sure("a") \/ Sure("A") \/ Sure("w") => tm.wday = date.wday
    /\ Sure("j") => tm.yday = date.yday - 1

\* The format has an unknown conversion, or a modifier it should not have.
IllFormed ==
    \E i \in DOMAIN layout :
        \/ layout[i] \notin Known
        \/ i > 1 /\ layout[i - 1] \in {"E", "O"} \ Legal(layout[i])
        \/ i = Len(layout) /\ layout[i] \in {"E", "O"}

\* Printed text that strptime() refuses although nothing is wrong with it: a day
\* below ten by %e, and AM or PM before the end of the text.
Refused ==
    \/ Has("e") /\ date.mday < 10
    \/ \E i \in 1 .. Len(Flat(layout)) - 1 : Flat(layout)[i] = "p"

\* The strptime() for Windows reads back what was printed with the same format,
\* where numbers follow one another without anything between them, too.  A text
\* with a wrong character, or cut off, is taken only if that is its last
\* character, and then nothing but the last field is wrong.
ParseInverts ==
    /\ damage = 0 /\ result = "nullptr" => IllFormed \/ Refused
    /\ damage = 0 /\ result = "end of text" => FieldsRead /\ bp = <<>>
    /\ damage # 0 /\ result = "end of text" => FieldsRead /\ damage = 1
=============================================================================
