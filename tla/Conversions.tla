----------------------------- MODULE Conversions -----------------------------
(***************************************************************************)
(* The conversions of util.cpp, as its users call them: one after the      *)
(* other, in any order, from one thread.  All are functions of their       *)
(* arguments but util_gettimestampString() and its like, which write into  *)
(* a buffer of the caller and leave in it what they do not write.          *)
(*                                                                         *)
(* A string is a sequence of characters.  An integer of one, two or four   *)
(* bytes is one below Byte, Byte2 or Byte4, where Byte is 256 in the code. *)
(***************************************************************************)
EXTENDS Integers, FiniteSetsExt, SequencesExt

CONSTANTS
    Digit,      \* 16, the number of hexadecimal digits
    Halves,     \* the uint32_t to flip, and the halves of the uint64_t
    LongMax,    \* LONG_MAX
    MsPerS,     \* 1000: milliseconds per second, and microseconds per millisecond
    Letters,    \* the characters that occur in strings
    Capital,    \* std::toupper() of each of them
    NameMax,    \* 15, the longest name that a thread can have
    MaxText,    \* a bound on the length of the strings
    TextLength, \* the length of what each function prints into the buffer
    BufLen      \* the length of the buffer

Byte  == Digit * Digit
Byte2 == Byte * Byte
Byte4 == Byte2 * Byte2

\* No string fills the buffer; LONG_MAX, which is 807 or 647 beyond a multiple
\* of 1000, is not one less than one; what std::toupper() gives is a capital.
ASSUME ConversionsAssumption ==
    /\ Digit \in Nat \ {0, 1}
    /\ Halves \subseteq 0 .. Byte4 - 1
    /\ MsPerS \in Nat \ {0} /\ LongMax \in Nat
    /\ LongMax >= MsPerS /\ (LongMax + 1) % MsPerS # 0
    /\ Capital \in [Letters -> Letters]
    /\ \A c \in Letters : Capital[Capital[c]] = Capital[c]
    /\ {MaxText, NameMax, BufLen} \subseteq Nat
    /\ TextLength \in [{"util_gettimestampString", "util_gettimestampString2",
                        "util_gettimestampWithMSString"} -> 0 .. BufLen - 1]

Bytes == 0 .. Byte - 1
Texts == UNION {[1..n -> Letters] : n \in 0..MaxText}

VARIABLES
    last,           \* the last call: the function, its argument and its result
    date_string,    \* the buffer; "NUL" ends a string
    written         \* history: how much of it has been written since memset()

conversionsVars == <<last, date_string, written>>

\* What a function that only depends on its argument returns does not depend on
\* when it is called: here, it is with the buffer just cleared.
Returned(fn, in, out) ==
    /\ last.fn = "none" /\ written = 0
    /\ last' = [fn |-> fn, in |-> in, out |-> out]
    /\ UNCHANGED <<date_string, written>>

\* The buffer is as the stack leaves it.
ConversionsInit ==
    /\ last = [fn |-> "none", in |-> <<>>, out |-> <<>>]
    /\ date_string = [i \in 1..BufLen |-> "?"]
    /\ written = BufLen

-----------------------------------------------------------------------------
(***************************************************************************)
(* util_flipbytes().  Its "| 0xFF00" sets the bits that were just moved.   *)
(***************************************************************************)
flip16(value) == (Byte - 1) * Byte + ((value \div Byte) % Byte)

\* Mutant of flip32: the halves stay where they are.
flip32InPlace(value) ==
    flip16(value % Byte2) + flip16(value \div Byte2) * Byte2

flip32(value) ==
    flip16(value \div Byte2) + flip16(value % Byte2) * Byte2

flip64(value) ==
    flip32(value \div Byte4) + flip32(value % Byte4) * Byte4

util_flipbytes ==
    \/ \E value \in 0 .. Byte2 - 1 : Returned("flip16", value, flip16(value))
    \/ \E value \in Halves : Returned("flip32", value, flip32(value))
    \/ \E hi, lo \in Halves :
          LET value == hi * Byte4 + lo IN Returned("flip64", value, flip64(value))

-----------------------------------------------------------------------------
MAX_SECONDS_IN_MSEC_LONG == (LongMax - (MsPerS - 1)) \div MsPerS

\* tv_usec may be a whole second.
tv_to_msec(tv) ==
    IF tv.usec > MsPerS * MsPerS \/ tv.sec > MAX_SECONDS_IN_MSEC_LONG THEN -1
    ELSE tv.sec * MsPerS + (tv.usec + MsPerS - 1) \div MsPerS

util_tv_to_msec ==
    \E sec \in 0 .. MAX_SECONDS_IN_MSEC_LONG + 1, usec \in 0 .. MsPerS * MsPerS + 1 :
       LET tv == [sec |-> sec, usec |-> usec] IN
       Returned("tv_to_msec", tv, tv_to_msec(tv))

\* setw(2) with a fill of '0', and a blank after each byte.
hex(input) ==
    [i \in 1 .. 3 * Len(input) |->
        LET byte == input[((i - 1) \div 3) + 1] IN
        <<byte \div Digit, byte % Digit, "blank">>[((i - 1) % 3) + 1]]

bytes2hex_string ==
    \E n \in 0..2 : \E input \in [1..n -> Bytes] :
       Returned("hex", input, hex(input))

\* resize() cuts a string, or fills it up with NULs.
Resized(str, n) == [i \in 1..n |-> IF i <= Len(str) THEN str[i] ELSE "NUL"]

\* vsnprintf() overwrites as many characters as it prints, and the next one.
sprintf(destination, text) ==
    LET room == Resized(destination, Len(text) + 1)
        data == [i \in DOMAIN room |-> IF i <= Len(text) THEN text[i] ELSE "NUL"]
    IN  Resized(data, Len(text))

sprintf_std_string ==
    \E destination, text \in Texts :
       Returned("sprintf", <<destination, text>>, sprintf(destination, text))

-----------------------------------------------------------------------------
toupper(str) == [i \in 1..Len(str) |-> Capital[str[i]]]

str_toupper ==
    \E str \in Texts : Returned("toupper", str, toupper(str))

\* upper_equal, for the whole of str2 from the place on.
UpperEqual(str1, str2, place) ==
    /\ place + Len(str2) <= Len(str1)
    /\ \A i \in 1..Len(str2) : Capital[str1[place + i]] = Capital[str2[i]]

\* std::search(), whose result is end() if there is no such place - and, for
\* two empty strings, if there is.
find_substr(str1, str2) ==
    LET found == {k \in 0..Len(str1) : UpperEqual(str1, str2, k)}
        it    == IF found = {} THEN Len(str1) ELSE Min(found)
    IN  IF it # Len(str1) THEN it ELSE -1

ci_find_substr ==
    \E str1, str2 \in Texts :
       Returned("find", <<str1, str2>>, find_substr(str1, str2))

\* substr(0, 15) of a longer name.
nm(t_name) == IF Len(t_name) > NameMax THEN SubSeq(t_name, 1, NameMax) ELSE t_name

\* The name of the thread: it keeps "" if it gets a name that is too long.
pthread_setname_np(name) == IF Len(name) <= NameMax THEN name ELSE <<>>

set_thread_name ==
    \E t_name \in Texts : Returned("name", t_name, pthread_setname_np(nm(t_name)))

-----------------------------------------------------------------------------
\* strncpy() of as many characters as there are, hence without the NUL.
Copied(fn) ==
    [i \in 1..BufLen |-> IF i <= TextLength[fn] THEN fn ELSE date_string[i]]

Prints(fn) ==
    /\ date_string' = Copied(fn)
    /\ written' = Max({written, TextLength[fn]})
    /\ last' = [fn |-> fn, in |-> written, out |-> <<>>]

util_gettimestampString       == Prints("util_gettimestampString")
util_gettimestampWithMSString == Prints("util_gettimestampWithMSString")
util_gettimestampString2      == Prints("util_gettimestampString2")

\* The caller clears its buffer.
ClearBuffer ==
    /\ written # 0
    /\ date_string' = [i \in 1..BufLen |-> "NUL"]
    /\ written' = 0
    /\ last' = [fn |-> "none", in |-> <<>>, out |-> <<>>]

ConversionsNext ==
    \/ util_flipbytes \/ util_tv_to_msec \/ bytes2hex_string \/ sprintf_std_string
    \/ str_toupper \/ ci_find_substr \/ set_thread_name
    \/ util_gettimestampString \/ util_gettimestampWithMSString
    \/ util_gettimestampString2 \/ ClearBuffer

ConversionsSpec == ConversionsInit /\ [][ConversionsNext]_conversionsVars

-----------------------------------------------------------------------------
(***************************************************************************)
(* Properties.                                                             *)
(***************************************************************************)
Printers == DOMAIN TextLength

\* Every variable has its type.
ConversionsTypeOK ==
    /\ last.fn \in Printers \cup {"none", "flip16", "flip32", "flip64",
                                  "tv_to_msec", "hex", "sprintf", "toupper", "find", "name"}
    /\ date_string \in [1..BufLen -> Printers \cup {"NUL", "?"}]
    /\ written \in 0..BufLen

\* Byte i of an integer of two, four and eight bytes, the lowest being byte 0.
Byte16(value, i) == IF i < 1 THEN value % Byte ELSE value \div Byte
Byte32(value, i) ==
    IF i < 2 THEN Byte16(value % Byte2, i) ELSE Byte16(value \div Byte2, i - 2)
Byte64(value, i) ==
    IF i < 4 THEN Byte32(value % Byte4, i) ELSE Byte32(value \div Byte4, i - 4)

ByteOf(w, value, i) ==
    CASE w = 2 -> Byte16(value, i)
      [] w = 4 -> Byte32(value, i)
      [] w = 8 -> Byte64(value, i)

\* Flipping an integer of w bytes reverses their order, except that every other
\* byte of the result, the higher one of each uint16_t, has all its bits set.
Flipped(w, in, out) ==
    \A i \in 0 .. w - 1 :
        ByteOf(w, out, i) = IF i % 2 = 0 THEN ByteOf(w, in, w - 1 - i) ELSE Byte - 1

\* What is in the buffer up to the first NUL; past its end if there is none.
ReadBack ==
    LET nuls == {i \in 1..BufLen : date_string[i] = "NUL"} IN
    IF nuls = {} THEN BufLen ELSE Min(nuls) - 1

\* What a function is for, of its argument and its result.  A time is rounded
\* up to whole milliseconds, and is refused rather than overflow; the digits of
\* bytes2hex_string() give the bytes back; ci_find_substr() finds the first
\* place, if it is not at the end, that is if not both strings are empty; a
\* thread gets as much of its name as there is room for.  util_flipbytes() does
\* not flip: see above.
Exact(fn, in, out) ==
    /\ fn = "flip16" => Flipped(2, in, out)
    /\ fn = "flip32" => Flipped(4, in, out)
    /\ fn = "flip64" => Flipped(8, in, out)
    /\ fn = "tv_to_msec" =>
          LET us == in.sec * MsPerS * MsPerS + in.usec IN
          out # -1 => /\ out <= LongMax
                      /\ out * MsPerS >= us /\ (out - 1) * MsPerS < us
    /\ fn = "hex" =>
          /\ Len(out) = 3 * Len(in)
          /\ \A i \in 1..Len(in) :
                in[i] = out[3 * i - 2] * Digit + out[3 * i - 1]
    /\ fn = "sprintf" => out = in[2]
    /\ fn = "toupper" => find_substr(in, out) = (IF in = <<>> THEN -1 ELSE 0)
    /\ fn = "find" =>
          /\ out # -1 => UpperEqual(in[1], in[2], out)
          /\ \A k \in 0 .. Len(in[1]) :
                UpperEqual(in[1], in[2], k) =>
                    out \in 0..k \/ (in[1] = <<>> /\ in[2] = <<>>)
    /\ fn = "name" => /\ IsPrefix(out, in)
                      /\ Len(out) = Len(in) \/ Len(out) = NameMax

\* The last call returned what it is for; and what it printed into a buffer
\* reads back as that text exactly if no longer one, and no rubbish, was there
\* before.
ConversionsExact ==
    /\ Exact(last.fn, last.in, last.out)
    /\ last.fn \in Printers =>
          (ReadBack = TextLength[last.fn] <=> last.in <= TextLength[last.fn])
=============================================================================
