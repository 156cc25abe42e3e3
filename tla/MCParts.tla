------------------------------ MODULE MCParts -------------------------------
(***************************************************************************)
(* One run for the parts of the system that share no state and are small:  *)
(* the initial state tells which of them moves, and the others stay as     *)
(* they are.  A state of a part is thus reached here exactly if it is      *)
(* reached by the specification of that part.                              *)
(***************************************************************************)
EXTENDS Stamps, StartStop, Registry, CsvRetention, TimeText, CondSleep, Conversions, TLC

CONSTANTS e1, e2, e3, e4

VARIABLE part

partVars == <<stampsVars, startStopVars, registryVars, csvRetentionVars, timeTextVars, condSleepVars,
              conversionsVars>>

MCInit ==
    /\ part \in {"stamps", "start/stop", "registry", "csv", "text", "sleep", "util"}
    /\ StampsInit /\ StartStopInit /\ RegistryInit
    /\ CsvRetentionInit /\ TimeTextInit /\ CondSleepInit /\ ConversionsInit

MCNext ==
    /\ UNCHANGED part
    /\ \/ part = "stamps" /\ StampsNext
          /\ UNCHANGED <<startStopVars, registryVars, csvRetentionVars, timeTextVars, condSleepVars,
                         conversionsVars>>
       \/ part = "start/stop" /\ StartStopNext
          /\ UNCHANGED <<stampsVars, registryVars, csvRetentionVars, timeTextVars, condSleepVars,
                         conversionsVars>>
       \/ part = "registry" /\ RegistryNext
          /\ UNCHANGED <<stampsVars, startStopVars, csvRetentionVars, timeTextVars, condSleepVars,
                         conversionsVars>>
       \/ part = "csv" /\ CsvRetentionNext
          /\ UNCHANGED <<stampsVars, startStopVars, registryVars, timeTextVars, condSleepVars,
                         conversionsVars>>
       \/ part = "text" /\ TimeTextNext
          /\ UNCHANGED <<stampsVars, startStopVars, registryVars, csvRetentionVars, condSleepVars,
                         conversionsVars>>
       \/ part = "sleep" /\ CondSleepNext
          /\ UNCHANGED <<stampsVars, startStopVars, registryVars, csvRetentionVars, timeTextVars,
                         conversionsVars>>
       \/ part = "util" /\ ConversionsNext
          /\ UNCHANGED <<stampsVars, startStopVars, registryVars, csvRetentionVars, timeTextVars,
                         condSleepVars>>

MCSpec == MCInit /\ [][MCNext]_<<part, partVars>>

\* The type invariants of the parts: that of the one that moves, since the
\* others are in their initial states.
PartsTypeOK ==
    CASE part = "stamps"     -> StampsTypeOK
      [] part = "start/stop" -> StartStopTypeOK
      [] part = "registry"   -> RegistryTypeOK
      [] part = "csv"        -> CsvRetentionTypeOK
      [] part = "text"       -> TimeTextTypeOK
      [] part = "sleep"      -> CondSleepTypeOK
      [] part = "util"       -> ConversionsTypeOK

-----------------------------------------------------------------------------
\* The log of a file_log, a CSV file, and two directories of which one is on a
\* file system that does not tell so.
NameOfEach == e1 :> <<"m_info", "log">> @@ e2 :> <<"m20240101", "csv">>
                @@ e3 :> <<"log">> @@ e4 :> <<"old", "log">>
KindOfEach == e1 :> "file" @@ e2 :> "file" @@ e3 :> "directory" @@ e4 :> "directory"

\* The end of a century and of a leap February, noon and midnight, a leap
\* second, and the last year that %y reads.
Date(y, mo, d, h, mi, s, w, yd) ==
    [year |-> y, mon |-> mo, mday |-> d, hour |-> h, min |-> mi, sec |-> s,
     wday |-> w, yday |-> yd]
SomeDates ==
    {Date(1999, 12, 31, 23, 59, 59, 5, 365), Date(2024, 1, 1, 0, 0, 0, 1, 1),
     Date(2068, 10, 7, 12, 5, 60, 0, 281), Date(2020, 2, 29, 9, 30, 1, 6, 60)}

\* The formats of util.cpp, and others that between them have every conversion.
SomeLayouts ==
    {get_timestamp_string, get_timestamp_string2, get_timestamp_string_with_ms,
     <<"c">>, <<"D", "n", "r">>, <<"r", "blank", "D">>,
     <<"A", "blank", "B", "blank", "e", "t", "C", "y">>,
     <<"a", "b", "d", "%", "R", "blank", "j", "w">>,
     <<"O", "H", "E", "Y", "U">>, <<"E", "O", "H">>, <<"O", "Y">>, <<"Z">>,
     <<"C", "-", "x">>, <<"y", "-", "W", "O", "k">>, <<"T", "h">>}

\* 0123, 3210 and others, in base 4; two letters, one in both cases.
SomeHalves == {0, 1, 27, 228, 255}
Capitals   == [c \in {"a", "A", "b"} |-> IF c = "a" THEN "A" ELSE c]
Lengths    == [util_gettimestampString |-> 2, util_gettimestampString2 |-> 1,
               util_gettimestampWithMSString |-> 3]

\* The threads are alike.
Symmetry == Permutations(Writers)
=============================================================================
