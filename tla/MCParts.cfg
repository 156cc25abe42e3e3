CONSTANTS
    e1 = e1
    e2 = e2
    e3 = e3
    e4 = e4
    Writers = {t1, t2}
    Sinks = {f1, d1}
    Managed = {f1}
    NoSink = NoSink
    MsPerSec = 2
    MaxSec = 1
    MaxCalls = 2
    Controllers = {t1, t2}
    MaxWorkers = 4
    Callers = {t1, t2}
    NumNames = 2
    Formats = {"Normal", "Sqlite", "CSV"}
    Words = {"WARN", "VERBOSE"}
    MinutesAsked = {60}
    MaxLoggers = 3
    MaxRequests = 3
    Entries = {e1, e2, e3, e4}
    NameOf <- NameOfEach
    Kind <- KindOfEach
    Typed = {e1, e2, e3}
    Width = 8
    SecPerMinute = 2
    Minutes = {4}
    MaxSteps = 3
    LogExpired = 1
    Dates <- SomeDates
    Layouts <- SomeLayouts
    Spans = {0, 2, 3}
    Intervals = {0, 1, 2}
    LogInterval = 2
    TicksPerMs = 2
    MaxFunc = 3
    MaxLate = 1
    MaxSet = 2
    MaxFuncCalls = 5
    Digit = 2
    Halves <- SomeHalves
    LongMax = 17
    MsPerS = 4
    Letters = {"a", "A", "b"}
    Capital <- Capitals
    NameMax = 2
    MaxText = 3
    TextLength <- Lengths
    BufLen = 4
SPECIFICATION MCSpec
SYMMETRY Symmetry
INVARIANTS
    PartsTypeOK
    StampsExplained
    TextLossExplained
    DeathsExplained
    WorkersOwned
    SharedUnlessRaced
    SettingsReach
    RemovedWereIdle
    ParseInverts
    SleepKept
    ConversionsExact
CHECK_DEADLOCK FALSE
