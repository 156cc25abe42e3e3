\* Two-hour days, five hours, two lines, anything may fail.
CONSTANTS
    Lines = {l1, l2}
    HoursPerDay = 2
    MaxHour = 5
    LogExpired = 180
    OpenMayFail = TRUE
    ExecMayFail = TRUE
SPECIFICATION Spec
SYMMETRY Symmetry
INVARIANTS
    TypeOK
    BatchIsAtomic
    OrderedPerFlusher
    TableSpan
    TableLacking
    CrashExplained
PROPERTIES
    ClearingClearsNothing
\* A process that crashed stops.
CHECK_DEADLOCK FALSE
