\* Two-hour days, five hours, two lines, nothing fails: is a line lost when the database changes?.
CONSTANTS
    Lines = {l1, l2}
    HoursPerDay = 2
    MaxHour = 5
    LogExpired = 180
    OpenMayFail = FALSE
    ExecMayFail = FALSE
SPECIFICATION Spec
SYMMETRY Symmetry
\* A process that crashed stops.
CHECK_DEADLOCK FALSE
INVARIANTS
    KeptAcrossDatabases
