\* Two-hour days, five hours, two lines, nothing fails: does a table ever expire?.
CONSTANTS
    Lines = {l1, l2}
    HoursPerDay = 2
    MaxHour = 5
    LogExpired = 60
    OpenMayFail = FALSE
    ExecMayFail = FALSE
SPECIFICATION Spec
SYMMETRY Symmetry
\* A process that crashed stops.
CHECK_DEADLOCK FALSE
INVARIANTS
    ExpiredCleared
