\* Two file_logs, three lines, two of its rotations may fall in one second.
CONSTANTS
    NumSub = 2
    Lines = {l1, l2, l3}
    Apps = {a1, a2}
    Callers = {c1, c2}
    NoThread = NoThread
    LogFileLength = 1
    SetLevels = {5}
    OpenMayFail = TRUE
    RenameMayFail = TRUE
    SameSecond = TRUE
SPECIFICATION Spec
SYMMETRY Symmetry
INVARIANTS
    RecentIntact
\* A process that crashed stops.
CHECK_DEADLOCK FALSE
