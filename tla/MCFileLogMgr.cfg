\* Two file_logs, four lines, any order of calls; opens and renames may fail.
CONSTANTS
    NumSub = 2
    Lines = {l1, l2, l3, l4}
    Apps = {a1, a2}
    Callers = {c1, c2}
    NoThread = NoThread
    LogFileLength = 1
    SetLevels = {5}
    OpenMayFail = TRUE
    RenameMayFail = TRUE
    SameSecond = FALSE
SPECIFICATION Spec
SYMMETRY Symmetry
INVARIANTS
    TypeOK
    NothingLost
    TwoFlushesReachDisk
\* A process that crashed stops.
CHECK_DEADLOCK FALSE
PROPERTIES
    StoresInOrder
