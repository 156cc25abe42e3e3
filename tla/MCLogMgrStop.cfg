\* One logger, two lines, every open and rename succeeds: a plain start(), log(), stop().
CONSTANTS
    NumLoggers = 1
    MaxLines = 2
    LogFileLength = 1
    OpenMayFail = FALSE
    MaxRenameErrors = 0
SPECIFICATION Spec
INVARIANTS
    StopIsSafe
\* A process that crashed or exited stops.
CHECK_DEADLOCK FALSE
