\* Two loggers, two lines in all, opens and a rename may fail: safety.
CONSTANTS
    NumLoggers = 2
    MaxLines = 2
    LogFileLength = 1
    OpenMayFail = TRUE
    MaxRenameErrors = 1
SPECIFICATION Spec
INVARIANTS
    TypeOK
    StoppedLinesStored
    CrashExplained
    StoppedCleanly
\* A process that crashed or exited stops.
CHECK_DEADLOCK FALSE
