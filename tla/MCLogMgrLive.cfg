\* Two loggers, one line, every open succeeds, a rename fails: what must eventually happen.
CONSTANTS
    NumLoggers = 2
    MaxLines = 1
    LogFileLength = 1
    OpenMayFail = FALSE
    MaxRenameErrors = 1
SPECIFICATION Spec
PROPERTIES
    StopReturns
    EveryLineStored
    FullFileRotated
\* A process that crashed or exited stops.
CHECK_DEADLOCK FALSE
