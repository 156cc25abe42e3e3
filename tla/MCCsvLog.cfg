\* Two threads, two records each; a file with any record in it is full.
CONSTANTS
    Apps = {a1, a2}
    MaxRecords = 2
    LogCSVLength = 0
    OpenMayFail = TRUE
SPECIFICATION Spec
SYMMETRY Symmetry
INVARIANTS
    TypeOK
    OrderedPerThread
    LostOnlyByOverlap
    CrashExplained
PROPERTIES
    StoresUndisturbed
\* A process that crashed stops.
CHECK_DEADLOCK FALSE
