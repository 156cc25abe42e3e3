\* Two file_log_mgrs of two file_logs and one; each file_log has two files.
CONSTANTS
    s1 = s1
    s2 = s2
    s3 = s3
    m1 = m1
    m2 = m2
    Subs = {s1, s2, s3}
    Managers = {m1, m2}
    MgrOf <- MgrOfEach
    NoOne = NoOne
    Dirs = {".", "log"}
    Paths <- CwdAndBelow
    Cwd = "."
    MaxGen = 2
    MaxSize = 2
    LogFileLength = 2
    RemovalSize = 1
    LogExpired = 4320
    EpochSlip = 109235145
    MaxTime = 1
SPECIFICATION Spec
SYMMETRY Symmetry
INVARIANTS
    TypeOK
    ClearedWhenDone
PROPERTIES
    SmallOnlyByOthers
    GoneForGood
