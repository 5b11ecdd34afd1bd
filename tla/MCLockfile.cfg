\* Three processes and two locks of a directory.
SPECIFICATION MCSpec
CONSTANTS
    Procs = {p1, p2, p3}
    Locks = {l1, l2}
    Inodes = {i1, i2, i3}
    NoFile = noFile
    Failing = {"open", "link", "stat", "unlink"}
    MayCrash = TRUE
    Wanted = l1
INVARIANTS
    MutualExclusion
    HolderHasFile
    TempIsMine
PROPERTIES
    FailureLeavesNoLock
    SomebodyGetsIt
