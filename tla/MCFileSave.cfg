\* Two processes save the same file with file_save, each in the middle of the
\* other's save, and both want a backup; or one does, and wants none.
SPECIFICATION MCSpec
CONSTANTS
    Savers = {p1, p2, p3}
    Caller <- FileSaveCallers
    Keeps = {p1, p2}
    Temps = {"#1#", "#2#", "#3#"}
    Data = {"a", "b"}
    OldModes = {"0400"}
    Umasked = "0644"
    Failing = {"create", "fdopen", "write", "rename old", "rename new", "stat", "chmod", "remove"}
    MayCrash = TRUE
INVARIANTS
    NameIsWhole
PROPERTIES
    LatestSurvives
