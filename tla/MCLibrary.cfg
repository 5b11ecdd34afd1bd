\* The parts of the library that stand alone, one in each behaviour.
SPECIFICATION LibrarySpec
CONSTANTS
    Letters = {"a"}
    NL = "NL"
    Tab = "Tab"
    Blank = "Blank"
    TabSize = 8
    Junk = Junk
    Strings <- SmallStrings
    Widths = {2}
    WriteChars = {"NL"}
    MaxLen = 3
    d1 = d1
    d2 = d2
    a1 = a1
    a2 = a2
    b1 = b1
    c1 = c1
    NULL = NULL
    NoKey = NoKey
    Equals = Equals
    Other = Other
    saver = saver
\* Base64 codes and the like are made once, and a set of integers may stop.
CHECK_DEADLOCK FALSE
INVARIANTS
    LockedIsInOnePiece
    LinePosIsRight
    IsetsAreSound
    NoLogMissesMessages
    TextStandsForData
    
PROPERTIES
    StoresText
    ContainersKeepPromises
    NothingIsLost
    OthersStayWhole
    SavedIsStored
    ModesAreKept
