\* Columnar marks over short lines.
SPECIFICATION FairSpec
CONSTANTS
    Letters = {"a"}
    NL = "NL"
    Tab = "Tab"
    Blank = "Blank"
    TabSize = 2
    Handles = {aux, h1}
    Temporary = {}
    Aux = aux
    NoHandle = none
    NoMark = nomark
    MarkGrow = 2
    PosCacheAlloc = 4
    DirtyBits = {}
    ColumnarModes = {TRUE}
    Codes = {}
    Loads = {}
    Inserts <- ColumnInserts
    Chunks <- NoStrings
    Patterns <- NoStrings
    QueryPos = {3}
    WriteChars = {}
    ClientFlags = {"locked", "dirty"}
    MaxLen = 4
INVARIANTS
    PosCacheRight

    LengthIsWhatIsCopied
PROPERTIES
    RemovesTheSelectedBitOfLetters
    CallsReturn
    KeepsPromise
