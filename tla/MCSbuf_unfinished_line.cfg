\* A column whose last line does not end in a newline.
SPECIFICATION Spec
CONSTANTS
    Letters = {"a"}
    NL = "NL"
    Tab = "Tab"
    Blank = "Blank"
    TabSize = 2
    Handles = {aux, h1}
    Temporary = {}
    Aux = aux
    NoHandle = none
    NoMark = nomark
    MarkGrow = 2
    PosCacheAlloc = 4
    DirtyBits = {}
    ColumnarModes = {TRUE, FALSE}
    Codes = {}
    Loads = {}
    Inserts <- ColumnInserts
    Chunks <- NoStrings
    Patterns <- NoStrings
    QueryPos = {}
    WriteChars = {}
    ClientFlags = {"locked", "dirty"}
    MaxLen = 4
INVARIANTS
    NeverAborts
