\* The line number cache under edits, loads and failing loads, and the answers
\* it gives.
SPECIFICATION Spec
CONSTANTS
    Letters = {"a"}
    NL = "NL"
    Tab = "Tab"
    Blank = "Blank"
    TabSize = 2
    Handles = {aux, h1}
    Temporary = {}
    Aux = aux
    NoHandle = none
    NoMark = nomark
    MarkGrow = 2
    PosCacheAlloc = 4
    DirtyBits = {}
    ColumnarModes = {}
    Codes = {}
    Loads = {"yes", "none", "error", "nomem", "noname"}
    Inserts <- LineInserts
    Chunks <- BlockChunks
    Patterns <- NoStrings
    QueryPos = {0, 1, 2, 3}
    WriteChars = {"a"}
    ClientFlags = {"locked", "dirty"}
    MaxLen = 3
INVARIANTS
    PosCacheRight
    AnswersAreRight
PROPERTIES
    FailedLoadIsEmpty
