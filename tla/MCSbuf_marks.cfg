\* Marks under all edits; slots freed, reused and added, with codes and failing
\* allocations; searches, and files inserted.
SPECIFICATION Spec
CONSTANTS
    Letters = {"a"}
    NL = "NL"
    Tab = "Tab"
    Blank = "Blank"
    TabSize = 2
    Handles = {aux, h1, h2}
    Temporary = {h1, h2}
    Aux = aux
    NoHandle = none
    NoMark = nomark
    MarkGrow = 2
    PosCacheAlloc = 4
    DirtyBits = {}
    ColumnarModes = {}
    Codes = {0, 1}
    Loads = {}
    Inserts <- MarkInserts
    Chunks <- MarkChunks
    Patterns <- MarkPatterns
    QueryPos = {}
    WriteChars = {}
    ClientFlags = {}
    MaxLen = 3
SYMMETRY Interchangeable
INVARIANTS
    MarksInBounds
    HandlesMatchSlots
PROPERTIES
    CodesFindTheirMarks
    KeepsPromise
