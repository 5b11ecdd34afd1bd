\* Buffers that share chunks and nodes, with so little memory that it runs out
\* in the middle of every operation.
SPECIFICATION Spec
CONSTANTS
    Buffers = {b1, b2, b3}
    Ids = {1, 2, 3, 4, 5, 6}
    ChunkMax = 2
    NodeMax = 2
    Texts <- Beginnings
    Starts = {0, 1}
    Lengths = {2, 3}
    MaxLen = 5
    Junk = Junk
SYMMETRY Interchangeable
VIEW Reached
INVARIANTS
    TreesAreSound
    CharsAreRight
PROPERTIES
    BuffersNeverChange
    DestroyFreesGarbage
    NewBuffersAreRight
\* After an assertion failed or a null pointer was followed nothing happens.
CHECK_DEADLOCK FALSE
