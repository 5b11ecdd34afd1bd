\* Catenation of two buffers whose trees have more than one chunk.
SPECIFICATION Spec
CONSTANTS
    Buffers = {b1, b2}
    Ids = {1, 2, 3, 4, 5, 6}
    ChunkMax = 2
    NodeMax = 2
    Texts <- Beginnings
    Starts = {0}
    Lengths = {2}
    MaxLen = 6
    Junk = Junk
VIEW Reached
PROPERTY CatJoins
CHECK_DEADLOCK FALSE
