\* A client, a server and a network that loses nothing but may end; the client makes
\* two calls at most after nntp_open.
SPECIFICATION Spec
CONSTANTS
    Chars <- MCChars
    Articles <- MCArticles
    Spooled <- MCSpooled
    MaxCalls = 2
\* After the last call, an abort or the end of the connection nothing happens.
CHECK_DEADLOCK FALSE
INVARIANTS
    PostedIsKept
    ReadIsWhole
    InStep
PROPERTIES
    CallsReturn
