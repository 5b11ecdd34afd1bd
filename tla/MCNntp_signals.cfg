\* Writes that are partial, as they may be when a signal comes.
SPECIFICATION Spec
CONSTANTS
    Chars <- MCChars
    Articles <- MCArticles
    Spooled <- MCSpooled
    MaxCalls = 2
CHECK_DEADLOCK FALSE
INVARIANTS
    PostedIsKeptWithSignals
