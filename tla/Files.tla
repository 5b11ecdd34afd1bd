--------------------------------- MODULE Files ---------------------------------
(***************************************************************************)
(* Reading and writing files: files/file_io.c and files/getaline.c.        *)
(* getaline reads a line with fgets into a block, which it makes larger    *)
(* for as long as the line goes on: a step is a round of that loop.  The   *)
(* other functions are one step each.                                      *)
(***************************************************************************)
EXTENDS Integers, FiniteSets, FiniteSetsExt, SequencesExt

CONSTANTS
    Contents,               \* what files may hold, sequences of characters
    Newline, Null,          \* two of the characters
    Thres, MinInc, Mucho,   \* the numbers by which the block grows and shrinks
    StdoutError             \* whether an output of the program has failed

VARIABLES
    content,    \* what the file holds
    at,         \* how many characters of it the stream is behind
    error,      \* ferror of the stream
    reading,    \* the call that is reading a line
    text,       \* what its block holds, up to the first NUL
    size,       \* the size of the block
    got,        \* the lines that were returned
    ret,        \* how the last call ended
    data        \* what file_read returned or file_write was given

vars == <<content, at, error, reading, text, size, got, ret, data>>

Nobody == "nobody"
Calls  == {"getaline", "xgetaline"}

Init ==
    /\ content \in Contents
    /\ at = 0 /\ error = FALSE
    /\ reading = Nobody /\ text = <<>> /\ size = 0
    /\ got = <<>> /\ ret = "" /\ data = <<>>

-----------------------------------------------------------------------------
\* How many characters fgets takes for a block of n: one is for the NUL.
Fetched(n) ==
    Min({n - 1, Len(content) - at} \cup {k \in 1..Len(content) - at : content[at + k] = Newline})

\* The characters that strlen counts
ToNul(chars) ==
    SubSeq(chars, 1, Min({Len(chars) + 1} \cup {k \in DOMAIN chars : chars[k] = Null}) - 1)

\* What the block holds after fgets, and whether the line ends there
Line  == text \o ToNul(SubSeq(content, at + 1, at + Fetched(size - Len(text))))
Whole == Line # <<>> /\ Last(Line) = Newline

\* realloc is tried with halves of the growth for as long as they are more than MinInc.
Growths(n) == {n \div (2 ^ k) : k \in 0..n} \cap MinInc + 1..n

\* getaline returns a line, and tries to give back the rest of the block.
Return(line) ==
    /\ got' = Append(got, line)
    /\ text' = <<>>
    /\ size' \in {size} \cup IF size - Len(line) > Mucho THEN {Len(line) + 1} ELSE {}
    /\ ret' = "line" /\ reading' = Nobody

\* It returns NULL, after __publib_error if anything is wrong; xgetaline makes an exit from
\* it if ferror says that it should.
ReturnNull(who, wrong) ==
    /\ ret' = IF who = "xgetaline" /\ error' THEN "exit"
              ELSE IF wrong THEN "reported" ELSE "end"
    /\ reading' = Nobody /\ text' = <<>> /\ size' = 0
    /\ UNCHANGED got

\* A client reads until it gets NULL.
Idle == reading = Nobody /\ ret \notin {"reported", "end", "exit"}

Getaline ==
    /\ Idle
    /\ \/ reading' \in Calls /\ text' = <<>> /\ size' = Thres /\ ret' = "" /\ UNCHANGED got
       \/ \E who \in Calls : UNCHANGED error /\ ReturnNull(who, TRUE)      \* no memory
    /\ UNCHANGED <<content, at, error, data>>

Reading == reading # Nobody /\ at < Len(content)

Took ==
    /\ at' = at + Fetched(size - Len(text))
    /\ UNCHANGED <<content, error, data>>

\* fgets got the end of the line,
LineEnds == Reading /\ Took /\ Whole /\ Return(Front(Line))

\* or more of it, and the block is enlarged,
LineGoesOn ==
    /\ Reading /\ Took /\ ~Whole
    /\ text' = Line
    /\ \E inc \in Growths(size) : size' = size + inc
    /\ UNCHANGED <<reading, got, ret>>

\* if there is memory; if not, what was read of the line is lost.
LineIsLost == Reading /\ Took /\ ~Whole /\ ReturnNull(reading, TRUE)

\* fgets got nothing: the end of the file is the end of a line that is not empty.
FileEnds ==
    /\ reading # Nobody /\ at = Len(content)
    /\ IF text = <<>> THEN UNCHANGED error /\ ReturnNull(reading, error) ELSE Return(text)
    /\ UNCHANGED <<content, at, error, data>>

\* Reading fails in fgets, which then leaves anything behind the text, be it a part of
\* the file or not; that it failed shows only if there was no text.
ReadFails ==
    /\ Reading
    /\ at' \in at..at + Fetched(size - Len(text)) - 1
    /\ error' = TRUE
    /\ IF text = <<>> THEN ReturnNull(reading, TRUE)
       ELSE \E n \in {0, at' - at} : Return(text \o ToNul(SubSeq(content, at + 1, at + n)))
    /\ UNCHANGED <<content, data>>

-----------------------------------------------------------------------------
Unread == Idle /\ at = 0 /\ got = <<>> /\ UNCHANGED <<at, error, reading, text, size, got>>

\* file_read stops at once if an output has failed.
FileRead ==
    /\ Unread
    /\ ret' = "done" /\ data' = IF StdoutError THEN <<>> ELSE content
    /\ UNCHANGED content

\* A file that is not there or not read; or no memory, when it is closed twice, which
\* the process may not survive.
FileReadFails == Unread /\ ret' \in {"failed", "exit"} /\ UNCHANGED <<content, data>>

FileWrite ==
    /\ Unread
    /\ \E d \in Contents :
        /\ data' = d
        /\ \/ content' = d /\ ret' = "done"
           \/ ret' = "failed" /\ \E n \in 0..Len(d) : content' = SubSeq(d, 1, n)

Next ==
    \/ Getaline \/ LineEnds \/ LineGoesOn \/ LineIsLost \/ FileEnds \/ ReadFails
    \/ FileRead \/ FileReadFails \/ FileWrite

Spec == Init /\ [][Next]_vars

-----------------------------------------------------------------------------
\* Properties.

\* For as long as no reading fails, the lines that were returned, and what was read of
\* the next one, are the file as far as it was read, but for the newline that the last
\* line may not have; and NULL without a report means that all of the file was read.  When
\* memory has run out, which is reported, one line may be missing at the end, of which
\* there was so much that it filled the block, or which is the last of the file and has no
\* newline: for that a larger block is wanted, too, although it fits.  The block always has
\* room for the NUL.  (A NUL in a file is no part of a line.)
LinesAreTheFile ==
    LET lines == FlattenSeq([i \in DOMAIN got |-> Append(got[i], Newline)]) \o text
        here  == SubSeq(content, 1, at)
        lost  == SubSeq(here, Len(lines) + 1, at)
    IN  /\ size > 0 => Len(text) < size
        /\ ret = "done" /\ ~StdoutError => data = content
        /\ Null \notin ToSet(content) /\ ~error =>
            /\ ret = "end" => at = Len(content)
            /\ \/ lines = here
               \/ lines = Append(here, Newline) /\ at = Len(content)
               \/ /\ ret = "reported" /\ IsPrefix(lines, here)
                  /\ Newline \notin ToSet(lost)
                  /\ Len(lost) >= Thres - 1 \/ at = Len(content)
===============================================================================
