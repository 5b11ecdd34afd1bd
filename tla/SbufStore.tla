------------------------------ MODULE SbufStore ------------------------------
(***************************************************************************)
(* What the storage of an editing buffer promises to the rest of sbuf: a   *)
(* text, in which a range can be replaced, that can be read character by   *)
(* character, and that the holder of the lock may change in place.         *)
(***************************************************************************)
EXTENDS SbufText

CONSTANTS
    Pieces      \* the strings that may replace a part of the text

VARIABLES
    text,       \* the characters
    locked,     \* a client holds a pointer to them
    answer      \* what the last call returned

vars == <<text, locked, answer>>

NoAnswer == [op |-> "none"]

Init == text = <<>> /\ locked = FALSE /\ answer = NoAnswer

\* A range is replaced; strchange also tells how many newlines were gained.
Replace ==
    /\ ~locked
    /\ \E new \in Pieces, pos \in 0..Len(text), len \in 0..Len(text) :
        /\ pos + len <= Len(text)
        /\ text' = Splice(text, pos, len, new)
        /\ answer' \in {NoAnswer,
              [op    |-> "strchange",
               lines |-> Newlines(new)
                            - Newlines(SubSeq(text, pos + 1, pos + len))]}
    /\ UNCHANGED locked

Read ==
    /\ \E pos \in 0..Len(text) :
            answer' = [op |-> "charat", char |-> CharAt(text, pos)]
    /\ UNCHANGED <<text, locked>>

Lock   == ~locked /\ locked' = TRUE /\ answer' = NoAnswer /\ UNCHANGED text
Unlock == locked /\ locked' = FALSE /\ answer' = NoAnswer /\ UNCHANGED text

Overwrite ==
    /\ locked
    /\ \E p \in DOMAIN text, c \in Chars : text' = [text EXCEPT ![p] = c]
    /\ answer' = NoAnswer
    /\ UNCHANGED locked

\* A call that fails changes nothing.
Fail == answer' = NoAnswer /\ UNCHANGED <<text, locked>>

Next == Replace \/ Read \/ Lock \/ Unlock \/ Overwrite \/ Fail

Spec == Init /\ [][Next]_vars
=============================================================================
