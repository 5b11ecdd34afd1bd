------------------------------- MODULE LineSpec -------------------------------
(***************************************************************************)
(* What a queue and a stack promise: a line of data, where new data are    *)
(* put at the behind and taken from one end.                               *)
(***************************************************************************)
EXTENDS SequencesExt

CONSTANTS
    Data,
    Nothing,        \* no line, or no answer
    TakesBehind     \* whether data are taken from the behind, too

VARIABLES
    line,           \* the sequence of data, or Nothing
    answer          \* the datum that was given back, or whether a call did its work

vars == <<line, answer>>

Foremost(s) == IF TakesBehind THEN Last(s) ELSE Head(s)
Rest(s)  == IF TakesBehind THEN Front(s) ELSE Tail(s)

Init == line = Nothing /\ answer = Nothing

Create  == line = Nothing /\ line' \in {<<>>, Nothing} /\ answer' = Nothing
Destroy == line # Nothing /\ line' = Nothing /\ answer' = Nothing

Add(d) ==
    /\ line # Nothing
    /\ \/ line' = Append(line, d) /\ answer' = "ok"
       \/ line' = line /\ answer' = "failed"

Look ==
    /\ line \notin {Nothing, <<>>}
    /\ answer' = Foremost(line)
    /\ UNCHANGED line

Take ==
    /\ line \notin {Nothing, <<>>}
    /\ answer' = Foremost(line)
    /\ line' = Rest(line)

IsEmpty ==
    /\ line # Nothing
    /\ answer' = IF line = <<>> THEN "empty" ELSE "not empty"
    /\ UNCHANGED line

Next == Create \/ Destroy \/ (\E d \in Data : Add(d)) \/ Look \/ Take \/ IsEmpty

Spec == Init /\ [][Next]_vars
===============================================================================
