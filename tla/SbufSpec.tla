------------------------------ MODULE SbufSpec ------------------------------
(***************************************************************************)
(* What an editing buffer promises its clients, whatever it keeps to keep  *)
(* the promise: a text; marks that follow the text as it is edited; and    *)
(* the right answer when asked for a line number.  The actions have the    *)
(* mark that the caller gave, and the text, as parameters.                 *)
(***************************************************************************)
EXTENDS SbufText

CONSTANTS Handles, NoMark

VARIABLES
    text,       \* the characters
    mark,       \* the marks by handle: [begin, len, dirty], or NoMark
    answer      \* the last answer about line numbers, if the last call asked

vars == <<text, mark, answer>>

NoAnswer == [pos |-> -1, line |-> -1]

Placed(t) == [begin : 0..Len(t), len : 0..Len(t), dirty : BOOLEAN]

InText(m, t) == m \in Placed(t) /\ m.begin + m.len <= Len(t)

EndOf(m) == m.begin + m.len

Init ==
    /\ text = <<>>
    /\ mark \in [Handles -> Placed(<<>>) \cup {NoMark}]
    /\ answer = NoAnswer

-----------------------------------------------------------------------------
\* How marks follow.

\* Position p of the text is inside mark m.
Inside(p, m) == m.begin <= p /\ p < m.begin + m.len

\* A change of the characters (begin, len) touches a mark that begins among
\* them, or just before or behind them, or that reaches into them.
Touched(m, begin, len) ==
    m.begin <= begin + len /\ (m.begin >= begin \/ EndOf(m) > begin)

\* Mark m has followed the edit that made the characters (begin, len) of t
\* into the n characters at begin of u, and has become v:
\*  - every character that survived is inside v exactly if it was inside m;
\*  - all new characters are inside v if m was touched, none if it was not;
\*  - v begins where m did if that is before the edit, and behind the edit
\*    moves with the text;
\*  - v is dirty if m was, or was touched, and otherwise it has the same text.
Follows(t, u, begin, len, n, m, v) ==
    LET touched == Touched(m, begin, len)
    IN  /\ InText(v, u)
        /\ \A p \in 0..begin - 1 : Inside(p, v) <=> Inside(p, m)
        /\ \A p \in begin..begin + n - 1 : Inside(p, v) <=> touched
        /\ \A p \in begin + len..Len(t) - 1 : Inside(p + n - len, v) <=> Inside(p, m)
        /\ m.begin < begin => v.begin = m.begin
        /\ m.begin >= begin =>
                v.begin = IF touched THEN begin ELSE m.begin + n - len
        /\ v.dirty <=> m.dirty \/ touched
        /\ ~touched => SubSeq(u, v.begin + 1, EndOf(v)) = SubSeq(t, m.begin + 1, EndOf(m))

\* The characters (begin, len) become new, and the marks of hs follow.
Replaced(hs, begin, len, new) ==
    /\ text' = Splice(text, begin, len, new)
    /\ DOMAIN mark' = Handles
    /\ \A h \in Handles : mark'[h] = NoMark <=> mark[h] = NoMark
    /\ \A h \in hs : mark[h] # NoMark =>
            Follows(text, text', begin, len, Len(new), mark[h], mark'[h])
    /\ answer' = NoAnswer

\* What the characters (begin, len) have become in a step.
Became(begin, len) == SubSeq(text', begin + 1, Len(text') - (Len(text) - (begin + len)))

-----------------------------------------------------------------------------
\* The contents of h's mark become new, and every mark follows, h's own too.
Change(h, new) ==
    /\ mark[h] # NoMark
    /\ Replaced(Handles, mark[h].begin, mark[h].len, new)

\* All of the text is removed.
Clear == Replaced(Handles, 0, Len(text), <<>>)

\* A block is read in behind h's mark, which becomes that block.
AddBlock(h, new) ==
    /\ mark[h] # NoMark
    /\ Replaced(Handles \ {h}, EndOf(mark[h]), 0, new)
    /\ mark'[h] = [begin |-> EndOf(mark[h]), len |-> Len(new), dirty |-> TRUE]

\* Everything from begin to the end of h's mark is taken back, and the mark is
\* where it was.
TakeBack(h, begin) ==
    /\ mark[h] # NoMark /\ begin <= EndOf(mark[h])
    /\ Replaced(Handles \ {h}, begin, EndOf(mark[h]) - begin, <<>>)
    /\ mark'[h] = [begin |-> begin, len |-> 0, dirty |-> TRUE]

\* Part of h's mark is cut out.
CutOut(h, begin, len) ==
    /\ mark[h] # NoMark
    /\ mark[h].begin <= begin /\ begin + len <= EndOf(mark[h])
    /\ Replaced(Handles, begin, len, <<>>)

\* Something is put into the text, not before h's mark.
PutIn(h, pos, new) ==
    /\ mark[h] # NoMark /\ mark[h].begin <= pos
    /\ Replaced(Handles, pos, 0, new)

\* The mark of h is made, moved or given up, or has its dirty bit changed.
SetMark(h, m) ==
    /\ m # NoMark => InText(m, text)
    /\ mark' = [mark EXCEPT ![h] = m]
    /\ answer' = NoAnswer
    /\ UNCHANGED text

\* The holder of the lock changes a character in place.
Overwrite ==
    /\ Len(text') = Len(text)
    /\ \E p \in DOMAIN text : text' = [text EXCEPT ![p] = text'[p]]
    /\ answer' = NoAnswer
    /\ UNCHANGED mark

\* A question about the text: the answer is the line number of the position.
AskLine ==
    /\ answer'.pos \in 0..Len(text)
    /\ answer'.line = LineOf(text, answer'.pos)
    /\ UNCHANGED <<text, mark>>

Forget == answer' = NoAnswer /\ UNCHANGED <<text, mark>>

Next ==
    \/ Forget
    \/ \E h \in Handles : SetMark(h, mark'[h])
    \/ AskLine
    \/ \E h \in Handles : mark[h] # NoMark /\ Change(h, Became(mark[h].begin, mark[h].len))
    \/ \E h \in Handles : mark[h] # NoMark /\ AddBlock(h, Became(EndOf(mark[h]), 0))
    \/ Overwrite
    \/ Clear
    \/ \E h \in Handles, begin \in 0..Len(text) :
        \/ TakeBack(h, begin)
        \/ PutIn(h, begin, Became(begin, 0))
        \/ \E len \in 0..Len(text) : CutOut(h, begin, len)

Spec == Init /\ [][Next]_vars
=============================================================================
