------------------------------- MODULE SbufWords -------------------------------
(***************************************************************************)
(* Words and pairs of brackets in the text of an editing buffer: sbuf_bow, *)
(* sbuf_eow and sbuf_find_pair of sbuf_aux.c.                              *)
(***************************************************************************)
EXTENDS Integers, FiniteSets, FiniteSetsExt, SequencesExt

CONSTANTS
    WordLetters,    \* the characters that words are made of
    Left, Right,    \* the brackets that pairs begin and end with
    Others,         \* some of the other characters
    MaxWords, MaxPairs  \* how long texts with all characters and with brackets are

VARIABLES text, answer

vars == <<text, answer>>

Brackets == ToSet(Left) \cup ToSet(Right)

NoAnswer == [op |-> "none", pos |-> 0, value |-> 0]

Init ==
    /\ text \in SeqOf(WordLetters \cup Others \cup Brackets, MaxWords)
                \cup SeqOf({Left[1], Right[1]}, MaxPairs)
    /\ answer = NoAnswer

-----------------------------------------------------------------------------
\* Whether sbuf_charat gives a letter: at the end of the text it gives EOF.
IsLetter(pos) == pos < Len(text) /\ text[pos + 1] \in WordLetters

Bow(pos) ==
    IF ~IsLetter(pos) THEN pos
    ELSE Min({p \in 0..pos : \A q \in p..pos : IsLetter(q)})

Eow(pos) ==
    IF ~IsLetter(pos) THEN Min({pos + 1, Len(text)})
    ELSE Min({p \in pos..Len(text) : ~IsLetter(p)})

\* The array pair, and dir: 1 for brackets that look to the right
Pair(c) == IF c \in ToSet(Left) THEN Right[CHOOSE i \in DOMAIN Left : Left[i] = c]
           ELSE Left[CHOOSE i \in DOMAIN Right : Right[i] = c]
Dir(c)  == IF c \in ToSet(Left) THEN 1 ELSE -1

\* The next bracket behind pos on the side that dir says, -1 if there is none
NextBracket(pos, dir) ==
    LET others == {p \in 0..Len(text) - 1 :
                    text[p + 1] \in Brackets /\ (IF dir = 1 THEN p > pos ELSE p < pos)}
    IN  IF others = {} THEN -1 ELSE IF dir = 1 THEN Min(others) ELSE Max(others)

\* find_pair: from[p, q] is what the loop for the bracket at p returns when it is at q;
\* a bracket that looks the same way is first found its own pair.
FindPair(pos) ==
    LET places == {p \in 0..Len(text) - 1 : text[p + 1] \in Brackets}
        from[p \in places, q \in places] ==
            LET c == text[p + 1]
                r == NextBracket(q, Dir(c))
            IN  IF r = -1 THEN -1
                ELSE IF Pair(text[r + 1]) = c THEN r
                ELSE IF Dir(text[r + 1]) # Dir(c) THEN -1
                ELSE LET end == from[r, r] IN IF end = -1 THEN -1 ELSE from[p, end]
    IN  IF pos \notin places THEN -1 ELSE from[pos, pos]

-----------------------------------------------------------------------------
Answer(op, pos, value) ==
    /\ answer = NoAnswer
    /\ answer' = [op |-> op, pos |-> pos, value |-> value]
    /\ UNCHANGED text

SbufBow == \E pos \in 0..Len(text) : Answer("bow", pos, Bow(pos))
SbufEow == \E pos \in 0..Len(text) : Answer("eow", pos, Eow(pos))

\* -1 without memory for sbuf_lock, too
SbufFindPair ==
    \E pos \in -1..Len(text) : \E value \in {-1, FindPair(pos)} : Answer("pair", pos, value)

Next == SbufBow \/ SbufEow \/ SbufFindPair

Spec == Init /\ [][Next]_vars

-----------------------------------------------------------------------------
\* Properties.

\* What is between two positions has brackets that close in the order they were opened.
Balanced(p, q) ==
    LET inner == SelectSeq(SubSeq(text, p + 2, q), LAMBDA c : c \in Brackets)
        open[i \in 0..Len(inner)] ==
            IF i = 0 THEN <<>>
            ELSE IF Dir(inner[i]) = 1 THEN Append(open[i - 1], inner[i])
            ELSE IF open[i - 1] # <<>> /\ Last(open[i - 1]) = Pair(inner[i])
            THEN Front(open[i - 1])
            ELSE Append(open[i - 1], inner[i])
    IN  open[Len(inner)] = <<>>

\* The pair that is found is the one with balanced text between, and it is found from
\* both sides; a word begins and ends where its letters do, from wherever one looks.
WordsAndPairsAreRight ==
    /\ answer.op = "pair" => \A q \in 0..Len(text) - 1 :
        LET p     == answer.pos
            begin == Min({p, q})
            end   == Max({p, q})
        IN
        /\ answer.value = q => FindPair(q) = p
        /\ FindPair(p) = q <=>
            /\ p >= 0 /\ p < Len(text)
            /\ \E i \in DOMAIN Left : text[begin + 1] = Left[i] /\ text[end + 1] = Right[i]
            /\ Balanced(begin, end)
    /\ answer.op \in {"bow", "eow"} /\ IsLetter(answer.pos) =>
        /\ \A q \in Bow(answer.pos)..Eow(answer.pos) - 1 :
            IsLetter(q) /\ Bow(q) = Bow(answer.pos) /\ Eow(q) = Eow(answer.pos)
        /\ answer.value \in {Bow(answer.pos), Eow(answer.pos)}
        /\ ~IsLetter(Eow(answer.pos))
        /\ Bow(answer.pos) > 0 => ~IsLetter(Bow(answer.pos) - 1)
===============================================================================
