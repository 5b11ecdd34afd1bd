------------------------------ MODULE GapBuffer ------------------------------
(***************************************************************************)
(* How an Sbuf stores its text (sbuf.c): the characters lie in one block   *)
(* of memory, with a gap in the middle that sbuf_movegap moves to where    *)
(* the text is changed.  The cells of the gap keep whatever was there.     *)
(***************************************************************************)
EXTENDS SbufText

CONSTANTS
    Junk,       \* what memory holds before anything is stored in it
    Strings,    \* the strings that are put into the text
    Widths,     \* the column widths they may be padded to
    WriteChars, \* what a client stores through the pointer of sbuf_lock
    MaxLen      \* bound on the length of the text

ASSUME JunkAssumption == Junk \notin Chars
ASSUME StringsAssumption == Strings \subseteq Seq(Chars)
ASSUME WidthsAssumption == Widths \subseteq Nat
ASSUME WriteCharsAssumption == WriteChars \subseteq Chars

VARIABLES
    buf,        \* the fields block, gappos, alloc and len of the Sbuf, and
                \* whether the block was ever allocated (block # NULL)
    locked,     \* SBUF_LOCKED_FLAG
    answer      \* what the last call returned

vars == <<buf, locked, answer>>

Empty == [block |-> [i \in {} |-> Junk], gappos |-> 0, alloc |-> 0, len |-> 0,
          mapped |-> FALSE]

NoAnswer == [op |-> "none"]

\* gaplen
Gap(s) == s.alloc - s.len

\* The text a block holds: what lies on either side of the gap.
TextOf(s) ==
    [i \in 1..s.len |-> IF i <= s.gappos THEN s.block[i - 1]
                        ELSE s.block[i - 1 + Gap(s)]]

\* What a cell of the block may hold.
Cell == Chars \cup {Junk}

\* What a buffer is: the fields are consistent (sbuf_validate), the gap is
\* within the text, and no cell that was never written is part of the text.
IsBuffer(s) ==
    /\ s \in [block  : [0..s.alloc - 1 -> Cell],
              gappos : 0..s.len, alloc : Nat, len : 0..s.alloc,
              mapped : BOOLEAN]
    /\ ~s.mapped => s.alloc = 0
    /\ TextOf(s) \in Seq(Chars)

-----------------------------------------------------------------------------
\* Faulty variant of Shift: moving the gap to the left leaves out a character.
ShiftOneShort(s, pos) ==
    [s EXCEPT !.gappos = pos,
              !.block = [i \in DOMAIN s.block |->
                  IF pos + Gap(s) < i /\ i < s.gappos + Gap(s)
                  THEN s.block[i - Gap(s)]
                  ELSE IF s.gappos <= i /\ i < pos THEN s.block[i + Gap(s)]
                  ELSE s.block[i]]]

\* The memmove of sbuf_movegap, and gappos = pos.
Shift(s, pos) ==
    [s EXCEPT !.gappos = pos,
              !.block = [i \in DOMAIN s.block |->
                  IF pos + Gap(s) <= i /\ i < s.gappos + Gap(s)
                  THEN s.block[i - Gap(s)]
                  ELSE IF s.gappos <= i /\ i < pos THEN s.block[i + Gap(s)]
                  ELSE s.block[i]]]

\* The realloc of sbuf_movegap: n more cells at the end of the block.
Grow(s, n) ==
    [block  |-> [i \in 0..s.alloc + n - 1 |->
                    IF i < s.alloc THEN s.block[i] ELSE Junk],
     gappos |-> s.gappos, alloc |-> s.alloc + n, len |-> s.len,
     mapped |-> TRUE]

\* sbuf_movegap must allocate when the gap is too small, or there is no block.
MustGrow(s, n) == Gap(s) < n \/ ~s.mapped

\* Before it does it moves the gap to the end.
GapAtEnd(s) == IF s.mapped THEN Shift(s, s.len) ELSE s

\* sbuf_movegap
MoveGap(s, pos, n) ==
    Shift(IF MustGrow(s, n) THEN Grow(GapAtEnd(s), n) ELSE s, pos)

\* replace_mark_part, once the gap is at pos: the gap swallows len characters,
\* then new is copied into it.
Fill(s, len, new) ==
    [block  |-> [i \in DOMAIN s.block |->
                    IF s.gappos <= i /\ i < s.gappos + Len(new)
                    THEN new[i - s.gappos + 1] ELSE s.block[i]],
     gappos |-> s.gappos + Len(new), alloc |-> s.alloc,
     len    |-> s.len - len + Len(new), mapped |-> s.mapped]

ReplaceMarkPart(s, pos, len, new) == Fill(MoveGap(s, pos, Len(new)), len, new)

\* The block with its gap after the range, so that count_chars can read the
\* range from memory.
RangeInOnePiece(s, pos, len) == MoveGap(s, pos + len, 0)

\* The n cells that begin at cell pos.
Cells(s, pos, n) == [i \in 1..n |-> s.block[pos + i - 1]]

-----------------------------------------------------------------------------
\* strchange
StrChange(pos, len, new) ==
    LET s == RangeInOnePiece(buf, pos, len)
    IN  /\ ~locked
        /\ pos + len <= buf.len /\ buf.len - len + Len(new) <= MaxLen
        /\ buf' = ReplaceMarkPart(s, pos, len, new)
        /\ answer' = [op    |-> "strchange",
                      lines |-> Newlines(new) - Newlines(Cells(s, pos, len))]
        /\ UNCHANGED locked

\* strchange when there is no memory for the longer text: the gap has moved.
StrChangeNoMemory(pos, len, new) ==
    LET s == RangeInOnePiece(buf, pos, len)
    IN  /\ ~locked
        /\ pos + len <= buf.len
        /\ buf' \in (IF buf.mapped THEN {} ELSE {buf})
                 \cup (IF Gap(s) < Len(new) THEN {GapAtEnd(s)} ELSE {})
        /\ answer' = NoAnswer
        /\ UNCHANGED locked

\* remove_columnar_mark takes a part out of a line.
RemovePart(pos, len) ==
    /\ ~locked
    /\ pos + len <= buf.len
    /\ buf' = ReplaceMarkPart(buf, pos, len, <<>>)
    /\ answer' = NoAnswer
    /\ UNCHANGED locked

\* insert_columnar_text puts a part into a line, padded to the column's width.
InsertPart(pos, new, w) ==
    /\ ~locked
    /\ pos <= buf.len /\ Len(new) <= w /\ buf.len + w <= MaxLen
    /\ buf' = ReplaceMarkPart(buf, pos, 0, Pad(new, Len(new), w))
    /\ answer' = NoAnswer
    /\ UNCHANGED locked

\* Faulty variant of OneBlock: the gap goes to the beginning.
OneBlockAtBegin(s) == MoveGap(s, 0, 0)

\* What sbuf_lock does to the block: the gap goes to the end.
OneBlock(s) == MoveGap(s, s.len, 0)

\* sbuf_lock: the client gets the block.
Lock ==
    /\ ~locked
    /\ buf' = OneBlock(buf)
    /\ locked' = TRUE
    /\ answer' = NoAnswer

\* sbuf_lock when the first block cannot be allocated.
LockNoMemory ==
    /\ ~locked /\ ~buf.mapped
    /\ answer' = NoAnswer
    /\ UNCHANGED <<buf, locked>>

Unlock ==
    /\ locked
    /\ locked' = FALSE
    /\ answer' = NoAnswer
    /\ UNCHANGED buf

\* The client stores through the pointer it was given: cell i is what it takes
\* for character i of the text.
ClientWrite(i, c) ==
    /\ locked
    /\ i < buf.len
    /\ buf' = [buf EXCEPT !.block[i] = c]
    /\ answer' = NoAnswer
    /\ UNCHANGED locked

\* sbuf_charat
Charat(pos) ==
    /\ pos <= buf.len
    /\ answer' = [op   |-> "charat",
                  char |-> IF pos = buf.len THEN EOF
                           ELSE IF pos < buf.gappos THEN buf.block[pos]
                           ELSE buf.block[pos + Gap(buf)]]
    /\ UNCHANGED <<buf, locked>>

-----------------------------------------------------------------------------
\* sbuf_linepos looks for line n in the cells before the gap, then in those
\* after it.  Skip stops after n newlines, or at the end of its cells.
Skip(s, from, to, n) ==
    Min({c \in from..to : c = to \/ Newlines(Cells(s, from, c - from)) = n})

\* Faulty variant of LinePos: the lines found before the gap are not deducted.
LinePosForgets(s, n) ==
    LET p == Skip(s, 0, s.gappos, n)
    IN  IF n = Newlines(Cells(s, 0, p)) THEN p
        ELSE Skip(s, s.gappos + Gap(s), s.len + Gap(s), n) - Gap(s)

LinePos(s, n) ==
    LET p    == Skip(s, 0, s.gappos, n)
        left == n - Newlines(Cells(s, 0, p))
    IN  IF left = 0 THEN p
        ELSE Skip(s, s.gappos + Gap(s), s.len + Gap(s), left) - Gap(s)

-----------------------------------------------------------------------------
Init == buf = Empty /\ locked = FALSE /\ answer = NoAnswer

Next ==
    \/ \E pos \in 0..buf.len :
        \/ \E len \in 0..buf.len, new \in Strings :
              StrChange(pos, len, new) \/ StrChangeNoMemory(pos, len, new)
        \/ \E len \in 0..buf.len : RemovePart(pos, len)
        \/ \E new \in Strings, w \in Widths : InsertPart(pos, new, w)
        \/ Charat(pos)
        \/ \E c \in WriteChars : ClientWrite(pos, c)
    \/ Lock \/ LockNoMemory \/ Unlock

Spec == Init /\ [][Next]_vars

-----------------------------------------------------------------------------
\* Properties.

\* The buffer stays a buffer: the assertions of sbuf_validate never fail, and
\* memory that was never written never becomes part of the text.
TypeOK == IsBuffer(buf) /\ locked \in BOOLEAN

\* While a client holds the pointer of sbuf_lock the text is in one piece at
\* the beginning of the block: what it reads and writes there is the text.
LockedIsInOnePiece == locked => Cells(buf, 0, buf.len) = TextOf(buf)

\* sbuf_linepos steps over the gap: it finds the first position of a line, or
\* the end of the text when there are fewer lines.
LinePosIsRight ==
    \A n \in 0..MaxLen :
        LinePos(buf, n) = Min({p \in 0..buf.len :
                                  p = buf.len \/ LineOf(TextOf(buf), p) = n})

\* What may replace a part of the text.
Pieces == Strings \cup {<<>>}
            \cup {Pad(s, Len(s), w) : s \in Strings, w \in Widths}

\* The block and its gap are the text they hold, as far as anyone can tell.
Store == INSTANCE SbufStore WITH text <- TextOf(buf)

StoresText == Store!Spec
=============================================================================
