------------------------------ MODULE SbufText ------------------------------
(***************************************************************************)
(* The text of an editing buffer (sbuf) as a sequence of characters, and   *)
(* what the read-only routines of sbuf_aux.c and the local helpers of      *)
(* sbuf.c compute from it.  A position is the number of characters before  *)
(* it, so the character at position p is t[p + 1].  The routines are loops *)
(* over the text in C; here each is the position its loop stops at.        *)
(***************************************************************************)
EXTENDS Integers, Sequences, FiniteSets, FiniteSetsExt

CONSTANTS
    Letters,    \* the characters that are neither newline, tab nor blank
    NL,         \* '\n'
    Tab,        \* '\t'
    Blank,      \* ' ', with which a column is padded
    TabSize     \* 8 in sbuf.c

ASSUME CharsAssumption == {NL, Tab, Blank} \cap Letters = {}
ASSUME NLAssumption == NL \notin {Tab, Blank}
ASSUME TabSizeAssumption == TabSize \in Nat \ {0}

Chars == Letters \cup {NL, Tab, Blank}

EOF == "EOF"

\* sbuf_charat returns characters as unsigned char, so none of them is EOF.
ASSUME EOFAssumption == EOF \notin Chars

\* sbuf_charat: the character at pos, or EOF just after the last one.
CharAt(t, pos) == IF pos = Len(t) THEN EOF ELSE t[pos + 1]

\* The text with len characters at pos replaced by new.
Splice(t, pos, len, new) ==
    SubSeq(t, 1, pos) \o new \o SubSeq(t, pos + len + 1, Len(t))

\* count_chars(.., '\n', ..)
Newlines(t) == Cardinality({i \in DOMAIN t : t[i] = NL})

\* The line number of position pos; the first line is line 0.
LineOf(t, pos) == Newlines(SubSeq(t, 1, pos))

\* sbuf_boln: the position before the first character of pos's line.
Boln(t, pos) == Max({p \in 0..pos : p = 0 \/ t[p] = NL})

\* sbuf_eoln: the position after the last character of pos's line, its
\* newline included.
Eoln(t, pos) ==
    LET stop == Min({p \in pos..Len(t) : CharAt(t, p) \in {NL, EOF}})
    IN  IF stop = Len(t) THEN stop ELSE stop + 1

-----------------------------------------------------------------------------
\* Columns.  A tab moves to the next multiple of TabSize.

Advance(col, c) == IF c = Tab THEN col + TabSize - (col % TabSize) ELSE col + 1

\* The column reached from column 0 after the characters of s.
Width(s) ==
    LET col[i \in 0..Len(s)] == IF i = 0 THEN 0 ELSE Advance(col[i - 1], s[i])
    IN  col[Len(s)]

\* sbuf_colno
Colno(t, pos) == Width(SubSeq(t, Boln(t, pos) + 1, pos))

\* Faulty variant of Colpos: a tab that ends at the column stops the loop too.
ColposTabTooEarly(t, pos, col) ==
    Min({p \in pos..Len(t) :
            \/ Width(SubSeq(t, pos + 1, p)) >= col
            \/ CharAt(t, p) \in {NL, EOF, Tab}})

\* sbuf_colpos: the position, on the line that begins at pos, of the character
\* that occupies column col; the end of the line when it is too short.
Colpos(t, pos, col) ==
    Min({p \in pos..Len(t) :
            \/ Width(SubSeq(t, pos + 1, p)) >= col
            \/ CharAt(t, p) \in {NL, EOF}
            \/ CharAt(t, p) = Tab /\ Width(SubSeq(t, pos + 1, p + 1)) > col})

-----------------------------------------------------------------------------
\* The text of a mark: an ordinary mark is contiguous, a columnar one is the
\* rectangle between the columns of its two ends, every newline included.

\* Faulty variant of MarkLength: the column is not set back at a newline.
MarkLengthStaysInColumn(t, m) ==
    LET from == Colno(t, m.begin)
        to   == Colno(t, m.begin + m.len)
        counted[i \in 0..m.len] ==
            IF i = 0 THEN [col |-> from, len |-> 0]
            ELSE LET x == counted[i - 1]
                     c == t[m.begin + i]
                 IN  IF c = NL THEN [col |-> x.col, len |-> x.len + 1]
                     ELSE [col |-> Advance(x.col, c),
                           len |-> IF x.col >= from /\ x.col < to THEN x.len + 1 ELSE x.len]
    IN  IF m.columnar THEN counted[m.len].len ELSE m.len

\* sbuf_mark_length: the loop over a columnar mark knows the column it is at and how many
\* characters it has counted.
MarkLength(t, m) ==
    LET from == Colno(t, m.begin)
        to   == Colno(t, m.begin + m.len)
        counted[i \in 0..m.len] ==
            IF i = 0 THEN [col |-> from, len |-> 0]
            ELSE LET x == counted[i - 1]
                     c == t[m.begin + i]
                 IN  IF c = NL THEN [col |-> 0, len |-> x.len + 1]
                     ELSE [col |-> Advance(x.col, c),
                           len |-> IF x.col >= from /\ x.col < to THEN x.len + 1 ELSE x.len]
    IN  IF m.columnar THEN counted[m.len].len ELSE m.len

\* sbuf_strat: the loop knows the column and what it has copied.
Strat(t, m) ==
    LET from == Colno(t, m.begin)
        to   == Colno(t, m.begin + m.len)
        done[i \in 0..m.len] ==
            IF i = 0 THEN [col |-> from, str |-> <<>>]
            ELSE LET x == done[i - 1]
                     c == t[m.begin + i]
                 IN  IF c = NL THEN [col |-> 0, str |-> Append(x.str, c)]
                     ELSE [col |-> Advance(x.col, c),
                           str |-> IF x.col >= from /\ x.col < to THEN Append(x.str, c)
                                   ELSE x.str]
    IN  IF m.columnar THEN done[m.len].str ELSE SubSeq(t, m.begin + 1, m.begin + m.len)

\* sbuf_pos_inside_mark
PosInsideMark(t, m, pos) ==
    /\ m.begin <= pos /\ pos < m.begin + m.len
    /\ m.columnar => /\ Colno(t, m.begin) <= Colno(t, pos)
                     /\ Colno(t, pos) < Colno(t, m.begin + m.len)

\* The positions that a columnar mark (begin, len) takes: what is in the columns of its
\* two ends, and every newline.  The code has three loops of its own for this.
InColumns(t, begin, len) ==
    LET from == Colno(t, begin)
        to   == Colno(t, begin + len)
    IN  {p \in begin..begin + len - 1 :
            t[p + 1] = NL \/ (from <= Colno(t, p) /\ Colno(t, p) < to)}

-----------------------------------------------------------------------------
\* insert_columnar_text takes its text line by line.

\* The number of characters of s before its first newline.
LineLength(s) == Min({i \in 0..Len(s) : i = Len(s) \/ s[i + 1] = NL})

\* What is left of s after its first line and that line's newline.
NextLine(s) == SubSeq(s, LineLength(s) + 2, Len(s))

\* string_dim's *w: the length of the longest line of s that ends in a
\* newline; characters after the last newline are not counted.
StringWidth(s) ==
    Max({0} \cup {n \in 0..Len(s) :
            \E i \in 0..Len(s) - n :
                /\ i + n < Len(s) /\ s[i + n + 1] = NL
                /\ \A k \in i + 1..i + n : s[k] # NL})

\* string_dim's *h: the number of lines of s, an unfinished one included.
StringHeight(s) ==
    Newlines(s) + IF s # <<>> /\ s[Len(s)] # NL THEN 1 ELSE 0

\* n characters of s, padded with blanks to width w (replace_mark_part).
Pad(s, n, w) == [i \in 1..w |-> IF i <= n THEN s[i] ELSE Blank]

-----------------------------------------------------------------------------
\* Searching (sbuf_srch.c without SBUF_REGEX).

\* is_match: pat is found in t at pos.
IsMatch(t, pos, pat) ==
    pos + Len(pat) <= Len(t) /\ SubSeq(t, pos + 1, pos + Len(pat)) = pat

\* The positions of mark m at which the search loops look.
Matches(t, m, pat) ==
    {p \in m.begin..m.begin + m.len - Len(pat) : IsMatch(t, p, pat)}
=============================================================================
