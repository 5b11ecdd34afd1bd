-------------------------------- MODULE Strutil --------------------------------
(***************************************************************************)
(* Functions on strings (strutil/): a client calls them to change the      *)
(* string at the start of a buffer, in place.                              *)
(***************************************************************************)
EXTENDS CString

CONSTANTS
    Size,       \* the size of the buffer
    Chars,      \* the characters in strings
    Longest,    \* bound on the string in the buffer
    Short       \* bound on the strings that the functions get to work with

VARIABLES
    buffer,
    edited,     \* how many calls have changed the string
    ret         \* what the last one returned, or 0

vars == <<buffer, edited, ret>>

Texts == BoundedSeq(Chars, Short)

\* What is behind the string is not NUL.
Init ==
    /\ buffer \in {StrCpy([a \in 0..Size - 1 |-> 1], 0, text) : text \in BoundedSeq(Chars, Longest)}
    /\ edited = 0
    /\ ret = 0

Text == StrAt(buffer, 0)

-----------------------------------------------------------------------------
\* Functions that put something in or take something out.

StrDel(m, n) ==
    LET len  == StrLen(m, 0)
        size == IF n > len THEN len ELSE n
    IN  MemMove(m, 0, size, len + 1 - size)

\* strnins; strins is the same without a limit.
StrnIns(m, text, n) ==
    LET srclen == IF Len(text) > n THEN n ELSE Len(text)
    IN  MemCpy(MemMove(m, srclen, 0, StrLen(m, 0) + 1), 0, BlockOf(text), srclen)

StrCIns(m, c) == [MemMove(m, 1, 0, StrLen(m, 0) + 1) EXCEPT ![0] = c]

StrChange(m, changelen, text, newlen) ==
    LET change == IF StrLen(m, 0) < changelen THEN StrLen(m, 0) ELSE changelen
        new    == IF Len(text) < newlen THEN Len(text) ELSE newlen
    IN  MemCpy(MemMove(m, new, change, StrLen(m, change) + 1), 0, BlockOf(text), new)

\* strzap and strendzap; they return whether the text was there.
StrZap(m, text) ==
    LET len == StrLen(m, 0) IN
    IF Len(text) <= len /\ At(m, 0, text)
    THEN [buffer |-> MemMove(m, 0, Len(text), len - Len(text) + 1), ret |-> 1]
    ELSE [buffer |-> m, ret |-> 0]

StrEndZap(m, text) ==
    LET at == StrLen(m, 0) - Len(text) IN
    IF at >= 0 /\ StrAt(m, at) = text
    THEN [buffer |-> [m EXCEPT ![at] = NUL], ret |-> 1]
    ELSE [buffer |-> m, ret |-> 0]

\* strsub of the string at p; ret is the address behind the substitute.
StrSub(m, p, pat, sub) ==
    LET at == StrStr(m, p, pat) IN
    IF at = NoPointer THEN [buffer |-> m, ret |-> NoPointer]
    ELSE [buffer |-> MemCpy(MemMove(m, at + Len(sub), at + Len(pat),
                                    StrLen(m, at) + 1 - Len(pat)),
                            at, BlockOf(sub), Len(sub)),
          ret    |-> at + Len(sub)]

\* How many times strgsub finds the pattern.
Matches(m, pat) ==
    LET next[p \in 0..StrLen(m, 0)] ==
            LET at == StrStr(m, p, pat)
            IN  IF at = NoPointer THEN 0 ELSE 1 + next[at + Len(pat)]
    IN  next[0]


\* Whether the string with all the substitutes does not fit.
TooLong(m, pat, sub, max) ==
    /\ Len(pat) < Len(sub)
    /\ StrLen(m, 0) + 1 + Matches(m, pat) * (Len(sub) - Len(pat)) > max

\* strgsub of the pattern, one strsub behind the other, when all of them will fit;
\* ret is the number of substitutions.
StrGSub(m, pat, sub, max) ==
    LET n == Matches(m, pat)
        after[k \in 0..n] ==
            IF k = 0 THEN [buffer |-> m, ret |-> 0]
            ELSE LET x == after[k - 1] IN StrSub(x.buffer, x.ret, pat, sub)
    IN  IF TooLong(m, pat, sub, max) THEN [buffer |-> m, ret |-> -1]
        ELSE [buffer |-> after[n].buffer, ret |-> n]

-----------------------------------------------------------------------------
\* Functions that deal with white space.

StrLTrim(m) ==
    LET t == Min({a \in 0..StrLen(m, 0) : ~IsSpace(m[a])})
    IN  MemMove(m, 0, t, StrLen(m, t) + 1)

StrRTrim(m) ==
    LET tt == {a + 1 : a \in {b \in 0..StrLen(m, 0) - 1 : ~IsSpace(m[b])}}
    IN  [m EXCEPT ![Max(tt \cup {0})] = NUL]

StrTrim(m) == StrLTrim(StrRTrim(m))

\* strmtrim: what is before the first other character stays.  White space at t is one
\* blank, or, when the string ends behind it, what it was.
StrMTrim(m) ==
    LET end == StrLen(m, 0)
        NonSpace(t) == Min({a \in t..end : ~IsSpace(m[a])})
        rest[t \in 0..end] ==
            IF t = end THEN <<>>
            ELSE IF NonSpace(t) = t THEN <<m[t]>> \o rest[t + 1]
            ELSE IF NonSpace(t) = end THEN StrAt(m, t)
            ELSE <<Space>> \o rest[NonSpace(t)]
    IN  StrCpy(m, NonSpace(0), rest[NonSpace(0)])

NextTab(col, tabsize) == (col + tabsize) - (col % tabsize)

\* strtabify writes the white space before each other character, or the NUL, anew:
\* tabs as far as they go, then blanks.
StrTabify(m, tabsize) ==
    LET text == StrAt(m, 0)
        tabs(s, t) == (s \div tabsize) - (t \div tabsize)
        White(s, t) ==
            IF tabs(s, t) = 0 THEN [i \in 1..s - t |-> Space]
            ELSE [i \in 1..tabs(s, t) + (s % tabsize) |->
                    IF i <= tabs(s, t) THEN HTab ELSE Space]
        done[k \in 0..Len(text)] ==
            IF k = 0 THEN [scol |-> 0, tcol |-> 0, out |-> <<>>]
            ELSE LET x == done[k - 1] IN
                IF text[k] = Space THEN [x EXCEPT !.scol = @ + 1]
                ELSE IF text[k] = HTab THEN [x EXCEPT !.scol = NextTab(@, tabsize)]
                ELSE [scol |-> x.scol + 1, tcol |-> x.scol + 1,
                      out  |-> x.out \o White(x.scol, x.tcol) \o <<text[k]>>]
        end == done[Len(text)]
    IN  StrCpy(m, 0, end.out \o White(end.scol, end.tcol))

StrUntabify(m, tabsize) ==
    LET tabs == Cardinality({a \in 0..StrLen(m, 0) : m[a] = HTab})
        done[k \in 0..tabs] ==
            IF k = 0 THEN m
            ELSE LET x == done[k - 1]
                     s == StrChr(x, 0, HTab)
                     n == tabsize - (s % tabsize)
                 IN  MemSet(MemMove(x, s + n, s + 1, StrLen(x, s + 1) + 1), s, Space, n)
    IN  done[tabs]

\* strsplit at the characters in sep: the words, as many as it returns; it ends
\* each with a NUL.
StrSplit(m, sep) ==
    LET end == StrLen(m, 0)
        words[p \in 0..end] ==
            LET start == p + StrSpn(m, p, sep)
                stop  == Min({a \in start..end : m[a] \in sep \cup {NUL}})
            IN  IF start = end THEN <<>>
                ELSE <<SubSeq(StrAt(m, 0), start + 1, stop)>>
                        \o (IF stop = end THEN <<>> ELSE words[stop + 1])
    IN  words[0]

-----------------------------------------------------------------------------
\* Functions that turn strings over.

\* strrev and, for n elements, memrev: the ends are swapped until they meet.
StrRev(m) ==
    LET len == StrLen(m, 0)
        done[k \in 0..len \div 2] ==
            IF k = 0 THEN m
            ELSE LET x == done[k - 1]
                 IN  [x EXCEPT ![k - 1] = x[len - k], ![len - k] = x[k - 1]]
    IN  done[len \div 2]

\* stranaxfrm: selection sort; min is the first of the least characters.
StrAnaXfrm(m) ==
    LET len == StrLen(m, 0)
        done[k \in 0..len] ==
            IF k = 0 THEN m
            ELSE LET x   == done[k - 1]
                     s   == k - 1
                     min == CHOOSE a \in s..len - 1 :
                                \A b \in s..len - 1 : x[a] < x[b] \/ (x[a] = x[b] /\ a <= b)
                 IN  [x EXCEPT ![s] = x[min], ![min] = x[s]]
    IN  done[len]

StrSet(m, c) == MemSet(m, 0, c, StrLen(m, 0))

-----------------------------------------------------------------------------
\* Functions that search.

\* strrstr does not look at the start of the string.
StrRStr(m, pat) == Hindmost({a \in 1..StrLen(m, 0) - Len(pat) : At(m, a, pat)})

\* The same searches for size characters of memory, which may be NUL
MemMem(m, size, pat)  == Foremost({a \in 0..size - Len(pat) : At(m, a, pat)})
MemRMem(m, size, pat) ==
    IF size < Len(pat) THEN NoPointer
    ELSE IF pat = <<>> THEN 0
    ELSE Hindmost({a \in 0..size - Len(pat) : At(m, a, pat)})
MemRChr(m, c, size) == Hindmost({a \in 0..size - 1 : m[a] = c})

StrDiff(m, other) ==
    CHOOSE n \in 0..StrLen(m, 0) :
        /\ m[n] = NUL \/ m[n] # other[n]
        /\ \A k \in 0..n - 1 : m[k] = other[k]

StrRight(m, n) ==
    LET len == StrLen(m, 0) IN IF n > len THEN len ELSE len - n

StrNLen(m, n) == Min({n} \cup {a \in 0..n - 1 : m[a] = NUL})

\* Whether tsize characters at t and ssize at s overlap; empty blocks count as one.
MemOverlap(t, tsize, s, ssize) ==
    LET tend == t + Max({tsize, 1}) - 1
        send == s + Max({ssize, 1}) - 1
    IN  \/ send >= t /\ s <= tend
        \/ tend >= s /\ t <= send

\* memisort puts a new element into a sorted array, behind those that are equal.
MemISort(array, new) ==
    LET p == Max({0} \cup {i \in DOMAIN array : new >= array[i]})
    IN  SubSeq(array, 1, p) \o <<new>> \o SubSeq(array, p + 1, Len(array))

-----------------------------------------------------------------------------
\* Functions that copy and fill.

\* memdel and memins in size characters of memory, which may be NUL
MemDel(m, size, n)    == MemMove(m, 0, n, size - n)
MemIns(m, size, text) == MemCpy(MemMove(m, Len(text), 0, size), 0, BlockOf(text), Len(text))

\* memfill with the pattern at from: a copy of it behind the other, then a part of it
MemFill(m, at, size, from, patsize) ==
    LET copies == (size - 1) \div patsize
        done[k \in 0..copies] ==
            IF k = 0 THEN m
            ELSE MemCpy(done[k - 1], at + (k - 1) * patsize,
                        [a \in 0..patsize - 1 |-> m[from + a]], patsize)
    IN  MemCpy(done[copies], at + copies * patsize,
               [a \in 0..patsize - 1 |-> m[from + a]], size - copies * patsize)

\* memarrfill: the first element fills the rest of the array.
MemArrFill(m, elsize, nelem) == MemFill(m, elsize, (nelem - 1) * elsize, 0, elsize)

\* strmaxcpy, and strndup, whose copy has its own block
StrMaxCpy(m, text, n) ==
    StrCpy(m, 0, SubSeq(text, 1, Min({n, Len(text)})))
StrnDup(m, n) ==
    LET len == Min({n, StrLen(m, 0)})
    IN  [a \in 0..len |-> IF a = len THEN NUL ELSE m[a]]

\* stracat: a block with all of the strings
StrACat(texts) ==
    LET len[i \in 0..Len(texts)] == IF i = 0 THEN 0 ELSE len[i - 1] + Len(texts[i])
        end[i \in 0..Len(texts)] ==
            IF i = 0 THEN [a \in 0..len[Len(texts)] |-> NUL]
            ELSE MemCpy(end[i - 1], len[i - 1], BlockOf(texts[i]), Len(texts[i]))
    IN  end[Len(texts)]

-----------------------------------------------------------------------------
\* A client calls one of the functions, if the buffer is large enough for it.
Call(x) ==
    /\ buffer' = x.buffer
    /\ ret' = x.ret
    /\ edited' = edited + 1

Void(m) == Call([buffer |-> m, ret |-> 0])

Fits(text) == Len(Text) + Len(text) < Size

Edit ==
    \E text \in Texts :
        \/ Fits(text) /\ \E n \in 0..Short : Void(StrnIns(buffer, text, n))
        \/ Fits(text) /\ \E n, k \in 0..Short : Void(StrChange(buffer, n, text, k))
        \/ Call(StrZap(buffer, text)) \/ Call(StrEndZap(buffer, text))
        \/ text # <<>> /\ \E sub \in Texts :
                \/ Fits(sub) /\ Call(StrSub(buffer, 0, text, sub))
                \/ Call(StrGSub(buffer, text, sub, Size))

CharEdit ==
    \/ \E n \in 0..Longest : Void(StrDel(buffer, n))
    \/ \E c \in Chars : Fits(<<c>>) /\ (Void(StrCIns(buffer, c)) \/ Void(StrSet(buffer, c)))

Turn == Void(StrRev(buffer)) \/ Void(StrAnaXfrm(buffer))

EditSpace ==
    \/ Void(StrLTrim(buffer)) \/ Void(StrRTrim(buffer)) \/ Void(StrTrim(buffer))
    \/ Void(StrMTrim(buffer)) \/ Void(StrTabify(buffer, 2))
    \/ Size > 2 * Len(Text) /\ Void(StrUntabify(buffer, 2))

Copy ==
    \/ \E text \in Texts, n \in 0..Short : Void(StrMaxCpy(buffer, text, n))
    \/ \E n \in 0..Len(Text) : Void(MemDel(buffer, Len(Text) + 1, n))
    \/ \E n \in 2..Longest : Size >= 2 * n /\ Void(MemArrFill(buffer, 2, n))

Next == edited < 1 /\ (Edit \/ CharEdit \/ Turn \/ EditSpace \/ Copy)

Spec == Init /\ [][Next]_vars

-----------------------------------------------------------------------------
\* Properties.

\* The block of the buffer, and nothing beyond it
InBuffer(m) == DOMAIN m = 0..Size - 1

\* The buffer m holds the text, and is what it was behind what was needed.
Holds(m, text) ==
    /\ InBuffer(m)
    /\ StrAt(m, 0) = text
    /\ \A a \in Max({Len(text), Len(Text)}) + 1..Size - 1 : m[a] = buffer[a]

Upto(n, text) == SubSeq(text, 1, Min({n, Len(text)}))
From(n, text) == SubSeq(text, n + 1, Len(text))

\* All of the matches that do not overlap, from the left, replaced.
Replaced(text, pat, sub) ==
    LET block == BlockOf(text)
        rest[n \in 0..Len(text)] ==
            LET at == StrStr(block, n, pat)
            IN  IF at = NoPointer THEN From(n, text)
                ELSE SubSeq(text, n + 1, at) \o sub \o rest[at + Len(pat)]
    IN  rest[0]

\* No call writes beyond the buffer.  (Each function that makes a string longer has the
\* size it needs in its comment or in an argument.)
NothingIsBeyond == InBuffer(buffer)

\* Each function leaves the right string, with its NUL, and does not write further
\* than it has to.
EditsAreRight ==
    edited = 0 =>
    /\ \A n \in 0..Longest + 1 : Holds(StrDel(buffer, n), From(n, Text))
    /\ \A c \in Chars : Fits(<<c>>) => Holds(StrCIns(buffer, c), <<c>> \o Text)
    /\ \A text \in Texts :
        /\ Fits(text) => \A n, k \in 0..Short + 1 :
            /\ Holds(StrnIns(buffer, text, n), Upto(n, text) \o Text)
            /\ Holds(StrChange(buffer, n, text, k), Upto(k, text) \o From(n, Text))
        /\ LET zapped == StrZap(buffer, text)
               ended  == StrEndZap(buffer, text)
           IN  /\ IsPrefix(text, Text) <=> zapped.ret = 1
               /\ Text = (IF zapped.ret = 1 THEN text ELSE <<>>) \o StrAt(zapped.buffer, 0)
               /\ IsSuffix(text, Text) <=> ended.ret = 1
               /\ Text = StrAt(ended.buffer, 0) \o (IF ended.ret = 1 THEN text ELSE <<>>)
        /\ text # <<>> => \A sub \in Texts :
            LET all == StrGSub(buffer, text, sub, Size)
                new == Replaced(Text, text, sub)
            IN  IF Len(new) < Size THEN Holds(all.buffer, new)
                ELSE all = [buffer |-> buffer, ret |-> -1]
    /\ Holds(StrRev(buffer), Reverse(Text))
    /\ LET sorted == StrAt(StrAnaXfrm(buffer), 0)
       IN  ToBag(sorted) = ToBag(Text) /\ IsSorted(sorted, <=)

\* Memory is moved and filled as far as it was asked for, and the copies are strings.
CopiesAreRight ==
    edited = 0 =>
    /\ \A size \in 1..Size - 1 : \A n \in 0..size :
        LET deleted == MemDel(buffer, size, n) IN
        InBuffer(deleted) /\ \A a \in 0..Size - 1 : deleted[a] = buffer[IF a < size - n THEN a + n ELSE a]
    /\ \A text \in Texts :
        /\ \A size \in 0..Size - Len(text) :
            LET inserted == MemIns(buffer, size, text) IN
            InBuffer(inserted) /\ \A a \in 0..Size - 1 :
                inserted[a] = IF a < Len(text) THEN text[a + 1]
                              ELSE IF a < Len(text) + size THEN buffer[a - Len(text)]
                              ELSE buffer[a]
        /\ \A n \in 0..Short + 1 : StrAt(StrMaxCpy(buffer, text, n), 0) = Upto(n, text)
        /\ StrACat(<<Text, text>>) = BlockOf(Text \o text)
    /\ \A n \in 0..Longest + 1 : StrnDup(buffer, n) = BlockOf(Upto(n, Text))
    /\ \A elsize \in 1..Short : \A nelem \in 2..Size \div elsize :
        LET filled == MemArrFill(buffer, elsize, nelem) IN
        InBuffer(filled) /\ \A a \in 0..Size - 1 :
            filled[a] = buffer[IF a < elsize * nelem THEN a % elsize ELSE a]

\* Where the characters that are not white space are shown, with tab stops
Columns(text, tabsize) ==
    LET col[k \in 0..Len(text)] ==
            IF k = 0 THEN 0
            ELSE IF text[k] = HTab THEN NextTab(col[k - 1], tabsize) ELSE col[k - 1] + 1
        others == SelectSeq([k \in DOMAIN text |-> k], LAMBDA k : ~IsSpace(text[k]))
    IN  [i \in DOMAIN others |-> [col |-> col[others[i] - 1], char |-> text[others[i]]]]

\* A text that does not begin with white space, with one blank for each run of it
Single(text) ==
    LET kept == SelectSeq([k \in DOMAIN text |-> k],
                    LAMBDA k : ~(IsSpace(text[k]) /\ IsSpace(text[k - 1])))
    IN  [i \in DOMAIN kept |-> IF IsSpace(text[kept[i]]) THEN Space ELSE text[kept[i]]]

\* Trimming takes white space from the ends only; strmtrim makes single blanks of what is
\* between and leaves the ends as they are; and tabs that take the place of blanks, or
\* blanks that of tabs, leave every other character in its column.
SpaceIsRight ==
    LET trimmed == StrAt(StrTrim(buffer), 0)
        inner   == StrAt(StrMTrim(buffer), 0)
        Width(text, tabsize) == Columns(Append(text, 97), tabsize)
    IN  edited = 0 =>
        /\ \E n, k \in 0..Len(Text) :
            /\ trimmed = SubSeq(Text, n + 1, Len(Text) - k)
            /\ \A c \in Range(Upto(n, Text)) \cup Range(From(Len(Text) - k, Text)) : IsSpace(c)
            /\ inner = Upto(n, Text) \o Single(trimmed) \o From(Len(Text) - k, Text)
        /\ trimmed # <<>> => ~IsSpace(Head(trimmed)) /\ ~IsSpace(Last(trimmed))
        /\ \A tabsize \in 1..3 :
            LET tabs   == StrAt(StrTabify(buffer, tabsize), 0)
                blanks == StrAt(StrUntabify(buffer, tabsize), 0)
            IN  /\ Len(tabs) <= Len(Text) /\ Width(tabs, tabsize) = Width(Text, tabsize)
                /\ Size > tabsize * Len(Text) =>
                    HTab \notin Range(blanks) /\ Width(blanks, tabsize) = Width(Text, tabsize)

\* What is found is there, and the first or the last of its kind.  The exception is what
\* strrstr does, which is to find "the last occurence" (man/strrstr.3): it does not find
\* one at the start of the string, the only or the last one there may be (strrstr.c:52).
SearchesAreRight ==
    edited = 0 => \A text \in Texts :
        LET at     == {n \in 0..Len(Text) - Len(text) : Upto(Len(text), From(n, Text)) = text}
            last   == StrRStr(buffer, text)
            other  == BlockOf(text)
            common == StrDiff(buffer, other)
        IN  /\ MemMem(buffer, Len(Text), text) = Foremost(at)
            /\ text # <<>> => MemRMem(buffer, Len(Text), text) = Hindmost(at)
            /\ last = Hindmost(at \ {0})
            /\ Upto(common, text) = Upto(common, Text)
            /\ Upto(common + 1, text) = Upto(common + 1, Text) => text = Text
            /\ IsSorted(Text, <=) =>
                \A c \in Chars : IsSorted(MemISort(Text, c), <=)
            /\ FlattenSeq(StrSplit(buffer, Range(text)))
                 = SelectSeq(Text, LAMBDA c : c \notin Range(text))
            /\ \A n \in 0..Longest + 1 :
                /\ StrNLen(buffer, n) = Len(Upto(n, Text))
                /\ From(StrRight(buffer, n), Text)
                     = IF n > Len(Text) THEN <<>> ELSE Reverse(Upto(n, Reverse(Text)))
                /\ \A c \in Chars : MemRChr(buffer, c, n) = MemRMem(buffer, n, <<c>>)
                /\ \A t, s \in 0..Short : \A k \in 1..Short :
                    n > 0 => (MemOverlap(t, n, s, k) <=> t..t + n - 1 \cap s..s + k - 1 # {})
===============================================================================
