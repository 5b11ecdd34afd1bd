-------------------------------- MODULE Escapes --------------------------------
(***************************************************************************)
(* Blocks of memory as C string literals, and back (strutil/strcstr.c and  *)
(* strutil/struncstr.c): a client escapes a block and decodes it again.    *)
(***************************************************************************)
EXTENDS Integers, FiniteSets, SequencesExt

CONSTANTS
    Octets,     \* the characters that can be in a block, codes from 0 to 255
    MaxBlock,   \* bound on the size of the block
    Sizes       \* how large the buffer for the literal can be

VARIABLES
    block,
    max,        \* the size of the buffer
    literal,    \* what is in it, with its NUL when it has one
    decoded     \* what struncstr has made of it

vars == <<block, max, literal, decoded>>

Init ==
    /\ block \in BoundedSeq(Octets, MaxBlock)
    /\ max \in Sizes
    /\ literal = <<>>
    /\ decoded = <<>>

NUL == 0
Backslash == 92

IsDigit(c)  == c \in 48..57
IsXDigit(c) == IsDigit(c) \/ c \in 65..70 \cup 97..102
IsPrint(c)  == c \in 32..126

\* ' " ? \ a b f n r t v  and what they stand for
print   == <<39, 34, 63, 92, 97, 98, 102, 110, 114, 116, 118>>
unprint == <<39, 34, 63, 92, 7, 8, 12, 10, 13, 9, 11>>

HexDigit(d) == IF d < 10 THEN 48 + d ELSE 87 + d

HexToInt(c) == IF IsDigit(c) THEN c - 48 ELSE IF c >= 97 THEN c - 87 ELSE c - 55

-----------------------------------------------------------------------------
\* \x and three digits: characters have a sign, and are extended with it.
HexEscape(c) ==
    <<Backslash, 120, HexDigit(IF c > 127 THEN 15 ELSE 0),
      HexDigit(c \div 16), HexDigit(c % 16)>>

\* A character that needs neither an escape nor, behind a hexadecimal escape, to be
\* told from its digits
Plain(c, prevhex) ==
    IsPrint(c) /\ c \notin Range(unprint) /\ ~(prevhex /\ IsXDigit(c))

\* The character c before the character next.
Escape(c, next, prevhex) ==
    IF c = NUL THEN <<Backslash, 48>> \o (IF IsDigit(next) THEN <<48, 48>> ELSE <<>>)
    ELSE IF c \in Range(unprint)
         THEN <<Backslash, print[CHOOSE i \in DOMAIN unprint : unprint[i] = c]>>
    ELSE IF Plain(c, prevhex) THEN <<c>> ELSE HexEscape(c)

\* What the loop writes when there is room for all; beyond is the character behind
\* the block, which is looked at when a NUL ends the block.
Escapes(data, beyond) ==
    LET all == Append(data, beyond)
        done[k \in 0..Len(data)] ==
            IF k = 0 THEN [out |-> <<>>, prevhex |-> FALSE]
            ELSE LET x == done[k - 1]
                     e == Escape(all[k], all[k + 1], x.prevhex)
                 IN  [out |-> x.out \o e, prevhex |-> e = HexEscape(all[k])]
    IN  done[Len(data)].out

\* When the literal would fill the buffer it is cut, and there is no NUL.
StrCstr ==
    /\ literal = <<>>
    /\ \E beyond \in Octets :
        LET out == Escapes(block, beyond) IN
        literal' = IF Len(out) < max - 1 THEN Append(out, NUL) ELSE SubSeq(out, 1, max - 1)
    /\ UNCHANGED <<block, max, decoded>>

-----------------------------------------------------------------------------
\* The first position in text from p on where the character is not one of Digits;
\* at most limit of them.
EndOfDigits(text, Digits, p, limit) ==
    CHOOSE q \in p..p + limit :
        /\ \A i \in p..q - 1 : text[i] \in Digits
        /\ q = p + limit \/ text[q] \notin Digits

\* The value of digits, cut to a character
Value(digits, base) ==
    LET v[k \in 0..Len(digits)] ==
            IF k = 0 THEN 0 ELSE (v[k - 1] * base + HexToInt(digits[k])) % 256
    IN  v[Len(digits)]

\* What struncstr makes of the text, which ends with NUL, from p on.
Unescaped(text) ==
    LET from[p \in DOMAIN text] ==
        IF text[p] = NUL THEN <<>>
        ELSE IF text[p] # Backslash THEN <<text[p]>> \o from[p + 1]
        ELSE IF text[p + 1] = 120
        THEN LET q == EndOfDigits(text, {c \in Range(text) : IsXDigit(c)}, p + 2, Len(text))
             IN  <<Value(SubSeq(text, p + 2, q - 1), 16)>> \o from[q]
        ELSE IF IsDigit(text[p + 1])
        THEN LET q == EndOfDigits(text, {c \in Range(text) : IsDigit(c)}, p + 1, 3)
             IN  <<Value(SubSeq(text, p + 1, q - 1), 8)>> \o from[q]
        ELSE IF text[p + 1] \in Range(print)
        THEN <<unprint[CHOOSE i \in DOMAIN print : print[i] = text[p + 1]]>> \o from[p + 2]
        ELSE <<Backslash, text[p + 1]>> \o from[p + 2]
    IN  from[1]

\* A client must not decode a literal that was cut.
StrUncstr ==
    /\ literal # <<>> /\ Last(literal) = NUL
    /\ decoded' = Unescaped(literal)
    /\ UNCHANGED <<block, max, literal>>

Next == StrCstr \/ StrUncstr

Spec == Init /\ [][Next]_vars

-----------------------------------------------------------------------------
\* Properties.

\* A literal that has its NUL is printable, and stands for the whole block: also when
\* what follows an escape looks like a part of it, whatever is behind the block.
LiteralsStandForBlocks ==
    literal # <<>> /\ Last(literal) = NUL =>
        /\ \A c \in Range(Front(literal)) : IsPrint(c)
        /\ Unescaped(literal) = block
===============================================================================
