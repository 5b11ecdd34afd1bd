-------------------------------- MODULE CString --------------------------------
(***************************************************************************)
(* What the string functions of the C library do to a block of memory: a   *)
(* function from the addresses 0, 1, ... of the block to character codes.  *)
(* Addresses take the part of pointers, and NoPointer that of NULL.        *)
(***************************************************************************)
EXTENDS Integers, FiniteSets, FiniteSetsExt, SequencesExt

NUL       == 0
HTab      == 9
Space     == 32
NoPointer == -1

IsSpace(c) == c \in {Space, 9, 10, 11, 12, 13}

StrLen(m, p) == CHOOSE n \in 0..Cardinality(DOMAIN m) :
                    m[p + n] = NUL /\ \A k \in 0..n - 1 : m[p + k] # NUL

\* The string at p, without its NUL, and the string in a block of its own
StrAt(m, p)   == [k \in 1..StrLen(m, p) |-> m[p + k - 1]]
BlockOf(text) == [a \in 0..Len(text) |-> IF a = Len(text) THEN NUL ELSE text[a + 1]]

\* memmove within a block, memcpy of the first n characters of another block, memset.
\* What is written beyond the block becomes a part of the function, so that its domain
\* tells where it was written.
MemMove(m, to, from, n) ==
    [a \in DOMAIN m \cup to..to + n - 1 |->
        IF a \in to..to + n - 1 THEN m[a - to + from] ELSE m[a]]
MemCpy(m, to, other, n) ==
    [a \in DOMAIN m \cup to..to + n - 1 |->
        IF a \in to..to + n - 1 THEN other[a - to] ELSE m[a]]
MemSet(m, to, c, n) ==
    [a \in DOMAIN m \cup to..to + n - 1 |-> IF a \in to..to + n - 1 THEN c ELSE m[a]]

\* strcpy of a text
StrCpy(m, to, text) == MemCpy(m, to, BlockOf(text), Len(text) + 1)

\* Whether the characters at p are those of text: memcmp, strncmp
At(m, p, text) == \A k \in DOMAIN text : p + k - 1 \in DOMAIN m /\ m[p + k - 1] = text[k]

\* The first of some addresses
Foremost(addresses) == IF addresses = {} THEN NoPointer ELSE Min(addresses)
Hindmost(addresses) == IF addresses = {} THEN NoPointer ELSE Max(addresses)

StrStr(m, p, text) == Foremost({a \in p..p + StrLen(m, p) : At(m, a, text)})

\* strchr and strrchr, which find the NUL, too
StrChr(m, p, c)  == Foremost({a \in p..p + StrLen(m, p) : m[a] = c})
StrRChr(m, p, c) == Hindmost({a \in p..p + StrLen(m, p) : m[a] = c})

StrSpn(m, p, set) ==
    CHOOSE n \in 0..StrLen(m, p) :
        /\ m[p + n] \notin set
        /\ \A k \in 0..n - 1 : m[p + k] \in set
===============================================================================
