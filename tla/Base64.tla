-------------------------------- MODULE Base64 ---------------------------------
(***************************************************************************)
(* Base64 (base64/base64.c): a client encodes some octets and decodes what *)
(* it gets.  The characters of base64 are the numbers that they stand for. *)
(***************************************************************************)
EXTENDS Integers, SequencesExt

CONSTANTS
    Octets,     \* the octets that can be encoded, numbers from 0 to 255
    MaxOctets,  \* bound on their number
    Equals,     \* the character =
    Other       \* a character that is not of base64, such as a newline

VARIABLES
    octets,
    text,       \* the encoded octets
    decoded     \* the decoded text

vars == <<octets, text, decoded>>

Init ==
    /\ octets \in BoundedSeq(Octets, MaxOctets)
    /\ text = <<>>
    /\ decoded = <<>>

Base64Length(n) == (4 * (n + 3)) \div 3 + 1

\* The bits of w from bit low on, cut to a number below limit
Bits(w, low, limit) == (w \div 2^low) % limit

Sixtet(w, low) == Bits(w, low, 64)

\* The one or two octets that are left over.
EncodedRest(rest) ==
    IF rest = <<>> THEN <<>>
    ELSE IF Len(rest) = 1
    THEN LET w == rest[1] IN <<Sixtet(w, 2), (w * 2^4) % 64, Equals, Equals>>
    ELSE LET w == rest[1] * 2^8 + rest[2]
         IN  <<Sixtet(w, 10), Sixtet(w, 4), (w * 2^2) % 64, Equals>>

Encoded(from) ==
    LET groups == Len(from) \div 3
        Group(k) ==
            LET w == from[3 * k - 2] * 2^16 + from[3 * k - 1] * 2^8 + from[3 * k]
            IN  <<Sixtet(w, 18), Sixtet(w, 12), Sixtet(w, 6), Sixtet(w, 0)>>
    IN  FlattenSeq([k \in 1..groups |-> Group(k)])
            \o EncodedRest(SubSeq(from, 3 * groups + 1, Len(from)))

Base64Encode ==
    /\ text = <<>> /\ octets # <<>>
    /\ text' = Encoded(octets)
    /\ UNCHANGED <<octets, decoded>>

\* A mailer breaks the line.
Break ==
    /\ text # <<>> /\ decoded = <<>> /\ Other \notin Range(text)
    /\ \E n \in 1..Len(text) : text' = InsertAt(text, n, Other)
    /\ UNCHANGED <<octets, decoded>>

\* The loop of base64_decode up to the first =.  Once an octet is out, bitbuf loses
\* eight bits, but those that were not used yet, and not the ones that were.
Decoded(from) ==
    LET stop == SelectInSeq(from, LAMBDA c : c = Equals)
        len  == IF stop = 0 THEN Len(from) ELSE stop - 1
        done[k \in 0..len] ==
            IF k = 0 THEN [bitbuf |-> 0, nbits |-> 0, out |-> <<>>]
            ELSE LET x == done[k - 1]
                     bitbuf == x.bitbuf * 2^6 + from[k]
                     nbits  == x.nbits + 6
                 IN  IF from[k] \notin 0..63 THEN x
                     ELSE IF nbits < 8 THEN [x EXCEPT !.bitbuf = bitbuf, !.nbits = nbits]
                     ELSE [bitbuf |-> bitbuf \div 2^8,
                           nbits  |-> nbits - 8,
                           out    |-> Append(x.out, Bits(bitbuf, nbits - 8, 256))]
    IN  done[len].out

Base64Decode ==
    /\ text # <<>> /\ decoded = <<>>
    /\ decoded' = Decoded(text)
    /\ UNCHANGED <<octets, text>>

Next == Base64Encode \/ Break \/ Base64Decode

Spec == Init /\ [][Next]_vars

-----------------------------------------------------------------------------
\* Properties.

\* All of the bits of some numbers, from the highest on
AllBits(numbers, width) ==
    FlattenSeq([k \in DOMAIN numbers |->
                    [i \in 1..width |-> Bits(numbers[k], width - i, 2)]])

\* The text has the bits of the octets in their order and nothing else but zeros,
\* comes in groups of four, and is not longer than base64_length says.
TextHasTheBits ==
    LET sixtets == SelectSeq(text, LAMBDA c : c \in 0..63)
        padding == SelectSeq(text, LAMBDA c : c = Equals)
        bits    == AllBits(sixtets, 6)
    IN  text # <<>> =>
        /\ IsPrefix(AllBits(octets, 8), bits)
        /\ Len(bits) - 8 * Len(octets) = 2 * Len(padding)
        /\ \A i \in 8 * Len(octets) + 1..Len(bits) : bits[i] = 0
        /\ (Len(sixtets) + Len(padding)) % 4 = 0
        /\ Len(sixtets) + Len(padding) < Base64Length(Len(octets))

\* base64_decode gives as many octets as were encoded, wherever the text was broken, but
\* only the first of them is right.
DecodedIsAsLong == decoded # <<>> => Len(decoded) = Len(octets) /\ decoded[1] = octets[1]

\* What base64_decode says of itself (base64/base64.c:101): it converts base64 to octets,
\* to those that were encoded.  It is not so: bitbuf keeps the wrong bits (line 133).
DecodedIsWhatWasEncoded == decoded \in {<<>>, octets}
===============================================================================
