--------------------------- MODULE GapBuffer_proofs ---------------------------
(***************************************************************************)
(* Proofs about module GapBuffer: whatever strings are put into the text,  *)
(* and in whatever order, the block and its gap store exactly the text     *)
(* that module SbufStore promises.                                         *)
(***************************************************************************)
EXTENDS GapBuffer, SbufText_proofs

-----------------------------------------------------------------------------
\* What is between the quantifiers of IsBuffer, cell by cell.
LEMMA BufferCells ==
    ASSUME NEW s, IsBuffer(s)
    PROVE  /\ s.alloc \in Nat /\ s.len \in Nat /\ s.gappos \in Nat
           /\ s.gappos <= s.len /\ s.len <= s.alloc
           /\ Gap(s) \in Nat
           /\ Len(TextOf(s)) = s.len
           /\ \A i \in 1..s.len :
                /\ TextOf(s)[i] \in Chars
                /\ TextOf(s)[i] = IF i <= s.gappos THEN s.block[i - 1]
                                  ELSE s.block[i - 1 + Gap(s)]
  <1>1. /\ s.alloc \in Nat /\ s.len \in Nat /\ s.gappos \in Nat
        /\ s.gappos <= s.len /\ s.len <= s.alloc
        /\ TextOf(s) \in Seq(Chars)
    BY DEF IsBuffer
  <1>2. Gap(s) \in Nat
    BY <1>1 DEF Gap
  <1>3. DOMAIN TextOf(s) = 1..s.len
    BY DEF TextOf
  <1>4. Len(TextOf(s)) = s.len
    BY <1>1, <1>3, LenProperties
  <1>5. \A i \in 1..s.len : TextOf(s)[i] \in Chars
    BY <1>1, <1>4, ElementOfSeq
  <1> QED
    BY <1>1, <1>2, <1>4, <1>5 DEF TextOf

\* The text of a block is a string when each of its cells outside the gap is.
LEMMA TextOfCells ==
    ASSUME NEW s, s.len \in Nat,
           \A i \in 1..s.len : TextOf(s)[i] \in Chars
    PROVE  TextOf(s) \in Seq(Chars)
  <1>1. TextOf(s) \in [1..s.len -> Chars]
    BY DEF TextOf
  <1> QED
    BY <1>1, SeqDef

\* sbuf_movegap without growing: the memmove keeps the text.
LEMMA ShiftKeepsText ==
    ASSUME NEW s, IsBuffer(s), NEW pos \in 0..s.len
    PROVE  LET t == Shift(s, pos)
           IN  /\ IsBuffer(t)
               /\ TextOf(t) = TextOf(s)
               /\ t.gappos = pos /\ t.len = s.len /\ t.alloc = s.alloc
               /\ t.mapped = s.mapped
  <1> DEFINE t == Shift(s, pos)
  <1>1. /\ s.alloc \in Nat /\ s.len \in Nat /\ s.gappos \in Nat
        /\ s.gappos <= s.len /\ s.len <= s.alloc
        /\ s.block \in [0..s.alloc - 1 -> Cell]
    BY DEF IsBuffer
  <1>2. /\ t.gappos = pos /\ t.len = s.len /\ t.alloc = s.alloc
        /\ t.mapped = s.mapped
        /\ t.block = [i \in DOMAIN s.block |->
                  IF pos + Gap(s) <= i /\ i < s.gappos + Gap(s)
                  THEN s.block[i - Gap(s)]
                  ELSE IF s.gappos <= i /\ i < pos THEN s.block[i + Gap(s)]
                  ELSE s.block[i]]
    BY DEF Shift, IsBuffer
  <1>3. Gap(t) = Gap(s)
    BY <1>2 DEF Gap
  <1> DEFINE g == Gap(s)
             moved(i) == IF pos + g <= i /\ i < s.gappos + g THEN s.block[i - g]
                         ELSE IF s.gappos <= i /\ i < pos THEN s.block[i + g]
                         ELSE s.block[i]
  <1>g. g \in Nat /\ g = s.alloc - s.len
    BY <1>1 DEF Gap
  <1>b. t.block = [i \in 0..s.alloc - 1 |-> moved(i)]
    BY <1>1, <1>2
  <1> HIDE DEF t, g
  <1>s. \A j \in 0..s.alloc - 1 : s.block[j] \in Cell
    BY <1>1
  <1>m. \A i \in 0..s.alloc - 1 : moved(i) \in Cell
    <2> TAKE i \in 0..s.alloc - 1
    <2>1. CASE pos + g <= i /\ i < s.gappos + g
      <3>1. i - g \in 0..s.alloc - 1
        BY <1>1, <1>g, <2>1
      <3> QED
        BY <2>1, <3>1, <1>s
    <2>2. CASE ~(pos + g <= i /\ i < s.gappos + g) /\ s.gappos <= i /\ i < pos
      <3>1. i + g \in 0..s.alloc - 1
        BY <1>1, <1>g, <2>2
      <3> QED
        BY <2>2, <3>1, <1>s
    <2>3. CASE ~(pos + g <= i /\ i < s.gappos + g) /\ ~(s.gappos <= i /\ i < pos)
      BY <2>3, <1>s
    <2> QED
      BY <2>1, <2>2, <2>3
  <1> HIDE DEF moved
  <1>4. t.block \in [0..s.alloc - 1 -> Cell]
    BY <1>b, <1>m
  <1>c. \A i \in 0..s.alloc - 1 : t.block[i] = moved(i)
    BY <1>b
  <1>5. \A i \in 1..s.len :
            (IF i <= pos THEN t.block[i - 1] ELSE t.block[i - 1 + g])
          = (IF i <= s.gappos THEN s.block[i - 1] ELSE s.block[i - 1 + g])
    <2> TAKE i \in 1..s.len
    <2>1. CASE i <= pos
      <3>1. i - 1 \in 0..s.alloc - 1
        BY <1>1
      <3>2. t.block[i - 1] = moved(i - 1)
        BY <3>1, <1>c
      <3>3. CASE i <= s.gappos
        BY <1>1, <1>g, <2>1, <3>2, <3>3 DEF moved
      <3>4. CASE i > s.gappos
        BY <1>1, <1>g, <2>1, <3>2, <3>4 DEF moved
      <3> QED
        BY <1>1, <3>3, <3>4
    <2>2. CASE i > pos
      <3>1. i - 1 + g \in 0..s.alloc - 1
        BY <1>1, <1>g
      <3>2. t.block[i - 1 + g] = moved(i - 1 + g)
        BY <3>1, <1>c
      <3>3. CASE i <= s.gappos
        <4>1. pos + g <= i - 1 + g /\ i - 1 + g < s.gappos + g
          BY <1>1, <1>g, <2>2, <3>3
        <4> DEFINE k == i - 1 + g
        <4>3. k - g = i - 1
          BY <1>g
        <4>4. pos + g <= k /\ k < s.gappos + g
          BY <4>1
        <4> HIDE DEF k
        <4>2. moved(k) = s.block[k - g]
          BY <4>4 DEF moved
        <4> QED
          BY <1>1, <2>2, <3>2, <3>3, <4>2, <4>3 DEF k
      <3>4. CASE i > s.gappos
        BY <1>1, <1>g, <2>2, <3>2, <3>4 DEF moved
      <3> QED
        BY <1>1, <3>3, <3>4
    <2> QED
      BY <1>1, <2>1, <2>2
  <1>6. TextOf(t) = TextOf(s)
    BY <1>2, <1>3, <1>5 DEF TextOf, g
  <1>7. t \in [block  : [0..t.alloc - 1 -> Cell],
               gappos : 0..t.len, alloc : Nat, len : 0..t.alloc,
               mapped : BOOLEAN]
    BY <1>1, <1>2, <1>4 DEF t, Shift, IsBuffer
  <1> QED
    BY <1>2, <1>6, <1>7 DEF t, IsBuffer

\* The realloc of sbuf_movegap keeps the text when the gap is at the end.
LEMMA GrowKeepsText ==
    ASSUME NEW s, IsBuffer(s), s.gappos = s.len, NEW n \in Nat
    PROVE  LET t == Grow(s, n)
           IN  /\ IsBuffer(t)
               /\ TextOf(t) = TextOf(s)
               /\ t.gappos = s.gappos /\ t.len = s.len
               /\ t.alloc = s.alloc + n /\ t.mapped
  <1> DEFINE t == Grow(s, n)
  <1>1. s.alloc \in Nat /\ s.len \in Nat /\ s.len <= s.alloc /\ s.gappos \in Nat
    BY DEF IsBuffer
  <1>3. t = [block |-> t.block, gappos |-> s.gappos, alloc |-> s.alloc + n,
             len |-> s.len, mapped |-> TRUE]
    BY DEF Grow
  <1>4. t.block = [i \in 0..s.alloc + n - 1 |->
                      IF i < s.alloc THEN s.block[i] ELSE Junk]
    BY DEF Grow
  <1>5. \A j \in 0..s.alloc - 1 : s.block[j] \in Cell
    BY DEF IsBuffer
  <1> HIDE DEF t
  <1>6. t.gappos = s.gappos /\ t.len = s.len /\ t.alloc = s.alloc + n /\ t.mapped
    BY <1>3
  <1>7. \A i \in 0..s.alloc + n - 1 :
            (IF i < s.alloc THEN s.block[i] ELSE Junk) \in Cell
    <2> TAKE i \in 0..s.alloc + n - 1
    <2>1. i < s.alloc => i \in 0..s.alloc - 1
      BY <1>1
    <2> QED
      BY <2>1, <1>5 DEF Cell
  <1>8. t.block \in [0..s.alloc + n - 1 -> Cell]
    BY <1>4, <1>7
  <1>9. /\ s.alloc + n \in Nat /\ s.len \in 0..s.alloc + n
        /\ s.gappos \in 0..s.len
    BY <1>1
  <1>10. t \in [block  : [0..t.alloc - 1 -> Cell],
                gappos : 0..t.len, alloc : Nat, len : 0..t.alloc,
                mapped : BOOLEAN]
    <2>1. t.block \in [0..t.alloc - 1 -> Cell]
      <3>1. t.alloc = s.alloc + n
        BY <1>6
      <3>2. 0..t.alloc - 1 = 0..s.alloc + n - 1
        BY <1>1, <3>1
      <3> QED
        BY <1>8, <3>2
    <2>2. t.gappos \in 0..t.len /\ t.alloc \in Nat /\ t.len \in 0..t.alloc
      BY <1>1, <1>6, <1>9
    <2>3. TRUE \in BOOLEAN
      OBVIOUS
    <2> QED
      BY <1>3, <1>6, <2>1, <2>2, <2>3, Zenon
  <1>11. TextOf(t) = TextOf(s)
    BY <1>1, <1>4, <1>6 DEF TextOf, Gap
  <1> QED
    BY <1>6, <1>10, <1>11 DEF t, IsBuffer

\* Moving the gap to the end before the block grows keeps the text.
LEMMA GapAtEndKeepsText ==
    ASSUME NEW s, IsBuffer(s)
    PROVE  LET t == GapAtEnd(s)
           IN  /\ IsBuffer(t) /\ TextOf(t) = TextOf(s)
               /\ t.gappos = t.len /\ t.len = s.len
  <1>1. s.alloc \in Nat /\ s.len \in 0..s.alloc /\ s.gappos \in 0..s.len
    BY DEF IsBuffer
  <1>2. CASE s.mapped
    <2>1. GapAtEnd(s) = Shift(s, s.len) /\ s.len \in 0..s.len
      BY <1>1, <1>2 DEF GapAtEnd
    <2> QED
      BY <2>1, ShiftKeepsText
  <1>3. CASE ~s.mapped
    <2>1. GapAtEnd(s) = s
      BY <1>3 DEF GapAtEnd
    <2>2. s.alloc = 0
      BY <1>3 DEF IsBuffer
    <2> QED
      BY <1>1, <2>1, <2>2
  <1> QED
    BY <1>2, <1>3

\* sbuf_movegap: the gap is before character pos and at least n cells long, and
\* the text is what it was.
LEMMA MoveGapKeepsText ==
    ASSUME NEW s, IsBuffer(s), NEW pos \in 0..s.len, NEW n \in Nat
    PROVE  LET t == MoveGap(s, pos, n)
           IN  /\ IsBuffer(t)
               /\ TextOf(t) = TextOf(s)
               /\ t.gappos = pos /\ t.len = s.len /\ t.mapped
               /\ Gap(t) >= n
  <1>1. s.alloc \in Nat /\ s.len \in Nat /\ s.len <= s.alloc /\ s.gappos \in 0..s.len
    BY DEF IsBuffer
  <1>2. CASE ~MustGrow(s, n)
    <2>1. MoveGap(s, pos, n) = Shift(s, pos)
      BY <1>2 DEF MoveGap
    <2>2. s.mapped /\ Gap(s) >= n
      BY <1>1, <1>2 DEF MustGrow, Gap
    <2>3. Gap(Shift(s, pos)) = Gap(s)
      BY ShiftKeepsText DEF Gap
    <2> QED
      BY <2>1, <2>2, <2>3, ShiftKeepsText
  <1>3. CASE MustGrow(s, n)
    <2> DEFINE e == GapAtEnd(s)
               g == Grow(e, n)
    <2>1. /\ IsBuffer(e) /\ TextOf(e) = TextOf(s)
          /\ e.gappos = e.len /\ e.len = s.len
      BY GapAtEndKeepsText
    <2> HIDE DEF e
    <2>2. /\ IsBuffer(g) /\ TextOf(g) = TextOf(s)
          /\ g.len = s.len /\ g.alloc = e.alloc + n /\ g.mapped
      BY <2>1, GrowKeepsText
    <2> HIDE DEF g
    <2>3. MoveGap(s, pos, n) = Shift(g, pos)
      BY <1>3 DEF MoveGap, g, e
    <2>4. /\ IsBuffer(Shift(g, pos)) /\ TextOf(Shift(g, pos)) = TextOf(s)
          /\ Shift(g, pos).gappos = pos /\ Shift(g, pos).len = g.len
          /\ Shift(g, pos).alloc = g.alloc /\ Shift(g, pos).mapped
      BY <2>2, ShiftKeepsText
    <2>5. e.alloc \in Nat /\ e.len \in Nat /\ e.len <= e.alloc
      BY <2>1 DEF IsBuffer
    <2>6. Gap(Shift(g, pos)) = e.alloc + n - e.len
      <3>1. Shift(g, pos).alloc = e.alloc + n /\ Shift(g, pos).len = e.len
        BY <2>1, <2>2, <2>4
      <3> QED
        BY <2>5, <3>1 DEF Gap
    <2>7. e.alloc + n - e.len >= n
      BY <2>5
    <2> QED
      BY <2>2, <2>3, <2>4, <2>6, <2>7
  <1> QED
    BY <1>2, <1>3

-----------------------------------------------------------------------------
\* Character by character, u is what replacing a range of a string gives.
SplicedText(u, t, pos, len, new) == u \in Seq(Chars) /\ Spliced(u, t, pos, len, new)

\* Splice does so.
LEMMA SpliceCells ==
    ASSUME NEW t \in Seq(Chars), NEW new \in Seq(Chars),
           NEW pos \in Nat, NEW len \in Nat, pos + len <= Len(t),
           NEW u, u = Splice(t, pos, len, new)
    PROVE  SplicedText(u, t, pos, len, new)
  <1>1. u \in Seq(Chars) /\ Spliced(u, t, pos, len, new)
    BY SpliceIsSpliced
  <1> QED
    BY <1>1 DEF SplicedText

\* replace_mark_part, with the gap where the change is: the text is spliced.
LEMMA FillSplices ==
    ASSUME NEW s, IsBuffer(s), s.mapped,
           NEW len \in Nat, s.gappos + len <= s.len,
           NEW new \in Seq(Chars), Len(new) <= Gap(s)
    PROVE  LET t == Fill(s, len, new)
           IN  /\ IsBuffer(t)
               /\ TextOf(t) = Splice(TextOf(s), s.gappos, len, new)
               /\ t.mapped
  <1> DEFINE t == Fill(s, len, new)
             k == Len(new)
             u == Splice(TextOf(s), s.gappos, len, new)
             at == s.gappos
  <1>1. /\ s.alloc \in Nat /\ s.len \in Nat /\ at \in Nat /\ k \in Nat
        /\ at <= s.len /\ s.len <= s.alloc
        /\ at + len <= s.len /\ k <= s.alloc - s.len
    BY LenProperties DEF IsBuffer, Gap
  <1>2. /\ t.block = [i \in DOMAIN s.block |->
                         IF s.gappos <= i /\ i < s.gappos + Len(new)
                         THEN new[i - s.gappos + 1] ELSE s.block[i]]
        /\ t.gappos = s.gappos + Len(new)
        /\ t.len = s.len - len + Len(new)
        /\ t.alloc = s.alloc
        /\ t.mapped = s.mapped
    BY DEF Fill, IsBuffer
  <1>3. DOMAIN s.block = 0..s.alloc - 1
    BY DEF IsBuffer
  <1>4. \A i \in 0..s.alloc - 1 : s.block[i] \in Cell
    BY DEF IsBuffer
  <1>5. t = [block |-> t.block, gappos |-> t.gappos, alloc |-> t.alloc,
             len |-> t.len, mapped |-> t.mapped]
    BY DEF Fill
  <1> HIDE DEF t, k, at
  <1>6. \A i \in 0..s.alloc - 1 :
            t.block[i] = IF at <= i /\ i < at + k THEN new[i - at + 1]
                         ELSE s.block[i]
    BY <1>2, <1>3 DEF at, k
  <1>7. /\ t.gappos = at + k /\ t.alloc = s.alloc
        /\ t.len = s.len - len + k
    BY <1>2 DEF at, k
  <1>8. \A i \in 1..k : new[i] \in Chars
    BY ElementOfSeq DEF k
  <1>9. t.block \in [0..s.alloc - 1 -> Cell]
    <2>1. ASSUME NEW i \in 0..s.alloc - 1
          PROVE  t.block[i] \in Cell
      <3>1. CASE at <= i /\ i < at + k
        <4>1. i - at + 1 \in 1..k
          BY <1>1, <3>1
        <4> QED
          BY <1>6, <1>8, <3>1, <4>1 DEF Cell
      <3>2. CASE ~(at <= i /\ i < at + k)
        BY <1>4, <1>6, <3>2
      <3> QED
        BY <3>1, <3>2
    <2>2. t.block = [i \in 0..s.alloc - 1 |-> t.block[i]]
      BY <1>2, <1>3
    <2> QED
      BY <2>1, <2>2
  <1>10. /\ t.alloc \in Nat /\ t.len \in 0..t.alloc /\ t.gappos \in 0..t.len
    BY <1>1, <1>7
  <1>11. /\ TextOf(s) \in Seq(Chars) /\ Len(TextOf(s)) = s.len
         /\ \A i \in 1..s.len :
              TextOf(s)[i] = IF i <= at THEN s.block[i - 1]
                             ELSE s.block[i - 1 + (s.alloc - s.len)]
    BY BufferCells DEF IsBuffer, Gap, at
  <1>12. /\ u \in Seq(Chars) /\ Len(u) = t.len
         /\ \A i \in 1..t.len :
              u[i] = IF i <= at THEN TextOf(s)[i]
                     ELSE IF i <= at + k THEN new[i - at]
                     ELSE TextOf(s)[i - k + len]
    <2>1. at \in Nat /\ at + len <= Len(TextOf(s))
      BY <1>1, <1>11
    <2>2. /\ u \in Seq(Chars) /\ Len(u) = Len(TextOf(s)) - len + Len(new)
          /\ \A i \in 1..Len(u) :
              u[i] = IF i <= at THEN TextOf(s)[i]
                     ELSE IF i <= at + Len(new) THEN new[i - at]
                     ELSE TextOf(s)[i - Len(new) + len]
      <3> DEFINE old == TextOf(s)
      <3>1. u = Splice(old, at, len, new)
        BY DEF at
      <3>2. /\ old \in Seq(Chars) /\ new \in Seq(Chars)
            /\ at \in Nat /\ len \in Nat /\ at + len <= Len(old)
        BY <1>11, <2>1
      <3> HIDE DEF u, at, old
      <3>3. SplicedText(u, old, at, len, new)
        BY <3>1, <3>2, SpliceCells
      <3> QED
        BY <3>3, Zenon DEF SplicedText, Spliced, old
    <2>3. Len(u) = t.len
      BY <1>7, <1>11, <2>2 DEF k
    <2> QED
      BY <2>2, <2>3 DEF k
  <1> HIDE DEF u
  <1>13. ASSUME NEW i \in 1..t.len
         PROVE  TextOf(t)[i] = u[i]
    <2>1. TextOf(t)[i] = IF i <= at + k THEN t.block[i - 1]
                         ELSE t.block[i - 1 + (t.alloc - t.len)]
      BY <1>7 DEF TextOf, Gap
    <2>2. CASE i <= at
      <3>1. i - 1 \in 0..s.alloc - 1 /\ i <= at + k /\ ~(at <= i - 1) /\ i \in 1..s.len
        BY <1>1, <2>2
      <3>2. t.block[i - 1] = s.block[i - 1]
        BY <1>6, <3>1
      <3> QED
        BY <1>11, <1>12, <2>1, <2>2, <3>1, <3>2
    <2>3. CASE at < i /\ i <= at + k
      <3>1. /\ i - 1 \in 0..s.alloc - 1 /\ at <= i - 1 /\ i - 1 < at + k
            /\ i - 1 - at + 1 = i - at /\ ~(i <= at)
        BY <1>1, <2>3
      <3>2. t.block[i - 1] = new[i - at]
        BY <1>6, <3>1
      <3> QED
        BY <1>12, <2>1, <2>3, <3>1, <3>2
    <2>4. CASE at + k < i
      <3> DEFINE c == i - 1 + (t.alloc - t.len)
                 j == i - k + len
      <3>0. i \in Nat /\ i <= s.len - len + k /\ c = i - 1 + (s.alloc - (s.len - len + k))
        BY <1>1, <1>7
      <3>1. /\ c \in 0..s.alloc - 1 /\ ~(c < at + k) /\ ~(i <= at) /\ ~(i <= at + k)
            /\ j \in 1..s.len /\ ~(j <= at)
            /\ j - 1 + (s.alloc - s.len) = c
        <4> HIDE DEF c
        <4>0. /\ i \in Int /\ k \in Int /\ len \in Int
              /\ s.alloc \in Int /\ s.len \in Int
          BY <1>1, <3>0
        <4>1. c \in Int /\ i \in Int /\ j \in Int
          BY <3>0, <4>0
        <4>2. c <= s.alloc - 1 /\ at + k <= c
          <5>1. i <= s.len - len + k /\ at + k < i /\ at \in Int
            BY <1>1, <2>4, <3>0
          <5>4. s.len - len + k <= s.alloc
            BY <1>1
          <5>2. c = i - 1 + (s.alloc - (s.len - len + k))
            BY <3>0
          <5>3. PICK w \in Int : w = s.len - len + k
            BY <4>0
          <5> QED
            BY <4>0, <5>1, <5>2, <5>3, <5>4
        <4>3. at < i /\ at + k < i
          BY <1>1, <2>4, <3>0
        <4>4. at < j /\ j <= s.len
          BY <1>1, <2>4, <3>0
        <4>5. j - 1 + (s.alloc - s.len) = c
          BY <1>1, <3>0
        <4> HIDE DEF j
        <4> QED
          BY <1>1, <4>1, <4>2, <4>3, <4>4, <4>5
      <3>2. TextOf(t)[i] = t.block[c]
        BY <2>1, <3>1
      <3>3. u[i] = TextOf(s)[j]
        BY <1>12, <3>1
      <3> HIDE DEF c, j
      <3>4. t.block[c] = s.block[c]
        BY <1>6, <3>1
      <3>5. TextOf(s)[j] = s.block[c]
        BY <1>11, <3>1
      <3> QED
        BY <3>2, <3>3, <3>4, <3>5
    <2> QED
      BY <1>1, <1>10, <2>2, <2>3, <2>4
  <1>14. TextOf(t) = u
    <2>1. TextOf(t) = [i \in 1..t.len |-> TextOf(t)[i]]
      BY DEF TextOf
    <2>2. u = [i \in 1..t.len |-> u[i]]
      BY <1>12, LenProperties
    <2> QED
      BY <1>13, <2>1, <2>2
  <1>15. t \in [block  : [0..t.alloc - 1 -> Cell],
                gappos : 0..t.len, alloc : Nat, len : 0..t.alloc,
                mapped : BOOLEAN]
    <2>1. t.block \in [0..t.alloc - 1 -> Cell]
      BY <1>7, <1>9
    <2>2. t.mapped \in BOOLEAN
      BY <1>2 DEF IsBuffer
    <2> QED
      BY <1>5, <1>10, <2>1, <2>2, Zenon
  <1>16. t.mapped
    BY <1>2
  <1> QED
    BY <1>12, <1>14, <1>15, <1>16 DEF t, u, IsBuffer

\* The whole of replace_mark_part.
LEMMA ReplaceSplices ==
    ASSUME NEW s, IsBuffer(s), NEW pos \in Nat, NEW len \in Nat,
           pos + len <= s.len, NEW new \in Seq(Chars)
    PROVE  LET t == ReplaceMarkPart(s, pos, len, new)
           IN  IsBuffer(t) /\ TextOf(t) = Splice(TextOf(s), pos, len, new)
  <1> DEFINE m == MoveGap(s, pos, Len(new))
  <1>1. pos \in 0..s.len /\ Len(new) \in Nat
    BY LenProperties DEF IsBuffer
  <1>2. /\ IsBuffer(m) /\ TextOf(m) = TextOf(s)
        /\ m.gappos = pos /\ m.len = s.len /\ m.mapped /\ Gap(m) >= Len(new)
    BY <1>1, MoveGapKeepsText
  <1> HIDE DEF m
  <1>3. Gap(m) \in Nat
    BY <1>2, BufferCells
  <1>4. m.gappos + len <= m.len /\ Len(new) <= Gap(m)
    BY <1>1, <1>2, <1>3
  <1>5. /\ IsBuffer(Fill(m, len, new))
        /\ TextOf(Fill(m, len, new)) = Splice(TextOf(m), m.gappos, len, new)
    BY <1>2, <1>4, FillSplices
  <1> QED
    BY <1>2, <1>5 DEF ReplaceMarkPart, m

\* A range before the gap can be read from the block.
LEMMA CellsAreText ==
    ASSUME NEW s, IsBuffer(s), NEW pos \in Nat, NEW len \in Nat,
           pos + len <= s.gappos
    PROVE  Cells(s, pos, len) = SubSeq(TextOf(s), pos + 1, pos + len)
  <1> DEFINE t == TextOf(s)
             b == pos + 1
             e == pos + len
  <1>1. /\ s.gappos \in Nat /\ s.gappos <= s.len /\ s.len \in Nat
        /\ \A i \in 1..s.len :
              t[i] \in Chars /\ (i <= s.gappos => t[i] = s.block[i - 1])
    BY BufferCells
  <1>2. \A i \in b..e : t[i] \in Chars
    BY <1>1
  <1>3. b \in Int /\ e \in Int
    OBVIOUS
  <1> HIDE DEF t
  <1>4. /\ SubSeq(t, b, e) \in Seq(Chars)
        /\ Len(SubSeq(t, b, e)) = IF b <= e THEN e - b + 1 ELSE 0
        /\ \A i \in 1..e - b + 1 : SubSeq(t, b, e)[i] = t[b + i - 1]
    <2> HIDE DEF b, e
    <2> QED
      BY <1>2, <1>3, SubSeqProperties
  <1>5. Len(SubSeq(t, b, e)) = len /\ e - b + 1 = len
    BY <1>4
  <1>6. ASSUME NEW i \in 1..len
        PROVE  SubSeq(t, b, e)[i] = s.block[pos + i - 1]
    <2>1. SubSeq(t, b, e)[i] = t[b + i - 1]
      BY <1>4, <1>5
    <2>2. b + i - 1 \in 1..s.len /\ b + i - 1 <= s.gappos /\ b + i - 1 - 1 = pos + i - 1
      BY <1>1
    <2> DEFINE j == b + i - 1
    <2>3. j \in 1..s.len /\ j <= s.gappos /\ j - 1 = pos + i - 1
      BY <2>2
    <2>4. SubSeq(t, b, e)[i] = t[j]
      BY <2>1
    <2> HIDE DEF j, b, e
    <2>5. t[j] = s.block[j - 1]
      BY <1>1, <2>3
    <2> QED
      BY <2>3, <2>4, <2>5
  <1> HIDE DEF b, e
  <1>7. SubSeq(t, b, e) = [i \in 1..len |-> SubSeq(t, b, e)[i]]
    BY <1>4, <1>5, LenProperties
  <1>8. Cells(s, pos, len) = [i \in 1..len |-> s.block[pos + i - 1]]
    BY DEF Cells
  <1>9. Cells(s, pos, len) = SubSeq(t, b, e)
    BY <1>6, <1>7, <1>8
  <1> QED
    BY <1>9 DEF t, b, e

\* What a line is padded to is a string.
LEMMA PadIsString ==
    ASSUME NEW new \in Seq(Chars), NEW w \in Nat, Len(new) <= w
    PROVE  Pad(new, Len(new), w) \in Seq(Chars)
  <1>1. Len(new) \in Nat /\ \A i \in 1..Len(new) : new[i] \in Chars
    BY LenProperties, ElementOfSeq
  <1>2. \A i \in 1..w : (IF i <= Len(new) THEN new[i] ELSE Blank) \in Chars
    BY <1>1 DEF Chars
  <1>3. Pad(new, Len(new), w) \in [1..w -> Chars]
    BY <1>2 DEF Pad
  <1> QED
    BY <1>3, SeqDef

-----------------------------------------------------------------------------
\* The inductive invariant: while the client holds a pointer the gap is at the
\* end.  Without it a write through the pointer could fall into the gap.
Inv == TypeOK /\ (locked => buf.gappos = buf.len)

LEMMA InvInit == Init => Inv
  <1> SUFFICES ASSUME Init PROVE Inv
    OBVIOUS
  <1>1. TextOf(buf) \in Seq(Chars)
    BY TextOfCells DEF Init, Empty
  <1>2. /\ buf.block = [i \in {} |-> Junk] /\ buf.gappos = 0 /\ buf.alloc = 0
        /\ buf.len = 0 /\ buf.mapped = FALSE
    BY DEF Init, Empty
  <1>3. 0..buf.alloc - 1 = {}
    BY <1>2
  <1>4. buf.block \in [0..buf.alloc - 1 -> Cell]
    BY <1>2, <1>3
  <1>5. /\ buf.gappos \in 0..buf.len /\ buf.alloc \in Nat
        /\ buf.len \in 0..buf.alloc /\ buf.mapped \in BOOLEAN
    <2>1. buf.gappos = 0 /\ buf.alloc = 0 /\ buf.len = 0
      BY <1>2
    <2>2. buf.mapped = FALSE
      BY <1>2
    <2>3. buf.mapped \in BOOLEAN
      BY <2>2, Zenon
    <2> QED
      BY <2>1, <2>3
  <1>6. buf = [block |-> buf.block, gappos |-> buf.gappos, alloc |-> buf.alloc,
               len |-> buf.len, mapped |-> buf.mapped]
    BY DEF Init, Empty
  <1>7. buf \in [block : [0..buf.alloc - 1 -> Cell], gappos : 0..buf.len,
                 alloc : Nat, len : 0..buf.alloc, mapped : BOOLEAN]
    BY <1>4, <1>5, <1>6, Zenon
  <1> QED
    BY <1>1, <1>2, <1>7 DEF Inv, TypeOK, IsBuffer, Init

\* A client that holds the pointer writes into the text.
LEMMA WriteIntoText ==
    ASSUME NEW s, IsBuffer(s), s.gappos = s.len,
           NEW i \in 0..s.len - 1, NEW c \in Chars,
           NEW t, t = [s EXCEPT !.block[i] = c]
    PROVE  /\ IsBuffer(t)
           /\ TextOf(t) = [TextOf(s) EXCEPT ![i + 1] = c]
           /\ t.gappos = t.len
  <1>1. /\ s.alloc \in Nat /\ s.len \in Nat /\ s.len <= s.alloc
        /\ i \in 0..s.alloc - 1
    BY DEF IsBuffer
  <1>2. s.block \in [0..s.alloc - 1 -> Cell] /\ c \in Cell
    BY DEF IsBuffer, Cell
  <1>3. /\ t.block = [s.block EXCEPT ![i] = c]
        /\ t.gappos = s.gappos /\ t.alloc = s.alloc /\ t.len = s.len
        /\ t.mapped = s.mapped
    BY DEF IsBuffer
  <1>4. t \in [block : [0..t.alloc - 1 -> Cell], gappos : 0..t.len,
               alloc : Nat, len : 0..t.alloc, mapped : BOOLEAN]
    BY <1>2, <1>3 DEF IsBuffer
  <1>5. TextOf(s) \in Seq(Chars) /\ TextOf(s) = [p \in 1..s.len |-> s.block[p - 1]]
    BY <1>1 DEF IsBuffer, TextOf
  <1>6. TextOf(t) = [p \in 1..s.len |-> t.block[p - 1]]
    BY <1>1, <1>3 DEF TextOf
  <1>7. ASSUME NEW p \in 1..s.len
        PROVE  t.block[p - 1] = IF p = i + 1 THEN c ELSE s.block[p - 1]
    <2>1. p - 1 \in 0..s.alloc - 1 /\ (p - 1 = i <=> p = i + 1)
      BY <1>1
    <2> QED
      BY <1>2, <1>3, <2>1
  <1>8. TextOf(t) = [TextOf(s) EXCEPT ![i + 1] = c]
    <2>1. TextOf(t) = [p \in 1..s.len |-> IF p = i + 1 THEN c ELSE s.block[p - 1]]
      BY <1>6, <1>7, Zenon
    <2> QED
      BY <1>5, <2>1
  <1>9. TextOf(t) \in Seq(Chars)
    <2>1. i + 1 \in 1..Len(TextOf(s))
      BY BufferCells
    <2>2. TextOf(s) \in Seq(Chars)
      BY <1>5
    <2>3. [TextOf(s) EXCEPT ![i + 1] = c] \in Seq(Chars)
      BY <2>1, <2>2, ExceptSeq, Zenon
    <2> QED
      BY <1>8, <2>3
  <1>10. ~t.mapped => t.alloc = 0
    BY <1>3 DEF IsBuffer
  <1> QED
    BY <1>3, <1>4, <1>8, <1>9, <1>10 DEF IsBuffer

-----------------------------------------------------------------------------
\* The operators that module SbufStore takes from SbufText are the same ones.
LEMMA SameOperators ==
    /\ \A t : Store!Newlines(t) = Newlines(t)
    /\ \A t, pos, len, new : Store!Splice(t, pos, len, new) = Splice(t, pos, len, new)
    /\ \A t, pos : Store!CharAt(t, pos) = CharAt(t, pos)
    /\ Store!Chars = Chars
  <1>1. \A S : Store!Cardinality(S) = Cardinality(S)
    BY DEF Store!Cardinality, Cardinality, Store!IsFiniteSet, IsFiniteSet
  <1> QED
    BY <1>1 DEF Store!Newlines, Newlines, Store!Splice, Splice, Store!CharAt,
       CharAt, Store!EOF, EOF, Store!Chars, Chars

\* Every step keeps the invariant, and is a step of the store or changes
\* nothing that the store has.
LEMMA StepKeepsPromise ==
    ASSUME Inv, [Next]_vars
    PROVE  Inv' /\ [Store!Next]_(Store!vars)
  <1> USE DEF Inv, TypeOK
  <1>0. /\ IsBuffer(buf) /\ locked \in BOOLEAN
        /\ buf.len \in Nat /\ buf.gappos \in Nat /\ buf.alloc \in Nat
        /\ TextOf(buf) \in Seq(Chars) /\ Len(TextOf(buf)) = buf.len
    BY BufferCells DEF IsBuffer
  <1>1. ASSUME NEW pos \in 0..buf.len, NEW len \in 0..buf.len, NEW new \in Strings,
               StrChange(pos, len, new)
        PROVE  Inv' /\ Store!Replace
    <2> DEFINE s == RangeInOnePiece(buf, pos, len)
               t == ReplaceMarkPart(s, pos, len, new)
    <2>1. /\ ~locked /\ ~locked' /\ locked' = locked
          /\ pos + len <= buf.len /\ buf' = t
          /\ answer' = [op |-> "strchange",
                        lines |-> Newlines(new) - Newlines(Cells(s, pos, len))]
      BY <1>1 DEF StrChange
    <2>2. new \in Seq(Chars) /\ pos \in Nat /\ len \in Nat /\ pos + len \in 0..buf.len
      BY <1>0, <2>1, StringsAssumption
    <2>3. /\ IsBuffer(s) /\ TextOf(s) = TextOf(buf)
          /\ s.gappos = pos + len /\ s.len = buf.len
      BY <1>0, <2>2, MoveGapKeepsText DEF RangeInOnePiece
    <2> HIDE DEF s
    <2>4. Cells(s, pos, len) = SubSeq(TextOf(buf), pos + 1, pos + len)
      BY <1>0, <2>2, <2>3, CellsAreText
    <2>5. IsBuffer(t) /\ TextOf(t) = Splice(TextOf(buf), pos, len, new)
      BY <1>0, <2>1, <2>2, <2>3, ReplaceSplices
    <2> HIDE DEF t
    <2>6. Inv'
      BY <2>1, <2>5, <1>0
    <2>7. TextOf(buf)' = Splice(TextOf(buf), pos, len, new)
      BY <2>1, <2>5
    <2>8. pos \in 0..Len(TextOf(buf)) /\ len \in 0..Len(TextOf(buf))
          /\ pos + len <= Len(TextOf(buf))
      BY <1>0, <2>1
    <2>9. Store!Replace
      BY <2>1, <2>4, <2>7, <2>8, SameOperators DEF Store!Replace, Pieces
    <2> QED
      BY <2>6, <2>9
  <1>2. ASSUME NEW pos \in 0..buf.len, NEW len \in 0..buf.len, NEW new \in Strings,
               StrChangeNoMemory(pos, len, new)
        PROVE  Inv' /\ Store!Fail
    <2> DEFINE s == RangeInOnePiece(buf, pos, len)
    <2>1. /\ ~locked /\ locked' = locked /\ answer' = NoAnswer
          /\ pos + len <= buf.len
          /\ buf' = buf \/ buf' = GapAtEnd(s)
      BY <1>2 DEF StrChangeNoMemory
    <2>2. pos + len \in 0..buf.len
      BY <1>0, <2>1
    <2>3. IsBuffer(s) /\ TextOf(s) = TextOf(buf)
      BY <1>0, <2>2, MoveGapKeepsText DEF RangeInOnePiece
    <2> HIDE DEF s
    <2>4. IsBuffer(GapAtEnd(s)) /\ TextOf(GapAtEnd(s)) = TextOf(buf)
      BY <2>3, GapAtEndKeepsText
    <2>5. IsBuffer(buf') /\ TextOf(buf)' = TextOf(buf)
      BY <1>0, <2>1, <2>4
    <2> QED
      BY <1>0, <2>1, <2>5 DEF Store!Fail, Store!NoAnswer, NoAnswer
  <1>3. ASSUME NEW pos \in 0..buf.len, NEW len \in 0..buf.len, RemovePart(pos, len)
        PROVE  Inv' /\ Store!Replace
    <2> DEFINE t == ReplaceMarkPart(buf, pos, len, <<>>)
    <2>1. /\ ~locked /\ locked' = locked /\ answer' = NoAnswer
          /\ pos + len <= buf.len /\ buf' = t
      BY <1>3 DEF RemovePart
    <2>2. <<>> \in Seq(Chars) /\ pos \in Nat /\ len \in Nat
      BY <1>0
    <2>3. IsBuffer(t) /\ TextOf(t) = Splice(TextOf(buf), pos, len, <<>>)
      BY <1>0, <2>1, <2>2, ReplaceSplices
    <2> HIDE DEF t
    <2>4. TextOf(buf)' = Splice(TextOf(buf), pos, len, <<>>)
      BY <2>1, <2>3
    <2>5. pos \in 0..Len(TextOf(buf)) /\ len \in 0..Len(TextOf(buf))
          /\ pos + len <= Len(TextOf(buf))
      BY <1>0, <2>1
    <2>6. Store!Replace
      BY <2>1, <2>4, <2>5, SameOperators
      DEF Store!Replace, Store!NoAnswer, NoAnswer, Pieces
    <2> QED
      BY <1>0, <2>1, <2>3, <2>6
  <1>4. ASSUME NEW pos \in 0..buf.len, NEW new \in Strings, NEW w \in Widths,
               InsertPart(pos, new, w)
        PROVE  Inv' /\ Store!Replace
    <2> DEFINE p == Pad(new, Len(new), w)
               t == ReplaceMarkPart(buf, pos, 0, p)
    <2>1. /\ ~locked /\ locked' = locked /\ answer' = NoAnswer
          /\ Len(new) <= w /\ buf' = t
      BY <1>4 DEF InsertPart
    <2>2. p \in Seq(Chars)
      BY <2>1, PadIsString, StringsAssumption, WidthsAssumption
    <2>3. p \in Pieces
      BY DEF Pieces
    <2> HIDE DEF p
    <2>4. pos \in Nat /\ 0 \in Nat /\ pos + 0 <= buf.len
      BY <1>0
    <2>5. IsBuffer(t) /\ TextOf(t) = Splice(TextOf(buf), pos, 0, p)
      BY <1>0, <2>2, <2>4, ReplaceSplices
    <2> HIDE DEF t
    <2>6. TextOf(buf)' = Splice(TextOf(buf), pos, 0, p)
      BY <2>1, <2>5
    <2>7. pos \in 0..Len(TextOf(buf)) /\ 0 \in 0..Len(TextOf(buf))
          /\ pos + 0 <= Len(TextOf(buf))
      BY <1>0
    <2>8. Store!Replace
      <3>1. TextOf(buf)' = Store!Splice(TextOf(buf), pos, 0, p)
        BY <2>6, SameOperators
      <3>2. answer' \in {Store!NoAnswer,
                [op    |-> "strchange",
                 lines |-> Store!Newlines(p)
                    - Store!Newlines(SubSeq(TextOf(buf), pos + 1, pos + 0))]}
        BY <2>1 DEF Store!NoAnswer, NoAnswer
      <3>3. ~locked /\ UNCHANGED locked
        BY <2>1
      <3> QED
        BY <2>3, <2>7, <3>1, <3>2, <3>3, Zenon DEF Store!Replace
    <2> QED
      BY <1>0, <2>1, <2>5, <2>8
  <1>5. ASSUME NEW pos \in 0..buf.len, Charat(pos)
        PROVE  Inv' /\ Store!Read
    <2>1. /\ UNCHANGED <<buf, locked>>
          /\ answer' = [op   |-> "charat",
                        char |-> IF pos = buf.len THEN EOF
                                 ELSE IF pos < buf.gappos THEN buf.block[pos]
                                 ELSE buf.block[pos + Gap(buf)]]
      BY <1>5 DEF Charat
    <2>2. pos \in 0..Len(TextOf(buf))
      BY <1>0
    <2>3. ASSUME pos # buf.len
          PROVE  TextOf(buf)[pos + 1] = IF pos < buf.gappos THEN buf.block[pos]
                                        ELSE buf.block[pos + Gap(buf)]
      <3>1. /\ pos + 1 \in 1..buf.len
            /\ (pos + 1 <= buf.gappos <=> pos < buf.gappos)
            /\ pos + 1 - 1 = pos
        BY <1>0, <2>3
      <3> QED
        BY <3>1 DEF TextOf
    <2>4. CharAt(TextOf(buf), pos) =
              IF pos = buf.len THEN EOF
              ELSE IF pos < buf.gappos THEN buf.block[pos]
              ELSE buf.block[pos + Gap(buf)]
      BY <1>0, <2>3 DEF CharAt
    <2>5. answer' = [op |-> "charat", char |-> CharAt(TextOf(buf), pos)]
      BY <2>1, <2>4
    <2>6. UNCHANGED TextOf(buf)
      BY <2>1
    <2>7. Store!Read
      BY <2>1, <2>2, <2>5, <2>6, SameOperators DEF Store!Read
    <2> QED
      BY <1>0, <2>1, <2>7
  <1>6. ASSUME NEW pos \in 0..buf.len, NEW c \in WriteChars, ClientWrite(pos, c)
        PROVE  Inv' /\ Store!Overwrite
    <2>1. /\ locked /\ locked' = locked /\ answer' = NoAnswer
          /\ pos < buf.len /\ buf' = [buf EXCEPT !.block[pos] = c]
      BY <1>6 DEF ClientWrite
    <2>2. c \in Chars /\ pos \in 0..buf.len - 1 /\ buf.gappos = buf.len
      BY <1>0, <2>1, WriteCharsAssumption
    <2> DEFINE t == [buf EXCEPT !.block[pos] = c]
    <2>t. IsBuffer(buf) /\ buf.gappos = buf.len
      BY <1>0, <2>2
    <2>u. /\ IsBuffer(t) /\ t.gappos = t.len
          /\ TextOf(t) = [TextOf(buf) EXCEPT ![pos + 1] = c]
      <3>1. t = [buf EXCEPT !.block[pos] = c]
        OBVIOUS
      <3> HIDE DEF t
      <3> QED
        BY <2>2, <2>t, <3>1, WriteIntoText
    <2> HIDE DEF t
    <2>3. /\ IsBuffer(buf') /\ buf'.gappos = buf'.len
          /\ TextOf(buf)' = [TextOf(buf) EXCEPT ![pos + 1] = c]
      BY <2>1, <2>u DEF t
    <2>4. pos + 1 \in DOMAIN TextOf(buf)
      BY <1>0, <2>2 DEF TextOf
    <2>5. Store!Overwrite
      BY <2>1, <2>2, <2>3, <2>4, SameOperators
      DEF Store!Overwrite, Store!NoAnswer, NoAnswer
    <2> QED
      BY <1>0, <2>1, <2>3, <2>5
  <1>7. ASSUME Lock
        PROVE  Inv' /\ Store!Lock
    <2>1. /\ ~locked /\ locked' = TRUE /\ answer' = NoAnswer
          /\ buf' = MoveGap(buf, buf.len, 0)
      BY <1>7 DEF Lock, OneBlock
    <2>2. buf.len \in 0..buf.len
      BY <1>0
    <2>3. /\ IsBuffer(buf') /\ TextOf(buf') = TextOf(buf)
          /\ buf'.gappos = buf.len /\ buf'.len = buf.len
      BY <1>0, <2>1, <2>2, MoveGapKeepsText
    <2>4. UNCHANGED TextOf(buf)
      BY <2>3
    <2> QED
      BY <2>1, <2>3, <2>4 DEF Store!Lock, Store!NoAnswer, NoAnswer
  <1>8. ASSUME LockNoMemory
        PROVE  Inv' /\ Store!Fail
    BY <1>0, <1>8 DEF LockNoMemory, Store!Fail, Store!NoAnswer, NoAnswer
  <1>9. ASSUME Unlock
        PROVE  Inv' /\ Store!Unlock
    BY <1>0, <1>9 DEF Unlock, Store!Unlock, Store!NoAnswer, NoAnswer
  <1>10. ASSUME UNCHANGED vars
         PROVE  Inv' /\ UNCHANGED Store!vars
    BY <1>0, <1>10 DEF vars, Store!vars
  <1> QED
    BY <1>1, <1>2, <1>3, <1>4, <1>5, <1>6, <1>7, <1>8, <1>9, <1>10
    DEF Next, Store!Next

\* The block stays a block whose text is made of characters that were put in.
THEOREM TypeCorrect == Spec => []TypeOK
  <1>1. Init => Inv
    BY InvInit
  <1>2. Inv /\ [Next]_vars => Inv'
    BY StepKeepsPromise
  <1>3. Inv => TypeOK
    BY DEF Inv
  <1> QED
    BY <1>1, <1>2, <1>3, PTL DEF Spec

\* What the holder of sbuf_lock's pointer sees is the text.
THEOREM LockedInOnePiece == Spec => []LockedIsInOnePiece
  <1>1. Init => Inv
    BY InvInit
  <1>2. Inv /\ [Next]_vars => Inv'
    BY StepKeepsPromise
  <1>3. Inv => LockedIsInOnePiece
    <2> SUFFICES ASSUME Inv, locked
                 PROVE  Cells(buf, 0, buf.len) = TextOf(buf)
      BY DEF LockedIsInOnePiece
    <2>1. /\ IsBuffer(buf) /\ buf.gappos = buf.len /\ buf.len \in Nat
          /\ TextOf(buf) \in Seq(Chars) /\ Len(TextOf(buf)) = buf.len
      BY BufferCells DEF Inv, TypeOK, IsBuffer
    <2>a. 0 \in Nat /\ 0 + buf.len <= buf.gappos /\ 0 + 1 = 1 /\ 0 + buf.len = buf.len
      BY <2>1
    <2>b. Cells(buf, 0, buf.len) = SubSeq(TextOf(buf), 0 + 1, 0 + buf.len)
      BY <2>1, <2>a, CellsAreText, Zenon
    <2>2. Cells(buf, 0, buf.len) = SubSeq(TextOf(buf), 1, Len(TextOf(buf)))
      BY <2>1, <2>a, <2>b, Zenon
    <2>3. SubSeq(TextOf(buf), 1, Len(TextOf(buf))) = TextOf(buf)
      BY <2>1, SubSeqFull
    <2> QED
      BY <2>1, <2>2, <2>3
  <1> QED
    BY <1>1, <1>2, <1>3, PTL DEF Spec

\* The gap buffer implements the store: whatever the sequence of changes, reads,
\* locks and failed allocations, it is a text in which a range is replaced.
THEOREM GapBufferImplementsStore == Spec => StoresText
  <1>1. Init => Inv
    BY InvInit
  <1>2. Inv /\ [Next]_vars => Inv' /\ [Store!Next]_(Store!vars)
    BY StepKeepsPromise
  <1>3. Init => Store!Init
    <2> SUFFICES ASSUME Init PROVE Store!Init
      OBVIOUS
    <2>1. TextOf(buf) = [i \in 1..0 |-> IF i <= 0 THEN buf.block[i - 1]
                                        ELSE buf.block[i - 1 + Gap(buf)]]
      BY DEF Init, Empty, TextOf
    <2>2. TextOf(buf) = <<>>
      BY <2>1
    <2> QED
      BY <2>2 DEF Init, Store!Init, Store!NoAnswer, NoAnswer
  <1> QED
    BY <1>1, <1>2, <1>3, PTL DEF Spec, StoresText, Store!Spec


\* A range after the gap lies G cells further on.
LEMMA CellsBehindGap ==
    ASSUME NEW s, IsBuffer(s), NEW q \in s.gappos..s.len
    PROVE  Cells(s, s.gappos + Gap(s), q - s.gappos)
                = SubSeq(TextOf(s), s.gappos + 1, q)
  <1>1. PICK t \in Seq(Chars), g \in Nat, a \in Nat, n \in Nat :
            t = TextOf(s) /\ g = Gap(s) /\ a = s.gappos /\ n = s.len /\ a <= n
    BY BufferCells DEF IsBuffer
  <1>2. /\ t \in Seq(Chars) /\ Len(t) = n
        /\ \A i \in 1..n : t[i] = IF i <= a THEN s.block[i - 1]
                                  ELSE s.block[i - 1 + g]
    BY <1>1, BufferCells DEF IsBuffer
  <1>3. PICK k \in Nat : k = q - a
    BY <1>1
  <1>4. PICK u : u = SubSeq(t, a + 1, q)
    OBVIOUS
  <1>5. a \in 0..Len(t) /\ q \in a..Len(t)
    BY <1>1, <1>2
  <1>6. u \in Seq(Chars) /\ IsSlice(u, t, a, q)
    BY <1>2, <1>4, <1>5, Slice
  <1>7. Len(u) = k /\ \A i \in 1..k : u[i] = t[a + i]
    BY <1>3, <1>6 DEF IsSlice
  <1>8. ASSUME NEW i \in 1..k
        PROVE  u[i] = s.block[a + g + i - 1]
    <2>1. PICK j \in 1..n : j = a + i
      BY <1>1, <1>3
    <2>2. ~(j <= a) /\ j - 1 + g = a + g + i - 1
      BY <2>1
    <2>3. t[j] = s.block[j - 1 + g]
      BY <1>2, <2>2
    <2> QED
      BY <1>7, <2>1, <2>2, <2>3
  <1>9. u = [i \in 1..k |-> u[i]]
    BY <1>6, <1>7
  <1>10. Cells(s, a + g, k) = [i \in 1..k |-> s.block[a + g + i - 1]]
    BY DEF Cells
  <1>11. Cells(s, a + g, k) = u
    BY <1>8, <1>9, <1>10
  <1> QED
    BY <1>1, <1>3, <1>4, <1>11

\* There is only one least element.
LEMMA LeastIsMin ==
    ASSUME NEW T, T \subseteq Nat, NEW m \in T, \A n \in T : m <= n
    PROVE  Min(T) = m
  <1>1. Min(T) \in T /\ \A n \in T : Min(T) <= n
    BY MinIsLeast
  <1>2. Min(T) \in Nat /\ m \in Nat /\ m <= Min(T) /\ Min(T) <= m
    BY <1>1
  <1> QED
    BY <1>2

\* The two halves of sbuf_linepos find the first position of a line.
LEMMA LinePosFinds ==
    ASSUME NEW s, IsBuffer(s), NEW n \in Nat
    PROVE  LinePos(s, n) = Min({p \in 0..s.len :
                                    p = s.len \/ LineOf(TextOf(s), p) = n})
  <1>1. PICK t \in Seq(Chars), g \in Nat, a \in Nat, e \in Nat :
            /\ t = TextOf(s) /\ g = Gap(s) /\ a = s.gappos /\ e = s.len
            /\ a <= e /\ Len(t) = e
    BY BufferCells DEF IsBuffer
  <1> DEFINE T == {p \in 0..e : p = e \/ LineOf(t, p) = n}
             B == {c \in 0..a : c = a \/ Newlines(Cells(s, 0, c - 0)) = n}
             A(left) == {c \in a + g..e + g :
                            c = e + g \/ Newlines(Cells(s, a + g, c - (a + g))) = left}
  <1>2. ASSUME NEW c \in 0..a
        PROVE  Newlines(Cells(s, 0, c)) = LineOf(t, c)
    <2>1. c \in Nat /\ 0 \in Nat /\ 0 + c <= s.gappos /\ 0 + 1 = 1 /\ 0 + c = c
      BY <1>1
    <2>2. Cells(s, 0, c) = SubSeq(TextOf(s), 0 + 1, 0 + c)
      BY <2>1, CellsAreText, Zenon
    <2>3. Cells(s, 0, c) = SubSeq(t, 1, c)
      BY <1>1, <2>1, <2>2
    <2> QED
      BY <2>3 DEF LineOf
  <1>3. ASSUME NEW c \in 0..e
        PROVE  LineOf(t, c) \in Nat
    <2>1. c \in 0..Len(t) /\ c \in c..Len(t)
      BY <1>1
    <2> QED
      BY <2>1, LineOfLater
  <1>4. ASSUME NEW c \in a..e
        PROVE  Newlines(Cells(s, a + g, c - a)) = LineOf(t, c) - LineOf(t, a)
    <2>1. a \in 0..Len(t) /\ c \in a..Len(t) /\ c \in s.gappos..s.len
      BY <1>1
    <2>2. PICK w : w = SubSeq(t, a + 1, c)
      OBVIOUS
    <2>3. Cells(s, a + g, c - a) = w
      BY <1>1, <2>1, <2>2, CellsBehindGap
    <2>4. /\ LineOf(t, a) \in Nat /\ Newlines(w) \in Nat
          /\ LineOf(t, c) = LineOf(t, a) + Newlines(w)
      BY <2>1, <2>2, LineOfLater
    <2> QED
      BY <2>3, <2>4
  <1>5. PICK p : p = Skip(s, 0, a, n)
    OBVIOUS
  <1>6. /\ p \in 0..a
        /\ p = a \/ LineOf(t, p) = n
        /\ \A c \in 0..a : c = a \/ LineOf(t, c) = n => p <= c
    <2>1. B \subseteq Nat /\ a \in B
      OBVIOUS
    <2>2. p = Min(B)
      BY <1>5 DEF Skip
    <2> HIDE DEF B
    <2>3. p \in B /\ \A c \in B : p <= c
      BY <2>1, <2>2, MinIsLeast
    <2> USE DEF B
    <2>4. \A c \in 0..a : c \in B <=> c = a \/ LineOf(t, c) = n
      <3>1. \A c \in 0..a : c - 0 = c
        OBVIOUS
      <3> QED
        BY <1>2, <3>1
    <2>5. p \in 0..a
      BY <2>3
    <2> HIDE DEF B
    <2> QED
      BY <2>3, <2>4, <2>5
  <1> HIDE DEF B
  <1>7. PICK left : left = n - Newlines(Cells(s, 0, p))
    OBVIOUS
  <1>8. left = n - LineOf(t, p) /\ LineOf(t, p) \in Nat
    BY <1>1, <1>2, <1>3, <1>6, <1>7
  <1>9. LinePos(s, n) = IF left = 0 THEN p
                        ELSE Skip(s, a + g, e + g, left) - g
    BY <1>1, <1>5, <1>7 DEF LinePos
  <1>10. T \subseteq Nat
    OBVIOUS
  <1>11. ASSUME NEW m \in 0..e, m = e \/ LineOf(t, m) = n,
                \A q \in 0..e : q = e \/ LineOf(t, q) = n => m <= q
         PROVE  Min(T) = m
    <2>1. m \in T /\ \A q \in T : m <= q
      BY <1>11
    <2> HIDE DEF T
    <2> QED
      BY <1>10, <2>1, LeastIsMin
  <1>12. CASE left = 0
    <2>1. LineOf(t, p) = n /\ p \in 0..e
      BY <1>1, <1>6, <1>8, <1>12
    <2>2. ASSUME NEW q \in 0..e, q = e \/ LineOf(t, q) = n
          PROVE  p <= q
      <3>1. CASE q <= a
        BY <1>1, <1>6, <2>2, <3>1
      <3>2. CASE ~(q <= a)
        BY <1>1, <1>6, <3>2
      <3> QED
        BY <3>1, <3>2
    <2>3. Min(T) = p
      BY <1>11, <2>1, <2>2
    <2> QED
      BY <1>1, <1>9, <1>12, <2>3
  <1>13. CASE left # 0
    <2>1. LineOf(t, p) # n /\ p = a
      BY <1>6, <1>8, <1>13
    <2>2. PICK c : c = Skip(s, a + g, e + g, left)
      OBVIOUS
    <2>3. A(left) \subseteq Nat /\ e + g \in A(left)
      BY <1>1
    <2>4. c = Min(A(left))
      BY <2>2 DEF Skip
    <2>5. c \in A(left) /\ \A d \in A(left) : c <= d
      <3> HIDE DEF A
      <3> QED
        BY <2>3, <2>4, MinIsLeast
    <2>6. PICK m \in a..e : m = c - g
      <3>1. c \in a + g..e + g
        BY <2>5
      <3>2. c - g \in a..e
        BY <3>1
      <3> QED
        BY <3>2
    <2>7. ASSUME NEW q \in a..e
          PROVE  q + g \in A(left) <=> q = e \/ LineOf(t, q) = n
      <3>1. PICK d \in a + g..e + g : d = q + g /\ d - (a + g) = q - a
        <4>1. q + g \in a + g..e + g /\ (q + g) - (a + g) = q - a
          OBVIOUS
        <4> QED
          BY <4>1
      <3>2. Newlines(Cells(s, a + g, q - a)) = LineOf(t, q) - LineOf(t, a)
        BY <1>4
      <3>3. LineOf(t, q) \in Nat /\ LineOf(t, a) \in Nat
        BY <1>1, <1>3
      <3>4. d \in A(left) <=> d = e + g \/ LineOf(t, q) - LineOf(t, a) = left
        <4>1. d \in A(left) <=> d = e + g \/ Newlines(Cells(s, a + g, d - (a + g))) = left
          OBVIOUS
        <4> QED
          BY <3>1, <3>2, <4>1
      <3> HIDE DEF A
      <3>5. d = e + g <=> q = e
        BY <3>1
      <3>6. LineOf(t, q) - LineOf(t, a) = left <=> LineOf(t, q) = n
        BY <1>8, <2>1, <3>3
      <3> QED
        BY <3>1, <3>4, <3>5, <3>6
    <2>8. m + g = c
      BY <2>5, <2>6
    <2> HIDE DEF A
    <2>9. m = e \/ LineOf(t, m) = n
      BY <2>5, <2>7, <2>8
    <2>10. ASSUME NEW q \in 0..e, q = e \/ LineOf(t, q) = n
           PROVE  m <= q
      <3>1. CASE q < a
        <4>1. LineOf(t, q) = n
          BY <1>1, <2>10, <3>1
        <4>2. p <= q
          BY <1>1, <1>6, <3>1, <4>1
        <4> QED
          BY <1>1, <2>1, <3>1, <4>2
      <3>2. CASE ~(q < a)
        <4>1. q \in a..e
          BY <1>1, <3>2
        <4>2. q + g \in A(left)
          BY <2>7, <2>10, <4>1
        <4>3. c <= q + g
          BY <2>5, <4>2
        <4> QED
          BY <2>8, <4>1, <4>3
      <3> QED
        BY <3>1, <3>2
    <2>11. Min(T) = m
      <3>1. m \in 0..e
        BY <1>1
      <3> QED
        BY <1>11, <2>9, <2>10, <3>1
    <2> QED
      BY <1>1, <1>9, <1>13, <2>2, <2>6, <2>11
  <1> QED
    BY <1>12, <1>13

\* sbuf_linepos finds the lines of the text whatever the gap was moved to, and
\* the end of the text when there are fewer.
THEOREM LinesAreFound == Spec => []LinePosIsRight
  <1>1. Init => Inv
    BY InvInit
  <1>2. Inv /\ [Next]_vars => Inv'
    BY StepKeepsPromise
  <1>3. Inv => LinePosIsRight
    BY LinePosFinds DEF Inv, TypeOK, LinePosIsRight
  <1> QED
    BY <1>1, <1>2, <1>3, PTL DEF Spec
=============================================================================
