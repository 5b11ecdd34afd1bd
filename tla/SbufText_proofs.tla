--------------------------- MODULE SbufText_proofs ---------------------------
(***************************************************************************)
(* Lemmas about module SbufText: where the loops over the text stop, which *)
(* column a run of characters reaches, and how many newlines there are in  *)
(* a text that is taken apart and put together.  They hold for every text, *)
(* alphabet and tab size; the proofs about the editing buffer rest on      *)
(* them.                                                                   *)
(***************************************************************************)
EXTENDS SbufText, SequenceTheorems, FiniteSetTheorems, WellFoundedInduction,
        TLAPS

-----------------------------------------------------------------------------
\* Least and greatest elements.

\* A set of naturals that is not empty has a least element: the form in which
\* the proofs here argue by induction.
LEMMA LeastNatural ==
    ASSUME NEW T, T \subseteq Nat, T # {}
    PROVE  \E m \in T : \A n \in T : m <= n
  <1>1. \E m \in T : \A n \in T : <<n, m>> \notin OpToRel(<, Nat)
    BY NatLessThanWellFounded, WFMin
  <1>2. PICK m \in T : \A n \in T : <<n, m>> \notin OpToRel(<, Nat)
    BY <1>1
  <1>3. \A n \in T : ~(n < m)
    BY <1>2 DEF OpToRel
  <1> QED
    BY <1>3

\* Min returns the least element.
LEMMA MinIsLeast ==
    ASSUME NEW T, T \subseteq Nat, T # {}
    PROVE  Min(T) \in T /\ \A n \in T : Min(T) <= n
  BY LeastNatural DEF Min

\* Max returns the greatest element of a bounded set.
LEMMA MaxIsGreatest ==
    ASSUME NEW b \in Nat, NEW T, T \subseteq 0..b, T # {}
    PROVE  Max(T) \in T /\ \A n \in T : n <= Max(T)
  <1> DEFINE U == {u \in 0..b : b - u \in T}
  <1>1. U \subseteq Nat /\ U # {}
    <2>1. PICK n \in T : TRUE
      OBVIOUS
    <2>2. b - n \in U
      BY <2>1
    <2>3. U \subseteq Nat
      OBVIOUS
    <2> QED
      BY <2>2, <2>3
  <1>2. PICK u \in U : \A v \in U : u <= v
    BY <1>1, LeastNatural
  <1>3. b - u \in T
    OBVIOUS
  <1>4. \A n \in T : b - u >= n
    <2> TAKE n \in T
    <2>1. b - n \in U
      OBVIOUS
    <2> QED
      BY <2>1, <1>2
  <1>5. \E m \in T : \A n \in T : m >= n
    BY <1>3, <1>4
  <1>6. Max(T) \in T /\ \A n \in T : Max(T) >= n
    BY <1>5 DEF Max
  <1> QED
    BY <1>6

-----------------------------------------------------------------------------
\* Recursive functions on an initial segment of the naturals.

\* f begins with a and goes on as G says.
Recurses(f, n, S, a, G) ==
    f \in [0..n -> S] /\ f[0] = a /\ \A i \in 1..n : f[i] = G[i][f[i - 1]]

\* There is such a function.
LEMMA RecursiveFunctionExists ==
    ASSUME NEW n \in Nat, NEW S, NEW a \in S, NEW G \in [1..n -> [S -> S]]
    PROVE  \E f : Recurses(f, n, S, a, G)
  <1> USE DEF Recurses
  <1> DEFINE Good(k, f) == Recurses(f, k, S, a, G)
             Bad == {k \in 0..n : ~\E f : Good(k, f)}
  <1>1. CASE Bad = {}
    <2>1. n \in 0..n
      OBVIOUS
    <2>2. \E f : Good(n, f)
      BY <1>1, <2>1
    <2> QED
      BY <2>2
  <1>2. CASE Bad # {}
    <2>1. PICK k \in Bad : \A j \in Bad : k <= j
      <3>1. Bad \subseteq Nat
        OBVIOUS
      <3> QED
        BY <1>2, <3>1, LeastNatural
    <2>2. CASE k = 0
      <3> DEFINE f == [i \in 0..0 |-> a]
      <3>1. Good(0, f)
        OBVIOUS
      <3> QED
        BY <3>1, <2>2
    <2>3. CASE k # 0
      <3>1. k - 1 \in 0..n /\ k - 1 \notin Bad
        BY <2>1, <2>3
      <3>2. PICK f : Good(k - 1, f)
        BY <3>1
      <3> DEFINE g == [i \in 0..k |-> IF i = k THEN G[k][f[k - 1]] ELSE f[i]]
      <3>3. G[k][f[k - 1]] \in S
        <4>1. k - 1 \in 0..k - 1 /\ k \in 1..n
          BY <3>1, <2>1, <2>3
        <4>2. f[k - 1] \in S
          BY <3>2, <4>1
        <4> QED
          BY <4>1, <4>2
      <3>4. g \in [0..k -> S]
        BY <3>2, <3>3, <2>1
      <3>5. g[0] = a
        BY <3>2, <2>3, <2>1
      <3>6. \A i \in 1..k : g[i] = G[i][g[i - 1]]
        <4> TAKE i \in 1..k
        <4>1. g[i - 1] = f[i - 1]
          BY <2>1
        <4>2. CASE i = k
          BY <4>1, <4>2
        <4>3. CASE i # k
          <5>1. i \in 1..k - 1
            BY <4>3, <2>1
          <5> QED
            BY <5>1, <4>1, <4>3, <3>2
        <4> QED
          BY <4>2, <4>3
      <3>7. Good(k, g)
        BY <3>4, <3>5, <3>6
      <3> QED
        BY <3>7, <2>1
    <2> QED
      BY <2>2, <2>3
  <1> QED
    BY <1>1, <1>2

-----------------------------------------------------------------------------
\* Columns.

\* A character leads to a column further right.
LEMMA AdvanceGrows ==
    ASSUME NEW col \in Nat, NEW c
    PROVE  Advance(col, c) \in Nat /\ Advance(col, c) > col
  <1>1. TabSize \in Nat \ {0}
    BY TabSizeAssumption
  <1>2. col % TabSize \in 0..TabSize - 1
    BY <1>1
  <1> QED
    BY <1>1, <1>2 DEF Advance

\* The function inside Width: the column after each character.
Columns(s, col) ==
    /\ DOMAIN col = 0..Len(s)
    /\ col[0] = 0
    /\ \A i \in 1..Len(s) : col[i] = Advance(col[i - 1], s[i])

\* The columns are naturals.
LEMMA ColumnsAreNat ==
    ASSUME NEW s, Len(s) \in Nat, NEW col, Columns(s, col)
    PROVE  \A i \in 0..Len(s) : col[i] \in Nat
  <1> DEFINE Bad == {i \in 0..Len(s) : col[i] \notin Nat}
  <1>1. SUFFICES ASSUME Bad # {} PROVE FALSE
    OBVIOUS
  <1>2. Bad \subseteq Nat
    OBVIOUS
  <1>3. PICK k \in Bad : \A j \in Bad : k <= j
    BY <1>1, <1>2, LeastNatural
  <1>4. k # 0
    BY DEF Columns
  <1>5. k \in 1..Len(s) /\ k - 1 \in 0..Len(s) /\ k - 1 \notin Bad
    BY <1>3, <1>4
  <1>6. col[k - 1] \in Nat
    BY <1>5
  <1>7. col[k] = Advance(col[k - 1], s[k])
    BY <1>5 DEF Columns
  <1> QED
    BY <1>6, <1>7, AdvanceGrows

\* Two texts that begin with the same n characters have the same first columns.
LEMMA SameColumns ==
    ASSUME NEW s, NEW t, Len(s) \in Nat, Len(t) \in Nat,
           NEW n \in 0..Len(s), n <= Len(t),
           \A i \in 1..n : s[i] = t[i],
           NEW c, Columns(s, c), NEW d, Columns(t, d)
    PROVE  c[n] = d[n]
  <1> DEFINE Bad == {i \in 0..n : c[i] # d[i]}
  <1>1. SUFFICES ASSUME Bad # {} PROVE FALSE
    OBVIOUS
  <1>2. Bad \subseteq Nat
    OBVIOUS
  <1>3. PICK k \in Bad : \A j \in Bad : k <= j
    BY <1>1, <1>2, LeastNatural
  <1>4. k # 0
    BY DEF Columns
  <1>5. k \in 1..Len(s) /\ k \in 1..Len(t) /\ k \in 1..n
        /\ k - 1 \in 0..n /\ k - 1 \notin Bad
    BY <1>3, <1>4
  <1>6. c[k - 1] = d[k - 1] /\ s[k] = t[k]
    BY <1>5
  <1>7. c[k] = Advance(c[k - 1], s[k]) /\ d[k] = Advance(d[k - 1], t[k])
    BY <1>5 DEF Columns
  <1> QED
    BY <1>6, <1>7

\* Width has the columns that its definition describes.
LEMMA WidthColumns ==
    ASSUME NEW s, Len(s) \in Nat
    PROVE  \E col : Columns(s, col) /\ Width(s) = col[Len(s)]
  <1> DEFINE n == Len(s)
             Recursive(f) == f = [i \in 0..n |->
                                IF i = 0 THEN 0 ELSE Advance(f[i - 1], s[i])]
             col == CHOOSE f : Recursive(f)
             G == [i \in 1..n |-> [c \in Nat |-> Advance(c, s[i])]]
  <1>1. G \in [1..n -> [Nat -> Nat]]
    BY AdvanceGrows
  <1>2. PICK f : Recurses(f, n, Nat, 0, G)
    <2>1. n \in Nat /\ 0 \in Nat
      OBVIOUS
    <2> HIDE DEF G, n
    <2> QED
      BY <1>1, <2>1, RecursiveFunctionExists
  <1>3. \A i \in 1..n : f[i] = Advance(f[i - 1], s[i])
    <2> TAKE i \in 1..n
    <2>1. f[i - 1] \in Nat /\ f[i] = G[i][f[i - 1]]
      BY <1>2 DEF Recurses
    <2> QED
      BY <2>1
  <1> HIDE DEF G
  <1>4. Recursive(f)
    BY <1>2, <1>3 DEF Recurses
  <1>5. Recursive(col)
    BY <1>4
  <1>6. Width(s) = col[n]
    BY DEF Width
  <1> HIDE DEF col
  <1>7. Columns(s, col)
    BY <1>5 DEF Columns
  <1> QED
    BY <1>6, <1>7

\* Width, character by character: what the loop in sbuf_colno does.
LEMMA WidthOfPrefix ==
    ASSUME NEW s, Len(s) \in Nat, NEW n \in 0..Len(s)
    PROVE  /\ Width(SubSeq(s, 1, n)) \in Nat
           /\ n = 0 => Width(SubSeq(s, 1, n)) = 0
           /\ n # 0 => Width(SubSeq(s, 1, n))
                            = Advance(Width(SubSeq(s, 1, n - 1)), s[n])
  <1> DEFINE P(k) == SubSeq(s, 1, k)
  <1>1. \A k \in 0..n : Len(P(k)) = k /\ \A i \in 1..k : P(k)[i] = s[i]
    OBVIOUS
  <1> HIDE DEF P
  <1> SUFFICES /\ Width(P(n)) \in Nat
               /\ n = 0 => Width(P(n)) = 0
               /\ n # 0 => Width(P(n)) = Advance(Width(P(n - 1)), s[n])
    BY DEF P
  <1>2. PICK c : Columns(P(n), c) /\ Width(P(n)) = c[n]
    <2>1. Len(P(n)) \in Nat /\ Len(P(n)) = n
      BY <1>1
    <2>2. \E c : Columns(P(n), c) /\ Width(P(n)) = c[Len(P(n))]
      BY <2>1, WidthColumns
    <2> QED
      BY <2>1, <2>2
  <1>3. c[n] \in Nat
    BY <1>1, <1>2, ColumnsAreNat
  <1>4. CASE n = 0
    BY <1>1, <1>2, <1>3, <1>4 DEF Columns
  <1>5. CASE n # 0
    <2>1. n - 1 \in 0..n
      BY <1>5
    <2>2. PICK d : Columns(P(n - 1), d) /\ Width(P(n - 1)) = d[n - 1]
      <3>1. Len(P(n - 1)) \in Nat /\ Len(P(n - 1)) = n - 1
        BY <1>1, <2>1
      <3>2. \E d : Columns(P(n - 1), d) /\ Width(P(n - 1)) = d[Len(P(n - 1))]
        BY <3>1, WidthColumns
      <3> QED
        BY <3>1, <3>2
    <2>3. c[n - 1] = d[n - 1]
      <3>1. /\ Len(P(n)) = n /\ Len(P(n - 1)) = n - 1
            /\ \A i \in 1..n - 1 : P(n)[i] = P(n - 1)[i]
        BY <1>1, <2>1
      <3> DEFINE u == P(n)
                 v == P(n - 1)
                 k == n - 1
      <3>2. /\ k \in 0..Len(u) /\ k <= Len(v)
            /\ Len(u) \in Nat /\ Len(v) \in Nat
            /\ \A i \in 1..k : u[i] = v[i]
            /\ Columns(u, c) /\ Columns(v, d)
        BY <1>2, <2>2, <3>1, <2>1
      <3>3. c[k] = d[k]
        <4> HIDE DEF u, v, k
        <4> QED
          BY <3>2, SameColumns
      <3> QED
        BY <3>3
    <2>4. c[n] = Advance(c[n - 1], s[n])
      <3>1. n \in 1..Len(P(n)) /\ P(n)[n] = s[n]
        BY <1>1, <1>5
      <3> QED
        BY <1>2, <3>1 DEF Columns
    <2> QED
      BY <1>2, <1>3, <1>5, <2>2, <2>3, <2>4
  <1> QED
    BY <1>4, <1>5

\* Further right in the text is further right on the line.
LEMMA WidthGrows ==
    ASSUME NEW s, Len(s) \in Nat, NEW n \in 0..Len(s), NEW m \in 0..n, m < n
    PROVE  Width(SubSeq(s, 1, m)) < Width(SubSeq(s, 1, n))
  <1> DEFINE W(k) == Width(SubSeq(s, 1, k))
             Bad == {k \in m + 1..Len(s) : ~(W(m) < W(k))}
  <1>0. \A k \in 0..Len(s) :
            W(k) \in Nat /\ (k # 0 => W(k) = Advance(W(k - 1), s[k]))
    BY WidthOfPrefix
  <1>s. \A k \in 1..Len(s) : W(k - 1) < W(k)
    <2> TAKE k \in 1..Len(s)
    <2>1. W(k - 1) \in Nat /\ W(k) = Advance(W(k - 1), s[k])
      BY <1>0
    <2> HIDE DEF W
    <2> QED
      BY <2>1, AdvanceGrows
  <1> HIDE DEF W
  <1>1. SUFFICES ASSUME Bad # {} PROVE FALSE
    BY DEF W
  <1>2. Bad \subseteq Nat
    OBVIOUS
  <1>3. PICK k \in Bad : \A j \in Bad : k <= j
    BY <1>1, <1>2, LeastNatural
  <1>4. k \in 1..Len(s) /\ W(k - 1) < W(k)
        /\ W(m) \in Nat /\ W(k) \in Nat /\ W(k - 1) \in Nat
    BY <1>3, <1>0, <1>s
  <1>5. CASE k = m + 1
    BY <1>4, <1>5
  <1>6. CASE k # m + 1
    <2>1. k - 1 \notin Bad /\ k - 1 \in m + 1..Len(s)
      BY <1>3, <1>6
    <2> QED
      BY <2>1, <1>4
  <1> QED
    BY <1>5, <1>6

\* sbuf_boln stops at the beginning of the line.
LEMMA BolnStops ==
    ASSUME NEW t, NEW pos \in Nat
    PROVE  /\ Boln(t, pos) \in 0..pos
           /\ \A p \in Boln(t, pos) + 1..pos : t[p] # NL
  <1> DEFINE S == {p \in 0..pos : p = 0 \/ t[p] = NL}
  <1>1. S \subseteq 0..pos /\ 0 \in S
    OBVIOUS
  <1>2. Max(S) \in S /\ \A p \in S : p <= Max(S)
    BY <1>1, MaxIsGreatest
  <1>3. Boln(t, pos) = Max(S)
    BY DEF Boln
  <1> QED
    BY <1>2, <1>3

\* sbuf_eoln does not stop before a newline.
LEMMA EolnStops ==
    ASSUME NEW t \in Seq(Chars), NEW pos \in 0..Len(t)
    PROVE  /\ Eoln(t, pos) \in pos..Len(t)
           /\ \A q \in pos..Len(t) :
                (\A p \in pos..q - 1 : t[p + 1] # NL) => q <= Eoln(t, pos)
  <1> DEFINE S == {p \in pos..Len(t) : CharAt(t, p) \in {NL, EOF}}
             stop == Min(S)
  <1>1. S \subseteq Nat /\ Len(t) \in S
    BY DEF CharAt
  <1>2. stop \in S /\ \A p \in S : stop <= p
    <2> HIDE DEF S
    <2> QED
      BY <1>1, MinIsLeast
  <1>3. Eoln(t, pos) = IF stop = Len(t) THEN stop ELSE stop + 1
    BY DEF Eoln
  <1> HIDE DEF stop
  <1>4. stop \in pos..Len(t) /\ CharAt(t, stop) \in {NL, EOF}
    BY <1>2
  <1>5. stop # Len(t) => t[stop + 1] = NL
    <2> SUFFICES ASSUME stop # Len(t) PROVE t[stop + 1] = NL
      OBVIOUS
    <2>1. t[stop + 1] \in {NL, EOF}
      BY <1>4 DEF CharAt
    <2>2. t[stop + 1] \in Chars
      BY <1>4
    <2> QED
      BY <2>1, <2>2, EOFAssumption
  <1>6. ASSUME NEW q \in pos..Len(t), \A p \in pos..q - 1 : t[p + 1] # NL
        PROVE  q <= Eoln(t, pos)
    <2>1. ~(stop < q)
      <3> SUFFICES ASSUME stop < q PROVE FALSE
        OBVIOUS
      <3>1. stop \in pos..q - 1 /\ stop # Len(t)
        BY <1>4
      <3> QED
        BY <3>1, <1>5, <1>6
    <2> QED
      BY <2>1, <1>3, <1>4
  <1> QED
    BY <1>3, <1>4, <1>6

\* sbuf_colpos stops on the line, or at its end.
LEMMA ColposStops ==
    ASSUME NEW t, Len(t) \in Nat, NEW pos \in 0..Len(t), NEW col
    PROVE  Colpos(t, pos, col) \in pos..Len(t)
  <1> DEFINE S == {p \in pos..Len(t) :
                    \/ Width(SubSeq(t, pos + 1, p)) >= col
                    \/ CharAt(t, p) \in {NL, EOF}
                    \/ CharAt(t, p) = Tab
                        /\ Width(SubSeq(t, pos + 1, p + 1)) > col}
  <1>1. S \subseteq Nat /\ Len(t) \in S /\ S \subseteq pos..Len(t)
    BY DEF CharAt
  <1>2. Colpos(t, pos, col) = Min(S)
    BY DEF Colpos
  <1> HIDE DEF S
  <1>3. Min(S) \in S
    BY <1>1, MinIsLeast
  <1> QED
    BY <1>1, <1>2, <1>3

\* sbuf_colno returns a column.
LEMMA ColnoIsNat ==
    ASSUME NEW t \in Seq(Chars), NEW pos \in 0..Len(t)
    PROVE  Colno(t, pos) \in Nat
  <1> DEFINE s == SubSeq(t, Boln(t, pos) + 1, pos)
  <1>1. Boln(t, pos) \in 0..pos
    BY BolnStops
  <1>2. s \in Seq(Chars) /\ Len(s) \in Nat
    BY <1>1
  <1>3. SubSeq(s, 1, Len(s)) = s
    BY <1>2, SubSeqFull
  <1>4. Width(SubSeq(s, 1, Len(s))) \in Nat
    <2> HIDE DEF s
    <2> QED
      BY <1>2, WidthOfPrefix
  <1> QED
    BY <1>3, <1>4 DEF Colno

\* sbuf_colpos undoes sbuf_colno: at the column of a character of the line stands
\* that character, whatever tabs precede it.
LEMMA ColposUndoesColno ==
    ASSUME NEW t \in Seq(Chars), NEW pos \in 0..Len(t)
    PROVE  Colpos(t, Boln(t, pos), Colno(t, pos)) = pos
  <1> DEFINE b == Boln(t, pos)
             s == SubSeq(t, b + 1, Len(t))
             W(p) == Width(SubSeq(t, b + 1, p))
             col == Colno(t, pos)
             S == {p \in b..Len(t) :
                    \/ W(p) >= col
                    \/ CharAt(t, p) \in {NL, EOF}
                    \/ CharAt(t, p) = Tab /\ W(p + 1) > col}
  <1>1. b \in 0..pos /\ \A p \in b + 1..pos : t[p] # NL
    BY BolnStops
  <1>2. Len(s) = Len(t) - b /\ s \in Seq(Chars)
    BY <1>1
  <1>3. \A p \in b..Len(t) : SubSeq(t, b + 1, p) = SubSeq(s, 1, p - b)
    <2> TAKE p \in b..Len(t)
    <2> HIDE DEF b, s
    <2>0. b \in Nat /\ b <= p /\ p <= Len(t) /\ p - b \in 0..Len(s)
      BY <1>1, <1>2
    <2>1. /\ SubSeq(t, b + 1, p) \in Seq(Chars)
          /\ SubSeq(s, 1, p - b) \in Seq(Chars)
          /\ Len(SubSeq(t, b + 1, p)) = p - b
          /\ Len(SubSeq(s, 1, p - b)) = p - b
      <3>1. SubSeq(t, b + 1, p) \in Seq(Chars) /\ Len(SubSeq(t, b + 1, p)) = p - b
        BY <2>0
      <3>2. SubSeq(s, 1, p - b) \in Seq(Chars) /\ Len(SubSeq(s, 1, p - b)) = p - b
        BY <1>2, <2>0
      <3> QED
        BY <3>1, <3>2
    <2>2. ASSUME NEW i \in 1..p - b
          PROVE  SubSeq(t, b + 1, p)[i] = SubSeq(s, 1, p - b)[i]
      <3>1. i \in 1..Len(t) - b /\ b \in Nat
        BY <1>1
      <3>2. s[i] = t[b + i]
        BY <3>1 DEF s
      <3>3. SubSeq(t, b + 1, p)[i] = t[b + i]
        BY <2>0, <3>1
      <3>4. SubSeq(s, 1, p - b)[i] = s[i]
        BY <1>2, <2>0, <3>1
      <3> QED
        BY <3>2, <3>3, <3>4
    <2> QED
      BY <2>1, <2>2, SeqEqual
  <1>4. col = W(pos)
    BY DEF Colno
  <1>w. W(pos) \in Nat
    BY <1>4, ColnoIsNat
  <1>5. \A p \in b..pos : p < pos => W(p) \in Nat /\ W(p) < W(pos)
    <2> TAKE p \in b..pos
    <2> HAVE p < pos
    <2> HIDE DEF b, s
    <2>1. pos - b \in 0..Len(s) /\ p - b \in 0..pos - b /\ p - b < pos - b
      BY <1>1, <1>2
    <2>2. Width(SubSeq(s, 1, p - b)) < Width(SubSeq(s, 1, pos - b))
      BY <1>2, <2>1, WidthGrows
    <2>3. Width(SubSeq(s, 1, p - b)) \in Nat
      BY <1>2, <2>1, WidthOfPrefix
    <2>4. /\ W(p) = Width(SubSeq(s, 1, p - b))
          /\ W(pos) = Width(SubSeq(s, 1, pos - b))
      <3>1. p \in b..Len(t) /\ pos \in b..Len(t)
        BY <1>1
      <3> QED
        BY <3>1, <1>3
    <2> QED
      BY <2>2, <2>3, <2>4
  <1>6. pos \in S
    BY <1>1, <1>4, <1>w
  <1>7. \A p \in S : pos <= p
    <2> SUFFICES ASSUME NEW p \in S, p < pos PROVE FALSE
      BY <1>1
    <2>1. p \in b..pos /\ p + 1 \in b..pos /\ p # Len(t)
      BY <1>1
    <2>2. W(p) \in Nat /\ W(p) < W(pos) /\ W(p + 1) \in Nat /\ W(p + 1) <= W(pos)
      BY <2>1, <1>5, <1>w, <1>1
    <2>3. CharAt(t, p) = t[p + 1] /\ t[p + 1] # NL /\ t[p + 1] \in Chars
      BY <2>1, <1>1 DEF CharAt
    <2>4. CharAt(t, p) \notin {NL, EOF}
      BY <2>3, EOFAssumption
    <2>5. \/ W(p) >= col
          \/ CharAt(t, p) \in {NL, EOF}
          \/ CharAt(t, p) = Tab /\ W(p + 1) > col
      OBVIOUS
    <2> HIDE DEF W, col, b
    <2> QED
      BY <2>2, <2>4, <2>5, <1>4, <1>w
  <1>8. Colpos(t, b, col) = Min(S)
    BY DEF Colpos
  <1>9. S \subseteq Nat
    BY <1>1
  <1> HIDE DEF S
  <1>10. Min(S) \in S /\ \A p \in S : Min(S) <= p
    BY <1>6, <1>9, MinIsLeast
  <1>11. Min(S) = pos
    <2> DEFINE m == Min(S)
    <2>1. m \in Nat /\ m <= pos /\ pos <= m
      BY <1>6, <1>7, <1>9, <1>10
    <2>2. m = pos
      <3> HIDE DEF m
      <3> QED
        BY <2>1
    <2> QED
      BY <2>2
  <1> QED
    BY <1>8, <1>11

-----------------------------------------------------------------------------
\* Newlines.

\* The newlines of a text that is in two parts are those of its parts.
LEMMA NewlinesOfConcat ==
    ASSUME NEW s \in Seq(Chars), NEW u \in Seq(Chars)
    PROVE  /\ Newlines(s) \in Nat
           /\ Newlines(s \o u) = Newlines(s) + Newlines(u)
  <1> DEFINE N(t) == {i \in DOMAIN t : t[i] = NL}
             A == N(s)
             B == N(u)
             C == {i \in Len(s) + 1..Len(s) + Len(u) : (s \o u)[i] = NL}
             f == [i \in B |-> Len(s) + i]
  <1>1. \A t \in Seq(Chars) : IsFiniteSet(N(t))
    <2> TAKE t \in Seq(Chars)
    <2>1. IsFiniteSet(1..Len(t))
      BY FS_Interval
    <2>2. N(t) \in SUBSET (1..Len(t))
      OBVIOUS
    <2> QED
      BY <2>1, <2>2, FS_Subset
  <1>2. A \cup C = N(s \o u) /\ A \cap C = {}
    <2>1. DOMAIN (s \o u) = 1..Len(s) + Len(u) /\ DOMAIN s = 1..Len(s)
      OBVIOUS
    <2>2. \A i \in 1..Len(s) : (s \o u)[i] = s[i]
      OBVIOUS
    <2> QED
      BY <2>1, <2>2
  <1>3. f \in Bijection(B, C)
    <2>1. \A i \in B : i \in 1..Len(u) /\ (s \o u)[Len(s) + i] = u[i]
      OBVIOUS
    <2>2. f \in [B -> C]
      BY <2>1
    <2>3. \A i, j \in B : f[i] = f[j] => i = j
      BY <2>1
    <2>4. \A c \in C : \E i \in B : f[i] = c
      <3> TAKE c \in C
      <3>1. c - Len(s) \in 1..Len(u) /\ (s \o u)[c] = u[c - Len(s)]
        OBVIOUS
      <3>2. c - Len(s) \in B
        BY <3>1
      <3>3. f[c - Len(s)] = c
        BY <3>2
      <3> QED
        BY <3>2, <3>3
    <2> QED
      BY <2>2, <2>3, <2>4 DEF Bijection, Injection, Surjection, IsInjective
  <1>4. IsFiniteSet(C) /\ Cardinality(C) = Cardinality(B)
    <2>1. ExistsBijection(B, C)
      BY <1>3 DEF ExistsBijection
    <2>2. IsFiniteSet(B)
      BY <1>1
    <2> HIDE DEF B, C
    <2> QED
      BY <2>1, <2>2, FS_Bijection
  <1>5. Cardinality(A) \in Nat /\ Cardinality(C) \in Nat /\ IsFiniteSet(A)
    BY <1>1, <1>4, FS_CardinalityType
  <1>6. Cardinality(A \cup C) = Cardinality(A) + Cardinality(C)
    <2>1. Cardinality(A \cap C) = 0
      BY <1>2, FS_EmptySet
    <2>2. Cardinality(A \cup C)
                = Cardinality(A) + Cardinality(C) - Cardinality(A \cap C)
      BY <1>4, <1>5, FS_Union
    <2> HIDE DEF A, C
    <2> QED
      BY <2>1, <2>2, <1>5
  <1>7. /\ Newlines(s) = Cardinality(A) /\ Newlines(u) = Cardinality(B)
        /\ Newlines(s \o u) = Cardinality(N(s \o u))
    BY DEF Newlines
  <1> QED
    BY <1>2, <1>4, <1>5, <1>6, <1>7

\* An empty text has no newline.
LEMMA NewlinesOfEmpty == Newlines(<<>>) = 0
  <1>1. {i \in DOMAIN <<>> : <<>>[i] = NL} = {}
    OBVIOUS
  <1> QED
    BY <1>1, FS_EmptySet DEF Newlines

\* The line number of a position is a natural, and that of a position further on
\* counts the newlines between the two.
LEMMA LineOfLater ==
    ASSUME NEW t \in Seq(Chars), NEW p \in 0..Len(t), NEW q \in p..Len(t)
    PROVE  /\ LineOf(t, p) \in Nat
           /\ Newlines(SubSeq(t, p + 1, q)) \in Nat
           /\ LineOf(t, q) = LineOf(t, p) + Newlines(SubSeq(t, p + 1, q))
  <1>1. /\ SubSeq(t, 1, p) \in Seq(Chars)
        /\ SubSeq(t, p + 1, q) \in Seq(Chars)
    OBVIOUS
  <1>2. SubSeq(t, 1, q) = SubSeq(t, 1, p) \o SubSeq(t, p + 1, q)
    BY ConcatAdjacentSubSeq
  <1> QED
    BY <1>1, <1>2, NewlinesOfConcat DEF LineOf

\* Cell by cell, u is a, then b, then c.
Parts(u, a, b, c) ==
    /\ Len(u) = Len(a) + Len(b) + Len(c)
    /\ \A i \in 1..Len(u) :
        u[i] = IF i <= Len(a) THEN a[i]
               ELSE IF i <= Len(a) + Len(b) THEN b[i - Len(a)]
               ELSE c[i - (Len(a) + Len(b))]

\* A concatenation has its parts.
LEMMA ConcatHasParts ==
    ASSUME NEW S, NEW a \in Seq(S), NEW b \in Seq(S), NEW c \in Seq(S)
    PROVE  (a \o b) \o c \in Seq(S) /\ Parts((a \o b) \o c, a, b, c)
  <1>1. /\ a \o b \in Seq(S) /\ Len(a \o b) = Len(a) + Len(b)
        /\ \A i \in 1..Len(a) + Len(b) :
              (a \o b)[i] = IF i <= Len(a) THEN a[i] ELSE b[i - Len(a)]
    BY ConcatProperties
  <1>2. PICK d : d = a \o b
    OBVIOUS
  <1>3. d \in Seq(S)
    BY <1>1, <1>2
  <1>4. /\ d \o c \in Seq(S) /\ Len(d \o c) = Len(d) + Len(c)
        /\ \A i \in 1..Len(d) + Len(c) :
              (d \o c)[i] = IF i <= Len(d) THEN d[i] ELSE c[i - Len(d)]
    BY <1>3, ConcatProperties
  <1>5. PICK u : u = d \o c
    OBVIOUS
  <1>6. u \in Seq(S) /\ Parts(u, a, b, c)
    <2>1. Len(a) \in Nat /\ Len(b) \in Nat /\ Len(c) \in Nat
      OBVIOUS
    <2>2. /\ Len(d) = Len(a) + Len(b)
          /\ \A i \in 1..Len(a) + Len(b) :
                d[i] = IF i <= Len(a) THEN a[i] ELSE b[i - Len(a)]
      BY <1>1, <1>2
    <2>3. /\ u \in Seq(S) /\ Len(u) = Len(d) + Len(c)
          /\ \A i \in 1..Len(d) + Len(c) :
                u[i] = IF i <= Len(d) THEN d[i] ELSE c[i - Len(d)]
      BY <1>4, <1>5
    <2> QED
      BY <2>1, <2>2, <2>3 DEF Parts
  <1> QED
    BY <1>2, <1>5, <1>6

\* The parts determine the sequence.
LEMMA PartsDetermine ==
    ASSUME NEW S, NEW a \in Seq(S), NEW b \in Seq(S), NEW c \in Seq(S),
           NEW u \in Seq(S), NEW v \in Seq(S),
           Parts(u, a, b, c), Parts(v, a, b, c)
    PROVE  u = v
  BY SeqEqual DEF Parts

\* Cell by cell, u is t with len elements at pos replaced by new.
Spliced(u, t, pos, len, new) ==
    /\ Len(u) = Len(t) - len + Len(new)
    /\ \A i \in 1..Len(u) :
        u[i] = IF i <= pos THEN t[i]
               ELSE IF i <= pos + Len(new) THEN new[i - pos]
               ELSE t[i - Len(new) + len]

\* So is a splice within the text.
LEMMA SpliceIsSpliced ==
    ASSUME NEW t \in Seq(Chars), NEW new \in Seq(Chars),
           NEW pos \in Nat, NEW len \in Nat, pos + len <= Len(t)
    PROVE  /\ Splice(t, pos, len, new) \in Seq(Chars)
           /\ Spliced(Splice(t, pos, len, new), t, pos, len, new)
  <1>1. PICK a, b : /\ a = SubSeq(t, 1, pos)
                    /\ b = SubSeq(t, pos + len + 1, Len(t))
    OBVIOUS
  <1>2. /\ a \in Seq(Chars) /\ Len(a) = pos
        /\ b \in Seq(Chars) /\ Len(b) = Len(t) - (pos + len)
        /\ \A i \in 1..pos : a[i] = t[i]
        /\ \A i \in 1..Len(b) : b[i] = t[i + pos + len]
    BY <1>1
  <1>3. Splice(t, pos, len, new) = (a \o new) \o b
    BY <1>1 DEF Splice
  <1>4. PICK u : u = (a \o new) \o b
    OBVIOUS
  <1>5. u \in Seq(Chars) /\ Parts(u, a, new, b)
    BY <1>2, <1>4, ConcatHasParts
  <1>6. Len(new) \in Nat /\ Len(t) \in Nat
    OBVIOUS
  <1>7. Spliced(u, t, pos, len, new)
    <2>1. Len(u) = Len(t) - len + Len(new)
      BY <1>2, <1>5, <1>6 DEF Parts
    <2>2. ASSUME NEW i \in 1..Len(u), i > pos + Len(new)
          PROVE  u[i] = t[i - Len(new) + len]
      <3>1. u[i] = b[i - (pos + Len(new))]
        BY <1>2, <1>5, <1>6, <2>2 DEF Parts
      <3>2. PICK j : j = i - (pos + Len(new))
        OBVIOUS
      <3>3. j \in 1..Len(b) /\ j + pos + len = i - Len(new) + len
        BY <1>2, <1>6, <2>1, <2>2, <3>2
      <3> QED
        BY <1>2, <3>1, <3>2, <3>3
    <2>3. \A i \in 1..Len(u) :
                /\ i <= pos => u[i] = t[i]
                /\ i > pos /\ i <= pos + Len(new) => u[i] = new[i - pos]
      BY <1>2, <1>5, <1>6 DEF Parts
    <2> QED
      BY <2>1, <2>2, <2>3, <1>6 DEF Spliced
  <1> QED
    BY <1>3, <1>4, <1>5, <1>7

\* u and t are the same up to pos.
SamePrefixes(u, t, pos) == \A p \in 0..pos : SubSeq(u, 1, p) = SubSeq(t, 1, p)

\* Further on, u is t with len elements at pos replaced by new.
LaterPrefixes(u, t, pos, len, new) ==
    \A p \in pos + len..Len(t) :
        SubSeq(u, 1, p - len + Len(new))
            = (SubSeq(t, 1, pos) \o new) \o SubSeq(t, pos + len + 1, p)

\* The beginnings of a text after a splice: those that end before it, and those
\* that end behind it.
LEMMA SplicePrefixes ==
    ASSUME NEW t \in Seq(Chars), NEW new \in Seq(Chars),
           NEW pos \in Nat, NEW len \in Nat, pos + len <= Len(t),
           NEW u, u = Splice(t, pos, len, new)
    PROVE  SamePrefixes(u, t, pos) /\ LaterPrefixes(u, t, pos, len, new)
  <1>1. u \in Seq(Chars) /\ Spliced(u, t, pos, len, new)
    BY SpliceIsSpliced
  <1>2. Len(new) \in Nat /\ Len(t) \in Nat /\ Len(u) \in Nat
    BY <1>1
  <1>3. ASSUME NEW p \in 0..pos
        PROVE  SubSeq(u, 1, p) = SubSeq(t, 1, p)
    <2>1. p \in 0..Len(u) /\ p \in 0..Len(t)
      BY <1>1, <1>2 DEF Spliced
    <2>2. /\ SubSeq(u, 1, p) \in Seq(Chars) /\ Len(SubSeq(u, 1, p)) = p
          /\ \A i \in 1..p : SubSeq(u, 1, p)[i] = u[i]
      <3>1. u \in Seq(Chars)
        BY <1>1
      <3> QED
        BY <2>1, <3>1
    <2>3. /\ SubSeq(t, 1, p) \in Seq(Chars) /\ Len(SubSeq(t, 1, p)) = p
          /\ \A i \in 1..p : SubSeq(t, 1, p)[i] = t[i]
      BY <2>1
    <2>4. \A i \in 1..p : u[i] = t[i]
      <3>1. \A i \in 1..p : i \in 1..Len(u) /\ i <= pos
        BY <2>1
      <3> QED
        BY <1>1, <3>1 DEF Spliced
    <2> QED
      BY <2>2, <2>3, <2>4, SeqEqual
  <1>4. ASSUME NEW p \in pos + len..Len(t)
        PROVE  SubSeq(u, 1, p - len + Len(new))
                    = (SubSeq(t, 1, pos) \o new) \o SubSeq(t, pos + len + 1, p)
    <2>1. PICK a, c, n, v :
                /\ a = SubSeq(t, 1, pos)
                /\ c = SubSeq(t, pos + len + 1, p)
                /\ n = p - len + Len(new)
                /\ v = SubSeq(u, 1, n)
      OBVIOUS
    <2>2. /\ a \in Seq(Chars) /\ Len(a) = pos
          /\ c \in Seq(Chars) /\ Len(c) = p - (pos + len)
          /\ \A i \in 1..pos : a[i] = t[i]
          /\ \A i \in 1..p - (pos + len) : c[i] = t[i + pos + len]
      <3>1. /\ a \in Seq(Chars) /\ Len(a) = pos
            /\ \A i \in 1..pos : a[i] = t[i]
        BY <2>1
      <3>2. PICK e \in Nat : e = pos + len /\ e <= p /\ p <= Len(t)
        OBVIOUS
      <3>3. /\ c \in Seq(Chars) /\ Len(c) = p - e
            /\ \A i \in 1..p - e : c[i] = t[i + e]
        BY <2>1, <3>2
      <3>4. \A i \in 1..p - e : i + e = i + pos + len
        BY <3>2
      <3> QED
        BY <3>1, <3>2, <3>3, <3>4
    <2>3. n \in Nat /\ n <= Len(u) /\ n = pos + Len(new) + (p - (pos + len))
      BY <2>1, <1>1, <1>2 DEF Spliced
    <2>4. /\ v \in Seq(Chars) /\ Len(v) = n
          /\ \A i \in 1..n : v[i] = u[i]
      <3>1. u \in Seq(Chars) /\ n \in 0..Len(u)
        BY <2>3, <1>1, <1>2
      <3>2. v \in Seq(Chars) /\ Len(v) = n
        BY <2>1, <3>1
      <3>3. \A i \in 1..n : v[i] = u[i]
        BY <2>1, <3>1
      <3> QED
        BY <3>2, <3>3
    <2>5. Parts(v, a, new, c)
      <3>1. ASSUME NEW i \in 1..n, i > pos + Len(new)
            PROVE  v[i] = c[i - (pos + Len(new))]
        <4>0. /\ i \in 1..Len(u) /\ v[i] = u[i]
              /\ ~(i <= pos) /\ ~(i <= pos + Len(new))
          BY <2>3, <2>4, <3>1, <1>2
        <4>1. v[i] = t[i - Len(new) + len]
          BY <4>0, <1>1 DEF Spliced
        <4>2. PICK j : j = i - (pos + Len(new))
          OBVIOUS
        <4>3. j \in 1..p - (pos + len) /\ j + pos + len = i - Len(new) + len
          BY <2>3, <3>1, <4>2, <1>2
        <4> QED
          BY <2>2, <4>1, <4>2, <4>3
      <3>2. \A i \in 1..n :
                /\ i <= pos => v[i] = a[i]
                /\ i > pos /\ i <= pos + Len(new) => v[i] = new[i - pos]
        <4> TAKE i \in 1..n
        <4>1. i \in 1..Len(u) /\ v[i] = u[i]
          BY <2>3, <2>4, <1>2
        <4>2. /\ i <= pos => u[i] = t[i]
              /\ i > pos /\ i <= pos + Len(new) => u[i] = new[i - pos]
          BY <4>1, <1>1, <1>2 DEF Spliced
        <4>3. i <= pos => a[i] = t[i]
          BY <2>2
        <4> QED
          BY <4>1, <4>2, <4>3
      <3>3. Len(v) = Len(a) + Len(new) + Len(c) /\ Len(v) = n /\ Len(a) = pos
        BY <2>2, <2>3, <2>4
      <3>4. ASSUME NEW i \in 1..Len(v)
            PROVE  v[i] = IF i <= Len(a) THEN a[i]
                          ELSE IF i <= Len(a) + Len(new) THEN new[i - Len(a)]
                          ELSE c[i - (Len(a) + Len(new))]
        <4>1. i \in 1..n /\ i \in Int /\ pos \in Int /\ Len(new) \in Int
          BY <3>3, <1>2
        <4>2. i > pos + Len(new) => v[i] = c[i - (pos + Len(new))]
          BY <3>1, <4>1
        <4>3. /\ i <= pos => v[i] = a[i]
              /\ i > pos /\ i <= pos + Len(new) => v[i] = new[i - pos]
          BY <3>2, <4>1
        <4> QED
          BY <3>3, <4>1, <4>2, <4>3
      <3> QED
        BY <3>3, <3>4 DEF Parts
    <2>6. (a \o new) \o c \in Seq(Chars) /\ Parts((a \o new) \o c, a, new, c)
      BY <2>2, ConcatHasParts
    <2>7. v = (a \o new) \o c
      BY <2>2, <2>4, <2>5, <2>6, PartsDetermine
    <2> QED
      BY <2>1, <2>7
  <1> QED
    BY <1>3, <1>4 DEF SamePrefixes, LaterPrefixes

\* The line numbers before a splice stay; those behind it change by the newlines
\* that came and went.
LEMMA LineOfSplice ==
    ASSUME NEW t \in Seq(Chars), NEW new \in Seq(Chars),
           NEW pos \in Nat, NEW len \in Nat, pos + len <= Len(t),
           NEW u, u = Splice(t, pos, len, new)
    PROVE  /\ \A p \in 0..pos : LineOf(u, p) = LineOf(t, p)
           /\ \A p \in pos + len..Len(t) :
                LineOf(u, p - len + Len(new))
                    = LineOf(t, p) + (Newlines(new)
                            - Newlines(SubSeq(t, pos + 1, pos + len)))
  <1> DEFINE gone == SubSeq(t, pos + 1, pos + len)
  <1>1. SamePrefixes(u, t, pos) /\ LaterPrefixes(u, t, pos, len, new)
    BY SplicePrefixes
  <1>2. ASSUME NEW p \in pos + len..Len(t)
        PROVE  LineOf(u, p - len + Len(new))
                    = LineOf(t, p) + (Newlines(new) - Newlines(gone))
    <2> DEFINE a == SubSeq(t, 1, pos)
               c == SubSeq(t, pos + len + 1, p)
    <2>1. a \in Seq(Chars) /\ c \in Seq(Chars) /\ gone \in Seq(Chars)
      OBVIOUS
    <2>2. SubSeq(u, 1, p - len + Len(new)) = (a \o new) \o c
      BY <1>1 DEF LaterPrefixes
    <2>3. pos \in 0..Len(t) /\ pos + len \in pos..Len(t)
          /\ pos + len \in 0..Len(t) /\ p \in pos + len..Len(t)
      OBVIOUS
    <2>4. LineOf(t, pos + len) = LineOf(t, pos) + Newlines(gone)
          /\ LineOf(t, pos) \in Nat /\ Newlines(gone) \in Nat
      BY <2>3, LineOfLater
    <2>5. LineOf(t, p) = LineOf(t, pos + len) + Newlines(c) /\ Newlines(c) \in Nat
      BY <2>3, LineOfLater
    <2> HIDE DEF c, gone
    <2>6. Newlines((a \o new) \o c) = Newlines(a) + Newlines(new) + Newlines(c)
          /\ Newlines(a) \in Nat /\ Newlines(new) \in Nat
      <3> HIDE DEF a
      <3>1. a \o new \in Seq(Chars)
        BY <2>1
      <3> QED
        BY <2>1, <3>1, NewlinesOfConcat
    <2>7. LineOf(t, pos) = Newlines(a)
      BY DEF LineOf
    <2>8. LineOf(u, p - len + Len(new)) = Newlines((a \o new) \o c)
      BY <2>2 DEF LineOf
    <2> HIDE DEF a
    <2> QED
      BY <2>4, <2>5, <2>6, <2>7, <2>8
  <1>3. \A p \in 0..pos : LineOf(u, p) = LineOf(t, p)
    BY <1>1 DEF LineOf, SamePrefixes
  <1> QED
    BY <1>2, <1>3

-----------------------------------------------------------------------------
\* Taking the elements of a set of positions one by one, in order.

\* The elements of P up to x, and those beyond it.
UpTo(P, x)   == {p \in P : p <= x}
Beyond(P, x) == {p \in P : p > x}

\* f[i] is the next element of P after f[i - 1].
Enumerates(f, P) ==
    f = [i \in 0..Cardinality(P) |->
            IF i = 0 THEN -1 ELSE Min({p \in P : p > f[i - 1]})]

\* There is such a function.
LEMMA EnumerationExists ==
    ASSUME NEW P, P \subseteq Nat, IsFiniteSet(P)
    PROVE  \E f : Enumerates(f, P)
  <1> DEFINE n == Cardinality(P)
             T == {-1} \cup P \cup {Min({})}
             G == [i \in 1..n |-> [x \in T |-> Min(Beyond(P, x))]]
  <1>1. \A x \in T : Min(Beyond(P, x)) \in T
    <2> TAKE x \in T
    <2>1. Beyond(P, x) \subseteq Nat /\ Beyond(P, x) \subseteq P
      BY DEF Beyond
    <2>2. CASE Beyond(P, x) = {}
      BY <2>2
    <2>3. CASE Beyond(P, x) # {}
      <3>1. Min(Beyond(P, x)) \in Beyond(P, x)
        BY <2>1, <2>3, MinIsLeast
      <3> QED
        BY <2>1, <3>1
    <2> QED
      BY <2>2, <2>3
  <1>2. n \in Nat
    BY FS_CardinalityType
  <1> HIDE DEF T, n
  <1>3. G \in [1..n -> [T -> T]]
    BY <1>1
  <1>4. -1 \in T
    BY DEF T
  <1>5. PICK f : Recurses(f, n, T, -1, G)
    <2> HIDE DEF G
    <2> QED
      BY <1>2, <1>3, <1>4, RecursiveFunctionExists
  <1>6. f \in [0..n -> T] /\ f[0] = -1
    BY <1>5 DEF Recurses
  <1>7. \A i \in 1..n : f[i] = Min(Beyond(P, f[i - 1]))
    <2> TAKE i \in 1..n
    <2>1. f[i] = G[i][f[i - 1]] /\ f[i - 1] \in T
      <3>1. i - 1 \in 0..n
        BY <1>2
      <3> HIDE DEF G
      <3> QED
        BY <1>5, <1>6, <3>1 DEF Recurses
    <2> QED
      BY <2>1
  <1> HIDE DEF G
  <1>8. f = [i \in 0..n |-> IF i = 0 THEN -1 ELSE Min(Beyond(P, f[i - 1]))]
    BY <1>2, <1>6, <1>7
  <1> QED
    BY <1>8 DEF n, Beyond, Enumerates

\* One step of it: behind x, which leaves elements, is one more of them.
LEMMA EnumerationStep ==
    ASSUME NEW P, P \subseteq Nat, IsFiniteSet(P), NEW x \in Int,
           Cardinality(UpTo(P, x)) < Cardinality(P),
           NEW y, y = Min(Beyond(P, x))
    PROVE  y \in P /\ Cardinality(UpTo(P, y)) = Cardinality(UpTo(P, x)) + 1
  <1>1. PICK U, V, W : U = UpTo(P, x) /\ V = Beyond(P, x) /\ W = UpTo(P, y)
    OBVIOUS
  <1>2. /\ \A p : p \in U <=> p \in P /\ p <= x
        /\ \A p : p \in V <=> p \in P /\ p > x
        /\ \A p : p \in W <=> p \in P /\ p <= y
    BY <1>1 DEF UpTo, Beyond
  <1>3. IsFiniteSet(U) /\ Cardinality(U) \in Nat
    <2>1. U \in SUBSET P
      BY <1>2
    <2> QED
      BY <2>1, FS_Subset, FS_CardinalityType
  <1>4. V # {} /\ V \subseteq Nat
    <2>1. U # P
      <3>1. Cardinality(U) < Cardinality(P)
        BY <1>1
      <3>2. PICK c \in Nat : c = Cardinality(U)
        BY <1>3
      <3> QED
        BY <3>1, <3>2
    <2>2. PICK z \in P : z \notin U
      BY <1>2, <2>1
    <2>3. z \in Nat
      OBVIOUS
    <2>4. z \in V
      BY <1>2, <2>2, <2>3
    <2> QED
      BY <1>2, <2>4
  <1>5. y \in V /\ \A p \in V : y <= p
    BY <1>1, <1>4, MinIsLeast
  <1>6. y \in P /\ y \in Int /\ y > x
    <2>1. y \in P /\ y > x
      BY <1>2, <1>5
    <2>2. PICK p \in P : p = y
      BY <2>1
    <2> QED
      BY <2>1, <2>2
  <1>7. W = U \cup {y} /\ y \notin U
    <2>1. \A p \in P : p <= y <=> p <= x \/ p = y
      <3> TAKE p \in P
      <3>1. p \in Int /\ (p > x => y <= p)
        BY <1>2, <1>5
      <3> QED
        BY <3>1, <1>6
    <2>2. \A p : p \in W <=> p \in U \/ p = y
      BY <2>1, <1>2, <1>6
    <2> QED
      BY <2>2, <1>2, <1>6
  <1>8. Cardinality(U \cup {y}) = Cardinality(U) + 1
    BY <1>3, <1>7, FS_AddElement
  <1>9. Cardinality(W) = Cardinality(U) + 1
    BY <1>7, <1>8
  <1> QED
    BY <1>1, <1>6, <1>9

\* It never runs out of elements, and takes no others; the element it takes in
\* step i has i elements up to itself.
LEMMA EnumerationStays ==
    ASSUME NEW P, P \subseteq Nat, IsFiniteSet(P), NEW f, Enumerates(f, P)
    PROVE  \A i \in 1..Cardinality(P) :
                f[i] \in P /\ Cardinality(UpTo(P, f[i])) = i
  <1> DEFINE Good(i) == /\ i # 0 => f[i] \in P
                        /\ Cardinality(UpTo(P, f[i])) = i
  <1>1. PICK n \in Nat : n = Cardinality(P)
    BY FS_CardinalityType
  <1>2. f = [i \in 0..n |-> IF i = 0 THEN -1 ELSE Min(Beyond(P, f[i - 1]))]
    BY <1>1 DEF Enumerates, Beyond
  <1>3. f[0] = -1 /\ \A i \in 1..n : f[i] = Min(Beyond(P, f[i - 1]))
    <2>1. 0 \in 0..n
      OBVIOUS
    <2>2. f[0] = -1
      BY <1>2, <2>1
    <2>3. \A i \in 1..n : i \in 0..n /\ i # 0
      OBVIOUS
    <2>4. \A i \in 1..n : f[i] = Min(Beyond(P, f[i - 1]))
      BY <1>2, <2>3
    <2> QED
      BY <2>2, <2>4
  <1>4. Good(0)
    <2>1. \A p \in P : ~(p <= -1)
      OBVIOUS
    <2>2. UpTo(P, -1) = {}
      BY <2>1 DEF UpTo
    <2>3. UpTo(P, f[0]) = {}
      BY <1>3, <2>2
    <2> QED
      BY <2>3, FS_EmptySet
  <1>5. ASSUME NEW k \in 1..n, Good(k - 1)
        PROVE  Good(k)
    <2>1. f[k - 1] \in Int
      <3>1. CASE k - 1 = 0
        BY <3>1, <1>3
      <3>2. CASE k - 1 # 0
        <4>1. PICK p \in P : p = f[k - 1]
          BY <1>5, <3>2
        <4> QED
          BY <4>1
      <3> QED
        BY <3>1, <3>2
    <2>2. PICK x \in Int : x = f[k - 1]
      BY <2>1
    <2>3. Cardinality(UpTo(P, x)) = k - 1
      BY <1>5, <2>2
    <2>4. Cardinality(UpTo(P, x)) < Cardinality(P)
      BY <1>1, <2>3
    <2>5. PICK y : y = f[k]
      OBVIOUS
    <2>6. y = Min(Beyond(P, x))
      BY <1>3, <2>2, <2>5
    <2>7. y \in P /\ Cardinality(UpTo(P, y)) = Cardinality(UpTo(P, x)) + 1
      BY <2>4, <2>6, EnumerationStep
    <2> QED
      BY <2>3, <2>5, <2>7
  <1> HIDE DEF Good
  <1>6. \A k \in 0..n : Good(k)
    <2> DEFINE Bad == {i \in 0..n : ~Good(i)}
    <2>1. SUFFICES ASSUME Bad # {} PROVE FALSE
      OBVIOUS
    <2>2. Bad \subseteq Nat
      OBVIOUS
    <2>3. PICK k \in Bad : \A j \in Bad : k <= j
      BY <2>1, <2>2, LeastNatural
    <2>4. k # 0
      BY <1>4
    <2>5. k \in 1..n /\ Good(k - 1) /\ ~Good(k)
      BY <2>3, <2>4
    <2> QED
      BY <2>5, <1>5
  <1>7. \A k \in 1..n : f[k] \in P /\ Cardinality(UpTo(P, f[k])) = k
    <2> TAKE k \in 1..n
    <2>1. Good(k) /\ k # 0
      BY <1>6
    <2> QED
      BY <2>1 DEF Good
  <1> QED
    BY <1>1, <1>7

\* The characters at the positions of P, in order: what sbuf_strat copies.
LEMMA EnumeratedText ==
    ASSUME NEW t \in Seq(Chars), NEW P, P \subseteq 0..Len(t) - 1,
           NEW nth, Enumerates(nth, P)
    PROVE  /\ Cardinality(P) \in Nat
           /\ [i \in 1..Cardinality(P) |-> t[nth[i] + 1]] \in Seq(Chars)
           /\ Len([i \in 1..Cardinality(P) |-> t[nth[i] + 1]]) = Cardinality(P)
  <1>1. IsFiniteSet(P) /\ P \subseteq Nat
    <2>1. IsFiniteSet(0..Len(t) - 1)
      BY FS_Interval
    <2>2. P \subseteq Nat
      OBVIOUS
    <2>3. PICK R : R = 0..Len(t) - 1
      OBVIOUS
    <2>4. IsFiniteSet(R) /\ P \in SUBSET R
      BY <2>1, <2>3
    <2>5. IsFiniteSet(P)
      BY <2>4, FS_Subset
    <2> QED
      BY <2>2, <2>5
  <1>2. PICK n \in Nat : n = Cardinality(P)
    BY <1>1, FS_CardinalityType
  <1>3. \A i \in 1..n : nth[i] \in P
    BY <1>1, <1>2, EnumerationStays
  <1>4. \A i \in 1..n : t[nth[i] + 1] \in Chars
    <2> TAKE i \in 1..n
    <2>1. PICK p \in 0..Len(t) - 1 : p = nth[i]
      BY <1>3
    <2>2. t[p + 1] \in Chars
      OBVIOUS
    <2> QED
      BY <2>1, <2>2
  <1>5. /\ [i \in 1..n |-> t[nth[i] + 1]] \in Seq(Chars)
        /\ Len([i \in 1..n |-> t[nth[i] + 1]]) = n
    BY <1>4
  <1> QED
    BY <1>2, <1>5

\* The columns a mark takes are within it.
LEMMA InColumnsWithin ==
    ASSUME NEW t \in Seq(Chars), NEW begin \in Nat, NEW len \in Nat,
           begin + len <= Len(t)
    PROVE  InColumns(t, begin, len) \subseteq 0..Len(t) - 1
  BY DEF InColumns

-----------------------------------------------------------------------------
\* The lines that insert_columnar_text takes from its text, and searching.

\* The first line of s is a beginning of s without a newline in it.
LEMMA LineLengthStops ==
    ASSUME NEW s \in Seq(Chars)
    PROVE  /\ LineLength(s) \in 0..Len(s)
           /\ \A i \in 1..LineLength(s) : s[i] # NL
  <1> DEFINE S == {i \in 0..Len(s) : i = Len(s) \/ s[i + 1] = NL}
  <1>1. S \subseteq Nat /\ Len(s) \in S
    OBVIOUS
  <1>2. LineLength(s) = Min(S)
    BY DEF LineLength
  <1>3. Min(S) \in S /\ \A i \in S : Min(S) <= i
    <2> HIDE DEF S
    <2> QED
      BY <1>1, MinIsLeast
  <1>4. PICK n \in S : n = Min(S)
    BY <1>3
  <1>5. \A i \in 1..n : s[i] # NL
    <2> TAKE i \in 1..n
    <2>1. i - 1 \in 0..Len(s) /\ ~(n <= i - 1)
      BY <1>4
    <2>2. i - 1 \notin S
      BY <2>1, <1>3, <1>4
    <2> QED
      BY <2>1, <2>2
  <1> QED
    BY <1>2, <1>4, <1>5

\* What is left after the first line is again a text.
LEMMA NextLineIsText ==
    ASSUME NEW s \in Seq(Chars)
    PROVE  NextLine(s) \in Seq(Chars)
  <1>1. PICK n \in 0..Len(s) : n = LineLength(s)
    BY LineLengthStops
  <1>2. \A i \in n + 2..Len(s) : s[i] \in Chars
    OBVIOUS
  <1>3. SubSeq(s, n + 2, Len(s)) \in Seq(Chars)
    BY <1>2
  <1> QED
    BY <1>1, <1>3 DEF NextLine

\* A padded line fills the column and has no newline.
LEMMA PadIsLine ==
    ASSUME NEW s \in Seq(Chars), NEW n \in 0..Len(s), NEW w \in Nat,
           \A i \in 1..n : s[i] # NL
    PROVE  /\ Pad(s, n, w) \in Seq(Chars) /\ Len(Pad(s, n, w)) = w
           /\ \A i \in 1..w : Pad(s, n, w)[i] # NL
  <1>1. Blank # NL /\ Blank \in Chars
    BY NLAssumption DEF Chars
  <1>2. \A i \in 1..w : (IF i <= n THEN s[i] ELSE Blank) \in Chars \ {NL}
    <2> TAKE i \in 1..w
    <2>1. CASE i <= n
      <3>1. i \in 1..n /\ i \in 1..Len(s)
        BY <2>1
      <3> QED
        BY <2>1, <3>1
    <2>2. CASE ~(i <= n)
      BY <1>1, <2>2
    <2> QED
      BY <2>1, <2>2
  <1>3. PICK u : u = [i \in 1..w |-> IF i <= n THEN s[i] ELSE Blank]
    OBVIOUS
  <1>4. u \in Seq(Chars) /\ Len(u) = w /\ \A i \in 1..w : u[i] # NL
    BY <1>2, <1>3
  <1> QED
    BY <1>3, <1>4 DEF Pad

\* The width of a text is a natural.
LEMMA StringWidthIsNat ==
    ASSUME NEW s \in Seq(Chars)
    PROVE  StringWidth(s) \in Nat
  <1> DEFINE S == {0} \cup {n \in 0..Len(s) :
                    \E i \in 0..Len(s) - n :
                        /\ i + n < Len(s) /\ s[i + n + 1] = NL
                        /\ \A k \in i + 1..i + n : s[k] # NL}
  <1>1. S \subseteq 0..Len(s) /\ 0 \in S /\ Len(s) \in Nat
    OBVIOUS
  <1>2. StringWidth(s) = Max(S)
    BY DEF StringWidth
  <1> HIDE DEF S
  <1>3. Max(S) \in S
    BY <1>1, MaxIsGreatest
  <1>4. PICK n \in 0..Len(s) : n = Max(S)
    BY <1>1, <1>3
  <1> QED
    BY <1>2, <1>4

\* A match lies within the mark that was searched.
LEMMA MatchesWithin ==
    ASSUME NEW t \in Seq(Chars), NEW m, m.begin \in Nat, m.len \in Nat,
           NEW pat \in Seq(Chars), NEW found, found = Matches(t, m, pat),
           found # {}
    PROVE  /\ Min(found) \in Nat /\ Min(found) + Len(pat) <= m.begin + m.len
           /\ Max(found) \in Nat /\ Max(found) + Len(pat) <= m.begin + m.len
  <1>1. PICK b \in Nat, l \in Nat : b = m.begin /\ l = m.len
    OBVIOUS
  <1>2. PICK e \in Nat : e = b + l
    OBVIOUS
  <1>3. \A p \in found : p \in 0..e /\ p + Len(pat) <= e
    <2>1. PICK c \in Nat : c = Len(pat)
      OBVIOUS
    <2>2. \A p \in found : p \in b..e - c
      BY <1>1, <1>2, <2>1 DEF Matches
    <2>3. \A p \in b..e - c : p \in 0..e /\ p + c <= e
      OBVIOUS
    <2> QED
      BY <2>1, <2>2, <2>3
  <1>4. found \subseteq Nat /\ found \subseteq 0..e
    BY <1>3
  <1>5. Min(found) \in found /\ Max(found) \in found
    BY <1>4, MinIsLeast, MaxIsGreatest
  <1> QED
    BY <1>1, <1>2, <1>3, <1>5

\* The loops over the text stop at the same characters when others change.
LEMMA SameNewlines ==
    ASSUME NEW t \in Seq(Chars), NEW u \in Seq(Chars), Len(u) = Len(t),
           \A i \in 1..Len(t) : u[i] = NL <=> t[i] = NL,
           NEW p \in 0..Len(t)
    PROVE  LineOf(u, p) = LineOf(t, p)
  <1>1. PICK a, b : a = SubSeq(u, 1, p) /\ b = SubSeq(t, 1, p)
    OBVIOUS
  <1>2. /\ DOMAIN a = 1..p /\ DOMAIN b = 1..p
        /\ \A i \in 1..p : a[i] = u[i] /\ b[i] = t[i]
    BY <1>1
  <1>3. {i \in DOMAIN a : a[i] = NL} = {i \in DOMAIN b : b[i] = NL}
    BY <1>2
  <1> QED
    BY <1>1, <1>3 DEF LineOf, Newlines

-----------------------------------------------------------------------------
\* Sequences put together and taken apart, cell by cell.

IsSlice(u, s, a, b) == Len(u) = b - a /\ \A i \in 1..b - a : u[i] = s[a + i]

\* The elements of s from the (a + 1)-st to the b-th.
LEMMA Slice ==
    ASSUME NEW S, NEW s \in Seq(S), NEW a \in 0..Len(s), NEW b \in a..Len(s),
           NEW u, u = SubSeq(s, a + 1, b)
    PROVE  u \in Seq(S) /\ IsSlice(u, s, a, b)
  <1>1. \A i \in a + 1..b : s[i] \in S
    OBVIOUS
  <1>2. a + 1 \in Int /\ b \in Int
    OBVIOUS
  <1>3. u \in Seq(S)
    BY <1>1, <1>2, SubSeqProperties
  <1>4. Len(u) = b - a
    BY <1>1, <1>2, SubSeqProperties
  <1>5. ASSUME NEW i \in 1..b - a
        PROVE  u[i] = s[a + i]
    BY <1>1, <1>2
  <1> QED
    BY <1>3, <1>4, <1>5 DEF IsSlice

IsJoin(u, a, b) ==
    /\ Len(u) = Len(a) + Len(b)
    /\ \A i \in 1..Len(u) : u[i] = IF i <= Len(a) THEN a[i] ELSE b[i - Len(a)]

\* A concatenation has its two parts.
LEMMA Join ==
    ASSUME NEW S, NEW a \in Seq(S), NEW b \in Seq(S), NEW u, u = a \o b
    PROVE  u \in Seq(S) /\ IsJoin(u, a, b)
  <1>1. /\ a \o b \in Seq(S) /\ Len(a \o b) = Len(a) + Len(b)
        /\ \A i \in 1..Len(a) + Len(b) :
              (a \o b)[i] = IF i <= Len(a) THEN a[i] ELSE b[i - Len(a)]
    BY ConcatProperties
  <1> QED
    BY <1>1 DEF IsJoin

\* A function on 1..n is a sequence.
LEMMA CellsAreSeq ==
    ASSUME NEW S, NEW n \in Nat, NEW u, u = [i \in 1..n |-> u[i]],
           \A i \in 1..n : u[i] \in S
    PROVE  u \in Seq(S) /\ Len(u) = n
  OBVIOUS

\* Two elements of P have different numbers of elements up to themselves.
LEMMA RanksDiffer ==
    ASSUME NEW P, P \subseteq Nat, IsFiniteSet(P), NEW p \in P, NEW q \in P,
           Cardinality(UpTo(P, p)) = Cardinality(UpTo(P, q))
    PROVE  p = q
  <1>1. ASSUME NEW x \in P, NEW y \in P, x < y
        PROVE  Cardinality(UpTo(P, x)) # Cardinality(UpTo(P, y))
    <2>1. PICK U, V : U = UpTo(P, x) /\ V = UpTo(P, y)
      OBVIOUS
    <2>2. /\ \A z : z \in U <=> z \in P /\ z <= x
          /\ \A z : z \in V <=> z \in P /\ z <= y
      BY <2>1 DEF UpTo
    <2>3. x \in Nat /\ y \in Nat /\ \A z \in P : z \in Nat
      OBVIOUS
    <2>4. U \subseteq V /\ y \in V /\ y \notin U /\ V \subseteq P
      <3>1. \A z \in P : z <= x => z <= y
        BY <1>1, <2>3
      <3>2. y <= y /\ ~(y <= x)
        BY <1>1, <2>3
      <3> QED
        BY <2>2, <3>1, <3>2
    <2>5. IsFiniteSet(V)
      BY <2>4, FS_Subset
    <2> QED
      BY <2>1, <2>4, <2>5, FS_Subset
  <1>2. p \in Nat /\ q \in Nat
    OBVIOUS
  <1> QED
    BY <1>1, <1>2

\* The size of a set that has some elements before b and then all up to n.
LEMMA CountBehind ==
    ASSUME NEW A, IsFiniteSet(A), NEW b \in Nat, NEW n \in Nat, b <= n,
           \A x \in A : x < b /\ x \in Nat
    PROVE  /\ Cardinality(A) \in Nat
           /\ Cardinality(A \cup (b..n - 1)) = Cardinality(A) + (n - b)
  <1>1. PICK B, P : B = b..n - 1 /\ P = A \cup B
    OBVIOUS
  <1>2. IsFiniteSet(B) /\ Cardinality(B) = n - b
    <2>1. PICK k \in Int : k = n - 1
      OBVIOUS
    <2>2. /\ IsFiniteSet(b..k)
          /\ Cardinality(b..k) = IF b > k THEN 0 ELSE k - b + 1
      BY FS_Interval
    <2> QED
      BY <1>1, <2>1, <2>2
  <1>3. P = A \cup B
    BY <1>1
  <1>4. A \cap B = {}
    BY <1>1
  <1>5. Cardinality(A \cap B) = 0
    BY <1>4, FS_EmptySet
  <1>6. Cardinality(A) \in Nat
    BY FS_CardinalityType
  <1>7. Cardinality(P) = Cardinality(A) + Cardinality(B) - Cardinality(A \cap B)
    BY <1>2, <1>3, FS_Union
  <1> QED
    BY <1>1, <1>2, <1>5, <1>6, <1>7

-----------------------------------------------------------------------------
\* Lines and columns.

\* A line of t begins at p.
LineStart(t, p) == p \in 0..Len(t) /\ (p = 0 \/ t[p] = NL)

\* sbuf_boln finds the beginning of the line.
LEMMA BolnIs ==
    ASSUME NEW t, NEW pos \in Nat, NEW b \in 0..pos, b = 0 \/ t[b] = NL,
           \A q \in b + 1..pos : t[q] # NL
    PROVE  Boln(t, pos) = b
  <1> DEFINE S == {p \in 0..pos : p = 0 \/ t[p] = NL}
  <1>1. S \subseteq 0..pos /\ b \in S
    OBVIOUS
  <1>2. \A p \in S : p <= b
    OBVIOUS
  <1>3. Max(S) \in S /\ \A p \in S : p <= Max(S)
    BY <1>1, MaxIsGreatest
  <1>4. Boln(t, pos) = Max(S)
    BY DEF Boln
  <1>5. PICK m : m = Max(S)
    OBVIOUS
  <1>6. m \in S /\ b <= m
    BY <1>1, <1>3, <1>5
  <1>7. m <= b /\ m \in Nat
    BY <1>2, <1>6
  <1> QED
    BY <1>4, <1>5, <1>6, <1>7

\* What sbuf_boln finds is the beginning of a line, and not behind pos.
LEMMA BolnIsStart ==
    ASSUME NEW t, Len(t) \in Nat, NEW pos \in 0..Len(t)
    PROVE  LineStart(t, Boln(t, pos)) /\ Boln(t, pos) <= pos
  <1> DEFINE S == {p \in 0..pos : p = 0 \/ t[p] = NL}
  <1>1. S \subseteq 0..pos /\ 0 \in S
    OBVIOUS
  <1>2. Max(S) \in S
    <2>1. pos \in Nat /\ S # {}
      BY <1>1
    <2> HIDE DEF S
    <2> QED
      BY <1>1, <2>1, MaxIsGreatest
  <1>3. Boln(t, pos) = Max(S)
    BY DEF Boln
  <1> QED
    BY <1>2, <1>3 DEF LineStart

\* Along a line the columns grow.
LEMMA WidthsGrow ==
    ASSUME NEW t \in Seq(Chars), NEW b \in 0..Len(t), NEW x \in b..Len(t)
    PROVE  /\ Width(SubSeq(t, b + 1, x)) \in Nat
           /\ \A y \in x + 1..Len(t) :
                Width(SubSeq(t, b + 1, x)) < Width(SubSeq(t, b + 1, y))
  <1>1. PICK s : s = SubSeq(t, b + 1, Len(t))
    OBVIOUS
  <1>2. /\ s \in Seq(Chars) /\ Len(s) \in Nat /\ Len(s) = Len(t) - b
        /\ \A i \in 1..Len(t) - b : s[i] = t[b + i]
    BY <1>1
  <1>3. ASSUME NEW p \in b..Len(t)
        PROVE  SubSeq(t, b + 1, p) = SubSeq(s, 1, p - b)
    <2>0. b \in Nat /\ b <= p /\ p <= Len(t) /\ p - b \in 0..Len(s)
      BY <1>2
    <2>1. /\ SubSeq(t, b + 1, p) \in Seq(Chars) /\ Len(SubSeq(t, b + 1, p)) = p - b
          /\ \A i \in 1..p - b : SubSeq(t, b + 1, p)[i] = t[b + i]
      BY <2>0
    <2>2. /\ SubSeq(s, 1, p - b) \in Seq(Chars) /\ Len(SubSeq(s, 1, p - b)) = p - b
          /\ \A i \in 1..p - b : SubSeq(s, 1, p - b)[i] = s[i]
      BY <1>2, <2>0
    <2>3. \A i \in 1..p - b : s[i] = t[b + i]
      BY <1>2, <2>0
    <2> QED
      BY <2>1, <2>2, <2>3, SeqEqual
  <1>4. Width(SubSeq(t, b + 1, x)) \in Nat
    <2>1. x - b \in 0..Len(s)
      BY <1>2
    <2>2. Width(SubSeq(s, 1, x - b)) \in Nat
      BY <1>2, <2>1, WidthOfPrefix
    <2> QED
      BY <1>3, <2>2
  <1>5. ASSUME NEW y \in x + 1..Len(t)
        PROVE  Width(SubSeq(t, b + 1, x)) < Width(SubSeq(t, b + 1, y))
    <2>1. PICK i, j : i = x - b /\ j = y - b
      OBVIOUS
    <2>2. j \in 0..Len(s) /\ i \in 0..j /\ i < j /\ y \in b..Len(t)
      BY <1>2, <2>1
    <2>3. Width(SubSeq(s, 1, i)) < Width(SubSeq(s, 1, j))
      BY <1>2, <2>2, WidthGrows
    <2> QED
      BY <1>3, <2>1, <2>2, <2>3
  <1> QED
    BY <1>4, <1>5

\* Behind x, and up to y, t has no newline.
SameLine(t, x, y) == \A q \in x + 1..y : t[q] # NL

\* The column of a position on the line that begins at b.
LEMMA ColnoOnLine ==
    ASSUME NEW t, NEW b \in Nat, LineStart(t, b), NEW x \in Nat, b <= x,
           SameLine(t, b, x)
    PROVE  Boln(t, x) = b /\ Colno(t, x) = Width(SubSeq(t, b + 1, x))
  <1>1. Boln(t, x) = b
    BY BolnIs DEF LineStart, SameLine
  <1> QED
    BY <1>1 DEF Colno

\* Two positions of a line begin it at the same place, and the one further on
\* has the greater column.
LEMMA ColnoGrows ==
    ASSUME NEW t \in Seq(Chars), NEW x \in 0..Len(t), NEW y \in x..Len(t),
           SameLine(t, x, y)
    PROVE  /\ Boln(t, y) = Boln(t, x)
           /\ Colno(t, x) \in Nat /\ Colno(t, y) \in Nat
           /\ x < y => Colno(t, x) < Colno(t, y)
  <1>1. PICK b \in 0..x : b = Boln(t, x)
    BY BolnStops
  <1>2. LineStart(t, b) /\ SameLine(t, b, x) /\ b \in Nat /\ b \in 0..Len(t)
    <2>1. LineStart(t, b)
      BY <1>1, BolnIsStart
    <2>2. SameLine(t, b, x)
      BY <1>1, BolnStops DEF SameLine
    <2> QED
      BY <2>1, <2>2
  <1>3. SameLine(t, b, y)
    BY <1>2 DEF SameLine
  <1>4. Boln(t, y) = b /\ Colno(t, y) = Width(SubSeq(t, b + 1, y))
    <2>1. y \in Nat /\ b <= y
      OBVIOUS
    <2> QED
      BY <1>2, <1>3, <2>1, ColnoOnLine
  <1>5. Colno(t, x) = Width(SubSeq(t, b + 1, x))
    BY <1>1 DEF Colno
  <1>6. x \in b..Len(t) /\ y \in b..Len(t) /\ (x < y => y \in x + 1..Len(t))
    OBVIOUS
  <1> QED
    BY <1>1, <1>2, <1>4, <1>5, <1>6, WidthsGrow

\* The column of a position depends on what is before it only.
LEMMA SameColno ==
    ASSUME NEW t \in Seq(Chars), NEW u \in Seq(Chars),
           NEW x \in Nat, x <= Len(t), x <= Len(u),
           \A i \in 1..x : u[i] = t[i]
    PROVE  Boln(u, x) = Boln(t, x) /\ Colno(u, x) = Colno(t, x)
  <1>1. PICK b \in 0..x : b = Boln(t, x)
    BY BolnStops
  <1>2. /\ b = 0 \/ t[b] = NL
        /\ \A q \in b + 1..x : t[q] # NL
    BY <1>1, BolnIsStart, BolnStops DEF LineStart
  <1>3. /\ b = 0 \/ u[b] = NL
        /\ \A q \in b + 1..x : u[q] # NL
    BY <1>2
  <1>4. Boln(u, x) = b
    BY <1>3, BolnIs
  <1>5. SubSeq(u, b + 1, x) = SubSeq(t, b + 1, x)
    <2>1. /\ SubSeq(u, b + 1, x) \in Seq(Chars) /\ Len(SubSeq(u, b + 1, x)) = x - b
          /\ \A i \in 1..x - b : SubSeq(u, b + 1, x)[i] = u[b + i]
      OBVIOUS
    <2>2. /\ SubSeq(t, b + 1, x) \in Seq(Chars) /\ Len(SubSeq(t, b + 1, x)) = x - b
          /\ \A i \in 1..x - b : SubSeq(t, b + 1, x)[i] = t[b + i]
      OBVIOUS
    <2>3. \A i \in 1..x - b : b + i \in 1..x
      OBVIOUS
    <2>4. \A i \in 1..x - b : u[b + i] = t[b + i]
      BY <2>3
    <2> QED
      BY <2>1, <2>2, <2>4, SeqEqual
  <1> QED
    BY <1>1, <1>4, <1>5 DEF Colno


\* Where the loop of sbuf_colpos stops.
Stops(t, pos, col, p) ==
    \/ Width(SubSeq(t, pos + 1, p)) >= col
    \/ CharAt(t, p) \in {NL, EOF}
    \/ CharAt(t, p) = Tab /\ Width(SubSeq(t, pos + 1, p + 1)) > col

\* It stops the first time it can; a newline or the end of the text is not
\* passed.
LEMMA ColposIsFirst ==
    ASSUME NEW t \in Seq(Chars), NEW pos \in 0..Len(t), NEW col,
           NEW c, c = Colpos(t, pos, col)
    PROVE  /\ c \in pos..Len(t) /\ Stops(t, pos, col, c)
           /\ \A p \in pos..c - 1 : ~Stops(t, pos, col, p)
           /\ SameLine(t, pos, c)
           /\ \/ c = Len(t) \/ t[c + 1] = NL
              \/ Width(SubSeq(t, pos + 1, c)) >= col
              \/ t[c + 1] = Tab /\ Width(SubSeq(t, pos + 1, c + 1)) > col
  <1> DEFINE S == {p \in pos..Len(t) : Stops(t, pos, col, p)}
  <1>1. S \subseteq Nat /\ Len(t) \in S /\ S \subseteq pos..Len(t)
    BY DEF CharAt, Stops
  <1>2. c = Min(S)
    BY DEF Colpos, Stops
  <1>3. c \in S /\ \A p \in S : c <= p
    <2> HIDE DEF S
    <2> QED
      BY <1>1, <1>2, MinIsLeast
  <1>4. c \in pos..Len(t) /\ Stops(t, pos, col, c)
    BY <1>3
  <1>5. ASSUME NEW p \in pos..c - 1
        PROVE  ~Stops(t, pos, col, p)
    <2>1. p \in pos..Len(t) /\ ~(c <= p)
      BY <1>4
    <2> QED
      BY <1>3, <2>1
  <1>6. ASSUME NEW q \in pos + 1..c, t[q] = NL
        PROVE  FALSE
    <2>1. PICK p \in pos..c - 1 : p = q - 1
      BY <1>4
    <2>2. p # Len(t) /\ p + 1 = q
      BY <1>4, <2>1
    <2>3. CharAt(t, p) = NL
      BY <1>6, <2>2 DEF CharAt
    <2> QED
      BY <1>5, <2>3 DEF Stops
  <1>7. ASSUME c # Len(t)
        PROVE  \/ t[c + 1] = NL \/ Width(SubSeq(t, pos + 1, c)) >= col
               \/ t[c + 1] = Tab /\ Width(SubSeq(t, pos + 1, c + 1)) > col
    <2>1. c + 1 \in 1..Len(t)
      BY <1>4, <1>7
    <2>2. CharAt(t, c) = t[c + 1] /\ t[c + 1] # EOF
      <3>1. t[c + 1] \in Chars
        BY <2>1
      <3> QED
        BY <1>7, <3>1, EOFAssumption DEF CharAt
    <2> QED
      BY <1>4, <2>2 DEF Stops
  <1> QED
    BY <1>4, <1>5, <1>6, <1>7 DEF SameLine

\* What remove_columnar_mark cuts out of a line is what lies in the columns,
\* unless a tab straddles their left or their right edge.
LEMMA PartOfLine ==
    ASSUME NEW t \in Seq(Chars), NEW p \in 0..Len(t), LineStart(t, p),
           NEW from \in Nat, NEW to \in Nat,
           NEW a, a = Colpos(t, p, from), NEW b, b = Colpos(t, p, to), a <= b
    PROVE  /\ a \in p..Len(t) /\ b \in a..Len(t) /\ SameLine(t, p, b)
           /\ \A x \in a..b - 1 : Colno(t, x) < to
           /\ \/ \A x \in a..b - 1 : from <= Colno(t, x)
              \/ a < Len(t) /\ t[a + 1] = Tab /\ Colno(t, a) < from
           /\ \/ \A x \in p..Len(t) - 1 :
                    (SameLine(t, p, x + 1) /\ from <= Colno(t, x)
                                           /\ Colno(t, x) < to)
                        => x \in a..b - 1
              \/ b < Len(t) /\ t[b + 1] = Tab
  <1> DEFINE W(x) == Width(SubSeq(t, p + 1, x))
  <1>1. /\ a \in p..Len(t) /\ b \in p..Len(t)
        /\ SameLine(t, p, a) /\ SameLine(t, p, b)
        /\ \A x \in p..a - 1 : ~Stops(t, p, from, x)
        /\ \A x \in p..b - 1 : ~Stops(t, p, to, x)
        /\ \/ a = Len(t) \/ t[a + 1] = NL \/ W(a) >= from
           \/ t[a + 1] = Tab /\ W(a + 1) > from
        /\ \/ b = Len(t) \/ t[b + 1] = NL \/ W(b) >= to
           \/ t[b + 1] = Tab /\ W(b + 1) > to
    BY ColposIsFirst
  <1>2. \A x \in p..Len(t) : W(x) \in Nat /\ \A y \in x + 1..Len(t) : W(x) < W(y)
    BY WidthsGrow
  <1>3. \A x \in p..Len(t) : SameLine(t, p, x) => Colno(t, x) = W(x)
    <2> TAKE x \in p..Len(t)
    <2> HAVE SameLine(t, p, x)
    <2>1. p \in Nat /\ x \in Nat /\ p <= x
      OBVIOUS
    <2> QED
      BY <2>1, ColnoOnLine
  <1>4. /\ \A x \in p..a - 1 : ~(W(x) >= from)
        /\ \A x \in p..b - 1 : ~(W(x) >= to)
    BY <1>1, Zenon DEF Stops
  <1> HIDE DEF W
  <1>5. /\ \A x \in p..a - 1 : x \in p..Len(t) /\ W(x) \in Nat
        /\ \A x \in p..b - 1 : x \in p..Len(t) /\ W(x) \in Nat
    <2>1. /\ \A x \in p..a - 1 : x \in p..Len(t)
          /\ \A x \in p..b - 1 : x \in p..Len(t)
      BY <1>1
    <2> QED
      BY <1>2, <2>1
  <1>6. \A x \in p..a - 1 : W(x) < from
    BY <1>5, <1>4
  <1>7. \A x \in p..b - 1 : W(x) < to
    BY <1>5, <1>4
  <1>8. \A x \in p..b : SameLine(t, p, x)
    BY <1>1 DEF SameLine
  <1>9. \A x \in p..b : x \in p..Len(t) /\ Colno(t, x) = W(x)
    BY <1>1, <1>3, <1>8
  <1>10. \A x \in a..b - 1 : Colno(t, x) < to
    BY <1>1, <1>7, <1>9
  <1>11. \/ \A x \in a..b - 1 : from <= Colno(t, x)
         \/ a < Len(t) /\ t[a + 1] = Tab /\ Colno(t, a) < from
    <2>1. CASE a = b
      BY <2>1, <1>1
    <2>2. CASE a < b /\ W(a) >= from
      <3>1. ASSUME NEW x \in a..b - 1
            PROVE  from <= Colno(t, x)
        <4>1. Colno(t, x) = W(x) /\ x \in a..Len(t)
          BY <1>1, <1>9, <3>1
        <4>2. x = a \/ x \in a + 1..Len(t)
          BY <1>1, <4>1
        <4>3. x = a \/ W(a) < W(x)
          BY <1>1, <1>2, <4>2
        <4> QED
          BY <1>1, <1>2, <2>2, <4>1, <4>3
      <3> QED
        BY <3>1
    <2>3. CASE a < b /\ ~(W(a) >= from)
      <3>1. a \in p..b /\ a < Len(t)
        BY <1>1, <2>3
      <3>2. t[a + 1] # NL
        <4>1. a + 1 \in p + 1..b
          BY <1>1, <2>3
        <4> QED
          BY <1>1, <4>1 DEF SameLine
      <3>3. t[a + 1] = Tab
        BY <1>1, <2>3, <3>1, <3>2
      <3>4. Colno(t, a) = W(a) /\ W(a) \in Nat
        BY <1>1, <1>2, <1>9, <3>1
      <3> QED
        BY <2>3, <3>1, <3>3, <3>4
    <2>4. a < b \/ a = b
      BY <1>1
    <2> QED
      BY <2>1, <2>2, <2>3, <2>4
  <1>12. ASSUME NEW x \in p..Len(t) - 1, SameLine(t, p, x + 1),
                from <= Colno(t, x), Colno(t, x) < to, x \notin a..b - 1
         PROVE  b < Len(t) /\ t[b + 1] = Tab
    <2>1. x \in p..Len(t) /\ Colno(t, x) = W(x)
      <3>1. SameLine(t, p, x) /\ x \in p..Len(t)
        BY <1>12 DEF SameLine
      <3> QED
        BY <1>3, <3>1
    <2>2. a <= x
      <3>1. x \in p..a - 1 => W(x) < from /\ W(x) \in Nat
        BY <1>5, <1>6
      <3>2. ~(W(x) < from /\ W(x) \in Nat)
        BY <1>12, <2>1
      <3> QED
        BY <1>1, <2>1, <3>1, <3>2
    <2>3. b <= x
      BY <1>1, <1>12, <2>1, <2>2
    <2>4. b < Len(t) /\ t[b + 1] # NL
      <3>1. b < Len(t) /\ b + 1 \in p + 1..x + 1
        BY <1>1, <1>12, <2>3
      <3> QED
        BY <1>12, <3>1 DEF SameLine
    <2>5. W(b) < to
      <3>1. b = x \/ x \in b + 1..Len(t)
        BY <1>1, <2>1, <2>3
      <3>2. W(b) = W(x) \/ W(b) < W(x)
        BY <1>1, <1>2, <3>1
      <3> QED
        BY <1>1, <1>2, <1>12, <2>1, <3>2
    <2> QED
      BY <1>1, <1>2, <2>4, <2>5
  <1> QED
    BY <1>1, <1>10, <1>11, <1>12


-----------------------------------------------------------------------------
\* What a columnar removal has still to take, when it is at the line that begins
\* at p, and the mark's first line begins at top: the characters of the lines
\* from top to that one that are in the columns.
Selected(t, top, p, from, to) ==
    {x \in top..Len(t) - 1 :
        /\ t[x + 1] # NL /\ SameLine(t, p, x + 1)
        /\ from <= Colno(t, x) /\ Colno(t, x) < to}

\* There is a tab on a later line than that of p.
TabBehind(t, p) ==
    \E n \in p..Len(t) - 1 : \E q \in n + 1..Len(t) - 1 :
        t[n + 1] = NL /\ t[q + 1] = Tab

\* When the removal begins, that is all of the mark but its newlines.
LEMMA SelectedAtFirst ==
    ASSUME NEW t \in Seq(Chars), NEW b \in 0..Len(t), NEW e \in b..Len(t)
    PROVE  {q \in InColumns(t, b, e - b) : t[q + 1] # NL}
                = Selected(t, Boln(t, b), Boln(t, e), Colno(t, b), Colno(t, e))
  <1>1. PICK top \in 0..b, p \in 0..e : top = Boln(t, b) /\ p = Boln(t, e)
    BY BolnStops
  <1>2. PICK from \in Nat, to \in Nat : from = Colno(t, b) /\ to = Colno(t, e)
    BY ColnoIsNat
  <1>3. SameLine(t, top, b) /\ SameLine(t, p, e)
    BY <1>1, BolnStops DEF SameLine
  <1>4. PICK P, Q : /\ P = {q \in InColumns(t, b, e - b) : t[q + 1] # NL}
                    /\ Q = Selected(t, top, p, from, to)
    OBVIOUS
  <1>5. \A q : q \in P <=> /\ q \in b..e - 1 /\ t[q + 1] # NL
                           /\ from <= Colno(t, q) /\ Colno(t, q) < to
    <2>1. b + (e - b) = e
      OBVIOUS
    <2> QED
      BY <1>2, <1>4, <2>1 DEF InColumns
  <1>6. ASSUME NEW q \in P
        PROVE  q \in Q
    <2>1. q \in b..e - 1 /\ q \in top..Len(t) - 1
      BY <1>5
    <2>2. SameLine(t, p, q + 1)
      BY <1>3, <2>1 DEF SameLine
    <2> QED
      BY <1>4, <1>5, <2>1, <2>2 DEF Selected
  <1>7. ASSUME NEW q \in Q
        PROVE  q \in P
    <2>1. /\ q \in top..Len(t) - 1 /\ t[q + 1] # NL /\ SameLine(t, p, q + 1)
          /\ from <= Colno(t, q) /\ Colno(t, q) < to
      BY <1>4 DEF Selected
    <2>2. q \in 0..Len(t)
      BY <2>1
    <2>3. ASSUME q < b
          PROVE  FALSE
      <3>1. b \in q..Len(t) /\ SameLine(t, q, b) /\ q < b
        BY <1>3, <2>1, <2>3 DEF SameLine
      <3>2. Colno(t, q) < Colno(t, b) /\ Colno(t, q) \in Nat
        BY <2>2, <3>1, ColnoGrows
      <3> QED
        BY <1>2, <2>1, <3>2
    <2>4. ASSUME e <= q
          PROVE  FALSE
      <3>1. q \in e..Len(t) /\ SameLine(t, e, q)
        BY <2>1, <2>4 DEF SameLine
      <3>2. (e < q => Colno(t, e) < Colno(t, q)) /\ Colno(t, q) \in Nat
        BY <3>1, ColnoGrows
      <3>3. e = q \/ e < q
        BY <3>1
      <3> QED
        BY <1>2, <2>1, <3>2, <3>3
    <2>5. q \in b..e - 1
      BY <2>1, <2>3, <2>4
    <2> QED
      BY <1>5, <2>1, <2>5
  <1> QED
    BY <1>1, <1>2, <1>4, <1>6, <1>7

\* u is t without the characters from a to b of the line that begins at p.
CutFromLine(u, t, p, a, b) ==
    /\ p \in 0..Len(t) /\ LineStart(t, p)
    /\ a \in p..Len(t) /\ b \in a..Len(t) /\ SameLine(t, p, b)
    /\ Len(u) = Len(t) - (b - a)
    /\ \A i \in 1..Len(u) : u[i] = IF i <= a THEN t[i] ELSE t[i + (b - a)]

\* a to b are in the columns.
TakesOnly(t, from, to, a, b) ==
    \A x \in a..b - 1 : from <= Colno(t, x) /\ Colno(t, x) < to

\* All that is in the columns, on the line that begins at p, is from a to b.
TakesAll(t, p, from, to, a, b) ==
    \A x \in p..Len(t) - 1 :
        (SameLine(t, p, x + 1) /\ from <= Colno(t, x) /\ Colno(t, x) < to)
            => x \in a..b - 1

\* The positions in out that are before a.
Before(out, a) == {x \in out : x < a}

\* The line above is what it was.
LEMMA LineAboveStays ==
    ASSUME NEW t \in Seq(Chars), NEW u \in Seq(Chars), NEW p \in Nat, p # 0,
           NEW a \in Nat, NEW b \in Nat, CutFromLine(u, t, p, a, b),
           NEW above, above = Boln(u, p - 1)
    PROVE  /\ above \in 0..p - 1 /\ LineStart(u, above)
           /\ u[p] = NL /\ SameLine(u, above, p - 1)
           /\ p <= a /\ a <= Len(u)
           /\ \A x \in 0..p : u[x] = t[x] \/ x = 0
  <1>1. p <= a /\ a <= Len(u)
    BY DEF CutFromLine
  <1>2. \A x \in 1..p : u[x] = t[x]
    BY <1>1 DEF CutFromLine
  <1>3. u[p] = NL
    BY <1>2 DEF CutFromLine, LineStart
  <1>4. PICK k \in 0..Len(u) : k = p - 1
    BY <1>1
  <1>5. above \in 0..k /\ \A q \in above + 1..k : u[q] # NL
    BY <1>4, BolnStops
  <1>6. LineStart(u, above)
    BY <1>4, BolnIsStart
  <1> QED
    BY <1>1, <1>2, <1>3, <1>4, <1>5, <1>6 DEF SameLine

\* Once the first line of the mark is done there is no more to do.
LEMMA TopIsLast ==
    ASSUME NEW t \in Seq(Chars), NEW u \in Seq(Chars), NEW p \in Nat, p # 0,
           NEW a \in Nat, NEW b \in Nat, CutFromLine(u, t, p, a, b),
           NEW above, above = Boln(u, p - 1),
           NEW top \in Nat, LineStart(t, top), top < p
    PROVE  top <= above /\ LineStart(u, top)
  <1>1. /\ above \in 0..p - 1 /\ SameLine(u, above, p - 1)
        /\ p <= a /\ a <= Len(u) /\ \A x \in 0..p : u[x] = t[x] \/ x = 0
    BY LineAboveStays
  <1>2. top = 0 \/ u[top] = NL
    BY <1>1 DEF LineStart
  <1> QED
    BY <1>1, <1>2 DEF LineStart, SameLine

\* What was to be taken behind a is what has been cut out; the rest is what is
\* to be taken from the lines above.
LEMMA SelectedAbove ==
    ASSUME NEW t \in Seq(Chars), NEW u \in Seq(Chars), NEW p \in Nat, p # 0,
           NEW a \in Nat, NEW b \in Nat, CutFromLine(u, t, p, a, b),
           NEW above, above = Boln(u, p - 1), NEW top \in Nat,
           NEW from \in Nat, NEW to \in Nat,
           TakesAll(t, p, from, to, a, b)
    PROVE  Selected(u, top, above, from, to)
                = Before(Selected(t, top, p, from, to), a)
  <1>1. /\ above \in 0..p - 1 /\ SameLine(u, above, p - 1) /\ u[p] = NL
        /\ p <= a /\ a <= Len(u) /\ \A x \in 0..p : u[x] = t[x] \/ x = 0
    BY LineAboveStays
  <1>2. PICK P, Q : /\ P = Selected(u, top, above, from, to)
                    /\ Q = Selected(t, top, p, from, to)
    OBVIOUS
  <1>3. \A x \in 0..p - 1 : Colno(u, x) = Colno(t, x) /\ u[x + 1] = t[x + 1]
    <2> TAKE x \in 0..p - 1
    <2>1. /\ x \in Nat /\ x <= Len(t) /\ x <= Len(u)
          /\ \A i \in 1..x : u[i] = t[i]
      BY <1>1 DEF CutFromLine
    <2>2. x + 1 \in 0..p /\ x + 1 # 0
      OBVIOUS
    <2> QED
      BY <1>1, <2>1, <2>2, SameColno
  <1>4. Len(t) \in Nat /\ Len(u) \in Nat /\ Len(u) <= Len(t)
    BY DEF CutFromLine
  <1>5. ASSUME NEW x \in P
        PROVE  x \in Q /\ x < a
    <2>1. /\ x \in top..Len(u) - 1 /\ u[x + 1] # NL /\ SameLine(u, above, x + 1)
          /\ from <= Colno(u, x) /\ Colno(u, x) < to
      BY <1>2 DEF Selected
    <2>2. x < p
      <3> SUFFICES ASSUME p <= x PROVE FALSE
        BY <2>1
      <3>1. p \in above + 1..x + 1
        BY <1>1, <2>1
      <3> QED
        BY <1>1, <2>1, <3>1 DEF SameLine
    <2>3. x \in 0..p - 1
      BY <2>1, <2>2
    <2>4. SameLine(t, p, x + 1)
      BY <2>3 DEF SameLine
    <2>5. /\ x \in top..Len(t) - 1 /\ t[x + 1] # NL
          /\ from <= Colno(t, x) /\ Colno(t, x) < to
      BY <1>3, <1>4, <2>1, <2>3
    <2> QED
      BY <1>1, <1>2, <2>3, <2>4, <2>5 DEF Selected
  <1>6. ASSUME NEW x \in Q, x < a
        PROVE  x \in P
    <2>1. /\ x \in top..Len(t) - 1 /\ t[x + 1] # NL /\ SameLine(t, p, x + 1)
          /\ from <= Colno(t, x) /\ Colno(t, x) < to
      BY <1>2 DEF Selected
    <2>2. x < p
      <3> SUFFICES ASSUME p <= x PROVE FALSE
        BY <2>1
      <3>1. x \in p..Len(t) - 1
        BY <2>1
      <3>2. x \in a..b - 1
        BY <2>1, <3>1 DEF TakesAll
      <3> QED
        BY <1>6, <3>2
    <2>3. x \in 0..p - 1
      BY <2>1, <2>2
    <2>4. u[x + 1] # NL /\ Colno(u, x) = Colno(t, x)
      BY <1>3, <2>1, <2>3
    <2>5. x + 1 # p
      BY <1>1, <2>4
    <2>6. SameLine(u, above, x + 1)
      BY <1>1, <2>3, <2>5 DEF SameLine
    <2>7. x \in top..Len(u) - 1
      BY <1>1, <1>4, <2>1, <2>3
    <2> QED
      BY <1>2, <2>1, <2>4, <2>6, <2>7 DEF Selected
  <1>7. \A x : x \in P <=> x \in Q /\ x < a
    BY <1>5, <1>6
  <1>8. P = Before(Q, a)
    BY <1>7 DEF Before
  <1> QED
    BY <1>2, <1>8

\* A tab that stays on its line at b, or is on a later one, stays in the text, and
\* is then on a later line than the line above.
LEMMA TabStays ==
    ASSUME NEW t \in Seq(Chars), NEW u \in Seq(Chars), NEW p \in Nat,
           NEW a \in Nat, NEW b \in Nat, CutFromLine(u, t, p, a, b),
           TabBehind(t, p) \/ (b < Len(t) /\ t[b + 1] = Tab)
    PROVE  /\ \E i \in 1..Len(u) : u[i] = Tab
           /\ p # 0 => TabBehind(u, Boln(u, p - 1))
  <1>1. /\ p <= a /\ a <= b /\ b <= Len(t) /\ SameLine(t, p, b)
        /\ Len(u) = Len(t) - (b - a)
        /\ \A i \in 1..Len(u) : u[i] = IF i <= a THEN t[i] ELSE t[i + (b - a)]
    BY DEF CutFromLine
  <1>2. PICK q \in b..Len(t) - 1 : t[q + 1] = Tab
    <2>1. CASE TabBehind(t, p)
      <3>n. PICK n \in p..Len(t) - 1 :
                    \E q \in n + 1..Len(t) - 1 : t[n + 1] = NL /\ t[q + 1] = Tab
        BY <2>1 DEF TabBehind
      <3>1. PICK q \in n + 1..Len(t) - 1 : t[n + 1] = NL /\ t[q + 1] = Tab
        BY <3>n
      <3>2. b <= n
        <4> SUFFICES ASSUME n < b PROVE FALSE
          BY <3>1
        <4>1. n + 1 \in p + 1..b
          BY <3>1
        <4> QED
          BY <1>1, <3>1, <4>1 DEF SameLine
      <3> QED
        BY <3>1, <3>2
    <2>2. CASE b < Len(t) /\ t[b + 1] = Tab
      BY <2>2
    <2> QED
      BY <2>1, <2>2
  <1>3. PICK r : r = q - (b - a)
    OBVIOUS
  <1>4. r \in a..Len(u) - 1 /\ r + 1 \in 1..Len(u) /\ (r + 1) + (b - a) = q + 1
    BY <1>1, <1>3
  <1>5. u[r + 1] = Tab
    BY <1>1, <1>2, <1>4
  <1>6. ASSUME p # 0
        PROVE  TabBehind(u, Boln(u, p - 1))
    <2>1. PICK above : above = Boln(u, p - 1)
      OBVIOUS
    <2>2. above \in 0..p - 1 /\ u[p] = NL
      BY <1>6, <2>1, LineAboveStays
    <2>3. PICK n \in above..Len(u) - 1 : n + 1 = p
      <3>1. p - 1 \in above..Len(u) - 1 /\ (p - 1) + 1 = p
        BY <1>1, <1>4, <2>2
      <3> QED
        BY <3>1
    <2>4. r \in n + 1..Len(u) - 1
      BY <1>1, <1>4, <2>3
    <2> QED
      BY <1>5, <2>1, <2>2, <2>3, <2>4 DEF TabBehind
  <1> QED
    BY <1>4, <1>5, <1>6


-----------------------------------------------------------------------------
\* The loops over a columnar mark.

\* One character further on: the column begins anew behind a newline.
LEMMA ColnoNext ==
    ASSUME NEW t \in Seq(Chars), NEW p \in 0..Len(t) - 1
    PROVE  Colno(t, p + 1) = IF t[p + 1] = NL THEN 0 ELSE Advance(Colno(t, p), t[p + 1])
  <1>1. CASE t[p + 1] = NL
    <2>1. p + 1 \in Nat /\ p + 1 \in 0..p + 1 /\ \A q \in p + 2..p + 1 : t[q] # NL
      OBVIOUS
    <2>2. Boln(t, p + 1) = p + 1
      <3>1. PICK q \in Nat : q = p + 1
        OBVIOUS
      <3>2. q \in 0..q /\ (q = 0 \/ t[q] = NL) /\ \A r \in q + 1..q : t[r] # NL
        BY <1>1, <3>1
      <3> QED
        BY <3>1, <3>2, BolnIs
    <2>3. SubSeq(t, (p + 1) + 1, p + 1) = <<>>
      OBVIOUS
    <2>4. Width(<<>>) = 0
      <3>1. Len(<<>>) \in Nat /\ 0 \in 0..Len(<<>>) /\ SubSeq(<<>>, 1, 0) = <<>>
        OBVIOUS
      <3> QED
        BY <3>1, WidthOfPrefix
    <2> QED
      BY <1>1, <2>2, <2>3, <2>4 DEF Colno
  <1>2. CASE t[p + 1] # NL
    <2>1. PICK b \in 0..p : b = Boln(t, p)
      BY BolnStops
    <2>2. LineStart(t, b) /\ SameLine(t, b, p)
      BY <2>1, BolnIsStart, BolnStops DEF SameLine
    <2>3. SameLine(t, b, p + 1)
      BY <1>2, <2>2 DEF SameLine
    <2>4. Colno(t, p + 1) = Width(SubSeq(t, b + 1, p + 1))
      <3>1. p + 1 \in Nat /\ b \in Nat /\ b <= p + 1
        OBVIOUS
      <3> QED
        BY <2>2, <2>3, <3>1, ColnoOnLine
    <2>5. Colno(t, p) = Width(SubSeq(t, b + 1, p))
      BY <2>1 DEF Colno
    <2>6. PICK s, n : s = SubSeq(t, b + 1, p + 1) /\ n = p + 1 - b
      OBVIOUS
    <2>7. /\ s \in Seq(Chars) /\ Len(s) = n /\ n \in Nat /\ n # 0
          /\ \A i \in 1..n : s[i] = t[b + i]
      BY <2>6
    <2>8. SubSeq(s, 1, n) = s
      BY <2>7, SubSeqFull
    <2>9. SubSeq(s, 1, n - 1) = SubSeq(t, b + 1, p)
      <3>1. /\ SubSeq(t, b + 1, p) \in Seq(Chars) /\ Len(SubSeq(t, b + 1, p)) = n - 1
            /\ \A i \in 1..n - 1 : SubSeq(t, b + 1, p)[i] = t[b + i]
        BY <2>6
      <3>2. /\ SubSeq(s, 1, n - 1) \in Seq(Chars) /\ Len(SubSeq(s, 1, n - 1)) = n - 1
            /\ \A i \in 1..n - 1 : SubSeq(s, 1, n - 1)[i] = s[i]
        BY <2>7
      <3> QED
        BY <2>7, <3>1, <3>2, SeqEqual
    <2>10. s[n] = t[p + 1]
      BY <2>6, <2>7
    <2>11. Width(SubSeq(s, 1, n)) = Advance(Width(SubSeq(s, 1, n - 1)), s[n])
      <3>1. n \in 0..Len(s)
        BY <2>7
      <3> QED
        BY <2>7, <3>1, WidthOfPrefix
    <2> QED
      BY <1>2, <2>4, <2>5, <2>6, <2>8, <2>9, <2>10, <2>11
  <1> QED
    BY <1>1, <1>2

\* One position further on: it belongs to the set or not.
GoesOn(P, q, U, V) ==
    /\ IsFiniteSet(U) /\ Cardinality(U) \in Nat
    /\ \A p : p \in U <=> p \in P /\ p <= q - 1
    /\ q \in P => V = U \cup {q} /\ q \notin U /\ Cardinality(V) = Cardinality(U) + 1
    /\ q \notin P => V = U

LEMMA UpToNext ==
    ASSUME NEW P, P \subseteq Nat, IsFiniteSet(P), NEW q \in Nat
    PROVE  GoesOn(P, q, UpTo(P, q - 1), UpTo(P, q))
  <1>0. PICK U, V : U = UpTo(P, q - 1) /\ V = UpTo(P, q)
    OBVIOUS
  <1>1. /\ \A p : p \in U <=> p \in P /\ p <= q - 1
        /\ \A p : p \in V <=> p \in P /\ p <= q
    BY <1>0 DEF UpTo
  <1>2. U \in SUBSET P
    BY <1>1
  <1>3. IsFiniteSet(U) /\ Cardinality(U) \in Nat
    BY <1>2, FS_Subset, FS_CardinalityType
  <1>4. \A p \in P : p <= q <=> p <= q - 1 \/ p = q
    <2> TAKE p \in P
    <2>1. p \in Nat
      OBVIOUS
    <2> QED
      BY <2>1
  <1>5. ASSUME q \in P PROVE GoesOn(P, q, U, V)
    <2>1. \A p : p \in V <=> p \in U \/ p = q
      BY <1>1, <1>4, <1>5
    <2>2. V = U \cup {q} /\ q \notin U
      BY <2>1, <1>1
    <2>3. Cardinality(V) = Cardinality(U) + 1
      BY <1>3, <2>2, FS_AddElement
    <2> QED
      BY <1>1, <1>3, <1>5, <2>2, <2>3 DEF GoesOn
  <1>6. ASSUME q \notin P PROVE GoesOn(P, q, U, V)
    <2>1. \A p : p \in V <=> p \in U
      BY <1>1, <1>4, <1>6
    <2> QED
      BY <1>1, <1>3, <1>6, <2>1 DEF GoesOn
  <1> QED
    BY <1>0, <1>5, <1>6

\* The characters of t at the positions of P, in order
Selects(w, t, P) ==
    /\ w \in Seq(Chars) /\ Len(w) = Cardinality(P)
    /\ \A p \in P : \A i \in 1..Len(w) : Cardinality(UpTo(P, p)) = i => w[i] = t[p + 1]

\* Those up to the next position.
LEMMA SelectsNext ==
    ASSUME NEW t \in Seq(Chars), NEW P, P \subseteq 0..Len(t) - 1, IsFiniteSet(P),
           NEW q \in 0..Len(t) - 1, NEW w, Selects(w, t, UpTo(P, q - 1))
    PROVE  /\ q \in P => Selects(Append(w, t[q + 1]), t, UpTo(P, q))
           /\ q \notin P => Selects(w, t, UpTo(P, q))
  <1>1. PICK U, V : U = UpTo(P, q - 1) /\ V = UpTo(P, q)
    OBVIOUS
  <1>2. P \subseteq Nat /\ q \in Nat
    OBVIOUS
  <1>3. /\ IsFiniteSet(U) /\ Cardinality(U) \in Nat
        /\ \A p : p \in U <=> p \in P /\ p <= q - 1
        /\ q \in P => V = U \cup {q} /\ q \notin U
                      /\ Cardinality(V) = Cardinality(U) + 1
        /\ q \notin P => V = U
    <2>1. GoesOn(P, q, U, V)
      BY <1>1, <1>2, UpToNext
    <2> QED
      BY <2>1 DEF GoesOn
  <1>4. ASSUME q \in P
        PROVE  Selects(Append(w, t[q + 1]), t, V)
    <2>1. PICK n, v : n = Len(w) /\ v = Append(w, t[q + 1]) /\ n = Cardinality(U) /\ n \in Nat
      BY <1>1, <1>3 DEF Selects
    <2>2. t[q + 1] \in Chars
      OBVIOUS
    <2>3. /\ v \in Seq(Chars) /\ Len(v) = n + 1 /\ v[n + 1] = t[q + 1]
          /\ \A i \in 1..n : v[i] = w[i]
      BY <2>1, <2>2 DEF Selects
    <2>4. ASSUME NEW p \in V, NEW i \in 1..n + 1, Cardinality(UpTo(V, p)) = i
          PROVE  v[i] = t[p + 1]
      <3>1. CASE p = q
        <4>1. \A x \in V : x <= q
          <5> TAKE x \in V
          <5>1. x \in P /\ (x <= q - 1 \/ x = q)
            BY <1>3, <1>4
          <5> QED
            BY <5>1, <1>2
        <4>2. UpTo(V, q) = V
          BY <4>1 DEF UpTo
        <4>3. i = n + 1
          BY <1>3, <1>4, <2>1, <2>4, <3>1, <4>2
        <4> QED
          BY <2>3, <3>1, <4>3
      <3>2. CASE p # q
        <4>1. p \in U /\ p \in Nat /\ p <= q - 1
          BY <1>2, <1>3, <1>4, <3>2
        <4>2. \A x : x \in UpTo(V, p) <=> x \in UpTo(U, p)
          <5>1. ~(q <= p)
            BY <4>1, <1>2
          <5> QED
            BY <1>3, <1>4, <5>1 DEF UpTo
        <4>3. UpTo(V, p) = UpTo(U, p)
          BY <4>2
        <4>4. UpTo(U, p) \in SUBSET U
          BY DEF UpTo
        <4>5. Cardinality(UpTo(U, p)) <= Cardinality(U)
          BY <1>3, <4>4, FS_Subset
        <4>6. i <= n
          BY <2>1, <2>4, <4>3, <4>5
        <4>7. i \in 1..n
          BY <4>6
        <4>8. w[i] = t[p + 1]
          BY <1>1, <2>1, <2>4, <4>1, <4>3, <4>7 DEF Selects
        <4> QED
          BY <2>3, <4>7, <4>8
      <3> QED
        BY <3>1, <3>2
    <2>5. Len(v) = Cardinality(V)
      BY <1>3, <1>4, <2>1, <2>3
    <2> QED
      BY <2>1, <2>3, <2>4, <2>5 DEF Selects
  <1> QED
    BY <1>1, <1>3, <1>4

\* The set that the loops take their characters from: what is in the columns, up to the
\* i-th character of the mark.
LEMMA TakenNext ==
    ASSUME NEW t \in Seq(Chars), NEW b \in Nat, NEW n \in Nat, b + n <= Len(t),
           NEW P, P = InColumns(t, b, n), NEW i \in 1..n
    PROVE  /\ b + i - 1 \in 0..Len(t) - 1
           /\ t[b + i] \in Chars
           /\ b + i - 1 \in P <=> \/ t[b + i] = NL
                                \/ /\ Colno(t, b) <= Colno(t, b + i - 1)
                                   /\ Colno(t, b + i - 1) < Colno(t, b + n)
           /\ Colno(t, b + i)
                = IF t[b + i] = NL THEN 0 ELSE Advance(Colno(t, b + i - 1), t[b + i])
           /\ GoesOn(P, b + i - 1, UpTo(P, b + (i - 1) - 1), UpTo(P, b + i - 1))
           /\ P \subseteq 0..Len(t) - 1 /\ IsFiniteSet(P)
  <1>1. PICK q \in 0..Len(t) - 1 : q = b + i - 1
    OBVIOUS
  <1>2. /\ q + 1 = b + i /\ q \in b..b + n - 1 /\ q - 1 = b + (i - 1) - 1
        /\ t[q + 1] \in Chars
    BY <1>1
  <1>3. P \subseteq 0..Len(t) - 1 /\ P \subseteq Nat
    BY InColumnsWithin
  <1>4. IsFiniteSet(P)
    <2>1. IsFiniteSet(0..Len(t) - 1)
      BY FS_Interval
    <2>2. P \in SUBSET (0..Len(t) - 1)
      BY <1>3
    <2> QED
      BY <2>1, <2>2, FS_Subset
  <1>5. q \in P <=> \/ t[q + 1] = NL
                    \/ Colno(t, b) <= Colno(t, q) /\ Colno(t, q) < Colno(t, b + n)
    BY <1>2 DEF InColumns
  <1>6. Colno(t, q + 1) = IF t[q + 1] = NL THEN 0 ELSE Advance(Colno(t, q), t[q + 1])
    BY ColnoNext
  <1>7. GoesOn(P, q, UpTo(P, q - 1), UpTo(P, q))
    BY <1>3, <1>4, UpToNext
  <1> QED
    BY <1>1, <1>2, <1>3, <1>4, <1>5, <1>6, <1>7

\* Before the first of them nothing is taken; behind the last one all.
LEMMA TakenEnds ==
    ASSUME NEW b \in Nat, NEW n \in Nat, NEW P, P \subseteq b..b + n - 1
    PROVE  UpTo(P, b + 0 - 1) = {} /\ UpTo(P, b + n - 1) = P
  <1>1. \A p \in P : ~(p <= b + 0 - 1) /\ p <= b + n - 1
    OBVIOUS
  <1> QED
    BY <1>1 DEF UpTo

\* What the loop of sbuf_mark_length computes.
Counts(f, t, b, n, from, to) ==
    f = [i \in 0..n |->
            IF i = 0 THEN [col |-> from, len |-> 0]
            ELSE LET x == f[i - 1]
                     c == t[b + i]
                 IN  IF c = NL THEN [col |-> 0, len |-> x.len + 1]
                     ELSE [col |-> Advance(x.col, c),
                           len |-> IF x.col >= from /\ x.col < to THEN x.len + 1 ELSE x.len]]

LEMMA CountsExists ==
    ASSUME NEW t \in Seq(Chars), NEW b \in Nat, NEW n \in Nat, b + n <= Len(t),
           NEW from \in Nat, NEW to \in Nat
    PROVE  \E f : Counts(f, t, b, n, from, to)
  <1> DEFINE S == [col : Nat, len : Nat]
             Step(i, x) == IF t[b + i] = NL THEN [col |-> 0, len |-> x.len + 1]
                           ELSE [col |-> Advance(x.col, t[b + i]),
                                 len |-> IF x.col >= from /\ x.col < to THEN x.len + 1
                                         ELSE x.len]
             G == [i \in 1..n |-> [x \in S |-> Step(i, x)]]
             a == [col |-> from, len |-> 0]
  <1>1. a \in S
    OBVIOUS
  <1>2. \A i \in 1..n : \A x \in S : Step(i, x) \in S
    <2> TAKE i \in 1..n
    <2> TAKE x \in S
    <2>1. x.col \in Nat /\ x.len \in Nat
      OBVIOUS
    <2>2. Advance(x.col, t[b + i]) \in Nat
      BY <2>1, AdvanceGrows
    <2> QED
      BY <2>1, <2>2
  <1>3. G \in [1..n -> [S -> S]]
    <2> HIDE DEF S, Step
    <2> QED
      BY <1>2
  <1>4. PICK f : Recurses(f, n, S, a, G)
    <2> HIDE DEF G, S, a
    <2> QED
      BY <1>1, <1>3, RecursiveFunctionExists
  <1>5. f \in [0..n -> S] /\ f[0] = a /\ \A i \in 1..n : f[i] = Step(i, f[i - 1])
    <2> HIDE DEF Step, S, a
    <2>1. f \in [0..n -> S] /\ f[0] = a /\ \A i \in 1..n : f[i] = G[i][f[i - 1]]
      BY <1>4 DEF Recurses
    <2>2. \A i \in 1..n : i - 1 \in 0..n
      OBVIOUS
    <2> QED
      BY <2>1, <2>2
  <1>6. f = [i \in 0..n |-> IF i = 0 THEN a ELSE Step(i, f[i - 1])]
    <2> HIDE DEF Step, S, a
    <2> QED
      BY <1>5
  <1> QED
    BY <1>6 DEF Counts

\* It counts what is in the columns.
LEMMA CountsTaken ==
    ASSUME NEW t \in Seq(Chars), NEW b \in Nat, NEW n \in Nat, b + n <= Len(t),
           NEW P, P = InColumns(t, b, n),
           NEW f, Counts(f, t, b, n, Colno(t, b), Colno(t, b + n))
    PROVE  f[n].len = Cardinality(P)
  <1>1. PICK from, to : from = Colno(t, b) /\ to = Colno(t, b + n)
    OBVIOUS
  <1>2. /\ f[0] = [col |-> from, len |-> 0]
        /\ \A i \in 1..n :
              f[i] = IF t[b + i] = NL THEN [col |-> 0, len |-> f[i - 1].len + 1]
                     ELSE [col |-> Advance(f[i - 1].col, t[b + i]),
                           len |-> IF f[i - 1].col >= from /\ f[i - 1].col < to
                                   THEN f[i - 1].len + 1 ELSE f[i - 1].len]
    BY <1>1 DEF Counts
  <1> DEFINE Good(i) == /\ f[i].col = Colno(t, b + i)
                        /\ f[i].len = Cardinality(UpTo(P, b + i - 1))
  <1>3. P \subseteq b..b + n - 1
    BY DEF InColumns
  <1>4. Good(0)
    <2>1. Cardinality(UpTo(P, b + 0 - 1)) = 0
      BY <1>3, TakenEnds, FS_EmptySet
    <2> QED
      BY <1>1, <1>2, <2>1
  <1>5. ASSUME NEW i \in 1..n, Good(i - 1)
        PROVE  Good(i)
    <2>1. /\ b + i - 1 \in P
                <=> t[b + i] = NL \/ (from <= Colno(t, b + i - 1) /\ Colno(t, b + i - 1) < to)
          /\ Colno(t, b + i)
               = IF t[b + i] = NL THEN 0 ELSE Advance(Colno(t, b + i - 1), t[b + i])
          /\ GoesOn(P, b + i - 1, UpTo(P, b + (i - 1) - 1), UpTo(P, b + i - 1))
      BY <1>1, TakenNext
    <2>2. PICK x, q : x = f[i - 1] /\ q = b + i - 1
      OBVIOUS
    <2>3. x.col = Colno(t, q) /\ x.len = Cardinality(UpTo(P, b + (i - 1) - 1))
      <3>1. b + (i - 1) = b + i - 1
        OBVIOUS
      <3> QED
        BY <1>5, <2>2, <3>1
    <2>4. Cardinality(UpTo(P, q)) = IF q \in P THEN x.len + 1 ELSE x.len
      BY <2>1, <2>2, <2>3 DEF GoesOn
    <2>5. CASE t[b + i] = NL
      <3>1. f[i] = [col |-> 0, len |-> x.len + 1]
        BY <1>2, <2>2, <2>5
      <3>2. q \in P /\ Colno(t, b + i) = 0
        BY <2>1, <2>2, <2>5
      <3>3. f[i].col = 0 /\ f[i].len = x.len + 1
        BY <3>1
      <3> QED
        BY <2>2, <2>4, <3>2, <3>3
    <2>6. CASE t[b + i] # NL
      <3>1. f[i] = [col |-> Advance(x.col, t[b + i]),
                    len |-> IF x.col >= from /\ x.col < to THEN x.len + 1 ELSE x.len]
        BY <1>2, <2>2, <2>6
      <3>2. f[i].col = Colno(t, b + i)
        BY <2>1, <2>2, <2>3, <2>6, <3>1
      <3>3. x.col \in Nat /\ from \in Nat
        <4>1. q \in 0..Len(t) /\ b \in 0..Len(t)
          BY <2>2
        <4> QED
          BY <1>1, <2>3, <4>1, ColnoIsNat
      <3>4. x.col >= from /\ x.col < to <=> q \in P
        BY <2>1, <2>2, <2>3, <2>6, <3>3
      <3> QED
        BY <2>2, <2>4, <3>1, <3>2, <3>4
    <2> QED
      BY <2>5, <2>6
  <1> HIDE DEF Good
  <1>6. Good(n)
    <2> DEFINE Bad == {i \in 0..n : ~Good(i)}
    <2>1. SUFFICES ASSUME Bad # {} PROVE FALSE
      OBVIOUS
    <2>2. Bad \subseteq Nat
      OBVIOUS
    <2>3. PICK k \in Bad : \A j \in Bad : k <= j
      BY <2>1, <2>2, LeastNatural
    <2>4. k # 0
      BY <1>4
    <2>5. k \in 1..n /\ Good(k - 1) /\ ~Good(k)
      BY <2>3, <2>4
    <2> QED
      BY <2>5, <1>5
  <1> QED
    BY <1>3, <1>6, TakenEnds DEF Good

\* What the loop of sbuf_strat computes.
Copies(f, t, b, n, from, to) ==
    f = [i \in 0..n |->
            IF i = 0 THEN [col |-> from, str |-> <<>>]
            ELSE LET x == f[i - 1]
                     c == t[b + i]
                 IN  IF c = NL THEN [col |-> 0, str |-> Append(x.str, c)]
                     ELSE [col |-> Advance(x.col, c),
                           str |-> IF x.col >= from /\ x.col < to THEN Append(x.str, c)
                                   ELSE x.str]]

LEMMA CopiesExists ==
    ASSUME NEW t \in Seq(Chars), NEW b \in Nat, NEW n \in Nat, b + n <= Len(t),
           NEW from \in Nat, NEW to \in Nat
    PROVE  \E f : Copies(f, t, b, n, from, to)
  <1> DEFINE S == [col : Nat, str : Seq(Chars)]
             Step(i, x) == IF t[b + i] = NL THEN [col |-> 0, str |-> Append(x.str, t[b + i])]
                           ELSE [col |-> Advance(x.col, t[b + i]),
                                 str |-> IF x.col >= from /\ x.col < to
                                         THEN Append(x.str, t[b + i]) ELSE x.str]
             G == [i \in 1..n |-> [x \in S |-> Step(i, x)]]
             a == [col |-> from, str |-> <<>>]
  <1>1. a \in S
    OBVIOUS
  <1>2. \A i \in 1..n : \A x \in S : Step(i, x) \in S
    <2> TAKE i \in 1..n
    <2> TAKE x \in S
    <2>1. x.col \in Nat /\ x.str \in Seq(Chars)
      OBVIOUS
    <2>2. Advance(x.col, t[b + i]) \in Nat
      BY <2>1, AdvanceGrows
    <2>3. t[b + i] \in Chars
      <3>1. b + i \in 1..Len(t)
        OBVIOUS
      <3> QED
        BY <3>1
    <2>4. Append(x.str, t[b + i]) \in Seq(Chars)
      BY <2>1, <2>3
    <2> QED
      BY <2>1, <2>2, <2>4
  <1>3. G \in [1..n -> [S -> S]]
    <2> HIDE DEF S, Step
    <2> QED
      BY <1>2
  <1>4. PICK f : Recurses(f, n, S, a, G)
    <2> HIDE DEF G, S, a
    <2> QED
      BY <1>1, <1>3, RecursiveFunctionExists
  <1>5. f \in [0..n -> S] /\ f[0] = a /\ \A i \in 1..n : f[i] = Step(i, f[i - 1])
    <2> HIDE DEF Step, S, a
    <2>1. f \in [0..n -> S] /\ f[0] = a /\ \A i \in 1..n : f[i] = G[i][f[i - 1]]
      BY <1>4 DEF Recurses
    <2>2. \A i \in 1..n : i - 1 \in 0..n
      OBVIOUS
    <2> QED
      BY <2>1, <2>2
  <1>6. f = [i \in 0..n |-> IF i = 0 THEN a ELSE Step(i, f[i - 1])]
    <2> HIDE DEF Step, S, a
    <2> QED
      BY <1>5
  <1> QED
    BY <1>6 DEF Copies

\* It copies what is in the columns, in order.
LEMMA CopiesTaken ==
    ASSUME NEW t \in Seq(Chars), NEW b \in Nat, NEW n \in Nat, b + n <= Len(t),
           NEW P, P = InColumns(t, b, n),
           NEW f, Copies(f, t, b, n, Colno(t, b), Colno(t, b + n))
    PROVE  Selects(f[n].str, t, P)
  <1>1. PICK from, to : from = Colno(t, b) /\ to = Colno(t, b + n)
    OBVIOUS
  <1>2. /\ f[0] = [col |-> from, str |-> <<>>]
        /\ \A i \in 1..n :
              f[i] = IF t[b + i] = NL
                     THEN [col |-> 0, str |-> Append(f[i - 1].str, t[b + i])]
                     ELSE [col |-> Advance(f[i - 1].col, t[b + i]),
                           str |-> IF f[i - 1].col >= from /\ f[i - 1].col < to
                                   THEN Append(f[i - 1].str, t[b + i]) ELSE f[i - 1].str]
    <2>1. Copies(f, t, b, n, from, to)
      BY <1>1
    <2>2. f[0] = [col |-> from, str |-> <<>>]
      <3>1. 0 \in 0..n
        OBVIOUS
      <3> QED
        BY <2>1, <3>1 DEF Copies
    <2>3. ASSUME NEW i \in 1..n
          PROVE  f[i] = IF t[b + i] = NL
                        THEN [col |-> 0, str |-> Append(f[i - 1].str, t[b + i])]
                        ELSE [col |-> Advance(f[i - 1].col, t[b + i]),
                              str |-> IF f[i - 1].col >= from /\ f[i - 1].col < to
                                      THEN Append(f[i - 1].str, t[b + i])
                                      ELSE f[i - 1].str]
      <3>1. i \in 0..n /\ i # 0
        OBVIOUS
      <3> QED
        BY <2>1, <3>1, Zenon DEF Copies
    <2> QED
      BY <2>2, <2>3
  <1> DEFINE Good(i) == /\ f[i].col = Colno(t, b + i)
                        /\ Selects(f[i].str, t, UpTo(P, b + i - 1))
  <1>3. P \subseteq b..b + n - 1
    BY DEF InColumns
  <1>4. Good(0)
    <2>1. UpTo(P, b + 0 - 1) = {} /\ Cardinality({}) = 0
      BY <1>3, TakenEnds, FS_EmptySet
    <2>2. Selects(<<>>, t, {})
      BY <2>1 DEF Selects
    <2>3. f[0].col = from /\ f[0].str = <<>>
      BY <1>2
    <2>4. b + 0 = b
      OBVIOUS
    <2> QED
      BY <1>1, <2>1, <2>2, <2>3, <2>4
  <1>5. ASSUME NEW i \in 1..n, Good(i - 1)
        PROVE  Good(i)
    <2>1. /\ b + i - 1 \in 0..Len(t) - 1
          /\ b + i - 1 \in P
                <=> t[b + i] = NL \/ (from <= Colno(t, b + i - 1) /\ Colno(t, b + i - 1) < to)
          /\ Colno(t, b + i)
               = IF t[b + i] = NL THEN 0 ELSE Advance(Colno(t, b + i - 1), t[b + i])
          /\ P \subseteq 0..Len(t) - 1 /\ IsFiniteSet(P)
      BY <1>1, TakenNext
    <2>2. PICK x, q : x = f[i - 1] /\ q = b + i - 1
      OBVIOUS
    <2>3. x.col = Colno(t, q) /\ Selects(x.str, t, UpTo(P, q - 1))
      <3>1. b + (i - 1) = b + i - 1
        OBVIOUS
      <3> QED
        BY <1>5, <2>2, <3>1
    <2>4. q + 1 = b + i
      BY <2>2
    <2>5. /\ q \in P => Selects(Append(x.str, t[b + i]), t, UpTo(P, q))
          /\ q \notin P => Selects(x.str, t, UpTo(P, q))
      <3>1. q \in 0..Len(t) - 1
        BY <2>1, <2>2
      <3>2. PICK w : w = x.str
        OBVIOUS
      <3>3. /\ q \in P => Selects(Append(w, t[q + 1]), t, UpTo(P, q))
            /\ q \notin P => Selects(w, t, UpTo(P, q))
        BY <2>1, <2>3, <3>1, <3>2, SelectsNext
      <3> QED
        BY <2>4, <3>2, <3>3
    <2>6. CASE t[b + i] = NL
      <3>1. f[i] = [col |-> 0, str |-> Append(x.str, t[b + i])]
        BY <1>2, <2>2, <2>6
      <3>2. q \in P /\ Colno(t, b + i) = 0
        BY <2>1, <2>2, <2>6
      <3>3. f[i].col = 0 /\ f[i].str = Append(x.str, t[b + i])
        BY <3>1
      <3> QED
        BY <2>2, <2>5, <3>2, <3>3
    <2>7. CASE t[b + i] # NL
      <3>1. f[i] = [col |-> Advance(x.col, t[b + i]),
                    str |-> IF x.col >= from /\ x.col < to THEN Append(x.str, t[b + i])
                            ELSE x.str]
        BY <1>2, <2>2, <2>7
      <3>2. f[i].col = Colno(t, b + i)
        BY <2>1, <2>2, <2>3, <2>7, <3>1
      <3>3. x.col \in Nat /\ from \in Nat
        <4>1. q \in 0..Len(t) /\ b \in 0..Len(t)
          BY <2>2
        <4> QED
          BY <1>1, <2>3, <4>1, ColnoIsNat
      <3>4. x.col >= from /\ x.col < to <=> q \in P
        BY <2>1, <2>2, <2>3, <2>7, <3>3
      <3>5. f[i].str = IF q \in P THEN Append(x.str, t[b + i]) ELSE x.str
        BY <3>1, <3>4
      <3> QED
        BY <2>2, <2>5, <3>2, <3>5
    <2> QED
      BY <2>6, <2>7
  <1> HIDE DEF Good
  <1>6. Good(n)
    <2> DEFINE Bad == {i \in 0..n : ~Good(i)}
    <2>1. SUFFICES ASSUME Bad # {} PROVE FALSE
      OBVIOUS
    <2>2. Bad \subseteq Nat
      OBVIOUS
    <2>3. PICK k \in Bad : \A j \in Bad : k <= j
      BY <2>1, <2>2, LeastNatural
    <2>4. k # 0
      BY <1>4
    <2>5. k \in 1..n /\ Good(k - 1) /\ ~Good(k)
      BY <2>3, <2>4
    <2> QED
      BY <2>5, <1>5
  <1> QED
    BY <1>3, <1>6, TakenEnds DEF Good

\* The positions of a mark: those in its columns, or all from its begin to its end
Taken(t, m) ==
    IF m.columnar THEN InColumns(t, m.begin, m.len) ELSE m.begin..m.begin + m.len - 1

\* A piece of the text has the characters of its positions.
LEMMA PieceSelects ==
    ASSUME NEW t \in Seq(Chars), NEW b \in Nat, NEW n \in Nat, b + n <= Len(t),
           NEW P, P = b..b + n - 1
    PROVE  Cardinality(P) = n /\ Selects(SubSeq(t, b + 1, b + n), t, P)
  <1>1. IsFiniteSet({}) /\ Cardinality({}) = 0
    BY FS_EmptySet
  <1>2. ASSUME NEW k \in Nat
        PROVE  Cardinality(b..b + k - 1) = k
    <2>1. PICK e \in Nat : e = b + k
      OBVIOUS
    <2>2. b <= e /\ \A x \in {} : x < b /\ x \in Nat
      BY <2>1
    <2>3. Cardinality({} \cup (b..e - 1)) = Cardinality({}) + (e - b)
      BY <1>1, <2>2, CountBehind
    <2>4. {} \cup (b..e - 1) = b..e - 1
      OBVIOUS
    <2> QED
      BY <1>1, <2>1, <2>3, <2>4
  <1>3. PICK w, e : w = SubSeq(t, b + 1, b + n) /\ e = b + n
    OBVIOUS
  <1>4. e \in b..Len(t) /\ b \in 0..Len(t)
    BY <1>3
  <1>5. w \in Seq(Chars) /\ Len(w) = n /\ \A i \in 1..n : w[i] = t[b + i]
    BY <1>3, <1>4
  <1>6. ASSUME NEW p \in P, NEW i \in 1..n, Cardinality(UpTo(P, p)) = i
        PROVE  w[i] = t[p + 1]
    <2>1. PICK k \in Nat : k = p + 1 - b
      OBVIOUS
    <2>2. \A x : x \in UpTo(P, p) <=> x \in b..b + k - 1
      BY <2>1 DEF UpTo
    <2>3. UpTo(P, p) = b..b + k - 1
      BY <2>2
    <2>4. i = k
      BY <1>2, <1>6, <2>3
    <2> QED
      BY <1>5, <2>1, <2>4
  <1>7. Cardinality(P) = n
    BY <1>2
  <1> QED
    BY <1>3, <1>5, <1>6, <1>7 DEF Selects

\* What sbuf_strat copies are the characters that the mark takes, in order, as many as
\* sbuf_mark_length counts.
LEMMA StratIsText ==
    ASSUME NEW t \in Seq(Chars), NEW m, m.begin \in Nat, m.len \in Nat,
           m.begin + m.len <= Len(t)
    PROVE  /\ Strat(t, m) \in Seq(Chars)
           /\ Len(Strat(t, m)) = MarkLength(t, m)
           /\ Selects(Strat(t, m), t, Taken(t, m))
  <1>1. PICK b \in Nat, n \in Nat : b = m.begin /\ n = m.len
    OBVIOUS
  <1>2. PICK from \in Nat, to \in Nat : from = Colno(t, b) /\ to = Colno(t, b + n)
    <2>1. b \in 0..Len(t) /\ b + n \in 0..Len(t)
      BY <1>1
    <2> QED
      BY <2>1, ColnoIsNat
  <1>3. CASE m.columnar
    <2>1. MarkLength(t, m) = Cardinality(Taken(t, m))
      <3> DEFINE Recursive(f) ==
                    f = [i \in 0..m.len |->
                            IF i = 0 THEN [col |-> Colno(t, m.begin), len |-> 0]
                            ELSE LET x == f[i - 1]
                                     c == t[m.begin + i]
                                 IN  IF c = NL THEN [col |-> 0, len |-> x.len + 1]
                                     ELSE [col |-> Advance(x.col, c),
                                           len |-> IF /\ x.col >= Colno(t, m.begin)
                                                      /\ x.col < Colno(t, m.begin + m.len)
                                                   THEN x.len + 1 ELSE x.len]]
                 g == CHOOSE f : Recursive(f)
      <3>1. \A f : Recursive(f) <=> Counts(f, t, b, n, from, to)
        BY <1>1, <1>2 DEF Counts
      <3>2. MarkLength(t, m) = g[m.len].len
        BY <1>3 DEF MarkLength
      <3>3. \E f : Recursive(f)
        <4> HIDE DEF Recursive
        <4> QED
          BY <1>1, <1>2, <3>1, CountsExists
      <3>4. Counts(g, t, b, n, from, to)
        <4> HIDE DEF Recursive
        <4> QED
          BY <3>1, <3>3
      <3>5. PICK h : h = g
        OBVIOUS
      <3> HIDE DEF g, Recursive
      <3>6. h[n].len = Cardinality(InColumns(t, b, n))
        BY <1>1, <1>2, <3>4, <3>5, CountsTaken
      <3> QED
        BY <1>1, <1>3, <3>2, <3>5, <3>6 DEF Taken
    <2>2. Selects(Strat(t, m), t, Taken(t, m))
      <3> DEFINE Recursive(f) ==
                    f = [i \in 0..m.len |->
                            IF i = 0 THEN [col |-> Colno(t, m.begin), str |-> <<>>]
                            ELSE LET x == f[i - 1]
                                     c == t[m.begin + i]
                                 IN  IF c = NL THEN [col |-> 0, str |-> Append(x.str, c)]
                                     ELSE [col |-> Advance(x.col, c),
                                           str |-> IF /\ x.col >= Colno(t, m.begin)
                                                      /\ x.col < Colno(t, m.begin + m.len)
                                                   THEN Append(x.str, c) ELSE x.str]]
                 g == CHOOSE f : Recursive(f)
      <3>1. \A f : Recursive(f) <=> Copies(f, t, b, n, from, to)
        BY <1>1, <1>2 DEF Copies
      <3>2. Strat(t, m) = g[m.len].str
        BY <1>3 DEF Strat
      <3>3. \E f : Recursive(f)
        <4> HIDE DEF Recursive
        <4> QED
          BY <1>1, <1>2, <3>1, CopiesExists
      <3>4. Copies(g, t, b, n, from, to)
        <4> HIDE DEF Recursive
        <4> QED
          BY <3>1, <3>3
      <3>5. PICK h : h = g
        OBVIOUS
      <3> HIDE DEF g, Recursive
      <3>6. Selects(h[n].str, t, InColumns(t, b, n))
        BY <1>1, <1>2, <3>4, <3>5, CopiesTaken
      <3> QED
        BY <1>1, <1>3, <3>2, <3>5, <3>6 DEF Taken
    <2> QED
      BY <2>1, <2>2 DEF Selects
  <1>4. CASE ~m.columnar
    <2>1. Strat(t, m) = SubSeq(t, b + 1, b + n) /\ MarkLength(t, m) = n
      BY <1>1, <1>4 DEF Strat, MarkLength
    <2>2. Taken(t, m) = b..b + n - 1
      BY <1>1, <1>4 DEF Taken
    <2>3. Cardinality(b..b + n - 1) = n /\ Selects(SubSeq(t, b + 1, b + n), t, b..b + n - 1)
      BY <1>1, PieceSelects
    <2> QED
      BY <2>1, <2>2, <2>3 DEF Selects
  <1> QED
    BY <1>3, <1>4
=============================================================================
