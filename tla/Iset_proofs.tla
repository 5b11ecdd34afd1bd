------------------------------ MODULE Iset_proofs ------------------------------
(***************************************************************************)
(* Proofs about module Iset: whatever numbers are added to two sets and    *)
(* removed from them, the lists of their ranges stay in order, separate    *)
(* and linked both ways, even when highest does not point at the last      *)
(* range; and as long as it does, the sets have the numbers that they are  *)
(* to have.                                                                *)
(***************************************************************************)
EXTENDS Iset, FiniteSetTheorems, SequenceTheorems, WellFoundedInduction, TLAPS

-----------------------------------------------------------------------------
\* A set of naturals that is not empty has a least element: the form in which
\* the proofs here argue by induction.
LEMMA LeastNatural ==
    ASSUME NEW T, T \subseteq Nat, T # {}
    PROVE  \E m \in T : \A n \in T : m <= n
  <1>1. \E m \in T : \A n \in T : <<n, m>> \notin OpToRel(<, Nat)
    BY NatLessThanWellFounded, WFMin
  <1>2. PICK m \in T : \A n \in T : <<n, m>> \notin OpToRel(<, Nat)
    BY <1>1
  <1>3. \A n \in T : ~(n < m)
    BY <1>2 DEF OpToRel
  <1> QED
    BY <1>3

\* Recursive functions on an initial segment of the naturals.

\* f begins with a and goes on as G says.
Recurses(f, n, S, a, G) ==
    f \in [0..n -> S] /\ f[0] = a /\ \A i \in 1..n : f[i] = G[i][f[i - 1]]

\* There is such a function.
LEMMA RecursiveFunctionExists ==
    ASSUME NEW n \in Nat, NEW S, NEW a \in S, NEW G \in [1..n -> [S -> S]]
    PROVE  \E f : Recurses(f, n, S, a, G)
  <1> USE DEF Recurses
  <1> DEFINE Good(k, f) == Recurses(f, k, S, a, G)
             Bad == {k \in 0..n : ~\E f : Good(k, f)}
  <1>1. CASE Bad = {}
    <2>1. n \in 0..n
      OBVIOUS
    <2>2. \E f : Good(n, f)
      BY <1>1, <2>1
    <2> QED
      BY <2>2
  <1>2. CASE Bad # {}
    <2>1. PICK k \in Bad : \A j \in Bad : k <= j
      <3>1. Bad \subseteq Nat
        OBVIOUS
      <3> QED
        BY <1>2, <3>1, LeastNatural
    <2>2. CASE k = 0
      <3> DEFINE f == [i \in 0..0 |-> a]
      <3>1. Good(0, f)
        OBVIOUS
      <3> QED
        BY <3>1, <2>2
    <2>3. CASE k # 0
      <3>1. k - 1 \in 0..n /\ k - 1 \notin Bad
        BY <2>1, <2>3
      <3>2. PICK f : Good(k - 1, f)
        BY <3>1
      <3> DEFINE g == [i \in 0..k |-> IF i = k THEN G[k][f[k - 1]] ELSE f[i]]
      <3>3. G[k][f[k - 1]] \in S
        <4>1. k - 1 \in 0..k - 1 /\ k \in 1..n
          BY <3>1, <2>1, <2>3
        <4>2. f[k - 1] \in S
          BY <3>2, <4>1
        <4> QED
          BY <4>1, <4>2
      <3>4. g \in [0..k -> S]
        BY <3>2, <3>3, <2>1
      <3>5. g[0] = a
        BY <3>2, <2>3, <2>1
      <3>6. \A i \in 1..k : g[i] = G[i][g[i - 1]]
        <4> TAKE i \in 1..k
        <4>1. g[i - 1] = f[i - 1]
          BY <2>1
        <4>2. CASE i = k
          BY <4>1, <4>2
        <4>3. CASE i # k
          <5>1. i \in 1..k - 1
            BY <4>3, <2>1
          <5> QED
            BY <5>1, <4>1, <4>3, <3>2
        <4> QED
          BY <4>2, <4>3
      <3>7. Good(k, g)
        BY <3>4, <3>5, <3>6
      <3> QED
        BY <3>7, <2>1
    <2> QED
      BY <2>2, <2>3
  <1> QED
    BY <1>1, <1>2

-----------------------------------------------------------------------------
\* Lists as sets of ranges.

\* A pointer to a range, or NULL.
Ptr == Nat \cup {NULL}

\* What is in the block of a range.
Block == [start : Int, end : Int, prev : Ptr, next : Ptr]

\* Finitely many blocks.
IsHeap(h) ==
    /\ h = [a \in DOMAIN h |-> h[a]]
    /\ DOMAIN h \subseteq Nat /\ IsFiniteSet(DOMAIN h)
    /\ \A a \in DOMAIN h : h[a] \in Block

\* The range a is lower than the range b.
Below(h, a, b) == h[a].start < h[b].start

\* x is the range of R that follows a, or NULL if there is none.
Follows(R, h, a, x) ==
    /\ x = NULL => \A b \in R : ~Below(h, a, b)
    /\ x # NULL => /\ x \in R /\ Below(h, a, x)
                   /\ \A b \in R : ~(Below(h, a, b) /\ Below(h, b, x))

\* x is the range of R before a, or NULL if there is none.
Precedes(R, h, a, x) ==
    /\ x = NULL => \A b \in R : ~Below(h, b, a)
    /\ x # NULL => /\ x \in R /\ Below(h, x, a)
                   /\ \A b \in R : ~(Below(h, x, b) /\ Below(h, b, a))

\* x is the first range of R, or NULL if there is none.
Begins(R, h, x) ==
    /\ x = NULL => R = {}
    /\ x # NULL => x \in R /\ \A b \in R : ~Below(h, b, x)

\* Of two ranges of R one ends before the other begins, and there is a number
\* between them, unless the lower one is q.
Apart(R, h, q) ==
    \A a, b \in R : Below(h, a, b) =>
        h[a].end < h[b].start /\ (a # q => h[a].end + 1 < h[b].start)

\* The ranges in R make up a list, in order and linked both ways.  The one at q
\* may touch the next one.
Chain(R, low, h, q) ==
    /\ R \subseteq DOMAIN h
    /\ \A a \in R : h[a].start <= h[a].end
    /\ \A a, b \in R : a = b \/ Below(h, a, b) \/ Below(h, b, a)
    /\ Apart(R, h, q)
    /\ \A a \in R : Follows(R, h, a, h[a].next) /\ Precedes(R, h, a, h[a].prev)
    /\ Begins(R, h, low)

\* The sequence l goes along the list.
Along(l, R, low, h) ==
    /\ l \in Seq(R) /\ Len(l) \in Nat
    /\ \A a \in R : \E k \in 1..Len(l) : l[k] = a
    /\ \A j, k \in 1..Len(l) : j < k => Below(h, l[j], l[k])
    /\ \A k \in 1..Len(l) : h[l[k]].prev = IF k = 1 THEN NULL ELSE l[k - 1]
    /\ Len(l) = 0 => low = NULL
    /\ Len(l) # 0 => l[1] = low

\* There is a walk along a list until it ends.
LEMMA WalkExists ==
    ASSUME NEW h, IsHeap(h), NEW R, NEW low, NEW q, Chain(R, low, h, q),
           NEW n \in Nat
    PROVE  \E f : f = [i \in 1..n + 1 |->
                        IF i = 1 THEN low
                        ELSE LET p == f[i - 1] IN IF p = NULL THEN NULL ELSE h[p].next]
  <1> DEFINE S == R \cup {NULL}
             G == [i \in 1..n |-> [x \in S |-> IF x = NULL THEN NULL ELSE h[x].next]]
  <1>1. low \in S /\ \A x \in R : h[x].next \in S
    BY DEF Chain, Begins, Follows
  <1>2. G \in [1..n -> [S -> S]]
    BY <1>1
  <1> HIDE DEF S
  <1>3. PICK f : Recurses(f, n, S, low, G)
    <2> HIDE DEF G
    <2> QED
      BY <1>1, <1>2, RecursiveFunctionExists
  <1>4. /\ f \in [0..n -> S] /\ f[0] = low
        /\ \A i \in 1..n : f[i] = G[i][f[i - 1]]
    BY <1>3 DEF Recurses
  <1>5. \A i \in 1..n : f[i] = IF f[i - 1] = NULL THEN NULL ELSE h[f[i - 1]].next
    <2> TAKE i \in 1..n
    <2>1. f[i - 1] \in S /\ f[i] = G[i][f[i - 1]]
      BY <1>4
    <2> QED
      BY <2>1
  <1> DEFINE g == [i \in 1..n + 1 |-> f[i - 1]]
  <1>6. g = [i \in 1..n + 1 |->
                IF i = 1 THEN low
                ELSE LET p == g[i - 1] IN IF p = NULL THEN NULL ELSE h[p].next]
    <2>1. \A i \in 1..n + 1 : i # 1 => i - 1 \in 1..n /\ g[i - 1] = f[i - 1 - 1]
      OBVIOUS
    <2>2. \A i \in 1..n + 1 : g[i] = IF i = 1 THEN low
                ELSE LET p == g[i - 1] IN IF p = NULL THEN NULL ELSE h[p].next
      BY <1>4, <1>5, <2>1
    <2> QED
      BY <2>2
  <1> QED
    BY <1>6

\* f walks along the list.
Walks(f, n, low, h) ==
    f = [i \in 1..n + 1 |->
            IF i = 1 THEN low
            ELSE LET p == f[i - 1] IN IF p = NULL THEN NULL ELSE h[p].next]

\* As long as it has not ended the walk goes upwards in R.
LEMMA WalkGoesUp ==
    ASSUME NULL \notin Nat, NEW h, IsHeap(h), NEW R, NEW low, NEW q,
           Chain(R, low, h, q), NEW n \in Nat, NEW f, Walks(f, n, low, h),
           NEW e \in 1..n + 2, \A i \in 1..e - 1 : f[i] # NULL
    PROVE  \A i \in 1..e - 1 : /\ f[i] \in R
                               /\ \A j \in 1..i - 1 : Below(h, f[j], f[i])
                               /\ Precedes(R, h, f[i], IF i = 1 THEN NULL ELSE f[i - 1])
  <1> DEFINE Up(i) == /\ f[i] \in R
                      /\ \A j \in 1..i - 1 : Below(h, f[j], f[i])
                      /\ Precedes(R, h, f[i], IF i = 1 THEN NULL ELSE f[i - 1])
             Bad == {i \in 1..e - 1 : ~Up(i)}
  <1>1. ASSUME Bad # {} PROVE FALSE
    <2>1. PICK i \in Bad : \A j \in Bad : i <= j
      <3>1. Bad \subseteq Nat
        OBVIOUS
      <3> QED
        BY <1>1, <3>1, LeastNatural
    <2>2. i \in 1..e - 1 /\ ~Up(i) /\ f[i] # NULL
      BY <2>1
    <2>3. \A x \in R : x \in DOMAIN h /\ h[x].start \in Int
      BY DEF Chain, IsHeap, Block
    <2>4. CASE i = 1
      <3>1. f[1] = low
        BY DEF Walks
      <3>2. f[1] \in R /\ \A b \in R : ~Below(h, b, f[1])
        BY <2>2, <2>4, <3>1 DEF Chain, Begins
      <3>3. Precedes(R, h, f[1], NULL)
        BY <3>2 DEF Precedes
      <3>4. Up(1)
        BY <3>2, <3>3
      <3> QED
        BY <2>2, <2>4, <3>4
    <2>5. CASE i # 1
      <3>1. i - 1 \in 1..e - 1 /\ i - 1 \notin Bad
        BY <2>1, <2>5
      <3>2. Up(i - 1) /\ f[i - 1] # NULL
        BY <3>1
      <3>3. f[i] = h[f[i - 1]].next
        <4>1. i \in 1..n + 1
          BY <2>2
        <4> QED
          BY <3>2, <2>5, <4>1 DEF Walks
      <3>4. Follows(R, h, f[i - 1], f[i])
        BY <3>2, <3>3 DEF Chain
      <3>5. /\ f[i] \in R /\ Below(h, f[i - 1], f[i])
            /\ \A b \in R : ~(Below(h, f[i - 1], b) /\ Below(h, b, f[i]))
        BY <2>2, <3>4 DEF Follows
      <3>6. ASSUME NEW j \in 1..i - 1
            PROVE  Below(h, f[j], f[i])
        <4>1. j = i - 1 \/ j \in 1..i - 1 - 1
          BY <2>2
        <4>2. CASE j \in 1..i - 1 - 1
          <5>1. Below(h, f[j], f[i - 1])
            BY <3>2, <4>2
          <5>2. j \in 1..e - 1 /\ j \notin Bad
            BY <2>1, <4>2
          <5>3. f[j] \in R /\ f[i - 1] \in R
            BY <3>2, <5>2
          <5> QED
            BY <2>3, <3>5, <5>1, <5>3 DEF Below
        <4> QED
          BY <3>5, <4>1, <4>2
      <3>7. Precedes(R, h, f[i], f[i - 1])
        BY <3>2, <3>5 DEF Precedes
      <3>8. Up(i)
        BY <2>5, <3>5, <3>6, <3>7
      <3> QED
        BY <2>2, <3>8
    <2> QED
      BY <2>4, <2>5
  <1> QED
    BY <1>1

\* The walk ends.
LEMMA WalkEnds ==
    ASSUME NULL \notin Nat, NEW h, IsHeap(h), NEW R, NEW low, NEW q,
           Chain(R, low, h, q), NEW n, n = Cardinality(DOMAIN h),
           NEW f, Walks(f, n, low, h)
    PROVE  \E e \in 1..n + 1 : f[e] = NULL /\ \A i \in 1..e - 1 : f[i] # NULL
  <1>1. n \in Nat /\ R \subseteq DOMAIN h /\ DOMAIN h \subseteq Nat
    BY FS_CardinalityType DEF IsHeap, Chain
  <1>2. \E e \in 1..n + 1 : f[e] = NULL
    <2>1. SUFFICES ASSUME \A e \in 1..n + 1 : f[e] # NULL PROVE FALSE
      OBVIOUS
    <2>2. PICK e \in 1..n + 2 : e = n + 2
      BY <1>1
    <2>3. \A i \in 1..e - 1 : f[i] # NULL
      BY <1>1, <2>1, <2>2
    <2>4. \A i \in 1..e - 1 : f[i] \in R /\ \A j \in 1..i - 1 : Below(h, f[j], f[i])
      BY <1>1, <2>3, WalkGoesUp
    <2>5. \A i \in 1..n + 1 : f[i] \in R /\ \A j \in 1..i - 1 : Below(h, f[j], f[i])
      BY <1>1, <2>2, <2>4
    <2>6. \A i, j \in 1..n + 1 : j < i => f[i] # f[j]
      <3> TAKE i, j \in 1..n + 1
      <3> HAVE j < i
      <3>1. j \in 1..i - 1
        BY <1>1
      <3>2. Below(h, f[j], f[i]) /\ f[i] \in DOMAIN h
        BY <1>1, <2>5, <3>1
      <3>3. h[f[i]].start \in Int
        BY <3>2 DEF IsHeap, Block
      <3> QED
        BY <3>2, <3>3 DEF Below
    <2>7. PICK S : S = 1..n + 1
      OBVIOUS
    <2>8. IsFiniteSet(S) /\ Cardinality(S) = n + 1
      BY <1>1, <2>7, FS_Interval
    <2>9. f \in [S -> DOMAIN h]
      BY <1>1, <2>5, <2>7 DEF Walks
    <2>10. \E i, j \in S : i # j /\ f[i] = f[j]
      BY <1>1, <2>8, <2>9, FS_PigeonHole DEF IsHeap
    <2> QED
      BY <1>1, <2>6, <2>7, <2>10
  <1>3. PICK T : T = {e \in 1..n + 1 : f[e] = NULL}
    OBVIOUS
  <1>4. T \subseteq Nat /\ T # {}
    BY <1>1, <1>2, <1>3
  <1>5. PICK e \in T : \A i \in T : e <= i
    BY <1>4, LeastNatural
  <1> QED
    BY <1>1, <1>3, <1>5

\* Only one range comes before another.
LEMMA OnePrecedes ==
    ASSUME NEW h, IsHeap(h), NEW R, NEW low, NEW q, Chain(R, low, h, q),
           NEW a, NEW x, NEW y, Precedes(R, h, a, x), Precedes(R, h, a, y)
    PROVE  x = y
  <1>1. \A b, c \in R : b = c \/ Below(h, b, c) \/ Below(h, c, b)
    BY DEF Chain
  <1> QED
    BY <1>1 DEF Precedes

\* Until it ends the walk has come to all ranges.
LEMMA WalkMeetsAll ==
    ASSUME NULL \notin Nat, NEW h, IsHeap(h), NEW R, NEW low, NEW q,
           Chain(R, low, h, q), NEW n \in Nat, NEW f, Walks(f, n, low, h),
           NEW e \in 1..n + 1, \A i \in 1..e - 1 : f[i] # NULL, f[e] = NULL,
           NEW b \in R
    PROVE  \E k \in 1..e - 1 : f[k] = b
  <1>1. SUFFICES ASSUME \A k \in 1..e - 1 : f[k] # b PROVE FALSE
    OBVIOUS
  <1>2. \A i \in 1..e - 1 : f[i] \in R
    <2>1. PICK m \in 1..n + 2 : m = e
      OBVIOUS
    <2>2. \A i \in 1..m - 1 : f[i] # NULL
      BY <2>1
    <2>3. \A i \in 1..m - 1 : f[i] \in R
      BY <2>2, WalkGoesUp
    <2> QED
      BY <2>1, <2>3
  <1>3. \A i \in 1..n + 1 : i # 1 /\ f[i - 1] # NULL => f[i] = h[f[i - 1]].next
    BY DEF Walks
  <1>4. \A x \in R : x = b \/ Below(h, x, b) \/ Below(h, b, x)
    BY DEF Chain
  <1>5. e # 1
    <2>1. f[1] = low
      BY DEF Walks
    <2> QED
      BY <2>1 DEF Chain, Begins
  <1> DEFINE Bad == {k \in 1..e - 1 : ~Below(h, f[k], b)}
  <1>6. ASSUME Bad # {} PROVE FALSE
    <2>1. PICK k \in Bad : \A j \in Bad : k <= j
      <3>1. Bad \subseteq Nat
        OBVIOUS
      <3> QED
        BY <1>6, <3>1, LeastNatural
    <2>2. k \in 1..e - 1 /\ ~Below(h, f[k], b) /\ f[k] \in R /\ f[k] # b
      BY <1>1, <1>2, <2>1
    <2>3. Below(h, b, f[k])
      BY <1>4, <2>2
    <2>4. CASE k = 1
      <3>1. f[1] = low
        BY DEF Walks
      <3>2. low \in R /\ Below(h, b, low)
        BY <2>2, <2>3, <2>4, <3>1
      <3>3. low # NULL
        BY <2>2, <2>4, <3>1
      <3> QED
        BY <3>2, <3>3 DEF Chain, Begins
    <2>5. CASE k # 1
      <3>1. k - 1 \in 1..e - 1 /\ k - 1 \notin Bad
        BY <2>1, <2>5
      <3>2. Below(h, f[k - 1], b) /\ f[k - 1] \in R /\ f[k - 1] # NULL
        BY <1>2, <3>1
      <3>3. f[k] = h[f[k - 1]].next /\ f[k] # NULL
        BY <1>3, <2>2, <2>5, <3>2
      <3>4. Follows(R, h, f[k - 1], f[k])
        BY <3>2, <3>3 DEF Chain
      <3> QED
        BY <2>3, <3>2, <3>3, <3>4 DEF Follows
    <2> QED
      BY <2>4, <2>5
  <1>7. Below(h, f[e - 1], b) /\ f[e - 1] \in R /\ f[e - 1] # NULL
    <2>1. e - 1 \in 1..e - 1 /\ e - 1 \notin Bad
      BY <1>5, <1>6
    <2> QED
      BY <1>2, <2>1
  <1>8. f[e] = h[f[e - 1]].next
    BY <1>3, <1>5, <1>7
  <1>9. Follows(R, h, f[e - 1], NULL)
    BY <1>7, <1>8 DEF Chain
  <1> QED
    BY <1>7, <1>9 DEF Follows

\* The sequence of ranges goes along the list.
LEMMA ListGoesAlong ==
    ASSUME NULL \notin Nat, NEW h, IsHeap(h), NEW R, NEW is, NEW q,
           Chain(R, is.lowest, h, q)
    PROVE  Along(List(is, h), R, is.lowest, h)
  <1>1. PICK n \in Nat : n = Cardinality(DOMAIN h)
    BY FS_CardinalityType DEF IsHeap
  <1>2. PICK low : low = is.lowest
    OBVIOUS
  <1>3. Chain(R, low, h, q)
    BY <1>2
  <1>4. PICK f : f = CHOOSE r : Walks(r, n, low, h)
    OBVIOUS
  <1>5. Walks(f, n, low, h)
    <2>1. \E r : Walks(r, n, low, h)
      BY <1>3, WalkExists DEF Walks
    <2> QED
      BY <1>4, <2>1
  <1>6. PICK e \in 1..n + 1 : f[e] = NULL /\ \A i \in 1..e - 1 : f[i] # NULL
    BY <1>1, <1>5, <1>3, WalkEnds
  <1>7. DOMAIN f = 1..n + 1
    BY <1>5 DEF Walks
  <1>8. (CHOOSE i \in DOMAIN f : f[i] = NULL /\ \A j \in 1..i - 1 : f[j] # NULL) = e
    <2>1. \A i \in 1..n + 1 :
            (f[i] = NULL /\ \A j \in 1..i - 1 : f[j] # NULL) => i = e
      BY <1>6
    <2> QED
      BY <1>6, <1>7, <2>1
  <1>9. List(is, h) = SubSeq(f, 1, e - 1)
    <2>1. List(is, h) =
            LET r == CHOOSE r : Walks(r, n, low, h)
                end == CHOOSE i \in DOMAIN r : r[i] = NULL /\ \A j \in 1..i - 1 : r[j] # NULL
            IN  SubSeq(r, 1, end - 1)
      BY <1>1, <1>2 DEF List, Walks
    <2> QED
      BY <1>4, <1>8, <2>1
  <1>10. PICK l : l = SubSeq(f, 1, e - 1)
    OBVIOUS
  <1>11. \A i \in 1..e - 1 :
            /\ f[i] \in R
            /\ \A j \in 1..i - 1 : Below(h, f[j], f[i])
            /\ Precedes(R, h, f[i], IF i = 1 THEN NULL ELSE f[i - 1])
    <2>1. PICK m \in 1..n + 2 : m = e
      BY <1>6
    <2>2. \A i \in 1..m - 1 : f[i] # NULL
      BY <1>6, <2>1
    <2>3. \A i \in 1..m - 1 : /\ f[i] \in R
                              /\ \A j \in 1..i - 1 : Below(h, f[j], f[i])
                              /\ Precedes(R, h, f[i], IF i = 1 THEN NULL ELSE f[i - 1])
      BY <1>5, <1>3, <2>2, WalkGoesUp
    <2> QED
      BY <2>1, <2>3
  <1>12. l \in Seq(R) /\ Len(l) = e - 1 /\ \A i \in 1..e - 1 : l[i] = f[i]
    <2>1. e - 1 \in Nat /\ l = [i \in 1..e - 1 |-> f[i]]
      <3>1. l = [i \in 1..e - 1 |-> f[1 + i - 1]]
        BY <1>6, <1>10 DEF SubSeq
      <3> QED
        BY <1>6, <3>1
    <2> QED
      BY <1>11, <2>1
  <1>13. \A a \in R : \E k \in 1..Len(l) : l[k] = a
    <2> TAKE a \in R
    <2>1. \E k \in 1..e - 1 : f[k] = a
      BY <1>5, <1>6, <1>3, WalkMeetsAll
    <2> QED
      BY <1>12, <2>1
  <1>14. \A j, k \in 1..Len(l) : j < k => Below(h, l[j], l[k])
    BY <1>11, <1>12
  <1>15. \A k \in 1..Len(l) : h[l[k]].prev = IF k = 1 THEN NULL ELSE l[k - 1]
    <2> TAKE k \in 1..Len(l)
    <2>1. Precedes(R, h, f[k], IF k = 1 THEN NULL ELSE f[k - 1]) /\ f[k] \in R
      <3>1. k \in 1..e - 1
        BY <1>12
      <3> QED
        BY <1>11, <3>1
    <2>2. Precedes(R, h, f[k], h[f[k]].prev)
      BY <1>3, <2>1 DEF Chain
    <2>3. h[f[k]].prev = IF k = 1 THEN NULL ELSE f[k - 1]
      BY <2>1, <2>2, OnePrecedes
    <2>4. l[k] = f[k] /\ (k # 1 => l[k - 1] = f[k - 1])
      BY <1>12
    <2> QED
      BY <2>3, <2>4
  <1>16. f[1] = low
    BY <1>5 DEF Walks
  <1>17. /\ Len(l) = 0 => low = NULL
         /\ Len(l) # 0 => l[1] = low
    BY <1>6, <1>12, <1>16
  <1> QED
    BY <1>2, <1>9, <1>10, <1>12, <1>13, <1>14, <1>15, <1>17 DEF Along

-----------------------------------------------------------------------------
\* What happens to a list when a range is resized, made or freed.

\* h1 is h with other numbers in the range r.
Resizes(h, h1, r) ==
    /\ IsHeap(h1) /\ DOMAIN h1 = DOMAIN h
    /\ \A a \in DOMAIN h : a # r => h1[a] = h[a]
    /\ h1[r].prev = h[r].prev /\ h1[r].next = h[r].next

\* The range r may be resized within the numbers that separate it from the others;
\* it may touch the next one if it is q.
LEMMA ResizedIsChain ==
    ASSUME NULL \notin Nat, NEW h, IsHeap(h), NEW R, NEW low, NEW p,
           Chain(R, low, h, p), NEW r \in R, p = r \/ p = NULL, NEW q,
           NEW h1, Resizes(h, h1, r), h1[r].start <= h1[r].end,
           \A a \in R : Below(h, a, r) => h[a].end + 1 < h1[r].start,
           \A a \in R : Below(h, r, a) => /\ h1[r].end < h[a].start
                                          /\ r # q => h1[r].end + 1 < h[a].start
    PROVE  Chain(R, low, h1, q)
  <1>1. /\ R \subseteq DOMAIN h /\ R \subseteq DOMAIN h1
        /\ \A a \in R : /\ h[a].start \in Int /\ h[a].end \in Int
                        /\ h1[a].start \in Int /\ h1[a].end \in Int
                        /\ h[a].start <= h[a].end /\ h1[a].start <= h1[a].end
                        /\ a # NULL
    BY DEF Chain, Resizes, IsHeap, Block
  <1>2. \A a \in R : /\ a # r => h1[a].start = h[a].start /\ h1[a].end = h[a].end
                     /\ h1[a].prev = h[a].prev /\ h1[a].next = h[a].next
    BY <1>1 DEF Resizes
  <1>3. \A a, b \in R : a = b \/ Below(h, a, b) \/ Below(h, b, a)
    BY DEF Chain
  <1>4. \A a, b \in R : /\ Below(h, a, b) => Below(h1, a, b)
                        /\ Below(h, a, b) /\ a # r /\ b # r => h[a].end + 1 < h[b].start
    <2> TAKE a, b \in R
    <2>1. CASE a # r /\ b # r
      <3>1. Below(h, a, b) => h[a].end + 1 < h[b].start
        BY <1>1, <2>1 DEF Chain, Apart
      <3> QED
        BY <1>2, <2>1, <3>1 DEF Below
    <2>2. CASE a = r /\ b # r
      BY <1>1, <1>2, <2>2 DEF Below
    <2>3. CASE a # r /\ b = r
      BY <1>1, <1>2, <2>3 DEF Below
    <2>4. CASE a = r /\ b = r
      BY <1>1, <2>4 DEF Below
    <2> QED
      BY <2>1, <2>2, <2>3, <2>4
  <1>5. \A a, b \in R : Below(h, a, b) <=> Below(h1, a, b)
    <2>1. \A a, b \in R : Below(h1, a, b) => ~Below(h1, b, a) /\ a # b
      BY <1>1 DEF Below
    <2> QED
      BY <1>3, <1>4, <2>1
  <1>6. Apart(R, h1, q)
    <2> SUFFICES ASSUME NEW a \in R, NEW b \in R, Below(h1, a, b)
                 PROVE  h1[a].end < h1[b].start /\ (a # q => h1[a].end + 1 < h1[b].start)
      BY DEF Apart
    <2>1. Below(h, a, b) /\ a # b
      BY <1>1, <1>5 DEF Below
    <2>2. CASE a # r /\ b # r
      BY <1>1, <1>2, <1>4, <2>1, <2>2
    <2>3. CASE a = r
      BY <1>1, <1>2, <2>1, <2>3
    <2>4. CASE b = r
      BY <1>1, <1>2, <2>1, <2>4
    <2> QED
      BY <2>2, <2>3, <2>4
  <1>7. ASSUME NEW a \in R
        PROVE  Follows(R, h1, a, h1[a].next) /\ Precedes(R, h1, a, h1[a].prev)
    <2>1. Follows(R, h, a, h1[a].next) /\ Precedes(R, h, a, h1[a].prev)
      BY <1>2 DEF Chain
    <2> QED
      BY <1>5, <2>1 DEF Follows, Precedes
  <1>8. Begins(R, h1, low)
    <2>1. Begins(R, h, low)
      BY DEF Chain
    <2> QED
      BY <1>5, <2>1 DEF Begins
  <1> QED
    BY <1>1, <1>3, <1>5, <1>6, <1>7, <1>8 DEF Chain

\* h1 is h with a new range between p and x, either of which may be NULL.
Inserts(h, h1, new, p, x) ==
    /\ IsHeap(h1) /\ DOMAIN h1 = DOMAIN h \cup {new} /\ new \notin DOMAIN h
    /\ \A a \in DOMAIN h : a # p /\ a # x => h1[a] = h[a]
    /\ h1[new].prev = p /\ h1[new].next = x
    /\ p # NULL => /\ h1[p].start = h[p].start /\ h1[p].end = h[p].end
                   /\ h1[p].prev = h[p].prev /\ h1[p].next = new
    /\ x # NULL => /\ h1[x].start = h[x].start /\ h1[x].end = h[x].end
                   /\ h1[x].next = h[x].next /\ h1[x].prev = new

\* p and x are neighbours in the list, its end or its beginning when one is NULL.
Neighbours(R, h, p, x) ==
    /\ p = NULL => Begins(R, h, x)
    /\ p # NULL => p \in R /\ Follows(R, h, p, x)
    /\ x # NULL => x \in R /\ Precedes(R, h, x, p)

\* A new range belongs between two that leave room for it.
LEMMA InsertedIsChain ==
    ASSUME NULL \notin Nat, NEW h, IsHeap(h), NEW R, NEW low, Chain(R, low, h, NULL),
           NEW p, NEW x, Neighbours(R, h, p, x),
           NEW h1, NEW new, Inserts(h, h1, new, p, x), h1[new].start <= h1[new].end,
           p # NULL => h[p].end + 1 < h1[new].start,
           x # NULL => h1[new].end + 1 < h[x].start,
           NEW low1, low1 = IF p = NULL THEN new ELSE low
    PROVE  Chain(R \cup {new}, low1, h1, NULL)
  <1>1. /\ R \subseteq DOMAIN h /\ R \subseteq DOMAIN h1
        /\ new \in DOMAIN h1 /\ new \notin R /\ new # NULL
        /\ h1[new].start \in Int /\ h1[new].end \in Int
        /\ \A a \in R : /\ h[a].start \in Int /\ h[a].end \in Int
                        /\ h[a].start <= h[a].end /\ a # NULL
    BY DEF Chain, Inserts, IsHeap, Block
  <1>2. \A a \in R : h1[a].start = h[a].start /\ h1[a].end = h[a].end
    BY <1>1 DEF Inserts
  <1>3. \A a \in R : /\ a # p => h1[a].next = h[a].next
                     /\ a # x => h1[a].prev = h[a].prev
    BY <1>1 DEF Inserts
  <1>4. \A a, b \in R : Below(h1, a, b) <=> Below(h, a, b)
    BY <1>2 DEF Below
  <1>5. \A a, b \in R : a = b \/ Below(h, a, b) \/ Below(h, b, a)
    BY DEF Chain
  <1>6. \A a, b \in R : Below(h, a, b) => h[a].end + 1 < h[b].start
    BY <1>1 DEF Chain, Apart
  <1>7. \A a \in R : \/ p # NULL /\ (a = p \/ Below(h, a, p))
                     \/ x # NULL /\ (a = x \/ Below(h, x, a))
    <2> TAKE a \in R
    <2>1. CASE p = NULL
      BY <1>5, <2>1 DEF Neighbours, Begins
    <2>2. CASE p # NULL
      BY <1>5, <2>2 DEF Neighbours, Follows
    <2> QED
      BY <2>1, <2>2
  <1>8. p # NULL => p \in R
    BY DEF Neighbours
  <1>9. x # NULL => x \in R
    BY DEF Neighbours
  <1>10. \A a \in R : p # NULL /\ (a = p \/ Below(h, a, p))
                        => h[a].end + 1 < h1[new].start
    BY <1>1, <1>6, <1>8
  <1>11. \A a \in R : x # NULL /\ (a = x \/ Below(h, x, a))
                        => h1[new].end + 1 < h[a].start
    BY <1>1, <1>6, <1>9
  <1>12. \A a \in R : \/ /\ Below(h1, a, new) /\ ~Below(h1, new, a)
                         /\ h1[a].end + 1 < h1[new].start
                         /\ p # NULL /\ (a = p \/ Below(h, a, p))
                      \/ /\ Below(h1, new, a) /\ ~Below(h1, a, new)
                         /\ h1[new].end + 1 < h1[a].start
                         /\ x # NULL /\ (a = x \/ Below(h, x, a))
    <2> TAKE a \in R
    <2>1. CASE p # NULL /\ (a = p \/ Below(h, a, p))
      <3>1. h[a].end + 1 < h1[new].start
        BY <1>10, <2>1
      <3> QED
        BY <1>1, <1>2, <2>1, <3>1 DEF Below
    <2>2. CASE x # NULL /\ (a = x \/ Below(h, x, a))
      <3>1. h1[new].end + 1 < h[a].start
        BY <1>11, <2>2
      <3> QED
        BY <1>1, <1>2, <2>2, <3>1 DEF Below
    <2> QED
      BY <1>7, <2>1, <2>2
  <1>13. ~Below(h1, new, new)
    BY <1>1 DEF Below
  <1>14. Apart(R \cup {new}, h1, NULL)
    <2> SUFFICES ASSUME NEW a \in R \cup {new}, NEW b \in R \cup {new}, Below(h1, a, b)
                 PROVE  h1[a].end + 1 < h1[b].start
      <3>1. \A a, b \in R \cup {new} :
                h1[a].end + 1 < h1[b].start => h1[a].end < h1[b].start
        BY <1>1, <1>2
      <3> QED
        BY <3>1 DEF Apart
    <2> QED
      BY <1>2, <1>4, <1>6, <1>12, <1>13
  <1>15. \A a, b \in R \cup {new} : a = b \/ Below(h1, a, b) \/ Below(h1, b, a)
    BY <1>4, <1>5, <1>12
  <1>16. ASSUME NEW a \in R \cup {new}
         PROVE  Follows(R \cup {new}, h1, a, h1[a].next)
    <2>1. CASE a = new
      <3>1. h1[a].next = x
        BY <2>1 DEF Inserts
      <3>2. CASE x = NULL
        BY <1>12, <1>13, <2>1, <3>1, <3>2 DEF Follows
      <3>3. CASE x # NULL
        <4>1. Below(h1, new, x)
          BY <1>1, <1>2, <1>9, <3>3 DEF Below
        <4>2. \A b \in R : ~(Below(h1, new, b) /\ Below(h1, b, x))
          <5> SUFFICES ASSUME NEW b \in R, Below(h1, new, b), Below(h1, b, x) PROVE FALSE
            OBVIOUS
          <5>1. b = x \/ Below(h, x, b)
            BY <1>12
          <5> QED
            BY <1>1, <1>2, <1>9, <3>3, <5>1 DEF Below
        <4> QED
          BY <1>9, <1>13, <2>1, <3>1, <3>3, <4>1, <4>2 DEF Follows
      <3> QED
        BY <3>2, <3>3
    <2>2. CASE a = p /\ p # NULL /\ a # new
      <3>1. h1[a].next = new
        BY <2>2 DEF Inserts
      <3>2. Below(h1, p, new)
        BY <1>1, <1>2, <1>8, <2>2 DEF Below
      <3>3. \A b \in R : ~(Below(h1, p, b) /\ Below(h1, b, new))
        <4> SUFFICES ASSUME NEW b \in R, Below(h1, p, b), Below(h1, b, new) PROVE FALSE
          OBVIOUS
        <4>1. b = p \/ Below(h, b, p)
          BY <1>12
        <4> QED
          BY <1>1, <1>2, <1>8, <2>2, <4>1 DEF Below
      <3> QED
        BY <1>1, <1>13, <2>2, <3>1, <3>2, <3>3 DEF Follows
    <2>3. CASE a # new /\ a # p
      <3>1. a \in R /\ h1[a].next = h[a].next /\ Follows(R, h, a, h[a].next)
        BY <1>3, <2>3 DEF Chain
      <3>2. CASE h[a].next = NULL
        <4>1. \A b \in R : ~Below(h1, a, b)
          BY <1>4, <3>1, <3>2 DEF Follows
        <4>2. ~Below(h1, a, new)
          BY <1>8, <1>12, <2>3, <3>1, <3>2 DEF Follows
        <4> QED
          BY <3>1, <3>2, <4>1, <4>2 DEF Follows
      <3>3. CASE h[a].next # NULL
        <4>1. PICK y \in R : y = h[a].next
          BY <3>1, <3>3 DEF Follows
        <4>2. /\ Below(h, a, y)
              /\ \A b \in R : ~(Below(h, a, b) /\ Below(h, b, y))
          BY <3>1, <3>3, <4>1 DEF Follows
        <4>3. ~(Below(h1, a, new) /\ Below(h1, new, y))
          <5> SUFFICES ASSUME Below(h1, a, new), Below(h1, new, y) PROVE FALSE
            OBVIOUS
          <5>1. p # NULL /\ Below(h, a, p)
            BY <1>12, <2>3, <3>1
          <5>2. x # NULL /\ (y = x \/ Below(h, x, y))
            BY <1>12, <4>1
          <5>3. ~Below(h, p, y)
            BY <1>8, <4>2, <5>1, <1>5, <1>1 DEF Below
          <5>4. Below(h, p, y)
            BY <1>1, <1>2, <1>8, <1>10, <1>12, <5>1 DEF Below
          <5> QED
            BY <5>3, <5>4
        <4> QED
          BY <1>1, <1>4, <3>1, <4>1, <4>2, <4>3 DEF Follows
      <3> QED
        BY <3>2, <3>3
    <2> QED
      BY <1>1, <2>1, <2>2, <2>3
  <1>17. ASSUME NEW a \in R \cup {new}
         PROVE  Precedes(R \cup {new}, h1, a, h1[a].prev)
    <2>1. CASE a = new
      <3>1. h1[a].prev = p
        BY <2>1 DEF Inserts
      <3>2. CASE p = NULL
        BY <1>12, <1>13, <2>1, <3>1, <3>2 DEF Precedes
      <3>3. CASE p # NULL
        <4>1. Below(h1, p, new)
          BY <1>1, <1>2, <1>8, <3>3 DEF Below
        <4>2. \A b \in R : ~(Below(h1, p, b) /\ Below(h1, b, new))
          <5> SUFFICES ASSUME NEW b \in R, Below(h1, p, b), Below(h1, b, new) PROVE FALSE
            OBVIOUS
          <5>1. b = p \/ Below(h, b, p)
            BY <1>12
          <5> QED
            BY <1>1, <1>2, <1>8, <3>3, <5>1 DEF Below
        <4> QED
          BY <1>8, <1>13, <2>1, <3>1, <3>3, <4>1, <4>2 DEF Precedes
      <3> QED
        BY <3>2, <3>3
    <2>2. CASE a = x /\ x # NULL /\ a # new
      <3>1. h1[a].prev = new
        BY <2>2 DEF Inserts
      <3>2. Below(h1, new, x)
        BY <1>1, <1>2, <1>9, <2>2 DEF Below
      <3>3. \A b \in R : ~(Below(h1, new, b) /\ Below(h1, b, x))
        <4> SUFFICES ASSUME NEW b \in R, Below(h1, new, b), Below(h1, b, x) PROVE FALSE
          OBVIOUS
        <4>1. b = x \/ Below(h, x, b)
          BY <1>12
        <4> QED
          BY <1>1, <1>2, <1>9, <2>2, <4>1 DEF Below
      <3> QED
        BY <1>1, <1>13, <2>2, <3>1, <3>2, <3>3 DEF Precedes
    <2>3. CASE a # new /\ a # x
      <3>1. a \in R /\ h1[a].prev = h[a].prev /\ Precedes(R, h, a, h[a].prev)
        BY <1>3, <2>3 DEF Chain
      <3>2. CASE h[a].prev = NULL
        <4>1. \A b \in R : ~Below(h1, b, a)
          BY <1>4, <3>1, <3>2 DEF Precedes
        <4>2. ~Below(h1, new, a)
          BY <1>9, <1>12, <2>3, <3>1, <3>2 DEF Precedes
        <4> QED
          BY <3>1, <3>2, <4>1, <4>2 DEF Precedes
      <3>3. CASE h[a].prev # NULL
        <4>1. PICK y \in R : y = h[a].prev
          BY <3>1, <3>3 DEF Precedes
        <4>2. /\ Below(h, y, a)
              /\ \A b \in R : ~(Below(h, y, b) /\ Below(h, b, a))
          BY <3>1, <3>3, <4>1 DEF Precedes
        <4>3. ~(Below(h1, y, new) /\ Below(h1, new, a))
          <5> SUFFICES ASSUME Below(h1, y, new), Below(h1, new, a) PROVE FALSE
            OBVIOUS
          <5>1. x # NULL /\ Below(h, x, a)
            BY <1>12, <2>3, <3>1
          <5>2. p # NULL /\ (y = p \/ Below(h, y, p))
            BY <1>12, <4>1
          <5>3. ~Below(h, y, x)
            BY <1>9, <4>2, <5>1, <1>5, <1>1 DEF Below
          <5>4. Below(h, y, x)
            BY <1>1, <1>2, <1>9, <1>11, <1>12, <5>1 DEF Below
          <5> QED
            BY <5>3, <5>4
        <4> QED
          BY <1>1, <1>4, <3>1, <4>1, <4>2, <4>3 DEF Precedes
      <3> QED
        BY <3>2, <3>3
    <2> QED
      BY <1>1, <2>1, <2>2, <2>3
  <1>18. Begins(R \cup {new}, h1, low1)
    <2>1. CASE p = NULL
      BY <1>1, <1>12, <1>13, <2>1 DEF Begins
    <2>2. CASE p # NULL
      <3>1. low # NULL /\ low \in R /\ \A b \in R : ~Below(h1, b, low)
        BY <1>4, <1>8, <2>2 DEF Chain, Begins
      <3>2. ~Below(h1, new, low)
        <4>1. \/ low = p \/ Below(h, low, p)
          BY <1>4, <1>5, <1>8, <2>2, <3>1
        <4>2. h[low].end + 1 < h1[new].start
          BY <1>10, <2>2, <3>1, <4>1
        <4> QED
          BY <1>1, <1>2, <3>1, <4>2 DEF Below
      <3> QED
        BY <2>2, <3>1, <3>2 DEF Begins
    <2> QED
      BY <2>1, <2>2
  <1>19. \A a \in R \cup {new} : h1[a].start <= h1[a].end
    BY <1>1, <1>2
  <1> QED
    BY <1>1, <1>14, <1>15, <1>16, <1>17, <1>18, <1>19 DEF Chain

\* h1 is h without the range r, which was between p and x.
Removes(h, h1, r, p, x) ==
    /\ IsHeap(h1) /\ DOMAIN h1 = DOMAIN h \ {r}
    /\ \A a \in DOMAIN h1 : a # p /\ a # x => h1[a] = h[a]
    /\ p # NULL => /\ h1[p].start = h[p].start /\ h1[p].end = h[p].end
                   /\ h1[p].prev = h[p].prev /\ h1[p].next = x
    /\ x # NULL => /\ h1[x].start = h[x].start /\ h1[x].end = h[x].end
                   /\ h1[x].next = h[x].next /\ h1[x].prev = p

\* A range may be taken out of the list.
LEMMA RemovedIsChain ==
    ASSUME NULL \notin Nat, NEW h, IsHeap(h), NEW R, NEW low, NEW q,
           Chain(R, low, h, q), NEW r \in R,
           NEW p, p = h[r].prev, NEW x, x = h[r].next,
           NEW h1, Removes(h, h1, r, p, x),
           NEW low1, low1 = IF p = NULL THEN x ELSE low
    PROVE  Chain(R \ {r}, low1, h1, q)
  <1> DEFINE S == R \ {r}
  <1>1. /\ R \subseteq DOMAIN h /\ S \subseteq DOMAIN h1
        /\ \A a \in R : /\ h[a].start \in Int /\ h[a].end \in Int
                        /\ h[a].start <= h[a].end /\ a # NULL
    BY DEF Chain, Removes, IsHeap, Block
  <1>2. Follows(R, h, r, x) /\ Precedes(R, h, r, p)
    BY DEF Chain
  <1>3. /\ p # NULL => p \in S /\ Below(h, p, r)
        /\ x # NULL => x \in S /\ Below(h, r, x)
    BY <1>1, <1>2 DEF Follows, Precedes, Below
  <1>4. \A a \in S : /\ h1[a].start = h[a].start /\ h1[a].end = h[a].end
                     /\ a # p => h1[a].next = h[a].next
                     /\ a # x => h1[a].prev = h[a].prev
    <2>1. p # NULL => p # x
      BY <1>1, <1>3 DEF Below
    <2> QED
      BY <1>1, <2>1 DEF Removes
  <1>5. \A a, b \in S : Below(h1, a, b) <=> Below(h, a, b)
    BY <1>4 DEF Below
  <1>6. \A a, b \in R : a = b \/ Below(h, a, b) \/ Below(h, b, a)
    BY DEF Chain
  <1>7. \A a, b, c \in R : Below(h, a, b) /\ Below(h, b, c) => Below(h, a, c)
    BY <1>1 DEF Below
  <1>8. \A a, b \in R : Below(h, a, b) => ~Below(h, b, a) /\ a # b
    BY <1>1 DEF Below
  <1>9. Apart(S, h1, q)
    BY <1>4, <1>5 DEF Chain, Apart
  <1>10. ASSUME NEW a \in S
         PROVE  Follows(S, h1, a, h1[a].next)
    <2>1. CASE a = p
      <3>1. h1[a].next = x
        BY <1>1, <2>1 DEF Removes
      <3>2. ASSUME NEW b \in S, Below(h, a, b)
            PROVE  Below(h, r, b)
        BY <1>1, <1>2, <1>6, <2>1, <3>2 DEF Precedes
      <3>3. x # NULL => x \in S /\ Below(h, a, x)
        BY <1>1, <1>3, <1>7, <2>1
      <3>4. \A b \in S : /\ x = NULL => ~Below(h, a, b)
                         /\ x # NULL => ~(Below(h, a, b) /\ Below(h, b, x))
        BY <1>2, <3>2 DEF Follows
      <3> QED
        BY <1>5, <3>1, <3>3, <3>4 DEF Follows
    <2>2. CASE a # p
      <3>1. h1[a].next = h[a].next /\ Follows(R, h, a, h[a].next)
        BY <1>4, <2>2 DEF Chain
      <3>2. h[a].next # r
        <4>1. SUFFICES ASSUME h[a].next = r PROVE FALSE
          OBVIOUS
        <4>2. Below(h, a, r) /\ \A b \in R : ~(Below(h, a, b) /\ Below(h, b, r))
          BY <1>1, <3>1, <4>1 DEF Follows
        <4>3. p # NULL /\ p \in R /\ Below(h, p, r)
          BY <1>2, <4>2 DEF Precedes
        <4>4. ~Below(h, a, p) /\ ~Below(h, p, a)
          BY <1>2, <4>2, <4>3 DEF Precedes
        <4> QED
          BY <1>6, <2>2, <4>3, <4>4
      <3> QED
        BY <1>5, <3>1, <3>2 DEF Follows
    <2> QED
      BY <2>1, <2>2
  <1>11. ASSUME NEW a \in S
         PROVE  Precedes(S, h1, a, h1[a].prev)
    <2>1. CASE a = x
      <3>1. h1[a].prev = p
        BY <1>1, <2>1 DEF Removes
      <3>2. ASSUME NEW b \in S, Below(h, b, a)
            PROVE  Below(h, b, r)
        BY <1>1, <1>2, <1>6, <2>1, <3>2 DEF Follows
      <3>3. p # NULL => p \in S /\ Below(h, p, a)
        BY <1>1, <1>3, <1>7, <2>1
      <3>4. \A b \in S : /\ p = NULL => ~Below(h, b, a)
                         /\ p # NULL => ~(Below(h, p, b) /\ Below(h, b, a))
        BY <1>2, <3>2 DEF Precedes
      <3> QED
        BY <1>5, <3>1, <3>3, <3>4 DEF Precedes
    <2>2. CASE a # x
      <3>1. h1[a].prev = h[a].prev /\ Precedes(R, h, a, h[a].prev)
        BY <1>4, <2>2 DEF Chain
      <3>2. h[a].prev # r
        <4>1. SUFFICES ASSUME h[a].prev = r PROVE FALSE
          OBVIOUS
        <4>2. Below(h, r, a) /\ \A b \in R : ~(Below(h, r, b) /\ Below(h, b, a))
          BY <1>1, <3>1, <4>1 DEF Precedes
        <4>3. x # NULL /\ x \in R /\ Below(h, r, x)
          BY <1>2, <4>2 DEF Follows
        <4>4. ~Below(h, x, a) /\ ~Below(h, a, x)
          BY <1>2, <4>2, <4>3 DEF Follows
        <4> QED
          BY <1>6, <2>2, <4>3, <4>4
      <3> QED
        BY <1>5, <3>1, <3>2 DEF Precedes
    <2> QED
      BY <2>1, <2>2
  <1>12. Begins(S, h1, low1)
    <2>1. CASE p = NULL
      <3>1. \A b \in S : Below(h, r, b)
        BY <1>2, <1>6, <2>1 DEF Precedes
      <3>2. CASE x = NULL
        BY <1>2, <2>1, <3>1, <3>2 DEF Follows, Begins
      <3>3. CASE x # NULL
        BY <1>2, <1>3, <1>5, <2>1, <3>1, <3>3 DEF Follows, Begins
      <3> QED
        BY <3>2, <3>3
    <2>2. CASE p # NULL
      <3>1. Begins(R, h, low) /\ p \in R
        BY <1>3, <2>2 DEF Chain
      <3>2. low # NULL /\ low \in S
        BY <1>1, <1>3, <2>2, <3>1 DEF Begins
      <3> QED
        BY <1>5, <2>2, <3>1, <3>2 DEF Begins
    <2> QED
      BY <2>1, <2>2
  <1>13. \A a \in S : h1[a].start <= h1[a].end
    BY <1>1, <1>4
  <1>14. \A a, b \in S : a = b \/ Below(h1, a, b) \/ Below(h1, b, a)
    BY <1>5, <1>6
  <1> QED
    BY <1>1, <1>9, <1>10, <1>11, <1>12, <1>13, <1>14 DEF Chain

-----------------------------------------------------------------------------
\* The heap.

\* There is a free address.
LEMMA FreeIsFree ==
    ASSUME NEW h, IsHeap(h)
    PROVE  FreeAddress(h) \in Nat \ DOMAIN h
  <1>1. PICK n \in Nat : n = Cardinality(DOMAIN h)
    BY FS_CardinalityType DEF IsHeap
  <1>2. PICK T : T = {a \in 1..n + 1 : a \notin DOMAIN h}
    OBVIOUS
  <1>3. T # {}
    <2>1. SUFFICES ASSUME T = {} PROVE FALSE
      OBVIOUS
    <2>2. PICK S : S = 1..n + 1
      OBVIOUS
    <2>3. S \in SUBSET DOMAIN h
      BY <1>2, <2>1, <2>2
    <2>4. Cardinality(S) <= n
      BY <1>1, <2>3, FS_Subset DEF IsHeap
    <2>5. Cardinality(S) = n + 1
      BY <1>1, <2>2, FS_Interval
    <2> QED
      BY <1>1, <2>4, <2>5
  <1>4. T \subseteq Nat
    BY <1>2
  <1>5. PICK a \in T : \A b \in T : a <= b
    BY <1>3, <1>4, LeastNatural
  <1>6. a \in 1..n + 1 /\ a \notin DOMAIN h /\ \A b \in 1..a - 1 : b \in DOMAIN h
    BY <1>1, <1>2, <1>4, <1>5
  <1>7. \E c \in 1..n + 1 : c \notin DOMAIN h /\ \A b \in 1..c - 1 : b \in DOMAIN h
    BY <1>6
  <1>8. FreeAddress(h) =
            CHOOSE c \in 1..n + 1 : c \notin DOMAIN h /\ \A b \in 1..c - 1 : b \in DOMAIN h
    BY <1>1 DEF FreeAddress
  <1> QED
    BY <1>1, <1>7, <1>8

\* g is h with another next, or prev, in r, unless r is NULL.
HasNext(g, h, r, y) ==
    /\ IsHeap(g) /\ DOMAIN g = DOMAIN h
    /\ \A a \in DOMAIN h : a # r => g[a] = h[a]
    /\ r # NULL => /\ g[r].start = h[r].start /\ g[r].end = h[r].end
                   /\ g[r].prev = h[r].prev /\ g[r].next = y

HasPrev(g, h, r, y) ==
    /\ IsHeap(g) /\ DOMAIN g = DOMAIN h
    /\ \A a \in DOMAIN h : a # r => g[a] = h[a]
    /\ r # NULL => /\ g[r].start = h[r].start /\ g[r].end = h[r].end
                   /\ g[r].next = h[r].next /\ g[r].prev = y

\* g is h without the block at a.
HasLost(g, h, a) ==
    /\ IsHeap(g) /\ DOMAIN g = DOMAIN h \ {a}
    /\ Cardinality(DOMAIN g) <= Cardinality(DOMAIN h)
    /\ \A c \in DOMAIN g : g[c] = h[c]

\* g is h with the new block b at a.
HasBlock(g, h, a, b) ==
    /\ IsHeap(g) /\ DOMAIN g = DOMAIN h \cup {a}
    /\ g[a] = b /\ \A c \in DOMAIN h : g[c] = h[c]

\* A range that is not NULL gets another next.
LEMMA NextIsSet ==
    ASSUME NEW h, IsHeap(h), NEW r, r # NULL => r \in DOMAIN h, NEW y \in Ptr,
           NEW g, g = SetNext(h, r, y)
    PROVE  HasNext(g, h, r, y)
  <1>1. CASE r = NULL
    <2>1. g = h
      BY <1>1 DEF SetNext
    <2> QED
      BY <1>1, <2>1 DEF HasNext
  <1>2. CASE r # NULL
    <2>1. g = [a \in DOMAIN h |-> IF a = r THEN [h[r] EXCEPT !.next = y] ELSE h[a]]
      BY <1>2 DEF SetNext, IsHeap
    <2>2. h[r] \in Block
      BY <1>2 DEF IsHeap
    <2>3. /\ [h[r] EXCEPT !.next = y] \in Block
          /\ [h[r] EXCEPT !.next = y].start = h[r].start
          /\ [h[r] EXCEPT !.next = y].end = h[r].end
          /\ [h[r] EXCEPT !.next = y].prev = h[r].prev
          /\ [h[r] EXCEPT !.next = y].next = y
      BY <2>2 DEF Block
    <2>4. IsHeap(g) /\ DOMAIN g = DOMAIN h
      BY <2>1, <2>3 DEF IsHeap
    <2> QED
      BY <1>2, <2>1, <2>3, <2>4 DEF HasNext
  <1> QED
    BY <1>1, <1>2

\* A range that is not NULL gets another prev.
LEMMA PrevIsSet ==
    ASSUME NEW h, IsHeap(h), NEW r, r # NULL => r \in DOMAIN h, NEW y \in Ptr,
           NEW g, g = SetPrev(h, r, y)
    PROVE  HasPrev(g, h, r, y)
  <1>1. CASE r = NULL
    <2>1. g = h
      BY <1>1 DEF SetPrev
    <2> QED
      BY <1>1, <2>1 DEF HasPrev
  <1>2. CASE r # NULL
    <2>1. g = [a \in DOMAIN h |-> IF a = r THEN [h[r] EXCEPT !.prev = y] ELSE h[a]]
      BY <1>2 DEF SetPrev, IsHeap
    <2>2. h[r] \in Block
      BY <1>2 DEF IsHeap
    <2>3. /\ [h[r] EXCEPT !.prev = y] \in Block
          /\ [h[r] EXCEPT !.prev = y].start = h[r].start
          /\ [h[r] EXCEPT !.prev = y].end = h[r].end
          /\ [h[r] EXCEPT !.prev = y].next = h[r].next
          /\ [h[r] EXCEPT !.prev = y].prev = y
      BY <2>2 DEF Block
    <2>4. IsHeap(g) /\ DOMAIN g = DOMAIN h
      BY <2>1, <2>3 DEF IsHeap
    <2> QED
      BY <1>2, <2>1, <2>3, <2>4 DEF HasPrev
  <1> QED
    BY <1>1, <1>2

\* A new block
LEMMA StoredIs ==
    ASSUME NEW h, IsHeap(h), NEW a \in Nat \ DOMAIN h, NEW b \in Block,
           NEW g, g = Stored(h, a, b)
    PROVE  HasBlock(g, h, a, b)
  <1>1. g = [c \in DOMAIN h \cup {a} |-> IF c = a THEN b ELSE h[c]]
    BY DEF Stored
  <1>2. DOMAIN g = DOMAIN h \cup {a}
    BY <1>1
  <1>3. IsFiniteSet(DOMAIN g)
    BY <1>2, FS_AddElement DEF IsHeap
  <1>4. IsHeap(g)
    BY <1>1, <1>2, <1>3 DEF IsHeap
  <1> QED
    BY <1>1, <1>2, <1>4 DEF HasBlock

\* There is one block more then.
LEMMA StoredIsMore ==
    ASSUME NEW h, IsHeap(h), NEW a \in Nat \ DOMAIN h, NEW b,
           NEW g, g = Stored(h, a, b)
    PROVE  Cardinality(DOMAIN g) = Cardinality(DOMAIN h) + 1
  <1>1. DOMAIN g = DOMAIN h \cup {a}
    BY DEF Stored
  <1> QED
    BY <1>1, FS_AddElement DEF IsHeap

\* A block less
LEMMA FreedIs ==
    ASSUME NEW h, IsHeap(h), NEW a, NEW g, g = Freed(h, a)
    PROVE  HasLost(g, h, a)
  <1>1. g = [c \in DOMAIN h \ {a} |-> h[c]]
    BY DEF Freed
  <1>2. DOMAIN g = DOMAIN h \ {a}
    BY <1>1
  <1>3. IsFiniteSet(DOMAIN g) /\ Cardinality(DOMAIN g) <= Cardinality(DOMAIN h)
    <2>1. IsFiniteSet(DOMAIN h) /\ DOMAIN g \in SUBSET DOMAIN h
      BY <1>2 DEF IsHeap
    <2> QED
      BY <2>1, FS_Subset
  <1>4. IsHeap(g)
    BY <1>1, <1>2, <1>3 DEF IsHeap
  <1> QED
    BY <1>1, <1>2, <1>3, <1>4 DEF HasLost

-----------------------------------------------------------------------------
\* Finding a range.

\* r is the first range of R that n is not beyond, or NULL.
Found(R, h, n, slack, r) ==
    /\ r = NULL => \A a \in R : h[a].end + slack < n
    /\ r # NULL => /\ r \in R /\ n <= h[r].end + slack
                   /\ \A a \in R : Below(h, a, r) => h[a].end + slack < n

\* The loop that goes along the list finds it.
LEMMA FirstIsFound ==
    ASSUME NULL \notin Nat, NEW s, IsHeap(s.heap), NEW R, NEW q,
           Chain(R, s.is.lowest, s.heap, q), NEW n \in Int, NEW slack \in Int
    PROVE  Found(R, s.heap, n, slack, FirstUpTo(s, n, slack))
  <1>1. PICK h, l : h = s.heap /\ l = List(s.is, s.heap)
    OBVIOUS
  <1>2. Along(l, R, s.is.lowest, h)
    BY <1>1, ListGoesAlong
  <1>3. /\ l \in Seq(R) /\ Len(l) \in Nat /\ DOMAIN l = 1..Len(l)
        /\ \A k \in 1..Len(l) : l[k] \in R
        /\ \A a \in R : \E k \in 1..Len(l) : l[k] = a
        /\ \A j, k \in 1..Len(l) : j < k => Below(h, l[j], l[k])
    BY <1>2 DEF Along
  <1>4. \A a \in R : h[a].start \in Int /\ h[a].end \in Int /\ a # NULL
    BY <1>1 DEF Chain, IsHeap, Block
  <1>5. PICK T : T = {i \in DOMAIN l : n <= h[l[i]].end + slack}
    OBVIOUS
  <1>6. FirstUpTo(s, n, slack) =
            IF T = {} THEN NULL ELSE l[CHOOSE i \in T : \A j \in T : i <= j]
    BY <1>1, <1>5 DEF FirstUpTo
  <1>7. CASE T = {}
    <2>1. \A i \in 1..Len(l) : ~(n <= h[l[i]].end + slack)
      BY <1>3, <1>5, <1>7
    <2>2. ASSUME NEW a \in R PROVE h[a].end + slack < n
      <3>1. PICK k \in 1..Len(l) : l[k] = a
        BY <1>3
      <3>2. ~(n <= h[a].end + slack) /\ h[a].end \in Int
        BY <1>4, <2>1, <3>1
      <3> QED
        BY <3>2
    <2> QED
      BY <1>1, <1>6, <1>7, <2>2 DEF Found
  <1>8. CASE T # {}
    <2>1. T \subseteq Nat
      BY <1>3, <1>5
    <2>2. PICK i \in T : i = (CHOOSE k \in T : \A j \in T : k <= j) /\ \A j \in T : i <= j
      BY <1>8, <2>1, LeastNatural
    <2>3. i \in 1..Len(l) /\ l[i] \in R /\ n <= h[l[i]].end + slack
      <3>1. i \in DOMAIN l /\ n <= h[l[i]].end + slack
        BY <1>5, <2>2
      <3> QED
        BY <1>3, <3>1
    <2>4. ASSUME NEW a \in R, Below(h, a, l[i])
          PROVE  h[a].end + slack < n
      <3>1. PICK k \in 1..Len(l) : l[k] = a
        BY <1>3
      <3>2. k < i
        <4>1. i < k => Below(h, l[i], l[k])
          BY <1>3, <2>3, <3>1
        <4>2. k # i /\ ~Below(h, l[i], l[k])
          BY <1>4, <2>3, <2>4, <3>1 DEF Below
        <4>3. i \in Nat /\ k \in Nat
          BY <1>3, <2>3, <3>1
        <4> QED
          BY <4>1, <4>2, <4>3
      <3>3. k \notin T
        BY <2>1, <2>2, <2>3, <3>2
      <3> QED
        BY <1>3, <1>4, <1>5, <3>1, <3>3
    <2>5. l[i] # NULL
      BY <1>4, <2>3
    <2> QED
      BY <1>1, <1>6, <1>8, <2>2, <2>3, <2>4, <2>5 DEF Found
  <1> QED
    BY <1>7, <1>8

-----------------------------------------------------------------------------
\* The functions that change a set.

\* A set and the heap in the middle of a call
IsWork(s) ==
    /\ s = [is |-> s.is, heap |-> s.heap, ret |-> s.ret, stopped |-> s.stopped,
            left |-> s.left]
    /\ s.is \in [lowest : Ptr, highest : Ptr]
    /\ IsHeap(s.heap)
    /\ s.ret \in Int /\ s.stopped \in BOOLEAN /\ s.left \in Nat
    /\ Cardinality(DOMAIN s.heap) + s.left <= MaxBlocks

\* The number m is in a range of R.
Holds(R, h, m) == \E a \in R : h[a].start <= m /\ m <= h[a].end

\* x is the last range of R, or NULL if there is none.
Ends(R, h, x) ==
    /\ x = NULL => R = {}
    /\ x # NULL => x \in R /\ \A b \in R : ~Below(h, x, b)

\* A set without a first range has no last one either.
Tidy(is) == is.lowest = NULL => is.highest = NULL

\* The list R of s has become the list R1 of t; ranges of other lists are as they
\* were.
Changed(s, R, t, R1) ==
    /\ IsWork(t)
    /\ Chain(R1, t.is.lowest, t.heap, NULL)
    /\ Tidy(s.is) => Tidy(t.is)
    /\ \A a \in DOMAIN s.heap \ R :
            a \in DOMAIN t.heap /\ a \notin R1 /\ t.heap[a] = s.heap[a]

\* When highest points at the last range it still does, and t has the number n,
\* but no other, in addition to those of s.
Adds(s, R, t, R1, n) ==
    (Ends(R, s.heap, s.is.highest) /\ ~t.stopped) =>
        /\ Ends(R1, t.heap, t.is.highest)
        /\ \A m \in Int : Holds(R1, t.heap, m)
                            <=> Holds(R, s.heap, m) \/ (m = n /\ t.ret = 0)

\* A new range is put between two.
LEMMA InsertedIsChanged ==
    ASSUME NULL \notin Nat, NEW s, IsWork(s), NEW R,
           Chain(R, s.is.lowest, s.heap, NULL),
           NEW n \in Int, NEW before \in R, n + 1 < s.heap[before].start,
           \A a \in R : Below(s.heap, a, before) => s.heap[a].end + 1 < n,
           s.left # 0, Goes(s)
    PROVE  \E R1 : /\ Changed(s, R, InsertBefore(s, n, before), R1)
                   /\ Adds(s, R, InsertBefore(s, n, before), R1, n)
  <1>1. PICK h, low, new, prev : /\ h = s.heap /\ low = s.is.lowest
                                 /\ new = FreeAddress(h) /\ prev = h[before].prev
    OBVIOUS
  <1>2. IsHeap(h) /\ Chain(R, low, h, NULL) /\ new \in Nat /\ new \notin DOMAIN h
    BY <1>1, FreeIsFree DEF IsWork
  <1>3. /\ R \subseteq DOMAIN h /\ NULL \notin DOMAIN h
        /\ \A a \in R : h[a].start \in Int /\ h[a].end \in Int /\ a \in Nat
        /\ \A a, b \in R : a = b \/ Below(h, a, b) \/ Below(h, b, a)
    BY <1>2 DEF Chain, IsHeap, Block
  <1>4. Precedes(R, h, before, prev)
    BY <1>1, <1>2 DEF Chain
  <1>5. prev \in Ptr /\ (prev # NULL => prev \in R /\ Below(h, prev, before))
    BY <1>3, <1>4 DEF Precedes, Ptr
  <1>6. PICK block : block = [start |-> n, end |-> n, prev |-> prev, next |-> before]
    OBVIOUS
  <1>7. block \in Block
    BY <1>3, <1>5, <1>6 DEF Block, Ptr
  <1>8. PICK g1 : g1 = SetPrev(h, before, new)
    OBVIOUS
  <1>9. PICK g2 : g2 = SetNext(g1, prev, new)
    OBVIOUS
  <1>10. PICK h1 : h1 = Stored(g2, new, block)
    OBVIOUS
  <1>11. new \in Ptr /\ before # NULL /\ before \in DOMAIN h /\ new # NULL
    BY <1>2, <1>3 DEF Ptr
  <1>12. /\ IsHeap(g1) /\ DOMAIN g1 = DOMAIN h
         /\ \A a \in DOMAIN h : a # before => g1[a] = h[a]
         /\ g1[before].start = h[before].start /\ g1[before].end = h[before].end
         /\ g1[before].next = h[before].next /\ g1[before].prev = new
    <2>1. HasPrev(g1, h, before, new)
      BY <1>2, <1>8, <1>11, PrevIsSet
    <2> QED
      BY <1>11, <2>1 DEF HasPrev
  <1>13. /\ IsHeap(g2) /\ DOMAIN g2 = DOMAIN h
         /\ \A a \in DOMAIN h : a # prev => g2[a] = g1[a]
         /\ prev # NULL => /\ g2[prev].start = g1[prev].start /\ g2[prev].end = g1[prev].end
                           /\ g2[prev].prev = g1[prev].prev /\ g2[prev].next = new
    <2>1. prev # NULL => prev \in DOMAIN g1
      BY <1>3, <1>5, <1>12
    <2>2. HasNext(g2, g1, prev, new)
      BY <1>9, <1>11, <1>12, <2>1, NextIsSet
    <2> QED
      BY <1>12, <2>2 DEF HasNext
  <1>14. /\ IsHeap(h1) /\ DOMAIN h1 = DOMAIN h \cup {new}
         /\ Cardinality(DOMAIN h1) = Cardinality(DOMAIN h) + 1
         /\ h1[new] = block /\ \A a \in DOMAIN h : h1[a] = g2[a]
    <2>1. new \in Nat \ DOMAIN g2
      BY <1>2, <1>13
    <2>0. IsHeap(g2)
      BY <1>13
    <2>2. HasBlock(h1, g2, new, block)
      BY <1>7, <1>10, <2>0, <2>1, StoredIs
    <2>3. Cardinality(DOMAIN h1) = Cardinality(DOMAIN g2) + 1
      BY <1>10, <2>0, <2>1, StoredIsMore
    <2> QED
      BY <1>13, <2>2, <2>3 DEF HasBlock
  <1>15. prev # before
    BY <1>3, <1>5 DEF Below
  <1>16. Inserts(h, h1, new, prev, before)
    <2>1. h1[new].prev = prev /\ h1[new].next = before
      BY <1>6, <1>14
    <2>2. \A a \in DOMAIN h : a # prev /\ a # before => h1[a] = h[a]
      BY <1>12, <1>13, <1>14
    <2>3. prev # NULL => /\ h1[prev].start = h[prev].start /\ h1[prev].end = h[prev].end
                         /\ h1[prev].prev = h[prev].prev /\ h1[prev].next = new
      BY <1>3, <1>5, <1>12, <1>13, <1>14, <1>15
    <2>4. /\ h1[before].start = h[before].start /\ h1[before].end = h[before].end
          /\ h1[before].next = h[before].next /\ h1[before].prev = new
      BY <1>11, <1>12, <1>13, <1>14, <1>15
    <2> QED
      BY <1>2, <1>14, <2>1, <2>2, <2>3, <2>4 DEF Inserts
  <1>17. Neighbours(R, h, prev, before)
    <2>1. prev = NULL => Begins(R, h, before)
      BY <1>4, <1>11 DEF Precedes, Begins
    <2>2. prev # NULL => Follows(R, h, prev, before)
      BY <1>4, <1>11 DEF Precedes, Follows
    <2> QED
      BY <1>4, <1>5, <2>1, <2>2 DEF Neighbours
  <1>18. h1[new].start = n /\ h1[new].end = n
    BY <1>6, <1>14
  <1>19. PICK low1 : low1 = IF prev = NULL THEN new ELSE low
    OBVIOUS
  <1>20. PICK R1 : R1 = R \cup {new}
    OBVIOUS
  <1>21. Chain(R1, low1, h1, NULL)
    <2>1. prev # NULL => h[prev].end + 1 < h1[new].start
      BY <1>1, <1>5, <1>18
    <2>2. h1[new].end + 1 < h[before].start /\ h1[new].start <= h1[new].end
      BY <1>1, <1>18
    <2> QED
      BY <1>2, <1>16, <1>17, <1>19, <1>20, <2>1, <2>2, InsertedIsChain
  <1>22. PICK t : t = InsertBefore(s, n, before)
    OBVIOUS
  <1>23. PICK high : high = s.is.highest
    OBVIOUS
  <1>24. /\ t.is = [lowest |-> low1, highest |-> high] /\ t.heap = h1
         /\ t.left = s.left - 1 /\ t.ret = 0 /\ t.stopped = s.stopped
         /\ t = [is |-> t.is, heap |-> t.heap, ret |-> t.ret, stopped |-> t.stopped,
                 left |-> t.left]
    <2>1. PICK st, k, m : st = s.stopped /\ k = s.left /\ m = s.left - 1
      OBVIOUS
    <2>0. s = [is |-> [lowest |-> low, highest |-> high], heap |-> h, ret |-> 0,
               stopped |-> st, left |-> k]
      <3>1. s.is = [lowest |-> low, highest |-> high]
        BY <1>1, <1>23 DEF IsWork
      <3> QED
        BY <1>1, <2>1, <3>1 DEF IsWork, Goes
    <2>2. t = [s EXCEPT !.heap = h1, !.is.lowest = low1, !.left = m]
      BY <1>1, <2>1, <1>6, <1>8, <1>9, <1>10, <1>19, <1>22, <2>1 DEF InsertBefore
    <2>3. t = [is |-> [lowest |-> low1, highest |-> high], heap |-> h1, ret |-> 0,
               stopped |-> st, left |-> m]
      BY <2>0, <2>2
    <2> QED
      BY <2>1, <2>3
  <1>25. IsWork(t)
    <2>1. low1 \in Ptr /\ high \in Ptr
      BY <1>1, <1>11, <1>19, <1>23 DEF IsWork
    <2>2. t.left \in Nat /\ Cardinality(DOMAIN h1) + t.left <= MaxBlocks
      <3>1. PICK c \in Nat : c = Cardinality(DOMAIN h)
        BY <1>2, FS_CardinalityType DEF IsHeap
      <3>2. c + s.left <= MaxBlocks /\ s.left \in Nat
        BY <1>1, <3>1 DEF IsWork
      <3> QED
        BY <1>14, <1>24, <3>1, <3>2
    <2>3. s.stopped \in BOOLEAN
      BY DEF IsWork
    <2> QED
      BY <1>14, <1>24, <2>1, <2>2, <2>3 DEF IsWork
  <1>26. Changed(s, R, t, R1)
    <2>1. \A a \in DOMAIN h \ R : a \in DOMAIN h1 /\ a \notin R1 /\ h1[a] = h[a]
      BY <1>2, <1>3, <1>5, <1>14, <1>16, <1>20 DEF Inserts
    <2>2. low # NULL
      BY <1>2 DEF Chain, Begins
    <2>3. Tidy(t.is)
      BY <1>11, <1>19, <1>24, <2>2 DEF Tidy
    <2> QED
      BY <1>1, <1>21, <1>24, <1>25, <2>1, <2>3 DEF Changed
  <1>27. Adds(s, R, t, R1, n)
    <2>1. \A a \in R : h1[a].start = h[a].start /\ h1[a].end = h[a].end
      BY <1>3, <1>16 DEF Inserts
    <2>2. \A m \in Int : Holds(R1, h1, m) <=> Holds(R, h, m) \/ m = n
      BY <1>18, <1>20, <2>1 DEF Holds
    <2>3. ASSUME Ends(R, h, high) PROVE Ends(R1, h1, high)
      <3>1. high # NULL /\ high \in R /\ \A b \in R : ~Below(h1, high, b)
        BY <2>1, <2>3 DEF Ends, Below
      <3>2. high = before \/ Below(h, before, high)
        BY <1>3, <2>3, <3>1 DEF Ends
      <3>3. ~Below(h1, high, new)
        BY <1>1, <1>3, <1>18, <2>1, <3>1, <3>2 DEF Below
      <3> QED
        BY <1>20, <3>1, <3>3 DEF Ends
    <2> QED
      BY <1>1, <1>23, <1>24, <2>2, <2>3 DEF Adds
  <1> QED
    BY <1>22, <1>26, <1>27

\* The ranges of the list are those of the sequence.
LEMMA RangeOfList ==
    ASSUME NULL \notin Nat, NEW h, IsHeap(h), NEW R, NEW is, NEW q,
           Chain(R, is.lowest, h, q)
    PROVE  Range(List(is, h)) = R
  <1>1. PICK l : l = List(is, h)
    OBVIOUS
  <1>2. Along(l, R, is.lowest, h)
    BY <1>1, ListGoesAlong
  <1>3. l \in Seq(R) /\ \A a \in R : \E k \in 1..Len(l) : l[k] = a
    BY <1>2 DEF Along
  <1>4. DOMAIN l = 1..Len(l) /\ \A k \in 1..Len(l) : l[k] \in R
    BY <1>3
  <1> QED
    BY <1>1, <1>3, <1>4 DEF Range

\* What is not in the list does not matter for it.
LEMMA SameChain ==
    ASSUME NEW h, NEW R, NEW low, NEW q, Chain(R, low, h, q), NEW g,
           R \subseteq DOMAIN g, \A a \in R : g[a] = h[a]
    PROVE  Chain(R, low, g, q)
  <1>1. \A a, b \in R : Below(g, a, b) <=> Below(h, a, b)
    BY DEF Below
  <1>2. Apart(R, g, q)
    BY <1>1 DEF Chain, Apart
  <1>3. \A a \in R : Follows(R, g, a, g[a].next) /\ Precedes(R, g, a, g[a].prev)
    <2> TAKE a \in R
    <2>1. Follows(R, h, a, g[a].next) /\ Precedes(R, h, a, g[a].prev)
      BY DEF Chain
    <2> QED
      BY <1>1, <2>1 DEF Follows, Precedes
  <1>4. Begins(R, g, low)
    <2>1. Begins(R, h, low)
      BY DEF Chain
    <2> QED
      BY <1>1, <2>1 DEF Begins
  <1>5. /\ \A a \in R : g[a].start <= g[a].end
        /\ \A a, b \in R : a = b \/ Below(g, a, b) \/ Below(g, b, a)
    BY <1>1 DEF Chain
  <1> QED
    BY <1>2, <1>3, <1>4, <1>5 DEF Chain

\* A list may be cut off behind one of its ranges.
LEMMA CutIsChain ==
    ASSUME NULL \notin Nat, NEW h, IsHeap(h), NEW R, NEW low,
           Chain(R, low, h, NULL), NEW top \in R,
           NEW S, S = {a \in R : ~Below(h, top, a)},
           NEW g, HasNext(g, h, top, NULL)
    PROVE  Chain(S, low, g, NULL) /\ Neighbours(S, g, top, NULL)
  <1>1. /\ R \subseteq DOMAIN h /\ S \subseteq R /\ S \subseteq DOMAIN g
        /\ \A a \in R : h[a].start \in Int /\ h[a].end \in Int /\ a # NULL
        /\ \A a \in R : h[a].start <= h[a].end
    BY DEF Chain, HasNext, IsHeap, Block
  <1>2. \A a \in R : /\ g[a].start = h[a].start /\ g[a].end = h[a].end
                     /\ g[a].prev = h[a].prev
                     /\ a # top => g[a].next = h[a].next
    BY <1>1 DEF HasNext
  <1>3. g[top].next = NULL
    BY <1>1 DEF HasNext
  <1>4. \A a, b \in R : Below(g, a, b) <=> Below(h, a, b)
    BY <1>2 DEF Below
  <1>5. \A a, b, c \in R : Below(h, a, b) /\ Below(h, b, c) => Below(h, a, c)
    BY <1>1 DEF Below
  <1>6. \A a, b \in R : a = b \/ Below(h, a, b) \/ Below(h, b, a)
    BY DEF Chain
  <1>7. \A a, b \in R : Below(h, a, b) => ~Below(h, b, a) /\ a # b
    BY <1>1 DEF Below
  <1>8. top \in S
    BY <1>7
  <1>9. \A a \in R, b \in S : Below(h, a, b) => a \in S
    BY <1>5
  <1>10. Apart(S, g, NULL)
    BY <1>1, <1>2, <1>4 DEF Chain, Apart
  <1>11. ASSUME NEW a \in S
         PROVE  Follows(S, g, a, g[a].next) /\ Precedes(S, g, a, g[a].prev)
    <2>1. Follows(R, h, a, h[a].next) /\ Precedes(R, h, a, g[a].prev)
      BY <1>2 DEF Chain
    <2>2. Precedes(S, g, a, g[a].prev)
      BY <1>4, <1>9, <2>1 DEF Precedes
    <2>3. CASE a = top
      <3>1. \A b \in S : ~Below(g, top, b)
        BY <1>1, <1>4
      <3> QED
        BY <1>3, <2>2, <2>3, <3>1 DEF Follows
    <2>4. CASE a # top
      <3>1. Below(h, a, top)
        BY <1>6, <2>4
      <3>2. g[a].next = h[a].next /\ h[a].next # NULL
        BY <1>2, <2>1, <2>4, <3>1 DEF Follows
      <3>3. h[a].next \in S
        <4>1. h[a].next \in R /\ ~Below(h, top, h[a].next)
          BY <2>1, <3>1, <3>2 DEF Follows
        <4> QED
          BY <4>1
      <3> QED
        BY <1>1, <1>4, <2>1, <2>2, <3>2, <3>3 DEF Follows
    <2> QED
      BY <2>2, <2>3, <2>4
  <1>12. Begins(S, g, low)
    <2>1. Begins(R, h, low)
      BY DEF Chain
    <2>2. low # NULL /\ low \in R
      BY <2>1 DEF Begins
    <2>3. low \in S
      BY <1>6, <1>8, <1>9, <2>1, <2>2 DEF Begins
    <2> QED
      BY <1>4, <2>1, <2>2, <2>3 DEF Begins
  <1>13. Neighbours(S, g, top, NULL)
    BY <1>1, <1>3, <1>8, <1>11 DEF Neighbours
  <1>14. /\ \A a \in S : g[a].start <= g[a].end
         /\ \A a, b \in S : a = b \/ Below(g, a, b) \/ Below(g, b, a)
    BY <1>1, <1>2, <1>4, <1>6
  <1> QED
    BY <1>1, <1>10, <1>11, <1>12, <1>13, <1>14 DEF Chain

\* t is s with the heap h1 and the list is.
Becomes(s, t, h1, is) ==
    /\ IsWork(t) /\ t.heap = h1 /\ t.is = is
    /\ t.ret = s.ret /\ t.stopped = s.stopped

\* A new block that is not in the list
LEMMA AllocatedIsWork ==
    ASSUME NEW s, IsWork(s), s.left # 0,
           NEW h1, IsHeap(h1),
           Cardinality(DOMAIN h1) = Cardinality(DOMAIN s.heap) + 1,
           NEW is \in [lowest : Ptr, highest : Ptr],
           NEW t, t = [s EXCEPT !.heap = h1, !.is = is, !.left = @ - 1]
    PROVE  Becomes(s, t, h1, is)
  <1>1. PICK h, rt, st, k, m : /\ h = s.heap /\ rt = s.ret /\ st = s.stopped
                                /\ k = s.left /\ m = s.left - 1
    OBVIOUS
  <1>2. PICK is0 : is0 = s.is
    OBVIOUS
  <1>3. s = [is |-> is0, heap |-> h, ret |-> rt, stopped |-> st, left |-> k]
    BY <1>1, <1>2 DEF IsWork
  <1>4. t = [s EXCEPT !.heap = h1, !.is = is, !.left = m]
    BY <1>1
  <1>5. t = [is |-> is, heap |-> h1, ret |-> rt, stopped |-> st, left |-> m]
    BY <1>3, <1>4
  <1>6. m \in Nat /\ Cardinality(DOMAIN h1) + m <= MaxBlocks
    <2>1. PICK c \in Nat : c = Cardinality(DOMAIN h)
      BY <1>1, FS_CardinalityType DEF IsWork, IsHeap
    <2>2. c + k <= MaxBlocks /\ k \in Nat /\ k # 0
      BY <1>1, <2>1 DEF IsWork
    <2> QED
      BY <1>1, <2>1, <2>2
  <1>7. rt \in Int /\ st \in BOOLEAN
    BY <1>1 DEF IsWork
  <1> QED
    BY <1>1, <1>5, <1>6, <1>7 DEF IsWork, Becomes

\* A new range behind all others
LEMMA AppendedIsChanged ==
    ASSUME NULL \notin Nat, NEW s, IsWork(s), NEW R,
           Chain(R, s.is.lowest, s.heap, NULL),
           NEW n \in Int, \A a \in R : s.heap[a].end + 1 < n, s.left # 0, Goes(s)
    PROVE  \E R1 : /\ Changed(s, R, AppendRange(s, n), R1)
                   /\ Adds(s, R, AppendRange(s, n), R1, n)
  <1>1. PICK h, low, high, new : /\ h = s.heap /\ low = s.is.lowest
                                 /\ new = FreeAddress(h) /\ high = s.is.highest
    OBVIOUS
  <1>2. IsHeap(h) /\ Chain(R, low, h, NULL) /\ new \in Nat /\ new \notin DOMAIN h
    BY <1>1, FreeIsFree DEF IsWork
  <1>3. /\ R \subseteq DOMAIN h /\ NULL \notin DOMAIN h
        /\ \A a \in R : h[a].start \in Int /\ h[a].end \in Int /\ a \in Nat /\ a # NULL
        /\ \A a, b \in R : a = b \/ Below(h, a, b) \/ Below(h, b, a)
    BY <1>2 DEF Chain, IsHeap, Block
  <1>4. PICK t : t = AppendRange(s, n)
    OBVIOUS
  <1>5. Range(List(s.is, h)) = R
    BY <1>1, <1>2, RangeOfList
  <1>6. low \in Ptr /\ high \in Ptr /\ new \in Ptr
    BY <1>1, <1>2 DEF IsWork, Ptr
  <1>7. CASE high \notin R \cup {NULL}
    <2>1. t = [s EXCEPT !.stopped = TRUE]
      BY <1>1, <1>4, <1>5, <1>7 DEF AppendRange
    <2>2. /\ t.is = s.is /\ t.heap = s.heap /\ t.left = s.left /\ t.ret = s.ret
          /\ t.stopped = TRUE
          /\ t = [is |-> t.is, heap |-> t.heap, ret |-> t.ret, stopped |-> t.stopped,
                  left |-> t.left]
      <3>1. PICK is, rt, st, k : is = s.is /\ rt = s.ret /\ st = s.stopped /\ k = s.left
        OBVIOUS
      <3>2. s = [is |-> is, heap |-> h, ret |-> rt, stopped |-> st, left |-> k]
        BY <1>1, <3>1 DEF IsWork
      <3>3. t = [is |-> is, heap |-> h, ret |-> rt, stopped |-> TRUE, left |-> k]
        BY <2>1, <3>2
      <3> QED
        BY <1>1, <3>1, <3>3
    <2>3. IsWork(t)
      BY <2>2 DEF IsWork
    <2>4. Changed(s, R, t, R)
      BY <1>1, <1>2, <2>2, <2>3 DEF Changed
    <2>5. Adds(s, R, t, R, n)
      BY <2>2 DEF Adds
    <2> QED
      BY <1>4, <2>4, <2>5
  <1>8. CASE high \in R \cup {NULL}
    <2>1. PICK block : block = [start |-> n, end |-> n, prev |-> high, next |-> NULL]
      OBVIOUS
    <2>2. PICK g : g = SetNext(h, high, new)
      OBVIOUS
    <2>3. PICK h1 : h1 = Stored(g, new, block)
      OBVIOUS
    <2>4. HasNext(g, h, high, new)
      <3>1. high # NULL => high \in DOMAIN h
        BY <1>3, <1>8
      <3> QED
        BY <1>2, <1>6, <2>2, <3>1, NextIsSet
    <2>5. IsHeap(g) /\ DOMAIN g = DOMAIN h
      BY <2>4 DEF HasNext
    <2>6. new \in Nat \ DOMAIN g
      BY <1>2, <2>5
    <2>7. block \in Block
      BY <1>6, <2>1 DEF Block, Ptr
    <2>8. HasBlock(h1, g, new, block)
      BY <2>3, <2>5, <2>6, <2>7, StoredIs
    <2>9. Cardinality(DOMAIN h1) = Cardinality(DOMAIN h) + 1
      <3>1. Cardinality(DOMAIN h1) = Cardinality(DOMAIN g) + 1
        BY <2>3, <2>5, <2>6, StoredIsMore
      <3> QED
        BY <2>5, <3>1
    <2>10. /\ IsHeap(h1) /\ DOMAIN h1 = DOMAIN h \cup {new}
           /\ h1[new].start = n /\ h1[new].end = n
           /\ h1[new].prev = high /\ h1[new].next = NULL
           /\ \A a \in DOMAIN h : a # high => h1[a] = h[a]
           /\ high # NULL => /\ h1[high].start = h[high].start
                             /\ h1[high].end = h[high].end
                             /\ h1[high].prev = h[high].prev
                             /\ h1[high].next = new
      <3>1. \A a \in DOMAIN h : h1[a] = g[a]
        BY <2>5, <2>8 DEF HasBlock
      <3>2. high # NULL => high \in DOMAIN h
        BY <1>3, <1>8
      <3> QED
        BY <2>1, <2>4, <2>5, <2>8, <3>1, <3>2 DEF HasBlock, HasNext
    <2>11. PICK low1, is1 : /\ low1 = IF low = NULL THEN new ELSE low
                            /\ is1 = [lowest |-> low1, highest |-> new]
      OBVIOUS
    <2>12. IsWork(t) /\ t.heap = h1 /\ t.is = is1 /\ t.ret = s.ret /\ t.stopped = s.stopped
      <3>1. t = [s EXCEPT !.heap = h1, !.is = is1, !.left = @ - 1]
        BY <1>1, <1>4, <1>5, <1>8, <2>1, <2>2, <2>3, <2>11 DEF AppendRange
      <3>2. is1 \in [lowest : Ptr, highest : Ptr]
        BY <1>6, <2>11
      <3>3. Cardinality(DOMAIN h1) = Cardinality(DOMAIN s.heap) + 1
        BY <1>1, <2>9
      <3>4. IsHeap(h1)
        BY <2>10
      <3>5. Becomes(s, t, h1, is1)
        BY <3>1, <3>2, <3>3, <3>4, AllocatedIsWork
      <3> QED
        BY <3>5 DEF Becomes
    <2>13. \A a \in R : h1[a].start = h[a].start /\ h1[a].end = h[a].end
      BY <1>3, <2>10
    <2>14. ASSUME NEW R1, R1 \subseteq R \cup {new}, Chain(R1, low1, h1, NULL)
           PROVE  Changed(s, R, t, R1)
      <3>1. \A a \in DOMAIN h \ R : a \in DOMAIN h1 /\ a \notin R1 /\ h1[a] = h[a]
        BY <1>2, <1>3, <1>8, <2>10, <2>14
      <3>2. t.is.lowest = low1
        BY <2>11, <2>12
      <3>3. Tidy(t.is)
        BY <1>2, <2>11, <2>12 DEF Tidy
      <3> QED
        BY <1>1, <2>12, <2>14, <3>1, <3>2, <3>3 DEF Changed
    <2>15. CASE high \in R
      <3>1. PICK S : S = {a \in R : ~Below(h, high, a)}
        OBVIOUS
      <3>2. PICK g0 : g0 = SetNext(h, high, NULL)
        OBVIOUS
      <3>3. HasNext(g0, h, high, NULL)
        <4>1. high \in DOMAIN h /\ NULL \in Ptr
          BY <1>3, <2>15 DEF Ptr
        <4> QED
          BY <1>2, <3>2, <4>1, NextIsSet
      <3>4. Chain(S, low, g0, NULL) /\ Neighbours(S, g0, high, NULL)
        BY <1>2, <2>15, <3>1, <3>3, CutIsChain
      <3>5. IsHeap(g0)
        BY <3>3 DEF HasNext
      <3>6. Inserts(g0, h1, new, high, NULL)
        BY <1>2, <1>3, <2>10, <2>15, <3>3 DEF Inserts, HasNext
      <3>7. low # NULL
        BY <1>2, <2>15 DEF Chain, Begins
      <3>8. PICK R1 : R1 = S \cup {new}
        OBVIOUS
      <3>9. g0[high].end + 1 < h1[new].start /\ h1[new].start <= h1[new].end
        BY <1>1, <1>3, <2>10, <2>15, <3>3 DEF HasNext
      <3>10. Chain(R1, low1, h1, NULL)
        <4>1. high # NULL /\ low1 = IF high = NULL THEN new ELSE low
          BY <1>3, <2>11, <2>15, <3>7
        <4> QED
          BY <3>4, <3>5, <3>6, <3>8, <3>9, <4>1, InsertedIsChain
      <3>11. Changed(s, R, t, R1)
        BY <2>14, <3>1, <3>8, <3>10
      <3>12. Adds(s, R, t, R1, n)
        <4>1. SUFFICES ASSUME Ends(R, h, high)
                       PROVE  /\ Ends(R1, h1, new)
                              /\ \A m \in Int : Holds(R1, h1, m)
                                                    <=> Holds(R, h, m) \/ m = n
          BY <1>1, <2>11, <2>12 DEF Adds, Goes
        <4>2. R1 = R \cup {new}
          BY <1>3, <2>15, <3>1, <3>8, <4>1 DEF Ends
        <4>3. \A m \in Int : Holds(R1, h1, m) <=> Holds(R, h, m) \/ m = n
          BY <2>10, <2>13, <4>2 DEF Holds
        <4>4. \A b \in R : ~Below(h1, new, b)
          <5>1. \A b \in R : h[b].start <= h[b].end /\ h[b].end + 1 < n
            BY <1>1, <1>2 DEF Chain
          <5> QED
            BY <1>3, <2>10, <2>13, <5>1 DEF Below
        <4>5. ~Below(h1, new, new)
          BY <2>10 DEF Below
        <4> QED
          BY <1>2, <4>2, <4>3, <4>4, <4>5 DEF Ends
      <3> QED
        BY <1>4, <3>11, <3>12
    <2>16. CASE high = NULL /\ low = NULL
      <3>1. R = {}
        BY <1>2, <2>16 DEF Chain, Begins
      <3>2. PICK R1 : R1 = R \cup {new}
        OBVIOUS
      <3>3. Chain(R1, low1, h1, NULL)
        <4>1. Inserts(h, h1, new, high, NULL)
          BY <1>2, <2>10, <2>16 DEF Inserts
        <4>2. Neighbours(R, h, high, NULL)
          BY <2>16, <3>1 DEF Neighbours, Begins
        <4>3. h1[new].start <= h1[new].end /\ low1 = IF high = NULL THEN new ELSE low
          BY <2>10, <2>11, <2>16
        <4> QED
          BY <1>2, <2>16, <3>2, <4>1, <4>2, <4>3, InsertedIsChain
      <3>4. Changed(s, R, t, R1)
        BY <2>14, <3>2, <3>3
      <3>5. Adds(s, R, t, R1, n)
        <4>1. SUFFICES /\ Ends(R1, h1, new)
                       /\ \A m \in Int : Holds(R1, h1, m) <=> Holds(R, h, m) \/ m = n
          BY <1>1, <2>11, <2>12 DEF Adds, Goes
        <4>2. \A m \in Int : Holds(R1, h1, m) <=> Holds(R, h, m) \/ m = n
          BY <2>10, <3>1, <3>2 DEF Holds
        <4>3. ~Below(h1, new, new)
          BY <2>10 DEF Below
        <4> QED
          BY <1>2, <3>1, <3>2, <4>2, <4>3 DEF Ends
      <3> QED
        BY <1>4, <3>4, <3>5
    <2>17. CASE high = NULL /\ low # NULL
      <3>1. low1 = low /\ low \in R
        BY <1>2, <2>11, <2>17 DEF Chain, Begins
      <3>2. Chain(R, low1, h1, NULL)
        <4>1. R \subseteq DOMAIN h1 /\ \A a \in R : h1[a] = h[a]
          BY <1>3, <2>10, <2>17
        <4> QED
          BY <1>2, <3>1, <4>1, SameChain
      <3>3. Changed(s, R, t, R)
        BY <2>14, <3>2
      <3>4. Adds(s, R, t, R, n)
        BY <1>1, <2>17, <3>1 DEF Adds, Ends
      <3> QED
        BY <1>4, <3>3, <3>4
    <2> QED
      BY <1>8, <2>15, <2>16, <2>17
  <1> QED
    BY <1>7, <1>8

\* t is s with other numbers in the range r.
Resized(s, t, r, lo, hi) ==
    /\ IsWork(t) /\ Resizes(s.heap, t.heap, r)
    /\ t.heap[r].start = lo /\ t.heap[r].end = hi
    /\ t.is = s.is /\ t.ret = s.ret /\ t.stopped = s.stopped

\* The range r gets the block b.
LEMMA BlockIsSet ==
    ASSUME NEW s, IsWork(s), NEW r \in DOMAIN s.heap, NEW b \in Block,
           b.prev = s.heap[r].prev, b.next = s.heap[r].next,
           NEW t, t = [s EXCEPT !.heap = [@ EXCEPT ![r] = b]]
    PROVE  Resized(s, t, r, b.start, b.end)
  <1>1. PICK h, rt, st, k, is : /\ h = s.heap /\ rt = s.ret /\ st = s.stopped
                                 /\ k = s.left /\ is = s.is
    OBVIOUS
  <1>2. s = [is |-> is, heap |-> h, ret |-> rt, stopped |-> st, left |-> k]
    BY <1>1 DEF IsWork
  <1>3. PICK h1 : h1 = [h EXCEPT ![r] = b]
    OBVIOUS
  <1>4. t = [s EXCEPT !.heap = h1]
    BY <1>1, <1>3
  <1>5. t = [is |-> is, heap |-> h1, ret |-> rt, stopped |-> st, left |-> k]
    BY <1>2, <1>4
  <1>6. IsHeap(h)
    BY <1>1 DEF IsWork
  <1>7. h1 = [a \in DOMAIN h |-> IF a = r THEN b ELSE h[a]]
    BY <1>3, <1>6 DEF IsHeap
  <1>8. IsHeap(h1) /\ DOMAIN h1 = DOMAIN h
    BY <1>6, <1>7 DEF IsHeap
  <1>9. h1[r] = b /\ \A a \in DOMAIN h : a # r => h1[a] = h[a]
    BY <1>1, <1>7
  <1>10. Resizes(h, h1, r)
    BY <1>1, <1>8, <1>9 DEF Resizes
  <1>11. IsWork(t)
    <2>1. /\ is \in [lowest : Ptr, highest : Ptr] /\ rt \in Int
          /\ st \in BOOLEAN /\ k \in Nat /\ Cardinality(DOMAIN h) + k <= MaxBlocks
      BY <1>1 DEF IsWork
    <2>2. Cardinality(DOMAIN h1) + k <= MaxBlocks
      BY <1>8, <2>1
    <2> QED
      BY <1>5, <1>8, <2>1, <2>2 DEF IsWork
  <1>12. t.heap = h1 /\ t.is = is /\ t.ret = rt /\ t.stopped = st
    BY <1>5
  <1> QED
    BY <1>1, <1>9, <1>10, <1>11, <1>12 DEF Resized

\* A range gets another first number.
LEMMA StartIsSet ==
    ASSUME NEW s, IsWork(s), NEW r \in DOMAIN s.heap, NEW n \in Int,
           NEW t, t = [s EXCEPT !.heap[r].start = n]
    PROVE  Resized(s, t, r, n, s.heap[r].end)
  <1>1. s.heap[r] \in Block
    BY DEF IsWork, IsHeap
  <1>2. PICK b : b = [s.heap[r] EXCEPT !.start = n]
    OBVIOUS
  <1>3. /\ b \in Block /\ b.prev = s.heap[r].prev /\ b.next = s.heap[r].next
        /\ b.start = n /\ b.end = s.heap[r].end
    BY <1>1, <1>2 DEF Block
  <1>4. t = [s EXCEPT !.heap = [@ EXCEPT ![r] = b]]
    BY <1>2
  <1>5. Resized(s, t, r, b.start, b.end)
    BY <1>3, <1>4, BlockIsSet
  <1> QED
    BY <1>3, <1>5

\* A range gets another last number.
LEMMA EndIsSet ==
    ASSUME NEW s, IsWork(s), NEW r \in DOMAIN s.heap, NEW n \in Int,
           NEW t, t = [s EXCEPT !.heap[r].end = n]
    PROVE  Resized(s, t, r, s.heap[r].start, n)
  <1>1. s.heap[r] \in Block
    BY DEF IsWork, IsHeap
  <1>2. PICK b : b = [s.heap[r] EXCEPT !.end = n]
    OBVIOUS
  <1>3. /\ b \in Block /\ b.prev = s.heap[r].prev /\ b.next = s.heap[r].next
        /\ b.start = s.heap[r].start /\ b.end = n
    BY <1>1, <1>2 DEF Block
  <1>4. t = [s EXCEPT !.heap = [@ EXCEPT ![r] = b]]
    BY <1>2
  <1>5. Resized(s, t, r, b.start, b.end)
    BY <1>3, <1>4, BlockIsSet
  <1> QED
    BY <1>3, <1>5

\* The heap without the range r of a list
TakenOut(h, r) ==
    Freed(SetNext(SetPrev(h, h[r].next, h[r].prev), h[r].prev, h[r].next), r)

\* The neighbours of a range are ranges of the list, and others than it.
LEMMA NeighboursAre ==
    ASSUME NULL \notin Nat, NEW h, IsHeap(h), NEW R, NEW low, NEW q,
           Chain(R, low, h, q), NEW r \in R
    PROVE  /\ h[r].prev \in Ptr
           /\ h[r].prev # NULL => h[r].prev \in R /\ Below(h, h[r].prev, r)
           /\ h[r].next \in Ptr
           /\ h[r].next # NULL => h[r].next \in R /\ Below(h, r, h[r].next)
  <1>1. h[r] \in Block
    BY DEF Chain, IsHeap
  <1>2. Follows(R, h, r, h[r].next) /\ Precedes(R, h, r, h[r].prev)
    BY DEF Chain
  <1> QED
    BY <1>1, <1>2 DEF Block, Follows, Precedes

\* A range is taken out and freed.
LEMMA TakenOutIs ==
    ASSUME NULL \notin Nat, NEW h, IsHeap(h), NEW R, NEW low, NEW q,
           Chain(R, low, h, q), NEW r \in R, NEW g, g = TakenOut(h, r)
    PROVE  /\ Removes(h, g, r, h[r].prev, h[r].next)
           /\ Cardinality(DOMAIN g) <= Cardinality(DOMAIN h)
  <1>1. PICK p, x : p = h[r].prev /\ x = h[r].next
    OBVIOUS
  <1>2. /\ p \in Ptr /\ (p # NULL => p \in R /\ Below(h, p, r))
        /\ x \in Ptr /\ (x # NULL => x \in R /\ Below(h, r, x))
    BY <1>1, NeighboursAre
  <1>3. R \subseteq DOMAIN h /\ \A a \in R : h[a].start \in Int
    BY DEF Chain, IsHeap, Block
  <1>4. /\ p # NULL => p \in DOMAIN h /\ p # r
        /\ x # NULL => x \in DOMAIN h /\ x # r
        /\ p # NULL => p # x
    BY <1>2, <1>3 DEF Below
  <1>5. PICK g1 : g1 = SetPrev(h, x, p)
    OBVIOUS
  <1>6. PICK g2 : g2 = SetNext(g1, p, x)
    OBVIOUS
  <1>7. g = Freed(g2, r)
    BY <1>1, <1>5, <1>6 DEF TakenOut
  <1>8. HasPrev(g1, h, x, p)
    BY <1>2, <1>4, <1>5, PrevIsSet
  <1>9. HasNext(g2, g1, p, x)
    <2>1. IsHeap(g1) /\ (p # NULL => p \in DOMAIN g1)
      BY <1>4, <1>8 DEF HasPrev
    <2> QED
      BY <1>2, <1>6, <2>1, NextIsSet
  <1>10. IsHeap(g2) /\ DOMAIN g2 = DOMAIN h
    BY <1>8, <1>9 DEF HasPrev, HasNext
  <1>11. /\ IsHeap(g) /\ DOMAIN g = DOMAIN h \ {r}
         /\ Cardinality(DOMAIN g) <= Cardinality(DOMAIN h)
         /\ \A c \in DOMAIN g : g[c] = g2[c]
    <2>1. HasLost(g, g2, r)
      BY <1>7, <1>10, FreedIs
    <2> QED
      BY <1>10, <2>1 DEF HasLost
  <1>12. \A a \in DOMAIN g : a # p /\ a # x => g[a] = h[a]
    BY <1>8, <1>9, <1>11 DEF HasPrev, HasNext
  <1>13. p # NULL => /\ g[p].start = h[p].start /\ g[p].end = h[p].end
                     /\ g[p].prev = h[p].prev /\ g[p].next = x
    BY <1>4, <1>8, <1>9, <1>11 DEF HasPrev, HasNext
  <1>14. x # NULL => /\ g[x].start = h[x].start /\ g[x].end = h[x].end
                     /\ g[x].next = h[x].next /\ g[x].prev = p
    BY <1>4, <1>8, <1>9, <1>11 DEF HasPrev, HasNext
  <1> QED
    BY <1>1, <1>11, <1>12, <1>13, <1>14 DEF Removes

\* The heap when the range r of a list has been joined with the next one
Joined(h, r) ==
    Freed(SetNext([h EXCEPT ![h[r].next].start = h[r].start,
                            ![h[r].next].prev = h[r].prev],
                  h[r].prev, h[r].next), r)

\* The next range gets larger when r is taken out.
LEMMA JoinedIs ==
    ASSUME NULL \notin Nat, NEW h, IsHeap(h), NEW R, NEW low, NEW q,
           Chain(R, low, h, q), NEW r \in R, h[r].next # NULL,
           NEW g, g = TakenOut(h, r), NEW h1, h1 = Joined(h, r)
    PROVE  /\ Resizes(g, h1, h[r].next)
           /\ h1[h[r].next].start = h[r].start /\ h1[h[r].next].end = h[h[r].next].end
           /\ Cardinality(DOMAIN h1) <= Cardinality(DOMAIN h)
  <1>1. PICK p, x : p = h[r].prev /\ x = h[r].next
    OBVIOUS
  <1>2. /\ p \in Ptr /\ (p # NULL => p \in R /\ Below(h, p, r))
        /\ x \in R /\ Below(h, r, x) /\ x \in Ptr
    BY <1>1, NeighboursAre
  <1>3. R \subseteq DOMAIN h /\ \A a \in R : h[a].start \in Int
    BY DEF Chain, IsHeap, Block
  <1>4. /\ p # NULL => p \in DOMAIN h /\ p # r
        /\ x \in DOMAIN h /\ x # r /\ x # NULL
        /\ p # NULL => p # x
        /\ r \in DOMAIN h
    BY <1>1, <1>2, <1>3 DEF Below
  <1>5. PICK b : b = [[h[x] EXCEPT !.start = h[r].start] EXCEPT !.prev = p]
    OBVIOUS
  <1>6. /\ b \in Block /\ b.start = h[r].start /\ b.end = h[x].end
        /\ b.next = h[x].next /\ b.prev = p
    <2>1. h[x] \in Block /\ h[r].start \in Int
      BY <1>3, <1>4 DEF IsHeap
    <2> QED
      BY <1>2, <1>5, <2>1 DEF Block
  <1>7. PICK g1 : g1 = [h EXCEPT ![x].start = h[r].start, ![x].prev = p]
    OBVIOUS
  <1>8. PICK g2 : g2 = SetNext(g1, p, x)
    OBVIOUS
  <1>9. h1 = Freed(g2, r)
    BY <1>1, <1>7, <1>8 DEF Joined
  <1>10. g1 = [a \in DOMAIN h |-> IF a = x THEN b ELSE h[a]]
    BY <1>4, <1>5, <1>7 DEF IsHeap
  <1>11. /\ IsHeap(g1) /\ DOMAIN g1 = DOMAIN h
         /\ g1[x] = b /\ \A a \in DOMAIN h : a # x => g1[a] = h[a]
    <2>1. \A a \in DOMAIN h : g1[a] \in Block
      BY <1>6, <1>10 DEF IsHeap
    <2>2. DOMAIN g1 = DOMAIN h
      BY <1>10
    <2>3. IsHeap(g1)
      BY <1>10, <2>1, <2>2 DEF IsHeap
    <2> QED
      BY <1>4, <1>10, <2>2, <2>3
  <1>12. HasNext(g2, g1, p, x)
    <2>1. p # NULL => p \in DOMAIN g1
      BY <1>4, <1>11
    <2> QED
      BY <1>2, <1>8, <1>11, <2>1, NextIsSet
  <1>13. IsHeap(g2) /\ DOMAIN g2 = DOMAIN h
    BY <1>11, <1>12 DEF HasNext
  <1>14. /\ IsHeap(h1) /\ DOMAIN h1 = DOMAIN h \ {r}
         /\ Cardinality(DOMAIN h1) <= Cardinality(DOMAIN h)
         /\ \A c \in DOMAIN h1 : h1[c] = g2[c]
    <2>1. HasLost(h1, g2, r)
      BY <1>9, <1>13, FreedIs
    <2> QED
      BY <1>13, <2>1 DEF HasLost
  <1>15. Removes(h, g, r, p, x)
    BY <1>1, TakenOutIs
  <1>16. DOMAIN g = DOMAIN h1 /\ \A a \in DOMAIN g : a # x => h1[a] = g[a]
    <2>1. \A a \in DOMAIN h1 : a # p /\ a # x => h1[a] = g[a]
      BY <1>11, <1>12, <1>14, <1>15 DEF Removes, HasNext
    <2>2. ASSUME p # NULL PROVE h1[p] = g[p]
      <3>1. p \in DOMAIN h1 /\ p \in DOMAIN g /\ p \in DOMAIN g1 /\ p # x
        BY <1>4, <1>11, <1>14, <1>15, <2>2 DEF Removes
      <3>2. /\ h1[p].start = h[p].start /\ h1[p].end = h[p].end
            /\ h1[p].prev = h[p].prev /\ h1[p].next = x
        BY <1>4, <1>11, <1>12, <1>14, <2>2, <3>1 DEF HasNext
      <3>3. /\ g[p].start = h[p].start /\ g[p].end = h[p].end
            /\ g[p].prev = h[p].prev /\ g[p].next = x
        BY <1>15, <2>2 DEF Removes
      <3>4. h1[p] \in Block /\ g[p] \in Block
        BY <1>14, <1>15, <3>1 DEF IsHeap, Removes
      <3> QED
        BY <3>2, <3>3, <3>4 DEF Block
    <2>3. NULL \notin DOMAIN h1
      BY <1>14 DEF IsHeap
    <2> QED
      BY <1>14, <1>15, <2>1, <2>2, <2>3 DEF Removes
  <1>17. h1[x] = b
    <2>1. x \in DOMAIN h1 /\ x \in DOMAIN g1 /\ x # p
      BY <1>4, <1>11, <1>14
    <2> QED
      BY <1>11, <1>12, <1>14, <2>1 DEF HasNext
  <1>18. g[x].next = h[x].next /\ g[x].prev = p
    BY <1>4, <1>15 DEF Removes
  <1> QED
    BY <1>1, <1>6, <1>14, <1>16, <1>17, <1>18 DEF Resizes

\* Blocks are freed.
LEMMA FreedIsWork ==
    ASSUME MaxBlocks \in Nat, NEW s, IsWork(s), NEW h1, IsHeap(h1),
           Cardinality(DOMAIN h1) <= Cardinality(DOMAIN s.heap),
           NEW is \in [lowest : Ptr, highest : Ptr],
           NEW t, t = [s EXCEPT !.heap = h1, !.is = is]
    PROVE  Becomes(s, t, h1, is)
  <1>1. PICK h, rt, st, k, is0 : /\ h = s.heap /\ rt = s.ret /\ st = s.stopped
                                  /\ k = s.left /\ is0 = s.is
    OBVIOUS
  <1>2. s = [is |-> is0, heap |-> h, ret |-> rt, stopped |-> st, left |-> k]
    BY <1>1 DEF IsWork
  <1>3. t = [is |-> is, heap |-> h1, ret |-> rt, stopped |-> st, left |-> k]
    BY <1>2
  <1>4. Cardinality(DOMAIN h1) + k <= MaxBlocks
    <2>1. PICK c \in Nat, d \in Nat : c = Cardinality(DOMAIN h) /\ d = Cardinality(DOMAIN h1)
      BY <1>1, FS_CardinalityType DEF IsWork, IsHeap
    <2>2. c + k <= MaxBlocks /\ k \in Nat /\ d <= c
      BY <1>1, <2>1 DEF IsWork
    <2> QED
      BY <2>1, <2>2
  <1>5. rt \in Int /\ st \in BOOLEAN /\ k \in Nat
    BY <1>1 DEF IsWork
  <1> QED
    BY <1>1, <1>3, <1>4, <1>5 DEF IsWork, Becomes

\* The set s with the list R and t with R1 have the same numbers, and highest is
\* right in t when it was in s.
Keeps(s, R, t, R1) ==
    /\ t.ret = s.ret /\ t.stopped = s.stopped
    /\ \A m \in Int : Holds(R1, t.heap, m) <=> Holds(R, s.heap, m)
    /\ Ends(R, s.heap, s.is.highest) => Ends(R1, t.heap, t.is.highest)

\* A range that touches the next one is joined with it.
LEMMA NextIsJoined ==
    ASSUME NULL \notin Nat, MaxBlocks \in Nat, NEW s, IsWork(s), NEW R, NEW r \in R,
           Chain(R, s.is.lowest, s.heap, r),
           s.heap[r].next # NULL,
           s.heap[s.heap[r].next].start = s.heap[r].end + 1,
           NEW t, t = JoinNext(s, r)
    PROVE  \E R1 : Changed(s, R, t, R1) /\ Keeps(s, R, t, R1)
  <1>1. PICK h, low, high, x, p : /\ h = s.heap /\ low = s.is.lowest
                                  /\ high = s.is.highest
                                  /\ x = h[r].next /\ p = h[r].prev
    OBVIOUS
  <1>2. IsHeap(h) /\ Chain(R, low, h, r)
    BY <1>1 DEF IsWork
  <1>3. /\ R \subseteq DOMAIN h /\ NULL \notin DOMAIN h
        /\ \A a \in R : h[a].start \in Int /\ h[a].end \in Int /\ h[a].start <= h[a].end
        /\ \A a, b \in R : a = b \/ Below(h, a, b) \/ Below(h, b, a)
    BY <1>2 DEF Chain, IsHeap, Block
  <1>4. x \in R /\ Below(h, r, x) /\ p \in Ptr /\ x # NULL /\ x # r
    BY <1>1, <1>2, <1>3, NeighboursAre DEF Below
  <1>5. PICK g, h1, S : g = TakenOut(h, r) /\ h1 = Joined(h, r) /\ S = R \ {r}
    OBVIOUS
  <1>6. Removes(h, g, r, p, x)
    BY <1>1, <1>2, <1>5, TakenOutIs
  <1>7. /\ Resizes(g, h1, x) /\ h1[x].start = h[r].start /\ h1[x].end = h[x].end
        /\ Cardinality(DOMAIN h1) <= Cardinality(DOMAIN h)
    <2>1. h[r].next # NULL
      BY <1>1, <1>4
    <2> QED
      BY <1>1, <1>2, <1>5, <2>1, JoinedIs
  <1>8. PICK low1 : low1 = IF p = NULL THEN x ELSE low
    OBVIOUS
  <1>9. IsHeap(g) /\ Chain(S, low1, g, r)
    <2>1. IsHeap(g)
      BY <1>6 DEF Removes
    <2> QED
      BY <1>1, <1>2, <1>5, <1>6, <1>8, <2>1, RemovedIsChain
  <1>10. Chain(S, low1, g, NULL)
    <2>1. Apart(S, g, NULL)
      BY <1>5, <1>9 DEF Chain, Apart
    <2> QED
      BY <1>9, <2>1 DEF Chain
  <1>11. /\ \A a \in S : a \in DOMAIN g /\ g[a].start = h[a].start /\ g[a].end = h[a].end
         /\ \A a \in S : a # x => h1[a].start = h[a].start /\ h1[a].end = h[a].end
    <2>1. \A a \in S : a \in DOMAIN g
      BY <1>3, <1>5, <1>6 DEF Removes
    <2>2. \A a \in S : g[a].start = h[a].start /\ g[a].end = h[a].end
      BY <1>3, <1>6, <2>1 DEF Removes
    <2> QED
      BY <1>7, <2>1, <2>2 DEF Resizes
  <1>12. Chain(S, low1, h1, NULL)
    <2>1. x \in S
      BY <1>4, <1>5
    <2>2. h1[x].start <= h1[x].end
      BY <1>3, <1>4, <1>7 DEF Below
    <2>3. \A a \in S : Below(g, a, x) => g[a].end + 1 < h1[x].start
      <3> TAKE a \in S
      <3> HAVE Below(g, a, x)
      <3>1. a \in R /\ a # r /\ Below(h, a, x)
        BY <1>5, <1>11, <2>1 DEF Below
      <3>2. Below(h, a, r)
        <4>1. Follows(R, h, r, x)
          BY <1>1, <1>2 DEF Chain
        <4> QED
          BY <1>3, <1>4, <3>1, <4>1 DEF Follows
      <3>3. h[a].end + 1 < h[r].start
        BY <1>2, <3>1, <3>2 DEF Chain, Apart
      <3> QED
        BY <1>7, <1>11, <3>3
    <2>4. \A a \in S : Below(g, x, a) => h1[x].end + 1 < g[a].start
      <3> TAKE a \in S
      <3> HAVE Below(g, x, a)
      <3>1. g[x].end + 1 < g[a].start
        BY <1>4, <1>10, <2>1 DEF Chain, Apart
      <3> QED
        BY <1>7, <1>11, <2>1, <3>1
    <2>5. \A a \in S : g[a].start \in Int /\ h1[x].end \in Int
      BY <1>3, <1>4, <1>5, <1>7, <1>11
    <2>6. \A a \in S : Below(g, x, a) => /\ h1[x].end < g[a].start
                                         /\ x # NULL => h1[x].end + 1 < g[a].start
      BY <2>4, <2>5
    <2> QED
      BY <1>7, <1>9, <1>10, <2>1, <2>2, <2>3, <2>6, ResizedIsChain
  <1>13. PICK is1 : is1 = [lowest |-> low1, highest |-> high]
    OBVIOUS
  <1>14. Becomes(s, t, h1, is1)
    <2>1. t = [s EXCEPT !.heap = h1, !.is.lowest = low1]
      BY <1>1, <1>4, <1>5, <1>8 DEF JoinNext, Joined
    <2>2. s.is \in [lowest : Ptr, highest : Ptr]
      BY DEF IsWork
    <2>3. is1 = [s.is EXCEPT !.lowest = low1]
      BY <1>1, <1>13, <2>2
    <2>4. t = [s EXCEPT !.heap = h1, !.is = is1]
      BY <2>1, <2>3 DEF IsWork
    <2>5. low1 \in Ptr
      BY <1>1, <1>2, <1>3, <1>4, <1>8, <2>2 DEF Ptr, IsHeap
    <2>6. is1 \in [lowest : Ptr, highest : Ptr]
      BY <1>1, <1>13, <2>2, <2>5
    <2>7. IsHeap(h1)
      BY <1>7 DEF Resizes
    <2> QED
      BY <1>1, <1>7, <2>4, <2>6, <2>7, FreedIsWork
  <1>15. /\ IsWork(t) /\ t.heap = h1 /\ t.is.lowest = low1 /\ t.is.highest = high
         /\ t.ret = s.ret /\ t.stopped = s.stopped
    BY <1>13, <1>14 DEF Becomes
  <1>16. Changed(s, R, t, S)
    <2>1. ASSUME NEW a \in DOMAIN h \ R
          PROVE  a \in DOMAIN h1 /\ a \notin S /\ h1[a] = h[a]
      <3>1. a # r /\ a # x /\ a # p
        BY <1>1, <1>2, <1>3, <1>4, NeighboursAre
      <3> QED
        BY <1>5, <1>6, <1>7, <3>1 DEF Removes, Resizes
    <2>2. low # NULL
      BY <1>2 DEF Chain, Begins
    <2>3. Tidy(t.is)
      BY <1>4, <1>8, <1>15, <2>2 DEF Tidy
    <2> QED
      BY <1>1, <1>12, <1>15, <2>1, <2>3 DEF Changed
  <1>17. Keeps(s, R, t, S)
    <2>1. \A m \in Int : Holds(S, h1, m) <=> Holds(R, h, m)
      <3> TAKE m \in Int
      <3>1. ASSUME Holds(S, h1, m) PROVE Holds(R, h, m)
        <4>1. PICK a \in S : h1[a].start <= m /\ m <= h1[a].end
          BY <3>1 DEF Holds
        <4>2. CASE a # x
          BY <1>5, <1>11, <4>1, <4>2 DEF Holds
        <4>3. CASE a = x
          <5>1. h[r].start <= m /\ m <= h[x].end
            BY <1>7, <4>1, <4>3
          <5>2. m <= h[r].end \/ h[x].start <= m
            BY <1>1, <1>3, <1>4
          <5> QED
            BY <1>4, <5>1, <5>2 DEF Holds
        <4> QED
          BY <4>2, <4>3
      <3>2. ASSUME Holds(R, h, m) PROVE Holds(S, h1, m)
        <4>1. PICK a \in R : h[a].start <= m /\ m <= h[a].end
          BY <3>2 DEF Holds
        <4>2. CASE a # x /\ a # r
          BY <1>5, <1>11, <4>1, <4>2 DEF Holds
        <4>3. CASE a = x \/ a = r
          <5>1. h[r].start <= m /\ m <= h[x].end
            BY <1>1, <1>3, <1>4, <4>1, <4>3 DEF Below
          <5> QED
            BY <1>4, <1>5, <1>7, <5>1 DEF Holds
        <4> QED
          BY <4>2, <4>3
      <3> QED
        BY <3>1, <3>2
    <2>2. ASSUME Ends(R, h, high) PROVE Ends(S, h1, high)
      <3>1. high # NULL /\ high \in R /\ \A b \in R : ~Below(h, high, b)
        BY <1>4, <2>2 DEF Ends
      <3>2. high # r /\ high \in S
        BY <1>4, <1>5, <3>1
      <3>3. \A b \in S : ~Below(h1, high, b)
        <4> SUFFICES ASSUME NEW b \in S, Below(h1, high, b) PROVE FALSE
          OBVIOUS
        <4>1. b \in R /\ ~Below(h, high, b) /\ h1[b].start <= h[b].start
          BY <1>3, <1>4, <1>5, <1>7, <1>11, <3>1 DEF Below
        <4>2. high = x
          BY <1>3, <1>5, <1>7, <1>11, <3>1, <3>2, <4>1 DEF Below
        <4>3. b # x /\ Below(h, b, x)
          BY <1>3, <1>4, <1>7, <4>1, <4>2 DEF Below
        <4>4. Follows(R, h, r, x)
          BY <1>1, <1>2 DEF Chain
        <4>5. ~Below(h, r, b)
          BY <1>4, <4>1, <4>3, <4>4 DEF Follows
        <4> QED
          BY <1>3, <1>4, <1>5, <1>7, <1>11, <4>1, <4>2, <4>3, <4>5 DEF Below
      <3> QED
        BY <3>1, <3>2, <3>3 DEF Ends
    <2> QED
      BY <1>1, <1>15, <2>1, <2>2 DEF Keeps
  <1> QED
    BY <1>16, <1>17

\* Ranges are joined if they touch.
LEMMA JoinIsChanged ==
    ASSUME NULL \notin Nat, MaxBlocks \in Nat, NEW s, IsWork(s), NEW R, NEW r \in R,
           Chain(R, s.is.lowest, s.heap, r), NEW t, t = JoinRanges(s, r)
    PROVE  \E R1 : Changed(s, R, t, R1) /\ Keeps(s, R, t, R1)
  <1>1. PICK h, x, p : h = s.heap /\ x = h[r].next /\ p = h[r].prev
    OBVIOUS
  <1>2. IsHeap(h) /\ Chain(R, s.is.lowest, h, r)
    BY <1>1 DEF IsWork
  <1>3. \A a \in R : h[a].start \in Int /\ h[a].end \in Int
    BY <1>2 DEF Chain, IsHeap, Block
  <1>4. /\ p # NULL => p \in R /\ Below(h, p, r)
        /\ x # NULL => x \in R /\ Below(h, r, x)
    BY <1>1, <1>2, NeighboursAre
  <1>5. ~(p # NULL /\ h[p].end = h[r].start - 1)
    <2>1. SUFFICES ASSUME p # NULL PROVE h[p].end + 1 < h[r].start
      BY <1>3, <1>4
    <2>2. p # r
      BY <1>3, <1>4, <2>1 DEF Below
    <2> QED
      BY <1>2, <1>4, <2>1, <2>2 DEF Chain, Apart
  <1>6. t = IF x # NULL /\ h[x].start = h[r].end + 1 THEN JoinNext(s, r) ELSE s
    BY <1>1, <1>5 DEF JoinRanges
  <1>7. CASE x # NULL /\ h[x].start = h[r].end + 1
    BY <1>1, <1>6, <1>7, NextIsJoined
  <1>8. CASE ~(x # NULL /\ h[x].start = h[r].end + 1)
    <2>1. t = s
      BY <1>6, <1>8
    <2>2. Follows(R, h, r, x)
      BY <1>1, <1>2 DEF Chain
    <2>3. ASSUME NEW b \in R, Below(h, r, b) PROVE h[r].end + 1 < h[b].start
      <3>1. x # NULL /\ ~Below(h, b, x)
        BY <2>2, <2>3 DEF Follows
      <3>2. h[r].end < h[x].start
        BY <1>2, <1>4, <3>1 DEF Chain, Apart
      <3> QED
        BY <1>3, <1>4, <1>8, <3>1, <3>2 DEF Below
    <2>4. Apart(R, h, NULL)
      <3>1. \A a, b \in R : Below(h, a, b) => h[a].end < h[b].start
        BY <1>2 DEF Chain, Apart
      <3>2. \A a, b \in R : Below(h, a, b) => h[a].end + 1 < h[b].start
        BY <1>2, <2>3 DEF Chain, Apart
      <3> QED
        BY <3>1, <3>2 DEF Apart
    <2>5. Chain(R, s.is.lowest, h, NULL)
      BY <1>2, <2>4 DEF Chain
    <2>6. R \cap (DOMAIN h \ R) = {}
      OBVIOUS
    <2>7. Changed(s, R, t, R)
      BY <1>1, <2>1, <2>5, <2>6 DEF Changed
    <2>8. Keeps(s, R, t, R)
      BY <2>1 DEF Keeps
    <2> QED
      BY <2>7, <2>8
  <1> QED
    BY <1>7, <1>8

\* The range r gets the number n at one of its ends.
Grown(s, t, r, n) ==
    /\ IsWork(t) /\ Resizes(s.heap, t.heap, r)
    /\ \/ n = s.heap[r].start - 1 /\ t.heap[r].start = n
                                  /\ t.heap[r].end = s.heap[r].end
       \/ n = s.heap[r].end + 1 /\ t.heap[r].end = n
                                /\ t.heap[r].start = s.heap[r].start
    /\ t.is = s.is /\ t.ret = s.ret /\ t.stopped = s.stopped

\* A range grows, and is joined with the next one if they touch.
LEMMA GrownIsChanged ==
    ASSUME NULL \notin Nat, MaxBlocks \in Nat, NEW s, IsWork(s), NEW R, NEW r \in R,
           Chain(R, s.is.lowest, s.heap, NULL), NEW n \in Int,
           n <= s.heap[r].end + 1,
           \A a \in R : Below(s.heap, a, r) => s.heap[a].end + 1 < n,
           NEW u, Grown(s, u, r, n), NEW t, t = JoinRanges(u, r), Goes(s)
    PROVE  \E R1 : Changed(s, R, t, R1) /\ Adds(s, R, t, R1, n)
  <1>1. PICK h, g, low, high : /\ h = s.heap /\ g = u.heap
                               /\ low = s.is.lowest /\ high = s.is.highest
    OBVIOUS
  <1>2. IsHeap(h) /\ Chain(R, low, h, NULL) /\ Resizes(h, g, r) /\ IsHeap(g)
    BY <1>1 DEF IsWork, Grown, Resizes
  <1>3. /\ R \subseteq DOMAIN h /\ NULL \notin R
        /\ \A a \in R : h[a].start \in Int /\ h[a].end \in Int /\ h[a].start <= h[a].end
        /\ \A a, b \in R : a = b \/ Below(h, a, b) \/ Below(h, b, a)
    BY <1>2 DEF Chain, IsHeap, Block
  <1>4. /\ g[r].start <= h[r].start /\ h[r].end <= g[r].end /\ g[r].end <= h[r].end + 1
        /\ g[r].start \in Int /\ g[r].end \in Int
        /\ \A m \in Int : g[r].start <= m /\ m <= g[r].end
                            <=> (h[r].start <= m /\ m <= h[r].end) \/ m = n
    BY <1>1, <1>3 DEF Grown
  <1>5. \A a \in R : a # r => g[a] = h[a]
    BY <1>2, <1>3 DEF Resizes
  <1>6. Chain(R, low, g, r)
    <2>1. \A a \in R : Below(h, a, r) => h[a].end + 1 < g[r].start
      <3> TAKE a \in R
      <3> HAVE Below(h, a, r)
      <3>1. h[a].end + 1 < n
        BY <1>1
      <3>2. h[a].end + 1 < h[r].start
        BY <1>2, <1>3 DEF Chain, Apart
      <3> QED
        BY <1>1, <3>1, <3>2 DEF Grown
    <2>2. \A a \in R : Below(h, r, a) => g[r].end < h[a].start
      <3> TAKE a \in R
      <3> HAVE Below(h, r, a)
      <3>1. h[r].end + 1 < h[a].start
        BY <1>2, <1>3 DEF Chain, Apart
      <3> QED
        BY <1>3, <1>4, <3>1
    <2>3. \A a \in R : Below(h, r, a) => /\ g[r].end < h[a].start
                                         /\ r # r => g[r].end + 1 < h[a].start
      BY <2>2
    <2>4. g[r].start <= g[r].end
      BY <1>3, <1>4
    <2> QED
      BY <1>2, <2>1, <2>3, <2>4, ResizedIsChain
  <1>7. PICK R1 : Changed(u, R, t, R1) /\ Keeps(u, R, t, R1)
    <2>1. IsWork(u) /\ Chain(R, u.is.lowest, u.heap, r)
      BY <1>1, <1>6 DEF Grown
    <2> QED
      BY <2>1, JoinIsChanged
  <1>8. Changed(s, R, t, R1)
    <2>1. \A a \in DOMAIN h \ R : a \in DOMAIN g \ R /\ g[a] = h[a]
      BY <1>2 DEF Resizes
    <2>2. u.is = s.is
      BY DEF Grown
    <2> QED
      BY <1>1, <1>7, <2>1, <2>2 DEF Changed
  <1>9. Adds(s, R, t, R1, n)
    <2>1. ASSUME NEW m \in Int PROVE Holds(R, g, m) <=> Holds(R, h, m) \/ m = n
      <3>1. ASSUME NEW a \in R, a # r
            PROVE  g[a].start <= m /\ m <= g[a].end
                        <=> h[a].start <= m /\ m <= h[a].end
        BY <1>5, <3>1
      <3>2. ASSUME Holds(R, g, m) PROVE Holds(R, h, m) \/ m = n
        BY <1>4, <3>1, <3>2 DEF Holds
      <3>3. ASSUME Holds(R, h, m) \/ m = n PROVE Holds(R, g, m)
        BY <1>4, <3>1, <3>3 DEF Holds
      <3> QED
        BY <3>2, <3>3
    <2>2. ASSUME Ends(R, h, high) PROVE Ends(R, g, high)
      <3>1. high # NULL /\ high \in R /\ \A b \in R : ~Below(h, high, b)
        BY <1>3, <2>2 DEF Ends
      <3>2. \A b \in R : ~Below(g, high, b)
        <4> SUFFICES ASSUME NEW b \in R, Below(g, high, b) PROVE FALSE
          OBVIOUS
        <4>1. high # b
          BY <1>3, <1>4, <1>5 DEF Below
        <4>2. Below(h, b, high)
          BY <1>3, <3>1, <4>1
        <4>3. Chain(R, low, g, r)
          BY <1>6
        <4>4. h[b].end + 1 < h[high].start
          BY <1>2, <1>3, <3>1, <4>2 DEF Chain, Apart
        <4>5. g[b].start <= h[b].start /\ g[b].start \in Int
          BY <1>3, <1>4, <1>5
        <4>6. CASE high = r
          <5>1. g[b] = h[b] /\ h[b].end + 1 < n
            BY <1>1, <1>5, <4>1, <4>2, <4>6
          <5>2. g[high].start = n \/ g[high].start = h[high].start
            BY <1>1, <4>6 DEF Grown
          <5> QED
            BY <1>3, <4>4, <4>6, <5>1, <5>2 DEF Below
        <4>7. CASE high # r
          BY <1>3, <1>5, <3>1, <4>4, <4>5, <4>7 DEF Below
        <4> QED
          BY <4>6, <4>7
      <3> QED
        BY <3>1, <3>2 DEF Ends
    <2>3. SUFFICES ASSUME Ends(R, h, high)
                   PROVE  /\ Ends(R1, t.heap, t.is.highest)
                          /\ \A m \in Int : Holds(R1, t.heap, m)
                                <=> Holds(R, h, m) \/ (m = n /\ t.ret = 0)
      BY <1>1 DEF Adds
    <2>4. Ends(R1, t.heap, t.is.highest)
      BY <1>1, <1>7, <2>2, <2>3 DEF Keeps, Grown
    <2>5. t.ret = 0
      BY <1>7 DEF Keeps, Grown, Goes
    <2>6. \A m \in Int : Holds(R1, t.heap, m) <=> Holds(R, g, m)
      BY <1>1, <1>7 DEF Keeps
    <2> QED
      BY <2>1, <2>4, <2>5, <2>6
  <1> QED
    BY <1>8, <1>9

\* t is s, except that the program stops or the call returns -1.
Fails(s, t) ==
    /\ IsWork(t) /\ t.heap = s.heap /\ t.is = s.is
    /\ t.stopped \/ t.ret = -1
    /\ t.stopped = s.stopped \/ t.stopped = TRUE

\* A call does not go on.
LEMMA CallFails ==
    ASSUME NEW s, IsWork(s),
           NEW t, t = [s EXCEPT !.stopped = TRUE] \/ t = [s EXCEPT !.ret = -1]
    PROVE  Fails(s, t)
  <1>1. PICK is, h, rt, st, k : /\ is = s.is /\ h = s.heap /\ rt = s.ret
                                 /\ st = s.stopped /\ k = s.left
    OBVIOUS
  <1>2. s = [is |-> is, heap |-> h, ret |-> rt, stopped |-> st, left |-> k]
    BY <1>1 DEF IsWork
  <1>3. /\ is \in [lowest : Ptr, highest : Ptr] /\ IsHeap(h) /\ rt \in Int
        /\ st \in BOOLEAN /\ k \in Nat /\ Cardinality(DOMAIN h) + k <= MaxBlocks
    BY <1>1 DEF IsWork
  <1>4. CASE t = [s EXCEPT !.stopped = TRUE]
    <2>1. t = [is |-> is, heap |-> h, ret |-> rt, stopped |-> TRUE, left |-> k]
      BY <1>2, <1>4
    <2> QED
      BY <1>1, <1>3, <2>1 DEF IsWork, Fails
  <1>5. CASE t = [s EXCEPT !.ret = -1]
    <2>1. t = [is |-> is, heap |-> h, ret |-> -1, stopped |-> st, left |-> k]
      BY <1>2, <1>5
    <2> QED
      BY <1>1, <1>3, <2>1 DEF IsWork, Fails
  <1> QED
    BY <1>4, <1>5

\* A call that fails leaves the list as it is.
LEMMA FailedIsChanged ==
    ASSUME NEW s, NEW R, Chain(R, s.is.lowest, s.heap, NULL), NEW n, NEW t, Fails(s, t)
    PROVE  Changed(s, R, t, R) /\ Adds(s, R, t, R, n)
  <1>1. Changed(s, R, t, R)
    BY DEF Fails, Changed
  <1>2. Adds(s, R, t, R, n)
    BY DEF Fails, Adds
  <1> QED
    BY <1>1, <1>2

\* A number is added.
LEMMA AddIsChanged ==
    ASSUME NULL \notin Nat, MaxBlocks \in Nat, NEW s, IsWork(s), NEW R,
           Chain(R, s.is.lowest, s.heap, NULL), NEW n \in Int, Goes(s),
           NEW t, t = AddNumber(s, n)
    PROVE  \E R1 : Changed(s, R, t, R1) /\ Adds(s, R, t, R1, n)
  <1>1. PICK r : r = FirstUpTo(s, n, 1)
    OBVIOUS
  <1>2. IsHeap(s.heap) /\ Found(R, s.heap, n, 1, r)
    <2>1. IsHeap(s.heap) /\ 1 \in Int
      BY DEF IsWork
    <2>2. Found(R, s.heap, n, 1, FirstUpTo(s, n, 1))
      BY <2>1, FirstIsFound
    <2> QED
      BY <1>1, <2>1, <2>2
  <1>3. /\ R \subseteq DOMAIN s.heap
        /\ \A a \in R : s.heap[a].start \in Int /\ s.heap[a].end \in Int
    BY <1>2 DEF Chain, IsHeap, Block
  <1>4. CASE r = NULL
    <2>1. t = NewRange(s, n, NULL)
      BY <1>1, <1>4 DEF AddNumber
    <2>2. CASE assertions \/ s.left = 0
      <3>1. Fails(s, t)
        BY <2>1, <2>2, CallFails DEF NewRange
      <3> QED
        BY <3>1, FailedIsChanged
    <2>3. CASE ~(assertions \/ s.left = 0)
      <3>1. t = AppendRange(s, n)
        BY <2>1, <2>3 DEF NewRange
      <3>2. \A a \in R : s.heap[a].end + 1 < n
        BY <1>2, <1>4 DEF Found
      <3> QED
        BY <2>3, <3>1, <3>2, AppendedIsChanged
    <2> QED
      BY <2>2, <2>3
  <1>5. CASE r # NULL
    <2>1. PICK lo, hi : lo = s.heap[r].start /\ hi = s.heap[r].end
      OBVIOUS
    <2>2. /\ r \in R /\ n <= hi + 1
          /\ \A a \in R : Below(s.heap, a, r) => s.heap[a].end + 1 < n
      BY <1>2, <1>5, <2>1 DEF Found
    <2>3. lo \in Int /\ hi \in Int /\ r \in DOMAIN s.heap
      BY <1>3, <2>1, <2>2
    <2>4. t = IF lo <= n /\ n <= hi THEN s
              ELSE IF n = lo - 1 THEN JoinRanges([s EXCEPT !.heap[r].start = n], r)
              ELSE IF n = hi + 1 THEN JoinRanges([s EXCEPT !.heap[r].end = n], r)
              ELSE NewRange(s, n, r)
      BY <1>1, <1>5, <2>1 DEF AddNumber
    <2>5. CASE lo <= n /\ n <= hi
      <3>1. t = s
        BY <2>4, <2>5
      <3>2. Changed(s, R, t, R)
        BY <3>1 DEF Changed
      <3>3. Holds(R, s.heap, n)
        BY <2>1, <2>2, <2>5 DEF Holds
      <3>4. Adds(s, R, t, R, n)
        BY <3>1, <3>3 DEF Adds
      <3> QED
        BY <3>2, <3>4
    <2>6. CASE n = lo - 1
      <3>1. PICK u : u = [s EXCEPT !.heap[r].start = n]
        OBVIOUS
      <3>2. t = JoinRanges(u, r)
        BY <2>3, <2>4, <2>6, <3>1
      <3>3. Resized(s, u, r, n, hi)
        BY <2>1, <2>3, <3>1, StartIsSet
      <3>4. Grown(s, u, r, n)
        BY <2>1, <2>6, <3>3 DEF Resized, Grown
      <3> QED
        BY <2>1, <2>2, <3>2, <3>4, GrownIsChanged
    <2>7. CASE n = hi + 1 /\ n # lo - 1
      <3>1. PICK u : u = [s EXCEPT !.heap[r].end = n]
        OBVIOUS
      <3>2. t = JoinRanges(u, r)
        BY <2>3, <2>4, <2>7, <3>1
      <3>3. Resized(s, u, r, lo, n)
        BY <2>1, <2>3, <3>1, EndIsSet
      <3>4. Grown(s, u, r, n)
        BY <2>1, <2>7, <3>3 DEF Resized, Grown
      <3> QED
        BY <2>1, <2>2, <3>2, <3>4, GrownIsChanged
    <2>8. CASE ~(lo <= n /\ n <= hi) /\ n # lo - 1 /\ n # hi + 1
      <3>1. t = NewRange(s, n, r)
        BY <2>4, <2>8
      <3>2. CASE s.left = 0
        <4>1. t = [s EXCEPT !.ret = -1]
          BY <1>5, <3>1, <3>2 DEF NewRange
        <4>2. Fails(s, t)
          BY <4>1, CallFails
        <4> QED
          BY <4>2, FailedIsChanged
      <3>3. CASE s.left # 0
        <4>1. t = InsertBefore(s, n, r)
          BY <1>5, <3>1, <3>3 DEF NewRange
        <4>2. n + 1 < s.heap[r].start
          BY <2>1, <2>2, <2>3, <2>8
        <4> QED
          BY <2>2, <3>3, <4>1, <4>2, InsertedIsChanged
      <3> QED
        BY <3>2, <3>3
    <2> QED
      BY <2>5, <2>6, <2>7, <2>8
  <1> QED
    BY <1>4, <1>5

\* t has the numbers of s but n, or all of them if the call has failed.  Blocks are
\* in the list now, or were elsewhere before.
Takes(s, R, t, R1, n) ==
    /\ \A m \in Int : Holds(R1, t.heap, m)
                        <=> Holds(R, s.heap, m) /\ (m # n \/ t.ret # 0)
    /\ \A a \in DOMAIN t.heap : a \in R1 \/ a \in DOMAIN s.heap \ R
    /\ ~t.stopped

\* A range with a single number is removed.
LEMMA RemovedIsChanged ==
    ASSUME NULL \notin Nat, MaxBlocks \in Nat, NEW s, IsWork(s), NEW R, NEW r \in R,
           Chain(R, s.is.lowest, s.heap, NULL), NEW n,
           s.heap[r].start = n, s.heap[r].end = n, Goes(s),
           NEW t, t = RemoveRange(s, r)
    PROVE  \E R1 : Changed(s, R, t, R1) /\ Takes(s, R, t, R1, n)
  <1>1. PICK h, low, high, x, p : /\ h = s.heap /\ low = s.is.lowest
                                  /\ high = s.is.highest
                                  /\ x = h[r].next /\ p = h[r].prev
    OBVIOUS
  <1>2. IsHeap(h) /\ Chain(R, low, h, NULL)
    BY <1>1 DEF IsWork
  <1>3. /\ R \subseteq DOMAIN h /\ NULL \notin DOMAIN h
        /\ \A a \in R : h[a].start \in Int /\ h[a].end \in Int /\ h[a].start <= h[a].end
        /\ \A a, b \in R : a = b \/ Below(h, a, b) \/ Below(h, b, a)
    BY <1>2 DEF Chain, IsHeap, Block
  <1>4. /\ x \in Ptr /\ (x # NULL => x \in R /\ Below(h, r, x))
        /\ p \in Ptr /\ (p # NULL => p \in R /\ Below(h, p, r))
    BY <1>1, <1>2, NeighboursAre
  <1>5. PICK g, S : g = TakenOut(h, r) /\ S = R \ {r}
    OBVIOUS
  <1>6. Removes(h, g, r, p, x) /\ Cardinality(DOMAIN g) <= Cardinality(DOMAIN h)
    BY <1>1, <1>2, <1>5, TakenOutIs
  <1>7. IsHeap(g) /\ DOMAIN g = DOMAIN h \ {r}
    BY <1>6 DEF Removes
  <1>8. PICK low1, high1 : /\ low1 = IF p = NULL THEN x ELSE low
                           /\ high1 = IF x = NULL THEN p ELSE high
    OBVIOUS
  <1>9. Chain(S, low1, g, NULL)
    BY <1>1, <1>2, <1>5, <1>6, <1>8, RemovedIsChain
  <1>10. PICK is1 : is1 = [lowest |-> low1, highest |-> high1]
    OBVIOUS
  <1>11. Becomes(s, t, g, is1)
    <2>1. t = [s EXCEPT !.heap = g, !.is = is1]
      BY <1>1, <1>5, <1>8, <1>10 DEF RemoveRange, TakenOut
    <2>2. low \in Ptr /\ high \in Ptr
      BY <1>1 DEF IsWork
    <2>3. is1 \in [lowest : Ptr, highest : Ptr]
      BY <1>4, <1>8, <1>10, <2>2
    <2> QED
      BY <1>1, <1>6, <1>7, <2>1, <2>3, FreedIsWork
  <1>12. /\ IsWork(t) /\ t.heap = g /\ t.is.lowest = low1
         /\ t.ret = s.ret /\ t.stopped = s.stopped
    BY <1>10, <1>11 DEF Becomes
  <1>13. \A a \in S : g[a].start = h[a].start /\ g[a].end = h[a].end
    <2>1. \A a \in S : a \in DOMAIN g
      BY <1>3, <1>5, <1>7
    <2> QED
      BY <1>3, <1>6, <2>1 DEF Removes
  <1>14. Changed(s, R, t, S)
    <2>1. ASSUME NEW a \in DOMAIN h \ R
          PROVE  a \in DOMAIN g /\ a \notin S /\ g[a] = h[a]
      <3>1. a # r /\ a # x /\ a # p
        BY <1>3, <1>4
      <3> QED
        BY <1>5, <1>6, <1>7, <3>1 DEF Removes
    <2>2. low # NULL
      BY <1>2 DEF Chain, Begins
    <2>3. t.is = is1
      BY <1>11 DEF Becomes
    <2>4. Tidy(t.is)
      BY <1>8, <1>10, <2>2, <2>3 DEF Tidy
    <2> QED
      BY <1>1, <1>9, <1>12, <2>1, <2>4 DEF Changed
  <1>15. Takes(s, R, t, S, n)
    <2>1. \A m \in Int : Holds(R, h, m) /\ m # n => Holds(S, g, m)
      BY <1>1, <1>3, <1>5, <1>13 DEF Holds
    <2>2. ASSUME NEW m \in Int, Holds(S, g, m) PROVE Holds(R, h, m) /\ m # n
      <3>1. PICK a \in S : h[a].start <= m /\ m <= h[a].end
        BY <1>13, <2>2 DEF Holds
      <3>2. a \in R /\ a # r
        BY <1>5
      <3>3. h[a].end < h[r].start \/ h[r].end < h[a].start
        BY <1>2, <1>3, <3>2 DEF Chain, Apart
      <3>4. m # n
        BY <1>1, <1>3, <3>1, <3>2, <3>3
      <3> QED
        BY <3>1, <3>2, <3>4 DEF Holds
    <2>3. \A a \in DOMAIN g : a \in S \/ a \in DOMAIN h \ R
      BY <1>5, <1>7
    <2> QED
      BY <1>1, <1>12, <2>1, <2>2, <2>3 DEF Takes, Goes
  <1> QED
    BY <1>14, <1>15

\* The range r loses the number n at one of its ends.
LEMMA ShrunkIsChanged ==
    ASSUME NULL \notin Nat, NEW s, IsWork(s), NEW R, NEW r \in R,
           Chain(R, s.is.lowest, s.heap, NULL), NEW n \in Int,
           s.heap[r].start # s.heap[r].end, Goes(s),
           NEW t,
           \/ n = s.heap[r].start /\ Resized(s, t, r, n + 1, s.heap[r].end)
           \/ n = s.heap[r].end /\ Resized(s, t, r, s.heap[r].start, n - 1)
    PROVE  Changed(s, R, t, R) /\ Takes(s, R, t, R, n)
  <1>1. PICK h, g, low : h = s.heap /\ g = t.heap /\ low = s.is.lowest
    OBVIOUS
  <1>2. /\ IsHeap(h) /\ Chain(R, low, h, NULL) /\ IsWork(t) /\ Resizes(h, g, r)
        /\ t.is = s.is /\ t.ret = 0 /\ ~t.stopped
    BY <1>1 DEF IsWork, Resized, Goes
  <1>3. /\ R \subseteq DOMAIN h /\ NULL \notin R
        /\ \A a \in R : h[a].start \in Int /\ h[a].end \in Int /\ h[a].start <= h[a].end
        /\ \A a, b \in R : a = b \/ Below(h, a, b) \/ Below(h, b, a)
    BY <1>2 DEF Chain, IsHeap, Block
  <1>4. \A a \in DOMAIN h : a # r => g[a] = h[a]
    BY <1>2 DEF Resizes
  <1>5. /\ h[r].start <= g[r].start /\ g[r].end <= h[r].end /\ g[r].start <= g[r].end
        /\ g[r].start \in Int /\ g[r].end \in Int
        /\ \A m \in Int : g[r].start <= m /\ m <= g[r].end
                            <=> h[r].start <= m /\ m <= h[r].end /\ m # n
    BY <1>1, <1>3 DEF Resized
  <1>6. Chain(R, low, g, NULL)
    <2>1. \A a \in R : Below(h, a, r) => h[a].end + 1 < g[r].start
      <3> TAKE a \in R
      <3> HAVE Below(h, a, r)
      <3>1. h[a].end + 1 < h[r].start
        BY <1>2, <1>3 DEF Chain, Apart
      <3> QED
        BY <1>3, <1>5, <3>1
    <2>2. \A a \in R : Below(h, r, a) => g[r].end + 1 < h[a].start
      <3> TAKE a \in R
      <3> HAVE Below(h, r, a)
      <3>1. h[r].end + 1 < h[a].start
        BY <1>2, <1>3 DEF Chain, Apart
      <3> QED
        BY <1>3, <1>5, <3>1
    <2>3. \A a \in R : Below(h, r, a) => /\ g[r].end < h[a].start
                                         /\ r # NULL => g[r].end + 1 < h[a].start
      BY <1>3, <1>5, <2>2
    <2> QED
      BY <1>2, <1>5, <2>1, <2>3, ResizedIsChain
  <1>7. Changed(s, R, t, R)
    <2>1. \A a \in DOMAIN h \ R : a \in DOMAIN g /\ g[a] = h[a]
      BY <1>2, <1>4 DEF Resizes
    <2> QED
      BY <1>1, <1>2, <1>6, <2>1 DEF Changed
  <1>8. Takes(s, R, t, R, n)
    <2>1. ASSUME NEW m \in Int, Holds(R, g, m) PROVE Holds(R, h, m) /\ m # n
      <3>1. PICK a \in R : g[a].start <= m /\ m <= g[a].end
        BY <2>1 DEF Holds
      <3>2. CASE a = r
        BY <1>5, <3>1, <3>2 DEF Holds
      <3>3. CASE a # r
        <4>1. h[a].start <= m /\ m <= h[a].end
          BY <1>3, <1>4, <3>1, <3>3
        <4>2. h[a].end < h[r].start \/ h[r].end < h[a].start
          BY <1>2, <1>3, <3>3 DEF Chain, Apart
        <4>3. h[r].start <= n /\ n <= h[r].end
          BY <1>1, <1>3
        <4> QED
          BY <1>3, <4>1, <4>2, <4>3 DEF Holds
      <3> QED
        BY <3>2, <3>3
    <2>2. \A m \in Int : Holds(R, h, m) /\ m # n => Holds(R, g, m)
      <3> TAKE m \in Int
      <3> HAVE Holds(R, h, m) /\ m # n
      <3>1. PICK a \in R : h[a].start <= m /\ m <= h[a].end
        BY DEF Holds
      <3>2. g[a].start <= m /\ m <= g[a].end
        BY <1>3, <1>4, <1>5, <3>1
      <3> QED
        BY <3>2 DEF Holds
    <2>3. \A a \in DOMAIN g : a \in R \/ a \in DOMAIN h \ R
      BY <1>2 DEF Resizes
    <2> QED
      BY <1>1, <1>2, <2>1, <2>2, <2>3 DEF Takes
  <1> QED
    BY <1>7, <1>8

\* A range is split where the number n was.
LEMMA SplitIsChanged ==
    ASSUME NULL \notin Nat, NEW s, IsWork(s), NEW R, NEW r \in R,
           Chain(R, s.is.lowest, s.heap, NULL), NEW n \in Int,
           s.heap[r].start < n, n < s.heap[r].end, s.left # 0, Goes(s),
           NEW t, t = Split(s, r, n)
    PROVE  \E R1 : Changed(s, R, t, R1) /\ Takes(s, R, t, R1, n)
  <1>1. PICK h, low, new, x : /\ h = s.heap /\ low = s.is.lowest
                              /\ new = FreeAddress(h) /\ x = h[r].next
    OBVIOUS
  <1>2. IsHeap(h) /\ Chain(R, low, h, NULL) /\ new \in Nat /\ new \notin DOMAIN h
    BY <1>1, FreeIsFree DEF IsWork
  <1>3. /\ R \subseteq DOMAIN h /\ NULL \notin DOMAIN h /\ new # NULL
        /\ \A a \in R : h[a].start \in Int /\ h[a].end \in Int /\ h[a].start <= h[a].end
        /\ \A a, b \in R : a = b \/ Below(h, a, b) \/ Below(h, b, a)
    BY <1>2 DEF Chain, IsHeap, Block
  <1>4. x \in Ptr /\ (x # NULL => x \in R /\ Below(h, r, x) /\ x \in DOMAIN h)
    BY <1>1, <1>2, <1>3, NeighboursAre
  <1>5. r \in DOMAIN h /\ r # NULL /\ x # r /\ r # new /\ r \in Ptr /\ new \in Ptr
    BY <1>2, <1>3, <1>4 DEF Below, IsHeap, Ptr
  <1>6. PICK h0 : h0 = [h EXCEPT ![r].end = n - 1]
    OBVIOUS
  <1>7. Resizes(h, h0, r) /\ h0[r].start = h[r].start /\ h0[r].end = n - 1
    <2>1. PICK u : u = [s EXCEPT !.heap[r].end = n - 1]
      OBVIOUS
    <2>2. u.heap = h0
      <3>1. PICK is, rt, st, k : /\ is = s.is /\ rt = s.ret /\ st = s.stopped
                                  /\ k = s.left
        OBVIOUS
      <3>2. s = [is |-> is, heap |-> h, ret |-> rt, stopped |-> st, left |-> k]
        BY <1>1, <3>1 DEF IsWork
      <3>3. u = [s EXCEPT !.heap = h0]
        BY <1>1, <1>6, <2>1
      <3> QED
        BY <3>2, <3>3
    <2>3. n - 1 \in Int /\ r \in DOMAIN s.heap
      BY <1>1, <1>5
    <2>4. Resized(s, u, r, s.heap[r].start, n - 1)
      BY <2>1, <2>3, EndIsSet
    <2> QED
      BY <1>1, <2>2, <2>4 DEF Resized
  <1>8. IsHeap(h0) /\ DOMAIN h0 = DOMAIN h /\ \A a \in DOMAIN h : a # r => h0[a] = h[a]
    BY <1>7 DEF Resizes
  <1>9. Chain(R, low, h0, NULL)
    <2>1. \A a \in R : Below(h, a, r) => h[a].end + 1 < h0[r].start
      BY <1>2, <1>3, <1>7 DEF Chain, Apart
    <2>2. \A a \in R : Below(h, r, a) => h0[r].end + 1 < h[a].start
      <3> TAKE a \in R
      <3> HAVE Below(h, r, a)
      <3>1. h[r].end + 1 < h[a].start
        BY <1>2, <1>3 DEF Chain, Apart
      <3> QED
        BY <1>1, <1>3, <1>7, <3>1
    <2>3. \A a \in R : Below(h, r, a) => /\ h0[r].end < h[a].start
                                         /\ r # NULL => h0[r].end + 1 < h[a].start
      BY <1>3, <1>7, <2>2
    <2>4. h0[r].start <= h0[r].end
      BY <1>1, <1>3, <1>7
    <2> QED
      BY <1>2, <1>7, <2>1, <2>3, <2>4, ResizedIsChain
  <1>10. PICK block : block = [start |-> n + 1, end |-> h[r].end, prev |-> r, next |-> x]
    OBVIOUS
  <1>11. block \in Block
    BY <1>3, <1>4, <1>5, <1>10 DEF Block
  <1>12. PICK g1 : g1 = SetNext(h0, r, new)
    OBVIOUS
  <1>13. PICK g2 : g2 = Stored(g1, new, block)
    OBVIOUS
  <1>14. PICK h1 : h1 = SetPrev(g2, x, new)
    OBVIOUS
  <1>15. HasNext(g1, h0, r, new)
    BY <1>5, <1>8, <1>12, NextIsSet
  <1>16. IsHeap(g1) /\ DOMAIN g1 = DOMAIN h
    BY <1>8, <1>15 DEF HasNext
  <1>17. HasBlock(g2, g1, new, block) /\ Cardinality(DOMAIN g2) = Cardinality(DOMAIN h) + 1
    <2>1. new \in Nat \ DOMAIN g1
      BY <1>2, <1>16
    <2>2. HasBlock(g2, g1, new, block)
      BY <1>11, <1>13, <1>16, <2>1, StoredIs
    <2>3. Cardinality(DOMAIN g2) = Cardinality(DOMAIN g1) + 1
      BY <1>13, <1>16, <2>1, StoredIsMore
    <2> QED
      BY <1>16, <2>2, <2>3
  <1>18. IsHeap(g2) /\ DOMAIN g2 = DOMAIN h \cup {new}
    BY <1>16, <1>17 DEF HasBlock
  <1>19. HasPrev(h1, g2, x, new)
    <2>1. x # NULL => x \in DOMAIN g2
      BY <1>4, <1>18
    <2> QED
      BY <1>5, <1>14, <1>18, <2>1, PrevIsSet
  <1>20. IsHeap(h1) /\ DOMAIN h1 = DOMAIN h \cup {new}
    BY <1>18, <1>19 DEF HasPrev
  <1>21. \A a \in DOMAIN h : a # x => h1[a] = g1[a]
    BY <1>16, <1>17, <1>18, <1>19 DEF HasBlock, HasPrev
  <1>22. h1[new] = block
    BY <1>2, <1>4, <1>17, <1>18, <1>19 DEF HasBlock, HasPrev
  <1>23. Inserts(h0, h1, new, r, x)
    <2>1. \A a \in DOMAIN h0 : a # r /\ a # x => h1[a] = h0[a]
      BY <1>8, <1>15, <1>21 DEF HasNext
    <2>2. h1[new].prev = r /\ h1[new].next = x
      BY <1>10, <1>22
    <2>3. /\ h1[r].start = h0[r].start /\ h1[r].end = h0[r].end
          /\ h1[r].prev = h0[r].prev /\ h1[r].next = new
      BY <1>5, <1>15, <1>21 DEF HasNext
    <2>4. ASSUME x # NULL
          PROVE  /\ h1[x].start = h0[x].start /\ h1[x].end = h0[x].end
                 /\ h1[x].next = h0[x].next /\ h1[x].prev = new
      <3>1. g2[x] = h0[x]
        BY <1>4, <1>5, <1>8, <1>15, <1>16, <1>17, <2>4 DEF HasNext, HasBlock
      <3> QED
        BY <1>19, <2>4, <3>1 DEF HasPrev
    <2> QED
      BY <1>2, <1>8, <1>20, <2>1, <2>2, <2>3, <2>4 DEF Inserts
  <1>24. Neighbours(R, h0, r, x)
    <2>1. Follows(R, h0, r, x)
      BY <1>1, <1>7, <1>9 DEF Chain, Resizes
    <2>2. x # NULL => Precedes(R, h0, x, r)
      BY <1>5, <2>1 DEF Follows, Precedes
    <2> QED
      BY <1>4, <1>5, <2>1, <2>2 DEF Neighbours
  <1>25. PICK R1 : R1 = R \cup {new}
    OBVIOUS
  <1>26. h1[new].start = n + 1 /\ h1[new].end = h[r].end
    BY <1>10, <1>22
  <1>27. Chain(R1, low, h1, NULL)
    <2>1. h1[new].start <= h1[new].end /\ h0[r].end + 1 < h1[new].start
      BY <1>1, <1>3, <1>7, <1>26
    <2>2. x # NULL => h1[new].end + 1 < h0[x].start
      <3> HAVE x # NULL
      <3>1. h[r].end + 1 < h[x].start
        BY <1>2, <1>3, <1>4 DEF Chain, Apart
      <3> QED
        BY <1>4, <1>5, <1>8, <1>26, <3>1
    <2>3. low = IF r = NULL THEN new ELSE low
      BY <1>5
    <2> QED
      BY <1>8, <1>9, <1>23, <1>24, <1>25, <2>1, <2>2, <2>3, InsertedIsChain
  <1>28. Becomes(s, t, h1, s.is)
    <2>1. g1 = [h EXCEPT ![r].end = n - 1, ![r].next = new]
      BY <1>5, <1>6, <1>12 DEF SetNext
    <2>2. t = [s EXCEPT !.heap = h1, !.left = @ - 1]
      BY <1>1, <1>10, <1>13, <1>14, <2>1 DEF Split
    <2>3. t = [s EXCEPT !.heap = h1, !.is = s.is, !.left = @ - 1]
      <3>1. PICK is, rt, st, k, m : /\ is = s.is /\ rt = s.ret /\ st = s.stopped
                                     /\ k = s.left /\ m = s.left - 1
        OBVIOUS
      <3>2. s = [is |-> is, heap |-> h, ret |-> rt, stopped |-> st, left |-> k]
        BY <1>1, <3>1 DEF IsWork
      <3>3. t = [is |-> is, heap |-> h1, ret |-> rt, stopped |-> st, left |-> m]
        BY <2>2, <3>1, <3>2
      <3>4. PICK v : v = [s EXCEPT !.heap = h1, !.is = is, !.left = m]
        OBVIOUS
      <3>5. v = [is |-> is, heap |-> h1, ret |-> rt, stopped |-> st, left |-> m]
        BY <3>2, <3>4
      <3> QED
        BY <3>1, <3>3, <3>4, <3>5
    <2>4. s.is \in [lowest : Ptr, highest : Ptr]
      BY DEF IsWork
    <2>5. Cardinality(DOMAIN h1) = Cardinality(DOMAIN s.heap) + 1
      BY <1>1, <1>17, <1>18, <1>20
    <2> QED
      BY <1>20, <2>3, <2>4, <2>5, AllocatedIsWork
  <1>29. /\ IsWork(t) /\ t.heap = h1 /\ t.is.lowest = low /\ t.ret = 0 /\ ~t.stopped
    BY <1>1, <1>28 DEF Becomes, Goes
  <1>30. \A a \in R : /\ h1[a].start = h[a].start
                      /\ h1[a].end = IF a = r THEN n - 1 ELSE h[a].end
    BY <1>3, <1>7, <1>8, <1>23 DEF Inserts
  <1>31. Changed(s, R, t, R1)
    <2>1. ASSUME NEW a \in DOMAIN h \ R
          PROVE  a \in DOMAIN h1 /\ a \notin R1 /\ h1[a] = h[a]
      BY <1>2, <1>3, <1>4, <1>8, <1>20, <1>23, <1>25 DEF Inserts
    <2>2. t.is = s.is
      BY <1>28 DEF Becomes
    <2> QED
      BY <1>1, <1>27, <1>29, <2>1, <2>2 DEF Changed
  <1>32. Takes(s, R, t, R1, n)
    <2>1. ASSUME NEW m \in Int, Holds(R1, h1, m) PROVE Holds(R, h, m) /\ m # n
      <3>1. PICK a \in R1 : h1[a].start <= m /\ m <= h1[a].end
        BY <2>1 DEF Holds
      <3>2. CASE a = r
        <4>1. h[r].start <= m /\ m <= n - 1
          BY <1>30, <3>1, <3>2
        <4> QED
          BY <1>1, <1>3, <4>1 DEF Holds
      <3>3. CASE a = new
        <4>1. n + 1 <= m /\ m <= h[r].end
          BY <1>26, <3>1, <3>3
        <4> QED
          BY <1>1, <1>3, <4>1 DEF Holds
      <3>4. CASE a # r /\ a # new
        <4>1. a \in R /\ h[a].start <= m /\ m <= h[a].end
          BY <1>25, <1>30, <3>1, <3>4
        <4>2. h[a].end < h[r].start \/ h[r].end < h[a].start
          BY <1>2, <1>3, <3>4, <4>1 DEF Chain, Apart
        <4> QED
          BY <1>1, <1>3, <4>1, <4>2 DEF Holds
      <3> QED
        BY <3>2, <3>3, <3>4
    <2>2. ASSUME NEW m \in Int, Holds(R, h, m), m # n PROVE Holds(R1, h1, m)
      <3>1. PICK a \in R : h[a].start <= m /\ m <= h[a].end
        BY <2>2 DEF Holds
      <3>2. CASE a # r
        BY <1>25, <1>30, <3>1, <3>2 DEF Holds
      <3>3. CASE a = r /\ m < n
        <4>1. h1[r].start <= m /\ m <= h1[r].end
          BY <1>30, <3>1, <3>3
        <4> QED
          BY <1>25, <4>1 DEF Holds
      <3>4. CASE a = r /\ n < m
        <4>1. h1[new].start <= m /\ m <= h1[new].end
          BY <1>26, <3>1, <3>4
        <4> QED
          BY <1>25, <4>1 DEF Holds
      <3> QED
        BY <2>2, <3>2, <3>3, <3>4
    <2>3. \A a \in DOMAIN h1 : a \in R1 \/ a \in DOMAIN h \ R
      BY <1>20, <1>25
    <2> QED
      BY <1>1, <1>29, <2>1, <2>2, <2>3 DEF Takes
  <1> QED
    BY <1>31, <1>32

\* A number is removed.
LEMMA RemoveIsChanged ==
    ASSUME NULL \notin Nat, MaxBlocks \in Nat, NEW s, IsWork(s), NEW R,
           Chain(R, s.is.lowest, s.heap, NULL), NEW n \in Int, Goes(s),
           NEW t, t = RemoveNumber(s, n)
    PROVE  \E R1 : Changed(s, R, t, R1) /\ Takes(s, R, t, R1, n)
  <1>1. PICK r : r = FirstUpTo(s, n, 0)
    OBVIOUS
  <1>2. IsHeap(s.heap) /\ Found(R, s.heap, n, 0, r)
    <2>1. IsHeap(s.heap) /\ 0 \in Int
      BY DEF IsWork
    <2>2. Found(R, s.heap, n, 0, FirstUpTo(s, n, 0))
      BY <2>1, FirstIsFound
    <2> QED
      BY <1>1, <2>1, <2>2
  <1>3. /\ R \subseteq DOMAIN s.heap
        /\ \A a \in R : s.heap[a].start \in Int /\ s.heap[a].end \in Int
        /\ \A a, b \in R : a = b \/ Below(s.heap, a, b) \/ Below(s.heap, b, a)
    BY <1>2 DEF Chain, IsHeap, Block
  <1>4. ASSUME t = s, ~Holds(R, s.heap, n)
        PROVE  Changed(s, R, t, R) /\ Takes(s, R, t, R, n)
    <2>1. Changed(s, R, t, R)
      BY <1>4 DEF Changed
    <2>2. Takes(s, R, t, R, n)
      BY <1>4 DEF Takes, Goes
    <2> QED
      BY <2>1, <2>2
  <1>5. CASE r = NULL
    <2>1. t = s
      BY <1>1, <1>5 DEF RemoveNumber
    <2>2. ~Holds(R, s.heap, n)
      BY <1>2, <1>3, <1>5 DEF Found, Holds
    <2> QED
      BY <1>4, <2>1, <2>2
  <1>6. CASE r # NULL
    <2>1. PICK lo, hi : lo = s.heap[r].start /\ hi = s.heap[r].end
      OBVIOUS
    <2>2. /\ r \in R /\ n <= hi
          /\ \A a \in R : Below(s.heap, a, r) => s.heap[a].end < n
      BY <1>2, <1>3, <1>6, <2>1 DEF Found
    <2>3. lo \in Int /\ hi \in Int /\ r \in DOMAIN s.heap
      BY <1>3, <2>1, <2>2
    <2>4. t = IF n < lo THEN s
              ELSE IF lo = n /\ hi = n THEN RemoveRange(s, r)
              ELSE IF lo = n THEN [s EXCEPT !.heap[r].start = n + 1]
              ELSE IF hi = n THEN [s EXCEPT !.heap[r].end = n - 1]
              ELSE Split(s, r, n)
      BY <1>1, <1>6, <2>1 DEF RemoveNumber
    <2>5. CASE n < lo
      <3>1. ~Holds(R, s.heap, n)
        <4> SUFFICES ASSUME NEW a \in R, s.heap[a].start <= n, n <= s.heap[a].end
                     PROVE  FALSE
          BY DEF Holds
        <4>1. ~Below(s.heap, a, r)
          BY <1>3, <2>2
        <4> QED
          BY <1>3, <2>1, <2>2, <2>5, <4>1 DEF Below
      <3> QED
        BY <1>4, <2>4, <2>5, <3>1
    <2>6. CASE lo = n /\ hi = n
      <3>1. t = RemoveRange(s, r)
        BY <2>3, <2>4, <2>6
      <3> QED
        BY <2>1, <2>2, <2>6, <3>1, RemovedIsChanged
    <2>7. CASE lo = n /\ hi # n
      <3>1. t = [s EXCEPT !.heap[r].start = n + 1]
        BY <2>3, <2>4, <2>7
      <3>2. n + 1 \in Int
        OBVIOUS
      <3>3. Resized(s, t, r, n + 1, s.heap[r].end)
        BY <2>3, <3>1, <3>2, StartIsSet
      <3>4. s.heap[r].start # s.heap[r].end /\ n = s.heap[r].start
        BY <2>1, <2>3, <2>7
      <3>5. Changed(s, R, t, R) /\ Takes(s, R, t, R, n)
        BY <2>2, <3>3, <3>4, ShrunkIsChanged
      <3> QED
        BY <3>5
    <2>8. CASE lo < n /\ hi = n
      <3>1. t = [s EXCEPT !.heap[r].end = n - 1]
        BY <2>3, <2>4, <2>8
      <3>2. n - 1 \in Int
        OBVIOUS
      <3>3. Resized(s, t, r, s.heap[r].start, n - 1)
        BY <2>3, <3>1, <3>2, EndIsSet
      <3>4. s.heap[r].start # s.heap[r].end /\ n = s.heap[r].end
        BY <2>1, <2>3, <2>8
      <3>5. Changed(s, R, t, R) /\ Takes(s, R, t, R, n)
        BY <2>2, <3>3, <3>4, ShrunkIsChanged
      <3> QED
        BY <3>5
    <2>9. CASE lo < n /\ n < hi
      <3>1. t = Split(s, r, n)
        BY <2>3, <2>4, <2>9
      <3>2. CASE s.left = 0
        <4>1. t = [s EXCEPT !.ret = -1]
          BY <3>1, <3>2 DEF Split
        <4>2. Fails(s, t)
          BY <4>1, CallFails
        <4>3. t.ret = -1 /\ ~t.stopped
          BY <4>1 DEF IsWork, Goes
        <4>4. Changed(s, R, t, R)
          BY <4>2, FailedIsChanged
        <4>5. Takes(s, R, t, R, n)
          BY <4>2, <4>3 DEF Fails, Takes
        <4> QED
          BY <4>4, <4>5
      <3>3. CASE s.left # 0
        BY <2>1, <2>2, <2>9, <3>1, <3>3, SplitIsChanged
      <3> QED
        BY <3>2, <3>3
    <2> QED
      BY <2>2, <2>3, <2>5, <2>6, <2>7, <2>8, <2>9
  <1> QED
    BY <1>5, <1>6

-----------------------------------------------------------------------------
\* The loops.

\* All heaps
Heaps == UNION {[D -> Block] : D \in SUBSET Nat}

\* They are among these.
LEMMA HeapIsOne ==
    ASSUME NEW h, IsHeap(h)
    PROVE  h \in Heaps
  <1>1. h \in [DOMAIN h -> Block] /\ DOMAIN h \in SUBSET Nat
    BY DEF IsHeap
  <1> QED
    BY <1>1 DEF Heaps

\* All records that can be in the middle of a call
State ==
    [is : [lowest : Ptr, highest : Ptr],
     heap : Heaps,
     ret : Int, stopped : BOOLEAN, left : Nat]

\* They are among these.
LEMMA WorkIsState ==
    ASSUME NEW s, IsWork(s)
    PROVE  s \in State
  <1>1. PICK is, h, rt, st, k : /\ is = s.is /\ h = s.heap /\ rt = s.ret
                                 /\ st = s.stopped /\ k = s.left
    OBVIOUS
  <1>2. s = [is |-> is, heap |-> h, ret |-> rt, stopped |-> st, left |-> k]
    BY <1>1 DEF IsWork
  <1>3. /\ is \in [lowest : Ptr, highest : Ptr] /\ IsHeap(h) /\ rt \in Int
        /\ st \in BOOLEAN /\ k \in Nat
    BY <1>1 DEF IsWork
  <1>4. h \in Heaps
    BY <1>3, HeapIsOne
  <1> QED
    BY <1>2, <1>3, <1>4 DEF State

\* A changed list that has changed again is a changed list.
LEMMA ChangedTwice ==
    ASSUME NEW s, NEW R, NEW t, NEW R1, NEW u, NEW R2,
           Changed(s, R, t, R1), Changed(t, R1, u, R2)
    PROVE  Changed(s, R, u, R2)
  BY DEF Changed

\* One step of the loops
Step(add, t, n) ==
    IF Goes(t) THEN (IF add THEN AddNumber(t, n) ELSE RemoveNumber(t, n)) ELSE t

\* It changes the list.
LEMMA StepIsChanged ==
    ASSUME NULL \notin Nat, MaxBlocks \in Nat, NEW s, IsWork(s), NEW R,
           Chain(R, s.is.lowest, s.heap, NULL), NEW n \in Int, NEW add \in BOOLEAN
    PROVE  \E R1 : Changed(s, R, Step(add, s, n), R1)
  <1>1. PICK t : t = Step(add, s, n)
    OBVIOUS
  <1>2. CASE ~Goes(s)
    <2>1. t = s
      BY <1>1, <1>2 DEF Step
    <2>2. Changed(s, R, t, R)
      BY <2>1 DEF Changed
    <2> QED
      BY <1>1, <2>2
  <1>3. CASE Goes(s) /\ add
    <2>1. t = AddNumber(s, n)
      BY <1>1, <1>3 DEF Step
    <2>2. \E R1 : Changed(s, R, t, R1) /\ Adds(s, R, t, R1, n)
      BY <1>3, <2>1, AddIsChanged
    <2> QED
      BY <1>1, <2>2
  <1>4. CASE Goes(s) /\ ~add
    <2>1. t = RemoveNumber(s, n)
      BY <1>1, <1>4 DEF Step
    <2>2. \E R1 : Changed(s, R, t, R1) /\ Takes(s, R, t, R1, n)
      BY <1>4, <2>1, RemoveIsChanged
    <2> QED
      BY <1>1, <2>2
  <1> QED
    BY <1>2, <1>3, <1>4

\* f goes through the numbers.
Loops(f, n, s, numbers, add) ==
    f = [k \in 0..n |-> IF k = 0 THEN s ELSE Step(add, f[k - 1], numbers[k])]

\* The loop can be run.
LEMMA LoopExists ==
    ASSUME NULL \notin Nat, MaxBlocks \in Nat, NEW s, IsWork(s), NEW R,
           Chain(R, s.is.lowest, s.heap, NULL), NEW n \in Nat,
           NEW numbers \in [1..n -> Int], NEW add \in BOOLEAN
    PROVE  \E f : Loops(f, n, s, numbers, add)
  <1> DEFINE S == {t \in State : \E R1 : Changed(s, R, t, R1)}
             G == [k \in 1..n |-> [t \in S |-> Step(add, t, numbers[k])]]
  <1>1. s \in S
    <2>1. Changed(s, R, s, R)
      BY DEF Changed
    <2> QED
      BY <2>1, WorkIsState
  <1>2. ASSUME NEW k \in 1..n, NEW t \in S
        PROVE  Step(add, t, numbers[k]) \in S
    <2>1. PICK R1 : Changed(s, R, t, R1)
      OBVIOUS
    <2>2. IsWork(t) /\ Chain(R1, t.is.lowest, t.heap, NULL)
      BY <2>1 DEF Changed
    <2>3. PICK u : u = Step(add, t, numbers[k])
      OBVIOUS
    <2>4. PICK R2 : Changed(t, R1, u, R2)
      <3>1. numbers[k] \in Int
        OBVIOUS
      <3> QED
        BY <2>2, <2>3, <3>1, StepIsChanged
    <2>5. Changed(s, R, u, R2)
      BY <2>1, <2>4, ChangedTwice
    <2>6. u \in State
      BY <2>4, WorkIsState DEF Changed
    <2> QED
      BY <2>3, <2>5, <2>6
  <1>3. G \in [1..n -> [S -> S]]
    BY <1>2
  <1> HIDE DEF S
  <1>4. PICK f : Recurses(f, n, S, s, G)
    <2> HIDE DEF G
    <2> QED
      BY <1>1, <1>3, RecursiveFunctionExists
  <1>5. f \in [0..n -> S] /\ f[0] = s /\ \A k \in 1..n : f[k] = G[k][f[k - 1]]
    BY <1>4 DEF Recurses
  <1>6. \A k \in 0..n : f[k] = IF k = 0 THEN s ELSE Step(add, f[k - 1], numbers[k])
    <2> TAKE k \in 0..n
    <2>1. CASE k = 0
      BY <1>5, <2>1
    <2>2. CASE k # 0
      <3>1. k \in 1..n /\ f[k - 1] \in S
        BY <1>5, <2>2
      <3> QED
        BY <1>5, <2>2, <3>1
    <2> QED
      BY <2>1, <2>2
  <1>7. Loops(f, n, s, numbers, add)
    BY <1>5, <1>6 DEF Loops
  <1> QED
    BY <1>7

\* When highest points at the last range it still does, and the numbers of t are
\* those of s and the given ones, or some of them if the call has failed.
AddsAll(s, R, t, R1, set) ==
    (Ends(R, s.heap, s.is.highest) /\ ~t.stopped) =>
        /\ Ends(R1, t.heap, t.is.highest)
        /\ \A m \in Int : Holds(R, s.heap, m) => Holds(R1, t.heap, m)
        /\ \A m \in Int : Holds(R1, t.heap, m) => Holds(R, s.heap, m) \/ m \in set
        /\ t.ret = 0 => \A m \in Int \cap set : Holds(R1, t.heap, m)

\* The numbers of t are those of s but for the given ones, or some of them if the
\* call has failed.
TakesAll(s, R, t, R1, set) ==
    /\ \A m \in Int : Holds(R1, t.heap, m) => Holds(R, s.heap, m)
    /\ \A m \in Int \ set : Holds(R, s.heap, m) => Holds(R1, t.heap, m)
    /\ t.ret = 0 => \A m \in Int \cap set : ~Holds(R1, t.heap, m)
    /\ ~t.stopped

\* What the loops have done to a list
Did(add, s, R, t, R1, set) ==
    /\ Changed(s, R, t, R1)
    /\ IF add THEN AddsAll(s, R, t, R1, set) ELSE TakesAll(s, R, t, R1, set)

\* They have done it to some list.
DoneTo(add, s, R, t, set) == \E R1 : Did(add, s, R, t, R1, set)

\* The next step does the same to one more number.
LEMMA OneMoreIsDone ==
    ASSUME NULL \notin Nat, MaxBlocks \in Nat, NEW s, NEW R, NEW t, NEW set,
           NEW add \in BOOLEAN, DoneTo(add, s, R, t, set), NEW n \in Int
    PROVE  DoneTo(add, s, R, Step(add, t, n), set \cup {n})
  <1> SUFFICES ASSUME NEW R1, Did(add, s, R, t, R1, set), NEW u, u = Step(add, t, n)
               PROVE  \E R2 : Did(add, s, R, u, R2, set \cup {n})
    BY DEF DoneTo
  <1>1. /\ Changed(s, R, t, R1) /\ IsWork(t)
        /\ Chain(R1, t.is.lowest, t.heap, NULL)
    BY DEF Did, Changed
  <1>2. CASE ~Goes(t)
    <2>1. u = t
      BY <1>2 DEF Step
    <2>2. CASE add
      <3>1. AddsAll(s, R, t, R1, set)
        BY <2>2 DEF Did
      <3>2. AddsAll(s, R, t, R1, set \cup {n})
        BY <1>2, <3>1 DEF AddsAll, Goes
      <3> QED
        BY <1>1, <2>1, <2>2, <3>2 DEF Did
    <2>3. CASE ~add
      <3>1. TakesAll(s, R, t, R1, set)
        BY <2>3 DEF Did
      <3>2. TakesAll(s, R, t, R1, set \cup {n})
        BY <1>2, <3>1 DEF TakesAll, Goes
      <3> QED
        BY <1>1, <2>1, <2>3, <3>2 DEF Did
    <2> QED
      BY <2>2, <2>3
  <1>3. CASE Goes(t) /\ add
    <2>1. u = AddNumber(t, n)
      BY <1>3 DEF Step
    <2>2. PICK R2 : Changed(t, R1, u, R2) /\ Adds(t, R1, u, R2, n)
      BY <1>1, <1>3, <2>1, AddIsChanged
    <2>3. Changed(s, R, u, R2)
      BY <1>1, <2>2, ChangedTwice
    <2>4. AddsAll(s, R, t, R1, set)
      BY <1>3 DEF Did
    <2>5. AddsAll(s, R, u, R2, set \cup {n})
      BY <1>3, <2>2, <2>4 DEF AddsAll, Adds, Goes
    <2> QED
      BY <1>3, <2>3, <2>5 DEF Did
  <1>4. CASE Goes(t) /\ ~add
    <2>1. u = RemoveNumber(t, n)
      BY <1>4 DEF Step
    <2>2. PICK R2 : Changed(t, R1, u, R2) /\ Takes(t, R1, u, R2, n)
      BY <1>1, <1>4, <2>1, RemoveIsChanged
    <2>3. Changed(s, R, u, R2)
      BY <1>1, <2>2, ChangedTwice
    <2>4. TakesAll(s, R, t, R1, set)
      BY <1>4 DEF Did
    <2>5. TakesAll(s, R, u, R2, set \cup {n})
      BY <1>4, <2>2, <2>4 DEF TakesAll, Takes, Goes
    <2> QED
      BY <1>4, <2>3, <2>5 DEF Did
  <1> QED
    BY <1>2, <1>3, <1>4

\* The first numbers of a sequence
FirstOf(numbers, k) == {numbers[j] : j \in 1..k}

\* After k steps the loops have done what they are to do to the first k numbers.
LEMMA LoopDoes ==
    ASSUME NULL \notin Nat, MaxBlocks \in Nat, NEW s, IsWork(s), Goes(s), NEW R,
           Chain(R, s.is.lowest, s.heap, NULL), NEW n \in Nat,
           NEW numbers \in [1..n -> Int], NEW add \in BOOLEAN,
           NEW f, Loops(f, n, s, numbers, add), NEW k \in 0..n
    PROVE  DoneTo(add, s, R, f[k], FirstOf(numbers, k))
  <1> DEFINE Good(j) == DoneTo(add, s, R, f[j], FirstOf(numbers, j))
             Bad == {j \in 0..n : ~Good(j)}
  <1>1. \A j \in 0..n : f[j] = IF j = 0 THEN s ELSE Step(add, f[j - 1], numbers[j])
    BY DEF Loops
  <1>2. Good(0)
    <2>1. f[0] = s
      BY <1>1
    <2>2. Changed(s, R, s, R)
      BY DEF Changed
    <2>3. FirstOf(numbers, 0) = {}
      BY DEF FirstOf
    <2>4. AddsAll(s, R, s, R, {})
      BY DEF AddsAll
    <2>5. TakesAll(s, R, s, R, {})
      BY DEF TakesAll, Goes
    <2>6. DoneTo(add, s, R, s, {})
      BY <2>2, <2>4, <2>5 DEF Did, DoneTo
    <2> QED
      BY <2>1, <2>3, <2>6
  <1>3. ASSUME NEW j \in 1..n, Good(j - 1) PROVE Good(j)
    <2>1. f[j] = Step(add, f[j - 1], numbers[j]) /\ numbers[j] \in Int
      BY <1>1
    <2>2. DoneTo(add, s, R, f[j - 1], FirstOf(numbers, j - 1))
      BY <1>3
    <2>3. FirstOf(numbers, j) = FirstOf(numbers, j - 1) \cup {numbers[j]}
      <3>1. 1..j = (1..j - 1) \cup {j}
        OBVIOUS
      <3> QED
        BY <3>1 DEF FirstOf
    <2>4. DoneTo(add, s, R, f[j], FirstOf(numbers, j - 1) \cup {numbers[j]})
      BY <2>1, <2>2, OneMoreIsDone
    <2> QED
      BY <2>3, <2>4
  <1> HIDE DEF Good
  <1>4. Bad = {}
    <2>1. SUFFICES ASSUME Bad # {} PROVE FALSE
      OBVIOUS
    <2>2. PICK j \in Bad : \A i \in Bad : j <= i
      <3>1. Bad \subseteq Nat
        OBVIOUS
      <3> QED
        BY <2>1, <3>1, LeastNatural
    <2>3. j \in 1..n
      BY <1>2, <2>2
    <2>4. j - 1 \in 0..n /\ j - 1 \notin Bad
      BY <2>2, <2>3
    <2> QED
      BY <1>3, <2>2, <2>3, <2>4
  <1>5. Good(k)
    BY <1>4
  <1> QED
    BY <1>5 DEF Good

\* All numbers of a sequence are added.
LEMMA AddAllDoes ==
    ASSUME NULL \notin Nat, MaxBlocks \in Nat, NEW s, IsWork(s), Goes(s), NEW R,
           Chain(R, s.is.lowest, s.heap, NULL), NEW numbers \in Seq(Int)
    PROVE  DoneTo(TRUE, s, R, AddAll(s, numbers), FirstOf(numbers, Len(numbers)))
  <1>1. PICK n \in Nat : n = Len(numbers) /\ numbers \in [1..n -> Int]
    OBVIOUS
  <1>2. PICK f : f = CHOOSE g : Loops(g, n, s, numbers, TRUE)
    OBVIOUS
  <1>3. Loops(f, n, s, numbers, TRUE)
    <2>1. \E g : Loops(g, n, s, numbers, TRUE)
      BY <1>1, LoopExists
    <2> QED
      BY <1>2, <2>1
  <1>4. AddAll(s, numbers) = f[n]
    <2>1. AddAll(s, numbers) = (CHOOSE g : Loops(g, n, s, numbers, TRUE))[n]
      BY <1>1 DEF AddAll, Loops, Step
    <2> QED
      BY <1>2, <2>1
  <1>5. DoneTo(TRUE, s, R, f[n], FirstOf(numbers, n))
    <2>1. numbers \in [1..n -> Int] /\ n \in 0..n /\ TRUE \in BOOLEAN
      BY <1>1
    <2> QED
      BY <1>3, <2>1, LoopDoes
  <1> QED
    BY <1>1, <1>4, <1>5

\* All numbers of a sequence are removed.
LEMMA RemoveAllDoes ==
    ASSUME NULL \notin Nat, MaxBlocks \in Nat, NEW s, IsWork(s), Goes(s), NEW R,
           Chain(R, s.is.lowest, s.heap, NULL), NEW numbers \in Seq(Int)
    PROVE  DoneTo(FALSE, s, R, RemoveAll(s, numbers), FirstOf(numbers, Len(numbers)))
  <1>1. PICK n \in Nat : n = Len(numbers) /\ numbers \in [1..n -> Int]
    OBVIOUS
  <1>2. PICK f : f = CHOOSE g : Loops(g, n, s, numbers, FALSE)
    OBVIOUS
  <1>3. Loops(f, n, s, numbers, FALSE)
    <2>1. \E g : Loops(g, n, s, numbers, FALSE)
      BY <1>1, LoopExists
    <2> QED
      BY <1>2, <2>1
  <1>4. RemoveAll(s, numbers) = f[n]
    <2>1. RemoveAll(s, numbers) = (CHOOSE g : Loops(g, n, s, numbers, FALSE))[n]
      BY <1>1 DEF RemoveAll, Loops, Step
    <2> QED
      BY <1>2, <2>1
  <1>5. DoneTo(FALSE, s, R, f[n], FirstOf(numbers, n))
    <2>1. numbers \in [1..n -> Int] /\ n \in 0..n /\ FALSE \in BOOLEAN
      BY <1>1
    <2> QED
      BY <1>3, <2>1, LoopDoes
  <1> QED
    BY <1>1, <1>4, <1>5

-----------------------------------------------------------------------------
\* The numbers of a set, in the order of its ranges.

\* The sequence q consists of numbers, and those with P are in it.
Lists(q, P) ==
    q \in Seq(Int) /\ \A m \in Int : m \in P <=> \E j \in 1..Len(q) : q[j] = m

\* One sequence behind another
LEMMA ListedBehind ==
    ASSUME NEW p, NEW P, Lists(p, P), NEW q, NEW Q, Lists(q, Q)
    PROVE  Lists(p \o q, P \cup Q)
  <1>1. p \in Seq(Int) /\ q \in Seq(Int)
    BY DEF Lists
  <1>2. PICK r : r = p \o q
    OBVIOUS
  <1>3. /\ r \in Seq(Int) /\ Len(r) = Len(p) + Len(q)
        /\ \A i \in 1..Len(r) : r[i] = IF i <= Len(p) THEN p[i] ELSE q[i - Len(p)]
    BY <1>1, <1>2, ConcatProperties
  <1>4. Len(p) \in Nat /\ Len(q) \in Nat
    BY <1>1
  <1>5. ASSUME NEW m \in Int
        PROVE  m \in P \cup Q <=> \E j \in 1..Len(r) : r[j] = m
    <2>1. ASSUME m \in P PROVE \E j \in 1..Len(r) : r[j] = m
      <3>1. PICK j \in 1..Len(p) : p[j] = m
        BY <2>1 DEF Lists
      <3>2. j \in 1..Len(r) /\ r[j] = m
        BY <1>3, <1>4, <3>1
      <3> QED
        BY <3>2
    <2>2. ASSUME m \in Q PROVE \E j \in 1..Len(r) : r[j] = m
      <3>1. PICK j \in 1..Len(q) : q[j] = m
        BY <2>2 DEF Lists
      <3>2. j + Len(p) \in 1..Len(r) /\ j + Len(p) - Len(p) = j /\ ~(j + Len(p) <= Len(p))
        BY <1>3, <1>4
      <3>3. r[j + Len(p)] = m
        BY <1>3, <3>1, <3>2
      <3> QED
        BY <3>2, <3>3
    <2>3. ASSUME NEW j \in 1..Len(r), r[j] = m PROVE m \in P \cup Q
      <3>1. CASE j <= Len(p)
        <4>1. j \in 1..Len(p) /\ p[j] = m
          BY <1>3, <1>4, <2>3, <3>1
        <4> QED
          BY <4>1 DEF Lists
      <3>2. CASE ~(j <= Len(p))
        <4>1. j - Len(p) \in 1..Len(q) /\ q[j - Len(p)] = m
          BY <1>3, <1>4, <2>3, <3>2
        <4> QED
          BY <4>1 DEF Lists
      <3> QED
        BY <3>1, <3>2
    <2> QED
      BY <2>1, <2>2, <2>3
  <1> QED
    BY <1>2, <1>3, <1>5 DEF Lists

\* Sequences of numbers can be joined.
LEMMA FlattenExists ==
    ASSUME NEW n \in Nat \ {0}, NEW q \in [1..n -> Seq(Int)]
    PROVE  \E f : f = [i \in 1..n |-> IF i = 1 THEN q[i] ELSE f[i - 1] \o q[i]]
  <1> DEFINE S == Seq(Int)
             G == [i \in 1..n - 1 |-> [x \in S |-> x \o q[i + 1]]]
  <1>1. q[1] \in S
    OBVIOUS
  <1>2. G \in [1..n - 1 -> [S -> S]]
    <2>1. \A i \in 1..n - 1, x \in S : x \o q[i + 1] \in S
      <3> TAKE i \in 1..n - 1, x \in S
      <3>1. q[i + 1] \in Seq(Int)
        OBVIOUS
      <3> QED
        BY <3>1, ConcatProperties
    <2> QED
      BY <2>1
  <1>3. PICK g : Recurses(g, n - 1, S, q[1], G)
    <2> HIDE DEF G, S
    <2>1. n - 1 \in Nat
      OBVIOUS
    <2> QED
      BY <1>1, <1>2, <2>1, RecursiveFunctionExists
  <1> HIDE DEF S
  <1>4. g \in [0..n - 1 -> S] /\ g[0] = q[1] /\ \A i \in 1..n - 1 : g[i] = G[i][g[i - 1]]
    BY <1>3 DEF Recurses
  <1>5. \A i \in 1..n - 1 : g[i] = g[i - 1] \o q[i + 1]
    <2> TAKE i \in 1..n - 1
    <2>1. g[i - 1] \in S
      BY <1>4
    <2> QED
      BY <1>4, <2>1
  <1> HIDE DEF G
  <1>6. PICK f : f = [i \in 1..n |-> g[i - 1]]
    OBVIOUS
  <1>7. \A i \in 1..n : f[i] = IF i = 1 THEN q[i] ELSE f[i - 1] \o q[i]
    <2> TAKE i \in 1..n
    <2>1. CASE i = 1
      BY <1>4, <1>6, <2>1
    <2>2. CASE i # 1
      <3>1. i - 1 \in 1..n - 1 /\ i - 1 \in 1..n
        BY <2>2
      <3>2. g[i - 1] = g[i - 1 - 1] \o q[i - 1 + 1]
        BY <1>5, <3>1
      <3>3. f[i] = g[i - 1] /\ f[i - 1] = g[i - 1 - 1]
        BY <1>6, <3>1
      <3>4. i - 1 + 1 = i
        OBVIOUS
      <3> QED
        BY <2>2, <3>2, <3>3, <3>4
    <2> QED
      BY <2>1, <2>2
  <1>8. f = [i \in 1..n |-> IF i = 1 THEN q[i] ELSE f[i - 1] \o q[i]]
    BY <1>6, <1>7
  <1> QED
    BY <1>8

\* The numbers in the first sequences
Listed(P, k) == UNION {P[i] : i \in 1..k}

\* What they contain when they have been joined
LEMMA FlatLists ==
    ASSUME NEW n \in Nat, NEW q, q = [k \in 1..n |-> q[k]],
           NEW P, \A k \in 1..n : Lists(q[k], P[k])
    PROVE  Lists(FlattenSeq(q), Listed(P, n))
  <1>1. q \in [1..n -> Seq(Int)]
    BY DEF Lists
  <1>2. q \in Seq(Seq(Int)) /\ Len(q) = n
    BY <1>1
  <1>3. CASE n = 0
    <2>1. FlattenSeq(q) = q /\ q = << >>
      BY <1>2, <1>3 DEF FlattenSeq
    <2>2. Listed(P, n) = {}
      BY <1>3 DEF Listed
    <2>3. q \in Seq(Int) /\ Len(q) = 0 /\ 1..0 = {}
      BY <2>1
    <2>4. Lists(q, {})
      BY <2>3 DEF Lists
    <2> QED
      BY <2>1, <2>2, <2>4
  <1>4. CASE n # 0
    <2> DEFINE IsFlat(f) == f = [i \in 1..n |-> IF i = 1 THEN q[i] ELSE f[i - 1] \o q[i]]
    <2>1. PICK f : f = CHOOSE g : IsFlat(g)
      OBVIOUS
    <2>2. IsFlat(f)
      <3>1. \E g : IsFlat(g)
        BY <1>1, <1>4, FlattenExists
      <3> QED
        BY <2>1, <3>1
    <2>3. FlattenSeq(q) = f[n]
      BY <1>2, <1>4, <2>1 DEF FlattenSeq
    <2>4. \A i \in 1..n : f[i] = IF i = 1 THEN q[i] ELSE f[i - 1] \o q[i]
      BY <2>2
    <2> HIDE DEF IsFlat
    <2> DEFINE Bad == {i \in 1..n : ~Lists(f[i], Listed(P, i))}
    <2>5. ASSUME NEW i \in 1..n, i = 1 \/ Lists(f[i - 1], Listed(P, i - 1))
          PROVE  Lists(f[i], Listed(P, i))
      <3>1. CASE i = 1
        <4>1. f[i] = q[1]
          BY <2>4, <3>1
        <4>2. Listed(P, i) = P[1]
          BY <3>1 DEF Listed
        <4> QED
          BY <3>1, <4>1, <4>2
      <3>2. CASE i # 1
        <4>1. f[i] = f[i - 1] \o q[i]
          BY <2>4, <3>2
        <4>2. Listed(P, i) = Listed(P, i - 1) \cup P[i]
          <5>1. 1..i = (1..i - 1) \cup {i}
            OBVIOUS
          <5> QED
            BY <5>1 DEF Listed
        <4>3. Lists(f[i - 1], Listed(P, i - 1)) /\ Lists(q[i], P[i])
          BY <2>5, <3>2
        <4>4. Lists(f[i - 1] \o q[i], Listed(P, i - 1) \cup P[i])
          BY <4>3, ListedBehind
        <4> QED
          BY <4>1, <4>2, <4>4
      <3> QED
        BY <3>1, <3>2
    <2>6. Bad = {}
      <3>1. SUFFICES ASSUME Bad # {} PROVE FALSE
        OBVIOUS
      <3>2. PICK i \in Bad : \A j \in Bad : i <= j
        <4>1. Bad \subseteq Nat
          OBVIOUS
        <4> QED
          BY <3>1, <4>1, LeastNatural
      <3>3. i \in 1..n /\ i # 1
        BY <2>5, <3>2
      <3>4. i - 1 \in 1..n /\ i - 1 \notin Bad
        BY <3>2, <3>3
      <3> QED
        BY <2>5, <3>2, <3>3, <3>4
    <2>7. Lists(f[n], Listed(P, n))
      BY <1>4, <2>6
    <2> QED
      BY <2>3, <2>7
  <1> QED
    BY <1>3, <1>4

\* The numbers of a range
LEMMA IntervalLists ==
    ASSUME NEW lo \in Int, NEW hi \in Int, lo <= hi
    PROVE  Lists(Interval(lo, hi), lo..hi)
  <1>1. PICK q, n : n = hi - lo + 1 /\ q = [k \in 1..n |-> lo + k - 1]
    OBVIOUS
  <1>2. n \in Nat /\ q \in Seq(Int) /\ Len(q) = n
    BY <1>1
  <1>3. ASSUME NEW m \in Int
        PROVE  m \in lo..hi <=> \E j \in 1..n : q[j] = m
    <2>1. ASSUME m \in lo..hi PROVE \E j \in 1..n : q[j] = m
      <3>1. m - lo + 1 \in 1..n
        BY <1>1, <2>1
      <3>2. q[m - lo + 1] = m
        BY <1>1, <3>1
      <3> QED
        BY <3>1, <3>2
    <2>2. ASSUME NEW j \in 1..n, q[j] = m PROVE m \in lo..hi
      BY <1>1, <2>2
    <2> QED
      BY <2>1, <2>2
  <1>4. Interval(lo, hi) = q
    BY <1>1 DEF Interval
  <1> QED
    BY <1>2, <1>3, <1>4 DEF Lists

\* The numbers in the ranges of R
Numbered(R, h) == {m \in Int : Holds(R, h, m)}

\* Exactly the numbers of a set are listed.
LEMMA InOrderLists ==
    ASSUME NULL \notin Nat, NEW h, IsHeap(h), NEW R, NEW is, NEW p,
           Chain(R, is.lowest, h, p)
    PROVE  Lists(InOrder(is, h), Numbered(R, h))
  <1>1. PICK l, n : l = List(is, h) /\ n = Len(l)
    OBVIOUS
  <1>2. Along(l, R, is.lowest, h)
    BY <1>1, ListGoesAlong
  <1>3. /\ n \in Nat /\ DOMAIN l = 1..n /\ \A k \in 1..n : l[k] \in R
        /\ \A a \in R : \E k \in 1..n : l[k] = a
    BY <1>1, <1>2 DEF Along
  <1>4. \A a \in R : h[a].start \in Int /\ h[a].end \in Int /\ h[a].start <= h[a].end
    BY DEF Chain, IsHeap, Block
  <1>5. PICK q : q = [k \in 1..n |-> Interval(h[l[k]].start, h[l[k]].end)]
    OBVIOUS
  <1>6. PICK P : P = [k \in 1..n |-> h[l[k]].start..h[l[k]].end]
    OBVIOUS
  <1>7. \A k \in 1..n : Lists(q[k], P[k])
    <2> TAKE k \in 1..n
    <2>1. PICK lo \in Int, hi \in Int : lo = h[l[k]].start /\ hi = h[l[k]].end /\ lo <= hi
      BY <1>3, <1>4
    <2>2. Lists(Interval(lo, hi), lo..hi)
      BY <2>1, IntervalLists
    <2> QED
      BY <1>5, <1>6, <2>1, <2>2
  <1>8. Lists(FlattenSeq(q), Listed(P, n))
    <2>1. q = [k \in 1..n |-> q[k]]
      BY <1>5
    <2> QED
      BY <1>3, <1>7, <2>1, FlatLists
  <1>9. \A m \in Int : m \in Listed(P, n) <=> m \in Numbered(R, h)
    <2> TAKE m \in Int
    <2>1. ASSUME m \in Listed(P, n) PROVE Holds(R, h, m)
      <3>1. PICK k \in 1..n : m \in P[k]
        BY <2>1 DEF Listed
      <3>2. l[k] \in R /\ h[l[k]].start <= m /\ m <= h[l[k]].end
        BY <1>3, <1>4, <1>6, <3>1
      <3> QED
        BY <3>2 DEF Holds
    <2>2. ASSUME Holds(R, h, m) PROVE m \in Listed(P, n)
      <3>1. PICK a \in R : h[a].start <= m /\ m <= h[a].end
        BY <2>2 DEF Holds
      <3>2. PICK k \in 1..n : l[k] = a
        BY <1>3
      <3>3. m \in P[k]
        BY <1>4, <1>6, <3>1, <3>2
      <3> QED
        BY <3>3 DEF Listed
    <2> QED
      BY <2>1, <2>2 DEF Numbered
  <1>10. InOrder(is, h) = FlattenSeq(q)
    BY <1>1, <1>3, <1>5 DEF InOrder
  <1> QED
    BY <1>8, <1>9, <1>10 DEF Lists

\* iset_contains tells which numbers are in a set.
LEMMA HasNumberTells ==
    ASSUME NULL \notin Nat, NEW h, IsHeap(h), NEW R, NEW is, NEW p,
           Chain(R, is.lowest, h, p), NEW n \in Int
    PROVE  HasNumber(is, h, n) <=> Holds(R, h, n)
  <1>1. PICK s, r : s = [is |-> is, heap |-> h] /\ r = FirstUpTo(s, n, 0)
    OBVIOUS
  <1>2. s.is = is /\ s.heap = h
    BY <1>1
  <1>3. Found(R, h, n, 0, r)
    <2>1. IsHeap(s.heap) /\ Chain(R, s.is.lowest, s.heap, p) /\ 0 \in Int
      BY <1>2
    <2>2. Found(R, s.heap, n, 0, FirstUpTo(s, n, 0))
      BY <2>1, FirstIsFound
    <2> QED
      BY <1>1, <1>2, <2>2
  <1>4. HasNumber(is, h, n) <=> r # NULL /\ h[r].start <= n /\ n <= h[r].end
    BY <1>1 DEF HasNumber
  <1>5. /\ \A a \in R : h[a].start \in Int /\ h[a].end \in Int
        /\ \A a, b \in R : a = b \/ Below(h, a, b) \/ Below(h, b, a)
    BY DEF Chain, IsHeap, Block
  <1>6. CASE r = NULL
    BY <1>3, <1>4, <1>5, <1>6 DEF Found, Holds
  <1>7. CASE r # NULL
    <2>1. /\ r \in R /\ n <= h[r].end
          /\ \A a \in R : Below(h, a, r) => h[a].end < n
      BY <1>3, <1>5, <1>7 DEF Found
    <2>2. ASSUME NEW a \in R, h[a].start <= n, n <= h[a].end
          PROVE  h[r].start <= n
      <3>1. ~Below(h, a, r)
        BY <1>5, <2>1, <2>2
      <3>2. a = r \/ Below(h, r, a)
        BY <1>5, <2>1, <3>1
      <3> QED
        BY <1>5, <2>1, <2>2, <3>2 DEF Below
    <2> QED
      BY <1>4, <1>7, <2>1, <2>2 DEF Holds
  <1> QED
    BY <1>6, <1>7

-----------------------------------------------------------------------------
\* The loops of iset_isect.

\* t has only numbers of s, among them all the other ones.
Leaves(s, R, t, R1, others) ==
    /\ \A m \in Int : Holds(R1, t.heap, m) => Holds(R, s.heap, m)
    /\ \A m \in Int : m \in others /\ Holds(R, s.heap, m) => Holds(R1, t.heap, m)
    /\ \A a \in DOMAIN t.heap : a \in R1 \/ a \in DOMAIN s.heap \ R

\* In x the loops have got somewhere, at a range of the list or at one that has
\* been freed.
At(s, R, x, R1, others) ==
    /\ x = [s |-> x.s, r |-> x.r, i |-> x.i]
    /\ x.i \in Int /\ x.r \in Ptr
    /\ x.r \in DOMAIN x.s.heap => x.r \in R1
    /\ Changed(s, R, x.s, R1) /\ Leaves(s, R, x.s, R1, others)

Visits(s, R, x, others) == \E R1 : At(s, R, x, R1, others)

\* They go on.
LEMMA VisitGoesOn ==
    ASSUME NULL \notin Nat, MaxBlocks \in Nat, NEW s, NEW R, NEW others, NEW x,
           Visits(s, R, x, others)
    PROVE  Visits(s, R, IsectStep(x, others), others)
  <1>1. PICK R1 : At(s, R, x, R1, others)
    BY DEF Visits
  <1>2. PICK y, t, r, i : y = IsectStep(x, others) /\ t = x.s /\ r = x.r /\ i = x.i
    OBVIOUS
  <1>3. /\ x = [s |-> t, r |-> r, i |-> i] /\ i \in Int /\ r \in Ptr
        /\ r \in DOMAIN t.heap => r \in R1
        /\ Changed(s, R, t, R1) /\ Leaves(s, R, t, R1, others)
    BY <1>1, <1>2 DEF At
  <1>4. IsWork(t) /\ Chain(R1, t.is.lowest, t.heap, NULL) /\ IsHeap(t.heap)
    BY <1>3 DEF Changed, IsWork
  <1>5. SUFFICES \E R2 : At(s, R, y, R2, others)
    BY <1>2 DEF Visits
  <1>6. CASE ~Goes(t) \/ r = NULL
    <2>1. y = x
      BY <1>2, <1>6 DEF IsectStep
    <2> QED
      BY <1>1, <2>1
  <1>7. CASE Goes(t) /\ r # NULL /\ r \notin DOMAIN t.heap
    <2>1. y = [x EXCEPT !.s = [t EXCEPT !.stopped = TRUE]]
      BY <1>2, <1>7 DEF IsectStep
    <2>2. PICK u : u = [t EXCEPT !.stopped = TRUE]
      OBVIOUS
    <2>3. y = [s |-> u, r |-> r, i |-> i]
      BY <1>3, <2>1, <2>2
    <2>4. Fails(t, u)
      BY <1>4, <2>2, CallFails
    <2>5. Changed(s, R, u, R1)
      BY <1>3, <2>4 DEF Fails, Changed
    <2>6. Leaves(s, R, u, R1, others) /\ u.heap = t.heap
      BY <1>3, <2>4 DEF Fails, Leaves
    <2> QED
      BY <1>3, <2>3, <2>5, <2>6 DEF At
  <1>8. CASE Goes(t) /\ r # NULL /\ r \in DOMAIN t.heap
    <2>1. PICK next, end : next = t.heap[r].next /\ end = t.heap[r].end
      OBVIOUS
    <2>2. r \in R1 /\ next \in Ptr /\ (next # NULL => next \in R1)
      BY <1>3, <1>4, <1>8, <2>1, NeighboursAre
    <2>3. next # NULL => t.heap[next].start \in Int
      BY <1>4, <2>2 DEF Chain, IsHeap, Block
    <2>4. CASE i > end
      <3>1. PICK j : j = IF next = NULL THEN i ELSE t.heap[next].start
        OBVIOUS
      <3>2. y = [x EXCEPT !.r = next, !.i = j]
        BY <1>2, <1>8, <2>1, <2>4, <3>1 DEF IsectStep
      <3>3. y = [s |-> t, r |-> next, i |-> j]
        BY <1>3, <3>2
      <3>4. j \in Int /\ (next \in DOMAIN t.heap => next \in R1)
        BY <1>3, <1>4, <2>2, <2>3, <3>1 DEF IsHeap
      <3> QED
        BY <1>3, <2>2, <3>3, <3>4 DEF At
    <2>5. CASE ~(i > end) /\ i \in others
      <3>1. y = [x EXCEPT !.i = i + 1]
        BY <1>2, <1>8, <2>1, <2>5 DEF IsectStep
      <3>2. y = [s |-> t, r |-> r, i |-> i + 1]
        BY <1>3, <3>1
      <3> QED
        BY <1>3, <3>2 DEF At
    <2>6. CASE ~(i > end) /\ i \notin others
      <3>1. PICK u : u = RemoveNumber(t, i)
        OBVIOUS
      <3>2. y = [x EXCEPT !.s = u, !.i = i + 1]
        BY <1>2, <1>8, <2>1, <2>6, <3>1 DEF IsectStep
      <3>3. y = [s |-> u, r |-> r, i |-> i + 1]
        BY <1>3, <3>2
      <3>4. PICK R2 : Changed(t, R1, u, R2) /\ Takes(t, R1, u, R2, i)
        BY <1>3, <1>4, <1>8, <3>1, RemoveIsChanged
      <3>5. Changed(s, R, u, R2)
        BY <1>3, <3>4, ChangedTwice
      <3>6. Leaves(s, R, u, R2, others)
        <4>1. \A m \in Int : Holds(R2, u.heap, m) => Holds(R, s.heap, m)
          BY <1>3, <3>4 DEF Leaves, Takes
        <4>2. \A m \in Int : m \in others /\ Holds(R, s.heap, m) => Holds(R2, u.heap, m)
          BY <1>3, <2>6, <3>4 DEF Leaves, Takes
        <4>3. \A a \in DOMAIN u.heap : a \in R2 \/ a \in DOMAIN s.heap \ R
          BY <1>3, <3>4 DEF Leaves, Takes
        <4> QED
          BY <4>1, <4>2, <4>3 DEF Leaves
      <3>7. r \in DOMAIN u.heap => r \in R2
        <4>1. r \notin DOMAIN s.heap \ R
          BY <1>3, <2>2 DEF Changed
        <4> QED
          BY <3>6, <4>1 DEF Leaves
      <3> QED
        BY <1>3, <3>3, <3>5, <3>6, <3>7 DEF At
    <2> QED
      BY <2>4, <2>5, <2>6
  <1> QED
    BY <1>6, <1>7, <1>8

\* The loops of iset_isect have only removed numbers that are not in the other set.
LEMMA IsectLeaves ==
    ASSUME NULL \notin Nat, MaxBlocks \in Nat, IsFiniteSet(Numbers),
           NEW s, IsWork(s), NEW R, Chain(R, s.is.lowest, s.heap, NULL), NEW others
    PROVE  \E R1 : /\ Changed(s, R, Isect(s, others), R1)
                   /\ Leaves(s, R, Isect(s, others), R1, others)
  <1>1. PICK n \in Nat : n = 2 * Cardinality(Numbers) + 1
    BY FS_CardinalityType
  <1>2. PICK x0 : x0 = [s |-> s, r |-> s.is.lowest,
                        i |-> IF s.is.lowest = NULL THEN 0 ELSE s.heap[s.is.lowest].start]
    OBVIOUS
  <1>3. Visits(s, R, x0, others)
    <2>1. PICK low : low = s.is.lowest
      OBVIOUS
    <2>2. Begins(R, s.heap, low) /\ R \subseteq DOMAIN s.heap /\ IsHeap(s.heap)
      BY <2>1 DEF Chain, IsWork
    <2>3. low \in Ptr /\ (low # NULL => low \in R /\ s.heap[low].start \in Int)
      BY <2>1, <2>2 DEF Begins, IsWork, IsHeap, Block
    <2>4. PICK i : i = IF low = NULL THEN 0 ELSE s.heap[low].start
      OBVIOUS
    <2>5. i \in Int /\ x0 = [s |-> s, r |-> low, i |-> i]
      BY <1>2, <2>1, <2>3, <2>4
    <2>6. low \in DOMAIN s.heap => low \in R
      BY <2>2, <2>3 DEF IsHeap
    <2>7. Changed(s, R, s, R)
      BY DEF Changed
    <2>8. Leaves(s, R, s, R, others)
      BY DEF Leaves
    <2>9. At(s, R, x0, R, others)
      BY <2>3, <2>5, <2>6, <2>7, <2>8 DEF At
    <2> QED
      BY <2>9 DEF Visits
  <1> DEFINE S == {x \in [s : State, r : Ptr, i : Int] : Visits(s, R, x, others)}
             G == [k \in 1..n |-> [x \in S |-> IsectStep(x, others)]]
  <1>4. ASSUME NEW x, Visits(s, R, x, others) PROVE x \in S
    <2>1. PICK R1 : At(s, R, x, R1, others)
      BY <1>4 DEF Visits
    <2>2. PICK t, r, i : t = x.s /\ r = x.r /\ i = x.i
      OBVIOUS
    <2>3. IsWork(t) /\ x = [s |-> t, r |-> r, i |-> i] /\ r \in Ptr /\ i \in Int
      BY <2>1, <2>2 DEF At, Changed
    <2>4. t \in State
      BY <2>3, WorkIsState
    <2>5. x \in [s : State, r : Ptr, i : Int]
      BY <2>3, <2>4
    <2> QED
      BY <1>4, <2>5
  <1>5. \A x \in S : IsectStep(x, others) \in S
    BY <1>4, VisitGoesOn
  <1>6. G \in [1..n -> [S -> S]]
    BY <1>5
  <1>7. x0 \in S
    BY <1>3, <1>4
  <1>8. \A x \in S : Visits(s, R, x, others)
    OBVIOUS
  <1> HIDE DEF S
  <1> DEFINE IsLoop(f) == f = [k \in 0..n |-> IF k > 0 THEN IsectStep(f[k - 1], others)
                                              ELSE x0]
  <1>9. \E f : IsLoop(f)
    <2>1. PICK f : Recurses(f, n, S, x0, G)
      <3> HIDE DEF G
      <3> QED
        BY <1>6, <1>7, RecursiveFunctionExists
    <2>2. f \in [0..n -> S] /\ f[0] = x0 /\ \A k \in 1..n : f[k] = G[k][f[k - 1]]
      BY <2>1 DEF Recurses
    <2>3. \A k \in 0..n : f[k] = IF k > 0 THEN IsectStep(f[k - 1], others) ELSE x0
      <3> TAKE k \in 0..n
      <3>1. CASE k > 0
        <4>1. k \in 1..n /\ f[k - 1] \in S
          BY <2>2, <3>1
        <4> QED
          BY <2>2, <3>1, <4>1
      <3>2. CASE ~(k > 0)
        BY <2>2, <3>2
      <3> QED
        BY <3>1, <3>2
    <2>4. IsLoop(f)
      BY <2>2, <2>3
    <2> QED
      BY <2>4
  <1>10. PICK f : f = CHOOSE g : IsLoop(g)
    OBVIOUS
  <1>11. \A k \in 0..n : f[k] = IF k > 0 THEN IsectStep(f[k - 1], others) ELSE x0
    <2>1. IsLoop(f)
      BY <1>9, <1>10
    <2> QED
      BY <2>1
  <1>12. Isect(s, others) = f[n].s
    BY <1>1, <1>2, <1>10 DEF Isect
  <1> HIDE DEF IsLoop, G
  <1> DEFINE Bad == {k \in 0..n : ~Visits(s, R, f[k], others)}
  <1>13. Bad = {}
    <2>1. SUFFICES ASSUME Bad # {} PROVE FALSE
      OBVIOUS
    <2>2. PICK k \in Bad : \A j \in Bad : k <= j
      <3>1. Bad \subseteq Nat
        OBVIOUS
      <3> QED
        BY <2>1, <3>1, LeastNatural
    <2>3. k > 0
      BY <1>3, <1>11, <2>2
    <2>4. k - 1 \in 0..n /\ k - 1 \notin Bad
      BY <2>2, <2>3
    <2>5. Visits(s, R, f[k - 1], others) /\ f[k] = IsectStep(f[k - 1], others)
      BY <1>11, <2>2, <2>3, <2>4
    <2> QED
      BY <2>2, <2>5, VisitGoesOn
  <1>14. Visits(s, R, f[n], others)
    BY <1>13
  <1> QED
    BY <1>12, <1>14 DEF Visits, At

-----------------------------------------------------------------------------
\* Emptying and copying a set.

\* All ranges of a list are freed.
LEMMA EmptiedIsChanged ==
    ASSUME NULL \notin Nat, MaxBlocks \in Nat, NEW s, IsWork(s), NEW R,
           Chain(R, s.is.lowest, s.heap, NULL), NEW t, t = Emptied(s)
    PROVE  Changed(s, R, t, {}) /\ t.ret = s.ret /\ t.stopped = s.stopped
  <1>1. PICK h : h = s.heap
    OBVIOUS
  <1>2. IsHeap(h) /\ R \subseteq DOMAIN h
    BY <1>1 DEF IsWork, Chain
  <1>3. Range(List(s.is, h)) = R
    BY <1>1, <1>2, RangeOfList
  <1>4. PICK g, D : D = DOMAIN h \ R /\ g = [a \in D |-> h[a]]
    OBVIOUS
  <1>5. PICK is1 : is1 = [lowest |-> NULL, highest |-> NULL]
    OBVIOUS
  <1>6. DOMAIN g = D /\ D \in SUBSET DOMAIN h /\ \A a \in D : g[a] = h[a]
    BY <1>4
  <1>7. IsFiniteSet(D) /\ Cardinality(D) <= Cardinality(DOMAIN h)
    BY <1>2, <1>6, FS_Subset DEF IsHeap
  <1>8. IsHeap(g)
    BY <1>2, <1>4, <1>6, <1>7 DEF IsHeap
  <1>9. Becomes(s, t, g, is1)
    <2>1. t = [s EXCEPT !.heap = g, !.is = is1]
      BY <1>1, <1>3, <1>4, <1>5 DEF Emptied
    <2>2. is1 \in [lowest : Ptr, highest : Ptr]
      BY <1>5 DEF Ptr
    <2>3. Cardinality(DOMAIN g) <= Cardinality(DOMAIN s.heap)
      BY <1>1, <1>6, <1>7
    <2> QED
      BY <1>8, <2>1, <2>2, <2>3, FreedIsWork
  <1>10. /\ IsWork(t) /\ t.heap = g /\ t.is.lowest = NULL
         /\ t.ret = s.ret /\ t.stopped = s.stopped
    BY <1>5, <1>9 DEF Becomes
  <1>11. Chain({}, NULL, g, NULL)
    BY DEF Chain, Apart, Begins
  <1>12. Tidy(t.is)
    BY <1>5, <1>9 DEF Becomes, Tidy
  <1>13. Changed(s, R, t, {})
    BY <1>1, <1>4, <1>6, <1>10, <1>11, <1>12 DEF Changed
  <1> QED
    BY <1>10, <1>13

\* One step of the loop that copies a list
CopyStep(m, b, k) ==
    LET new == FreeAddress(m.heap)
    IN  [heap  |-> Stored(m.heap, new, [b EXCEPT !.prev = m.last, !.next = NULL]),
         first |-> IF k = 1 THEN new ELSE m.first,
         last  |-> new]

\* Where the loop begins
NoCopy(h) == [heap |-> h, first |-> NULL, last |-> NULL]

\* m is what the loop works on.
IsCopy(m) ==
    /\ m = [heap |-> m.heap, first |-> m.first, last |-> m.last]
    /\ IsHeap(m.heap) /\ m.first \in Ptr /\ m.last \in Ptr

\* After k steps there are as many new blocks, and the first one is a copy of the
\* block b that points nowhere.
Copies(h, b, k, m) ==
    /\ IsCopy(m)
    /\ Cardinality(DOMAIN m.heap) = Cardinality(DOMAIN h) + k
    /\ \A a \in DOMAIN h : a \in DOMAIN m.heap /\ m.heap[a] = h[a]
    /\ k = 0 => m = NoCopy(h)
    /\ k > 0 => /\ m.first \in DOMAIN m.heap /\ m.first \notin DOMAIN h
                /\ m.heap[m.first].start = b.start /\ m.heap[m.first].end = b.end
                /\ m.heap[m.first].prev = NULL /\ m.heap[m.first].next = NULL

\* What a step of the loop does
LEMMA CopyGoesOn ==
    ASSUME NEW m, IsCopy(m), NEW b \in Block, NEW k,
           NEW u, u = CopyStep(m, b, k)
    PROVE  /\ IsCopy(u)
           /\ Cardinality(DOMAIN u.heap) = Cardinality(DOMAIN m.heap) + 1
           /\ \A a \in DOMAIN m.heap : a \in DOMAIN u.heap /\ u.heap[a] = m.heap[a]
           /\ u.last \notin DOMAIN m.heap /\ u.last \in DOMAIN u.heap
           /\ u.first = IF k = 1 THEN u.last ELSE m.first
           /\ u.heap[u.last].start = b.start /\ u.heap[u.last].end = b.end
           /\ u.heap[u.last].prev = m.last /\ u.heap[u.last].next = NULL
  <1>1. PICK h, new, last, first : /\ h = m.heap /\ new = FreeAddress(h)
                                   /\ last = m.last /\ first = m.first
    OBVIOUS
  <1>2. IsHeap(h) /\ new \in Nat \ DOMAIN h /\ last \in Ptr /\ first \in Ptr
    BY <1>1, FreeIsFree DEF IsCopy
  <1>3. PICK c : c = [[b EXCEPT !.prev = last] EXCEPT !.next = NULL]
    OBVIOUS
  <1>4. /\ c \in Block /\ c.start = b.start /\ c.end = b.end
        /\ c.prev = last /\ c.next = NULL
    BY <1>2, <1>3 DEF Block, Ptr
  <1>5. PICK g : g = Stored(h, new, c)
    OBVIOUS
  <1>6. HasBlock(g, h, new, c)
    BY <1>2, <1>4, <1>5, StoredIs
  <1>7. Cardinality(DOMAIN g) = Cardinality(DOMAIN h) + 1
    BY <1>2, <1>5, StoredIsMore
  <1>8. u = [heap |-> g, first |-> IF k = 1 THEN new ELSE first, last |-> new]
    BY <1>1, <1>3, <1>5 DEF CopyStep
  <1>9. u.heap = g /\ u.first = (IF k = 1 THEN new ELSE first) /\ u.last = new
    BY <1>8
  <1>10. /\ IsHeap(g) /\ DOMAIN g = DOMAIN h \cup {new}
         /\ g[new] = c /\ \A a \in DOMAIN h : g[a] = h[a]
    BY <1>6 DEF HasBlock
  <1>11. IsCopy(u)
    BY <1>2, <1>8, <1>9, <1>10 DEF IsCopy, Ptr
  <1> QED
    BY <1>1, <1>2, <1>4, <1>7, <1>9, <1>10, <1>11

\* The copies of a list
CopyLoop(f, h, list, n) ==
    f = [k \in 0..n |-> IF k = 0 THEN NoCopy(h) ELSE CopyStep(f[k - 1], h[list[k]], k)]

\* The loop can be run.
LEMMA CopyExists ==
    ASSUME NEW h, IsHeap(h), NEW n \in Nat, NEW list, \A k \in 1..n : list[k] \in DOMAIN h
    PROVE  \E f : CopyLoop(f, h, list, n)
  <1> DEFINE S == {m \in [heap : Heaps, first : Ptr, last : Ptr] : IsCopy(m)}
             G == [k \in 1..n |-> [m \in S |-> CopyStep(m, h[list[k]], k)]]
  <1>1. ASSUME NEW m, IsCopy(m) PROVE m \in S
    <2>1. PICK g, p, q : g = m.heap /\ p = m.first /\ q = m.last
      OBVIOUS
    <2>2. m = [heap |-> g, first |-> p, last |-> q] /\ IsHeap(g) /\ p \in Ptr /\ q \in Ptr
      BY <1>1, <2>1 DEF IsCopy
    <2>3. g \in Heaps
      BY <2>2, HeapIsOne
    <2>4. m \in [heap : Heaps, first : Ptr, last : Ptr]
      BY <2>2, <2>3
    <2> QED
      BY <1>1, <2>4
  <1>2. NoCopy(h) \in S
    <2>1. IsCopy(NoCopy(h))
      BY DEF IsCopy, NoCopy, Ptr
    <2> QED
      BY <1>1, <2>1
  <1>3. ASSUME NEW k \in 1..n, NEW m \in S
        PROVE  CopyStep(m, h[list[k]], k) \in S
    <2>1. h[list[k]] \in Block
      BY DEF IsHeap
    <2>2. IsCopy(CopyStep(m, h[list[k]], k))
      BY <2>1, CopyGoesOn
    <2> QED
      BY <1>1, <2>2
  <1>4. G \in [1..n -> [S -> S]]
    BY <1>3
  <1> HIDE DEF S
  <1>5. PICK f : Recurses(f, n, S, NoCopy(h), G)
    <2> HIDE DEF G
    <2> QED
      BY <1>2, <1>4, RecursiveFunctionExists
  <1>6. f \in [0..n -> S] /\ f[0] = NoCopy(h) /\ \A k \in 1..n : f[k] = G[k][f[k - 1]]
    BY <1>5 DEF Recurses
  <1>7. \A k \in 0..n : f[k] = IF k = 0 THEN NoCopy(h) ELSE CopyStep(f[k - 1], h[list[k]], k)
    <2> TAKE k \in 0..n
    <2>1. CASE k = 0
      BY <1>6, <2>1
    <2>2. CASE k # 0
      <3>1. k \in 1..n /\ f[k - 1] \in S
        BY <1>6, <2>2
      <3> QED
        BY <1>6, <2>2, <3>1
    <2> QED
      BY <2>1, <2>2
  <1>8. CopyLoop(f, h, list, n)
    BY <1>6, <1>7 DEF CopyLoop
  <1> QED
    BY <1>8

\* What the loop makes
LEMMA CopyLoopCopies ==
    ASSUME NULL \notin Nat, NEW h, IsHeap(h), NEW n \in Nat,
           NEW list, \A k \in 1..n : list[k] \in DOMAIN h,
           NEW f, CopyLoop(f, h, list, n)
    PROVE  Copies(h, h[list[1]], n, f[n])
  <1> DEFINE Good(k) == Copies(h, h[list[1]], k, f[k])
             Bad == {k \in 0..n : ~Good(k)}
  <1>1. \A k \in 0..n : f[k] = IF k = 0 THEN NoCopy(h)
                               ELSE CopyStep(f[k - 1], h[list[k]], k)
    BY DEF CopyLoop
  <1>2. PICK size \in Nat : size = Cardinality(DOMAIN h)
    BY FS_CardinalityType DEF IsHeap
  <1>3. Good(0)
    <2>1. f[0] = NoCopy(h)
      BY <1>1
    <2>2. NoCopy(h).heap = h /\ IsCopy(NoCopy(h))
      BY DEF NoCopy, IsCopy, Ptr
    <2>3. Cardinality(DOMAIN h) = Cardinality(DOMAIN h) + 0
      BY <1>2
    <2> QED
      BY <2>1, <2>2, <2>3 DEF Copies
  <1>4. ASSUME NEW k \in 1..n, Good(k - 1) PROVE Good(k)
    <2>1. PICK m, u, b : m = f[k - 1] /\ u = f[k] /\ b = h[list[k]]
      OBVIOUS
    <2>2. u = CopyStep(m, b, k) /\ b \in Block
      BY <1>1, <2>1 DEF IsHeap
    <2>3. Copies(h, h[list[1]], k - 1, m)
      BY <1>4, <2>1
    <2>4. IsCopy(m)
      BY <2>3 DEF Copies
    <2>5. /\ IsCopy(u)
          /\ Cardinality(DOMAIN u.heap) = Cardinality(DOMAIN m.heap) + 1
          /\ \A a \in DOMAIN m.heap : a \in DOMAIN u.heap /\ u.heap[a] = m.heap[a]
          /\ u.last \notin DOMAIN m.heap /\ u.last \in DOMAIN u.heap
          /\ u.first = IF k = 1 THEN u.last ELSE m.first
          /\ u.heap[u.last].start = b.start /\ u.heap[u.last].end = b.end
          /\ u.heap[u.last].prev = m.last /\ u.heap[u.last].next = NULL
      BY <2>2, <2>4, CopyGoesOn
    <2>6. Cardinality(DOMAIN u.heap) = Cardinality(DOMAIN h) + k
      BY <1>2, <2>3, <2>5 DEF Copies
    <2>7. \A a \in DOMAIN h : a \in DOMAIN u.heap /\ u.heap[a] = h[a]
      BY <2>3, <2>5 DEF Copies
    <2>8. CASE k = 1
      <3>1. m = NoCopy(h) /\ b = h[list[1]] /\ u.first = u.last
        BY <2>1, <2>3, <2>5, <2>8 DEF Copies
      <3>2. m.heap = h /\ m.last = NULL
        BY <3>1 DEF NoCopy
      <3> QED
        BY <2>1, <2>5, <2>6, <2>7, <2>8, <3>1, <3>2 DEF Copies
    <2>9. CASE k # 1
      <3>1. u.first = m.first /\ k - 1 > 0
        BY <2>5, <2>9
      <3>2. /\ m.first \in DOMAIN m.heap /\ m.first \notin DOMAIN h
            /\ m.heap[m.first].start = h[list[1]].start
            /\ m.heap[m.first].end = h[list[1]].end
            /\ m.heap[m.first].prev = NULL /\ m.heap[m.first].next = NULL
        BY <2>3, <3>1 DEF Copies
      <3> QED
        BY <2>1, <2>5, <2>6, <2>7, <3>1, <3>2 DEF Copies
    <2> QED
      BY <2>8, <2>9
  <1> HIDE DEF Good
  <1>5. Bad = {}
    <2>1. SUFFICES ASSUME Bad # {} PROVE FALSE
      OBVIOUS
    <2>2. PICK k \in Bad : \A j \in Bad : k <= j
      <3>1. Bad \subseteq Nat
        OBVIOUS
      <3> QED
        BY <2>1, <3>1, LeastNatural
    <2>3. k \in 1..n
      BY <1>3, <2>2
    <2>4. k - 1 \in 0..n /\ k - 1 \notin Bad
      BY <2>2, <2>3
    <2> QED
      BY <1>4, <2>2, <2>3, <2>4
  <1>6. Good(n)
    BY <1>5
  <1> QED
    BY <1>6 DEF Good

\* The first range of a copy is the whole list.
LEMMA CopiedAre ==
    ASSUME NULL \notin Nat, IsHeap(heap), NEW R, NEW low, NEW q, Chain(R, low, heap, q),
           NEW list, \A k \in DOMAIN list : list[k] \in R,
           NEW n \in Nat, 1..n \subseteq DOMAIN list,
           NEW m, m = Copied(list, n)
    PROVE  /\ Copies(heap, heap[list[1]], n, m)
           /\ n > 0 => heap[list[1]].start <= heap[list[1]].end
  <1>1. \A k \in 1..n : list[k] \in DOMAIN heap /\ list[k] \in R
    BY DEF Chain
  <1>2. PICK f : f = CHOOSE g : CopyLoop(g, heap, list, n)
    OBVIOUS
  <1>3. CopyLoop(f, heap, list, n)
    <2>1. \E g : CopyLoop(g, heap, list, n)
      BY <1>1, CopyExists
    <2> QED
      BY <1>2, <2>1
  <1>4. m = f[n]
    BY <1>2 DEF Copied, CopyLoop, CopyStep, NoCopy
  <1>5. Copies(heap, heap[list[1]], n, f[n])
    BY <1>1, <1>3, CopyLoopCopies
  <1>6. n > 0 => list[1] \in R
    BY <1>1
  <1> QED
    BY <1>4, <1>5, <1>6 DEF Chain

-----------------------------------------------------------------------------
\* The invariant.

\* Who has which ranges: they make up the lists of the sets, and no range is in both
\* lists.
Owns(R, sets, h) ==
    /\ R[1] \cap R[2] = {}
    /\ \A i \in {1, 2} : /\ R[i] \subseteq DOMAIN h
                         /\ sets[i] # NULL => Chain(R[i], sets[i].lowest, h, NULL)

\* Ranges that belong to a set, and are in order, with a gap between any two of them,
\* and linked both ways
AreOwned(sets, h) == \E R \in [{1, 2} -> SUBSET Nat] : Owns(R, sets, h)

\* A set that has no first range has no last one.
AreTidy(sets) == \A i \in {1, 2} : sets[i] # NULL => Tidy(sets[i])

IInv ==
    /\ isets \in [{1, 2} -> [lowest : Ptr, highest : Ptr] \cup {NULL}]
    /\ IsHeap(heap) /\ Cardinality(DOMAIN heap) <= MaxBlocks
    /\ AreOwned(isets, heap) /\ AreTidy(isets)

\* There are no sets.
LEMMA NothingIsOwned ==
    ASSUME MaxBlocks \in Nat, NEW sets, sets = [k \in {1, 2} |-> NULL],
           NEW h, h = NoBlocks
    PROVE  /\ sets \in [{1, 2} -> [lowest : Ptr, highest : Ptr] \cup {NULL}]
           /\ IsHeap(h) /\ Cardinality(DOMAIN h) <= MaxBlocks
           /\ AreOwned(sets, h) /\ AreTidy(sets)
  <1>1. h = [a \in DOMAIN h |-> h[a]] /\ DOMAIN h = {}
    BY DEF NoBlocks
  <1>2. IsFiniteSet({}) /\ Cardinality({}) = 0
    BY FS_EmptySet
  <1>3. IsHeap(h)
    BY <1>1, <1>2 DEF IsHeap
  <1>4. PICK R : R = [k \in {1, 2} |-> {}]
    OBVIOUS
  <1>5. R \in [{1, 2} -> SUBSET Nat] /\ Owns(R, sets, h)
    BY <1>4 DEF Owns
  <1>6. AreOwned(sets, h)
    BY <1>5 DEF AreOwned
  <1>7. AreTidy(sets)
    BY DEF AreTidy
  <1> QED
    BY <1>1, <1>2, <1>3, <1>6, <1>7

\* The ranges A of g, the list of new unless that is NULL, are in the place of the
\* ranges B of h.
Replaces(h, B, g, A, new) ==
    /\ IsHeap(g) /\ A \subseteq DOMAIN g
    /\ \A a \in DOMAIN h \ B : a \in DOMAIN g /\ a \notin A /\ g[a] = h[a]
    /\ new # NULL => Chain(A, new.lowest, g, NULL)

\* When the list of one set changes the other one keeps its own.
LEMMA OthersAreKept ==
    ASSUME NEW R \in [{1, 2} -> SUBSET Nat],
           NEW sets \in [{1, 2} -> [lowest : Ptr, highest : Ptr] \cup {NULL}],
           NEW h, Owns(R, sets, h), NEW i \in {1, 2}, NEW g, NEW A, NEW new,
           Replaces(h, R[i], g, A, new)
    PROVE  AreOwned([sets EXCEPT ![i] = new], g)
  <1>0. /\ IsHeap(g) /\ A \subseteq DOMAIN g
        /\ \A a \in DOMAIN h \ R[i] : a \in DOMAIN g /\ a \notin A /\ g[a] = h[a]
        /\ new # NULL => Chain(A, new.lowest, g, NULL)
    BY DEF Replaces
  <1>1. PICK j \in {1, 2} : j # i /\ {1, 2} = {i, j}
    <2>1. CASE i = 1
      BY <2>1
    <2>2. CASE i = 2
      BY <2>2
    <2> QED
      BY <2>1, <2>2
  <1>2. /\ R[j] \cap R[i] = {} /\ R[j] \subseteq DOMAIN h
        /\ sets[j] # NULL => Chain(R[j], sets[j].lowest, h, NULL)
    BY <1>1 DEF Owns
  <1>3. /\ R[j] \subseteq DOMAIN g /\ R[j] \cap A = {}
        /\ \A a \in R[j] : g[a] = h[a]
    BY <1>0, <1>2
  <1>4. sets[j] # NULL => Chain(R[j], sets[j].lowest, g, NULL)
    BY <1>2, <1>3, SameChain
  <1>5. PICK Q : Q = [R EXCEPT ![i] = A]
    OBVIOUS
  <1>6. A \subseteq Nat
    BY <1>0 DEF IsHeap
  <1>7. Q \in [{1, 2} -> SUBSET Nat] /\ Q[i] = A /\ Q[j] = R[j]
    BY <1>1, <1>5, <1>6
  <1>8. PICK after : after = [sets EXCEPT ![i] = new]
    OBVIOUS
  <1>9. after[i] = new /\ after[j] = sets[j]
    BY <1>1, <1>8
  <1>10. Q[1] \cap Q[2] = {}
    <2>1. Q[i] \cap Q[j] = {} /\ Q[j] \cap Q[i] = {}
      BY <1>3, <1>7
    <2>2. CASE i = 1
      BY <1>1, <2>1, <2>2
    <2>3. CASE i = 2
      BY <1>1, <2>1, <2>3
    <2> QED
      BY <2>2, <2>3
  <1>11. ASSUME NEW k \in {1, 2}
         PROVE  /\ Q[k] \subseteq DOMAIN g
                /\ after[k] # NULL => Chain(Q[k], after[k].lowest, g, NULL)
    <2>1. CASE k = i
      BY <1>0, <1>7, <1>9, <2>1
    <2>2. CASE k = j
      BY <1>3, <1>4, <1>7, <1>9, <2>2
    <2> QED
      BY <1>1, <2>1, <2>2
  <1>12. Owns(Q, after, g)
    BY <1>10, <1>11 DEF Owns
  <1> QED
    BY <1>7, <1>8, <1>12 DEF AreOwned

\* A call begins with a set and the heap.
LEMMA StartIsWork ==
    ASSUME MaxBlocks \in Nat, IInv, NEW i \in {1, 2}, IsSet(i)
    PROVE  /\ IsWork(Start(i)) /\ Goes(Start(i))
           /\ Start(i).is = isets[i] /\ Start(i).heap = heap
  <1>1. PICK n \in Nat : n = Cardinality(DOMAIN heap) /\ n <= MaxBlocks
    BY FS_CardinalityType DEF IInv, IsHeap
  <1>2. PICK k, is : k = MaxBlocks - n /\ is = isets[i]
    OBVIOUS
  <1>3. k \in Nat /\ n + k <= MaxBlocks
    BY <1>1, <1>2
  <1>4. is \in [lowest : Ptr, highest : Ptr]
    BY <1>2 DEF IInv, IsSet
  <1>5. PICK s : s = Start(i)
    OBVIOUS
  <1>6. s = [is |-> is, heap |-> heap, ret |-> 0, stopped |-> FALSE, left |-> k]
    BY <1>1, <1>2, <1>5 DEF Start, Room
  <1>7. s.is = is /\ s.heap = heap /\ s.ret = 0 /\ s.stopped = FALSE /\ s.left = k
    BY <1>6
  <1>8. IsWork(s)
    BY <1>1, <1>3, <1>4, <1>6, <1>7 DEF IsWork, IInv
  <1>9. Goes(s)
    BY <1>7 DEF Goes
  <1> QED
    BY <1>2, <1>5, <1>7, <1>8, <1>9

\* t is what becomes of the list R of s.
Works(s, R, t) == \E A : Changed(s, R, t, A)

\* A call that has changed one list only keeps the invariant.
LEMMA FinishKeeps ==
    ASSUME NULL \notin Nat, MaxBlocks \in Nat, IInv, NEW i \in {1, 2}, IsSet(i),
           NEW t, Finish(i, t),
           ASSUME NEW R, Chain(R, isets[i].lowest, heap, NULL)
           PROVE  Works(Start(i), R, t)
    PROVE  IInv'
  <1>1. PICK R \in [{1, 2} -> SUBSET Nat] : Owns(R, isets, heap)
    BY DEF IInv, AreOwned
  <1>2. Chain(R[i], isets[i].lowest, heap, NULL)
    BY <1>1 DEF Owns, IsSet
  <1>3. PICK A : Changed(Start(i), R[i], t, A)
    BY <1>2 DEF Works
  <1>4. /\ IsWork(t) /\ Chain(A, t.is.lowest, t.heap, NULL)
        /\ \A a \in DOMAIN heap \ R[i] :
                a \in DOMAIN t.heap /\ a \notin A /\ t.heap[a] = heap[a]
    BY <1>3, StartIsWork DEF Changed
  <1>5. /\ IsHeap(t.heap) /\ t.is \in [lowest : Ptr, highest : Ptr]
        /\ Cardinality(DOMAIN t.heap) <= MaxBlocks
    <2>1. PICK n \in Nat : n = Cardinality(DOMAIN t.heap)
      BY <1>4, FS_CardinalityType DEF IsWork, IsHeap
    <2> QED
      BY <1>4, <2>1 DEF IsWork
  <1>6. CASE t.stopped
    <2>1. isets' = [k \in {1, 2} |-> NULL] /\ heap' = NoBlocks
      BY <1>6 DEF Finish
    <2> QED
      BY <2>1, NothingIsOwned DEF IInv
  <1>7. CASE ~t.stopped
    <2>1. isets' = [isets EXCEPT ![i] = t.is] /\ heap' = t.heap
      BY <1>7 DEF Finish
    <2>2. isets' \in [{1, 2} -> [lowest : Ptr, highest : Ptr] \cup {NULL}]
      BY <1>5, <2>1 DEF IInv
    <2>3. A \subseteq DOMAIN t.heap
      BY <1>4 DEF Chain
    <2>4. AreOwned([isets EXCEPT ![i] = t.is], t.heap)
      <3>1. PICK g, new : g = t.heap /\ new = t.is
        OBVIOUS
      <3>2. isets \in [{1, 2} -> [lowest : Ptr, highest : Ptr] \cup {NULL}]
        BY DEF IInv
      <3>3. IsHeap(g) /\ A \subseteq DOMAIN g /\ Chain(A, new.lowest, g, NULL)
        BY <1>4, <1>5, <2>3, <3>1
      <3>4. \A a \in DOMAIN heap \ R[i] : a \in DOMAIN g /\ a \notin A /\ g[a] = heap[a]
        BY <1>4, <3>1
      <3>5. Replaces(heap, R[i], g, A, new)
        BY <3>3, <3>4 DEF Replaces
      <3>6. AreOwned([isets EXCEPT ![i] = new], g)
        BY <1>1, <3>2, <3>5, OthersAreKept
      <3> QED
        BY <3>1, <3>6
    <2>5. AreTidy(isets')
      <3>1. Tidy(isets[i])
        BY DEF IInv, AreTidy, IsSet
      <3>2. Tidy(t.is)
        BY <1>3, <3>1, StartIsWork DEF Changed
      <3> QED
        BY <2>1, <3>2 DEF IInv, AreTidy
    <2> QED
      BY <1>5, <2>1, <2>2, <2>4, <2>5 DEF IInv
  <1> QED
    BY <1>6, <1>7

-----------------------------------------------------------------------------
\* The calls keep the invariant.

\* A set is made, with no ranges.
LEMMA CreateKeeps ==
    ASSUME NULL \notin Nat, IInv, NEW i \in {1, 2}, IsetCreate(i)
    PROVE  IInv'
  <1>1. PICK new : new = [lowest |-> NULL, highest |-> NULL]
    OBVIOUS
  <1>2. new \in [lowest : Ptr, highest : Ptr] /\ new.lowest = NULL
    BY <1>1 DEF Ptr
  <1>3. isets' = [isets EXCEPT ![i] = new] /\ heap' = heap
    BY <1>1 DEF IsetCreate
  <1>4. isets \in [{1, 2} -> [lowest : Ptr, highest : Ptr] \cup {NULL}] /\ IsHeap(heap)
    BY DEF IInv
  <1>5. isets' \in [{1, 2} -> [lowest : Ptr, highest : Ptr] \cup {NULL}]
    BY <1>2, <1>3, <1>4
  <1>6. PICK R \in [{1, 2} -> SUBSET Nat] : Owns(R, isets, heap)
    BY DEF IInv, AreOwned
  <1>7. Chain({}, new.lowest, heap, NULL)
    BY <1>2 DEF Chain, Apart, Begins
  <1>8. AreOwned([isets EXCEPT ![i] = new], heap)
    <2>1. PICK A : A = {}
      OBVIOUS
    <2>2. A \subseteq DOMAIN heap /\ Chain(A, new.lowest, heap, NULL)
      BY <1>7, <2>1
    <2>3. \A a \in DOMAIN heap \ R[i] : a \in DOMAIN heap /\ a \notin A /\ heap[a] = heap[a]
      BY <2>1
    <2>4. Replaces(heap, R[i], heap, A, new)
      BY <1>4, <2>2, <2>3 DEF Replaces
    <2> QED
      BY <1>4, <1>6, <2>4, OthersAreKept
  <1>9. AreTidy(isets')
    <2>1. Tidy(new)
      BY <1>1 DEF Tidy
    <2> QED
      BY <1>3, <1>4, <2>1 DEF IInv, AreTidy
  <1> QED
    BY <1>3, <1>4, <1>5, <1>8, <1>9 DEF IInv

\* A set is emptied.
LEMMA ClearKeeps ==
    ASSUME NULL \notin Nat, MaxBlocks \in Nat, IInv, NEW i \in {1, 2}, IsetClear(i)
    PROVE  IInv'
  <1>1. PICK s, t : s = Start(i) /\ t = Emptied(s)
    OBVIOUS
  <1>2. IsSet(i) /\ Finish(i, t)
    BY <1>1 DEF IsetClear
  <1>3. ASSUME NEW R, Chain(R, isets[i].lowest, heap, NULL) PROVE Works(Start(i), R, t)
    <2>1. IsWork(s) /\ Chain(R, s.is.lowest, s.heap, NULL)
      BY <1>1, <1>2, <1>3, StartIsWork
    <2>2. Changed(s, R, t, {})
      BY <1>1, <2>1, EmptiedIsChanged
    <2> QED
      BY <1>1, <2>2 DEF Works
  <1> QED
    BY <1>2, <1>3, FinishKeeps

\* A set is destroyed.
LEMMA DestroyKeeps ==
    ASSUME NULL \notin Nat, MaxBlocks \in Nat, IInv, NEW i \in {1, 2}, IsetDestroy(i)
    PROVE  IInv'
  <1>1. PICK s, t, u : s = Start(i) /\ t = Emptied(s) /\ u = [t EXCEPT !.is = NULL]
    OBVIOUS
  <1>2. IsSet(i) /\ Finish(i, u)
    BY <1>1 DEF IsetDestroy
  <1>3. PICK R \in [{1, 2} -> SUBSET Nat] : Owns(R, isets, heap)
    BY DEF IInv, AreOwned
  <1>4. /\ IsWork(s) /\ s.heap = heap /\ Goes(s)
        /\ Chain(R[i], s.is.lowest, s.heap, NULL)
    <2>1. Chain(R[i], isets[i].lowest, heap, NULL)
      BY <1>2, <1>3 DEF Owns, IsSet
    <2> QED
      BY <1>1, <1>2, <2>1, StartIsWork
  <1>5. Changed(s, R[i], t, {}) /\ t.ret = s.ret /\ t.stopped = s.stopped
    BY <1>1, <1>4, EmptiedIsChanged
  <1>6. PICK g : g = t.heap
    OBVIOUS
  <1>7. IsWork(t) /\ IsHeap(g)
    BY <1>5, <1>6 DEF Changed, IsWork
  <1>8. u.is = NULL /\ u.heap = g /\ ~u.stopped
    <2>1. PICK is, rt, k : is = t.is /\ rt = t.ret /\ k = t.left
      OBVIOUS
    <2>2. t = [is |-> is, heap |-> g, ret |-> rt, stopped |-> FALSE, left |-> k]
      BY <1>4, <1>5, <1>6, <1>7, <2>1 DEF IsWork, Goes
    <2>3. u = [t EXCEPT !.is = NULL]
      BY <1>1
    <2>4. u = [is |-> NULL, heap |-> g, ret |-> rt, stopped |-> FALSE, left |-> k]
      BY <2>2, <2>3
    <2> QED
      BY <2>4
  <1>9. isets' = [isets EXCEPT ![i] = NULL] /\ heap' = g
    BY <1>2, <1>8 DEF Finish
  <1>10. isets \in [{1, 2} -> [lowest : Ptr, highest : Ptr] \cup {NULL}]
    BY DEF IInv
  <1>11. isets' \in [{1, 2} -> [lowest : Ptr, highest : Ptr] \cup {NULL}]
    BY <1>9, <1>10
  <1>12. AreOwned([isets EXCEPT ![i] = NULL], g)
    <2>1. PICK A, new : A = {} /\ new = NULL
      OBVIOUS
    <2>2. A \subseteq DOMAIN g /\ (new # NULL => Chain(A, new.lowest, g, NULL))
      BY <2>1
    <2>3. \A a \in DOMAIN heap \ R[i] : a \in DOMAIN g /\ a \notin A /\ g[a] = heap[a]
      BY <1>4, <1>5, <1>6, <2>1 DEF Changed
    <2>4. Replaces(heap, R[i], g, A, new)
      BY <1>7, <2>2, <2>3 DEF Replaces
    <2>5. AreOwned([isets EXCEPT ![i] = new], g)
      BY <1>3, <1>10, <2>4, OthersAreKept
    <2> QED
      BY <2>1, <2>5
  <1>13. Cardinality(DOMAIN g) <= MaxBlocks
    <2>1. PICK n \in Nat : n = Cardinality(DOMAIN g)
      BY <1>7, FS_CardinalityType DEF IsHeap
    <2> QED
      BY <1>6, <1>7, <2>1 DEF IsWork
  <1>14. AreTidy(isets')
    BY <1>9, <1>10 DEF IInv, AreTidy
  <1> QED
    BY <1>7, <1>9, <1>11, <1>12, <1>13, <1>14 DEF IInv

\* A number is added or removed.
LEMMA AddKeeps ==
    ASSUME NULL \notin Nat, MaxBlocks \in Nat, IInv, NEW i \in {1, 2}, NEW n \in Int,
           IsetAdd(i, n) \/ IsetRemove(i, n)
    PROVE  IInv'
  <1>1. PICK s, t : /\ s = Start(i) /\ Finish(i, t)
                    /\ t = AddNumber(s, n) \/ t = RemoveNumber(s, n)
    BY DEF IsetAdd, IsetRemove
  <1>2. IsSet(i)
    BY DEF IsetAdd, IsetRemove
  <1>3. ASSUME NEW R, Chain(R, isets[i].lowest, heap, NULL) PROVE Works(Start(i), R, t)
    <2>1. IsWork(s) /\ Goes(s) /\ Chain(R, s.is.lowest, s.heap, NULL)
      BY <1>1, <1>2, <1>3, StartIsWork
    <2>2. CASE t = AddNumber(s, n)
      BY <1>1, <2>1, <2>2, AddIsChanged DEF Works
    <2>3. CASE t = RemoveNumber(s, n)
      BY <1>1, <2>1, <2>3, RemoveIsChanged DEF Works
    <2> QED
      BY <1>1, <2>2, <2>3
  <1> QED
    BY <1>1, <1>2, <1>3, FinishKeeps

\* A sequence of numbers is added or removed.
LEMMA LoopKeeps ==
    ASSUME NULL \notin Nat, MaxBlocks \in Nat, IInv, NEW i \in {1, 2}, IsSet(i),
           NEW numbers \in Seq(Int), NEW t, Finish(i, t),
           t = AddAll(Start(i), numbers) \/ t = RemoveAll(Start(i), numbers)
    PROVE  IInv'
  <1>1. ASSUME NEW R, Chain(R, isets[i].lowest, heap, NULL) PROVE Works(Start(i), R, t)
    <2>1. PICK s : s = Start(i)
      OBVIOUS
    <2>2. IsWork(s) /\ Goes(s) /\ Chain(R, s.is.lowest, s.heap, NULL)
      BY <1>1, <2>1, StartIsWork
    <2>3. CASE t = AddAll(s, numbers)
      <3>1. DoneTo(TRUE, s, R, t, FirstOf(numbers, Len(numbers)))
        BY <2>2, <2>3, AddAllDoes
      <3> QED
        BY <2>1, <3>1 DEF DoneTo, Did, Works
    <2>4. CASE t = RemoveAll(s, numbers)
      <3>1. DoneTo(FALSE, s, R, t, FirstOf(numbers, Len(numbers)))
        BY <2>2, <2>4, RemoveAllDoes
      <3> QED
        BY <2>1, <3>1 DEF DoneTo, Did, Works
    <2> QED
      BY <2>1, <2>3, <2>4
  <1> QED
    BY <1>1, FinishKeeps

\* The numbers of a set are a sequence of integers.
LEMMA InOrderIsSequence ==
    ASSUME NULL \notin Nat, IInv, NEW j \in {1, 2}, IsSet(j)
    PROVE  InOrder(isets[j], heap) \in Seq(Int)
  <1>1. PICK R \in [{1, 2} -> SUBSET Nat] : Owns(R, isets, heap)
    BY DEF IInv, AreOwned
  <1>2. Chain(R[j], isets[j].lowest, heap, NULL) /\ IsHeap(heap)
    BY <1>1 DEF Owns, IsSet, IInv
  <1> QED
    BY <1>2, InOrderLists DEF Lists

\* The loops of iset_isect, too
LEMMA IsectKeeps ==
    ASSUME NULL \notin Nat, MaxBlocks \in Nat, IsFiniteSet(Numbers), IInv,
           NEW i \in {1, 2}, NEW j \in {1, 2}, IsetIsect(i, j)
    PROVE  IInv'
  <1>1. PICK s, t, others : /\ s = Start(i) /\ Finish(i, t) /\ IsSet(i)
                            /\ t = Isect(s, others)
    BY DEF IsetIsect
  <1>2. ASSUME NEW R, Chain(R, isets[i].lowest, heap, NULL) PROVE Works(Start(i), R, t)
    <2>1. IsWork(s) /\ Chain(R, s.is.lowest, s.heap, NULL)
      BY <1>1, <1>2, StartIsWork
    <2> QED
      BY <1>1, <2>1, IsectLeaves DEF Works
  <1> QED
    BY <1>1, <1>2, FinishKeeps

\* A set is copied, or only a part of it, which is lost.
LEMMA CopyKeeps ==
    ASSUME NULL \notin Nat, MaxBlocks \in Nat, IInv, NEW i \in {1, 2}, NEW j \in {1, 2},
           IsetCopy(i, j) \/ IsetCopyFails(i, j)
    PROVE  IInv'
  <1>1. IsSet(i) /\ isets[j] = NULL /\ i # j
    BY DEF IsetCopy, IsetCopyFails, IsSet
  <1>2. PICK R \in [{1, 2} -> SUBSET Nat] : Owns(R, isets, heap)
    BY DEF IInv, AreOwned
  <1>3. /\ Chain(R[i], isets[i].lowest, heap, NULL)
        /\ IsHeap(heap) /\ Cardinality(DOMAIN heap) <= MaxBlocks
        /\ isets \in [{1, 2} -> [lowest : Ptr, highest : Ptr] \cup {NULL}]
    BY <1>1, <1>2 DEF Owns, IsSet, IInv
  <1>4. PICK list : list = List(isets[i], heap)
    OBVIOUS
  <1>5. /\ Len(list) \in Nat /\ DOMAIN list = 1..Len(list)
        /\ \A k \in DOMAIN list : list[k] \in R[i]
    <2>1. Along(list, R[i], isets[i].lowest, heap)
      BY <1>3, <1>4, ListGoesAlong
    <2> QED
      BY <2>1 DEF Along
  <1>6. PICK size \in Nat : size = Cardinality(DOMAIN heap) /\ size <= MaxBlocks
    BY <1>3, FS_CardinalityType DEF IsHeap
  <1>7. Room = MaxBlocks - size /\ Room \in Nat
    BY <1>6 DEF Room
  <1>8. PICK n, m : /\ n = IF IsetCopy(i, j) THEN Len(list) ELSE Room
                    /\ m = Copied(list, n)
    OBVIOUS
  <1>9. n \in Nat /\ 1..n \subseteq DOMAIN list /\ n <= Room
    BY <1>4, <1>5, <1>7, <1>8 DEF IsetCopy, IsetCopyFails
  <1>10. /\ Copies(heap, heap[list[1]], n, m)
         /\ n > 0 => heap[list[1]].start <= heap[list[1]].end
    BY <1>3, <1>5, <1>8, <1>9, CopiedAre
  <1>11. PICK g, first, last : g = m.heap /\ first = m.first /\ last = m.last
    OBVIOUS
  <1>12. /\ IsHeap(g) /\ first \in Ptr /\ last \in Ptr
         /\ \A a \in DOMAIN heap : a \in DOMAIN g /\ g[a] = heap[a]
    BY <1>10, <1>11 DEF Copies, IsCopy
  <1>13. Cardinality(DOMAIN g) <= MaxBlocks
    <2>1. Cardinality(DOMAIN g) = size + n
      BY <1>6, <1>10, <1>11 DEF Copies
    <2> QED
      BY <1>6, <1>7, <1>9, <2>1
  <1>14. first \notin DOMAIN heap
    <2>1. CASE n = 0
      <3>1. first = NULL
        BY <1>10, <1>11, <2>1 DEF Copies, NoCopy
      <3> QED
        BY <1>3, <3>1 DEF IsHeap
    <2>2. CASE n # 0
      BY <1>9, <1>10, <1>11, <2>2 DEF Copies
    <2> QED
      BY <2>1, <2>2
  <1>15. CASE IsetCopy(i, j)
    <2>1. PICK new : new = [lowest |-> first, highest |-> last]
      OBVIOUS
    <2>2. heap' = g /\ isets' = [isets EXCEPT ![j] = new]
      BY <1>4, <1>8, <1>11, <1>15, <2>1 DEF IsetCopy
    <2>3. new \in [lowest : Ptr, highest : Ptr] /\ new.lowest = first
      BY <1>12, <2>1
    <2>4. isets' \in [{1, 2} -> [lowest : Ptr, highest : Ptr] \cup {NULL}]
      BY <1>3, <2>2, <2>3
    <2>5. PICK A : A = IF n = 0 THEN {} ELSE {first}
      OBVIOUS
    <2>6. Chain(A, first, g, NULL)
      <3>1. CASE n = 0
        <4>1. first = NULL
          BY <1>10, <1>11, <3>1 DEF Copies, NoCopy
        <4> QED
          BY <2>5, <3>1, <4>1 DEF Chain, Apart, Begins
      <3>2. CASE n # 0
        <4>1. /\ first \in DOMAIN g /\ g[first].start <= g[first].end
              /\ g[first].prev = NULL /\ g[first].next = NULL
          BY <1>9, <1>10, <1>11, <3>2 DEF Copies
        <4>2. A = {first} /\ first # NULL /\ ~Below(g, first, first)
          BY <1>12, <2>5, <3>2, <4>1 DEF IsHeap, Block, Below
        <4>3. Begins(A, g, first)
          BY <4>2 DEF Begins
        <4>4. Apart(A, g, NULL)
          BY <4>2 DEF Apart
        <4>5. Follows(A, g, first, NULL) /\ Precedes(A, g, first, NULL)
          BY <4>2 DEF Follows, Precedes
        <4> QED
          BY <4>1, <4>2, <4>3, <4>4, <4>5 DEF Chain
      <3> QED
        BY <3>1, <3>2
    <2>7. A \subseteq DOMAIN g /\ Chain(A, new.lowest, g, NULL)
      BY <2>3, <2>6 DEF Chain
    <2>8. \A a \in DOMAIN heap \ R[j] : a \in DOMAIN g /\ a \notin A /\ g[a] = heap[a]
      BY <1>12, <1>14, <2>5
    <2>9. Replaces(heap, R[j], g, A, new)
      BY <1>12, <2>7, <2>8 DEF Replaces
    <2>10. AreOwned([isets EXCEPT ![j] = new], g)
      BY <1>2, <1>3, <2>9, OthersAreKept
    <2>11. AreTidy(isets')
      <3>1. CASE n = 0
        <4>1. last = NULL
          BY <1>10, <1>11, <3>1 DEF Copies, NoCopy
        <4>2. Tidy(new)
          BY <2>1, <4>1 DEF Tidy
        <4> QED
          BY <1>3, <2>2, <4>2 DEF IInv, AreTidy
      <3>2. CASE n # 0
        <4>1. first \in DOMAIN g
          BY <1>9, <1>10, <1>11, <3>2 DEF Copies
        <4>2. Tidy(new)
          BY <1>12, <2>3, <4>1 DEF IsHeap, Tidy
        <4> QED
          BY <1>3, <2>2, <4>2 DEF IInv, AreTidy
      <3> QED
        BY <3>1, <3>2
    <2> QED
      BY <1>12, <1>13, <2>2, <2>4, <2>10, <2>11 DEF IInv
  <1>16. CASE ~IsetCopy(i, j)
    <2>1. PICK h1 : h1 = Freed(g, first)
      OBVIOUS
    <2>2. heap' = h1 /\ isets' = isets
      BY <1>4, <1>8, <1>11, <1>16, <2>1 DEF IsetCopyFails
    <2>3. /\ IsHeap(h1) /\ DOMAIN h1 = DOMAIN g \ {first}
          /\ Cardinality(DOMAIN h1) <= Cardinality(DOMAIN g)
          /\ \A c \in DOMAIN h1 : h1[c] = g[c]
      <3>1. HasLost(h1, g, first)
        BY <1>12, <2>1, FreedIs
      <3> QED
        BY <3>1 DEF HasLost
    <2>4. Cardinality(DOMAIN h1) <= MaxBlocks
      <3>1. PICK c \in Nat, d \in Nat : /\ c = Cardinality(DOMAIN h1)
                                        /\ d = Cardinality(DOMAIN g)
        BY <1>12, <2>3, FS_CardinalityType DEF IsHeap
      <3> QED
        BY <1>13, <2>3, <3>1
    <2>5. \A a \in DOMAIN heap : a \in DOMAIN h1 /\ h1[a] = heap[a]
      BY <1>12, <1>14, <2>3
    <2>6. Owns(R, isets, h1)
      <3>1. ASSUME NEW k \in {1, 2}
            PROVE  /\ R[k] \subseteq DOMAIN h1
                   /\ isets[k] # NULL => Chain(R[k], isets[k].lowest, h1, NULL)
        <4>1. /\ R[k] \subseteq DOMAIN heap
              /\ isets[k] # NULL => Chain(R[k], isets[k].lowest, heap, NULL)
          BY <1>2 DEF Owns
        <4>2. R[k] \subseteq DOMAIN h1 /\ \A a \in R[k] : h1[a] = heap[a]
          BY <2>5, <4>1
        <4> QED
          BY <4>1, <4>2, SameChain
      <3> QED
        BY <1>2, <3>1 DEF Owns
    <2>7. AreOwned(isets, h1)
      BY <2>6 DEF AreOwned
    <2> QED
      BY <1>3, <2>2, <2>3, <2>4, <2>7 DEF IInv
  <1> QED
    BY <1>15, <1>16

\* Clients add and remove ranges that are not empty.
AreRanges == \A r \in Added \cup Removed : r[1] \in Int /\ r[2] \in Int /\ r[1] <= r[2]

LEMMA RangeIsListed ==
    ASSUME AreRanges, NEW r \in Added \cup Removed
    PROVE  Lists(Interval(r[1], r[2]), r[1]..r[2])
  <1>1. PICK lo \in Int, hi \in Int : lo = r[1] /\ hi = r[2] /\ lo <= hi
    BY DEF AreRanges
  <1>2. Lists(Interval(lo, hi), lo..hi)
    BY <1>1, IntervalLists
  <1> QED
    BY <1>1, <1>2

\* Every step keeps the invariant.
LEMMA NextKeeps ==
    ASSUME NULL \notin Nat, MaxBlocks \in Nat, Numbers \subseteq Int, IsFiniteSet(Numbers),
           AreRanges, IInv, [Next]_vars
    PROVE  IInv'
  <1>1. CASE UNCHANGED vars
    BY <1>1 DEF IInv, vars
  <1>2. ASSUME NEW i \in {1, 2}, IsetCreate(i) \/ IsetClear(i) \/ IsetDestroy(i)
        PROVE  IInv'
    BY <1>2, CreateKeeps, ClearKeeps, DestroyKeeps
  <1>3. ASSUME NEW n \in Numbers, IsetAdd(1, n) \/ IsetRemove(1, n)
        PROVE  IInv'
    <2>1. n \in Int /\ 1 \in {1, 2}
      OBVIOUS
    <2> QED
      BY <1>3, <2>1, AddKeeps
  <1>4. \A r \in Added \cup Removed : Interval(r[1], r[2]) \in Seq(Int)
    BY RangeIsListed DEF Lists
  <1>5. ASSUME NEW r \in Added, IsetAddRange(2, r[1], r[2])
        PROVE  IInv'
    <2>1. PICK t : /\ IsSet(2) /\ Finish(2, t)
                   /\ t = AddAll(Start(2), Interval(r[1], r[2]))
      BY <1>5 DEF IsetAddRange
    <2> QED
      BY <1>4, <2>1, LoopKeeps
  <1>6. ASSUME NEW r \in Removed, IsetRemoveRange(1, r[1], r[2])
        PROVE  IInv'
    <2>1. PICK t : /\ IsSet(1) /\ Finish(1, t)
                   /\ t = RemoveAll(Start(1), Interval(r[1], r[2]))
      BY <1>6 DEF IsetRemoveRange
    <2> QED
      BY <1>4, <2>1, LoopKeeps
  <1>7. CASE IsetUnion(1, 2) \/ IsetDiff(1, 2)
    <2>1. PICK t : /\ IsSet(1) /\ IsSet(2) /\ Finish(1, t)
                   /\ \/ t = AddAll(Start(1), InOrder(isets[2], heap))
                      \/ t = RemoveAll(Start(1), InOrder(isets[2], heap))
      BY <1>7 DEF IsetUnion, IsetDiff
    <2>2. InOrder(isets[2], heap) \in Seq(Int)
      BY <2>1, InOrderIsSequence
    <2> QED
      BY <2>1, <2>2, LoopKeeps
  <1>8. CASE IsetIsect(1, 2)
    BY <1>8, IsectKeeps
  <1>9. CASE IsetCopy(1, 2) \/ IsetCopyFails(1, 2)
    BY <1>9, CopyKeeps
  <1> QED
    BY <1>1, <1>2, <1>3, <1>5, <1>6, <1>7, <1>8, <1>9 DEF Next

\* The invariant says what the sequences of ranges are to be.
LEMMA OwnedAreSound ==
    ASSUME NULL \notin Nat, IInv
    PROVE  ListsAreSound
  <1>1. PICK R \in [{1, 2} -> SUBSET Nat] : Owns(R, isets, heap)
    BY DEF IInv, AreOwned
  <1>2. IsHeap(heap) /\ R[1] \cap R[2] = {}
    BY <1>1 DEF IInv, Owns
  <1>3. ASSUME NEW i \in {1, 2}, isets[i] # NULL, NEW list, list = List(isets[i], heap)
        PROVE  /\ Range(list) = R[i]
               /\ \A k \in DOMAIN list :
                    /\ heap[list[k]].start <= heap[list[k]].end
                    /\ heap[list[k]].prev = IF k = 1 THEN NULL ELSE list[k - 1]
                    /\ k > 1 => heap[list[k - 1]].end + 1 < heap[list[k]].start
    <2>1. Chain(R[i], isets[i].lowest, heap, NULL)
      BY <1>1, <1>3 DEF Owns
    <2>2. Along(list, R[i], isets[i].lowest, heap)
      BY <1>2, <1>3, <2>1, ListGoesAlong
    <2>3. Range(list) = R[i]
      BY <1>2, <1>3, <2>1, RangeOfList
    <2>4. /\ DOMAIN list = 1..Len(list) /\ Len(list) \in Nat
          /\ \A k \in 1..Len(list) : list[k] \in R[i]
          /\ \A j, k \in 1..Len(list) : j < k => Below(heap, list[j], list[k])
          /\ \A k \in 1..Len(list) :
                heap[list[k]].prev = IF k = 1 THEN NULL ELSE list[k - 1]
      BY <2>2 DEF Along
    <2>5. /\ \A a \in R[i] : heap[a].start <= heap[a].end /\ a # NULL
          /\ \A a, b \in R[i] : Below(heap, a, b) /\ a # NULL
                                    => heap[a].end + 1 < heap[b].start
      BY <1>2, <2>1 DEF Chain, Apart, IsHeap
    <2>6. ASSUME NEW k \in 1..Len(list), k > 1
          PROVE  heap[list[k - 1]].end + 1 < heap[list[k]].start
      <3>1. k - 1 \in 1..Len(list) /\ k - 1 < k
        BY <2>4, <2>6
      <3> QED
        BY <2>4, <2>5, <3>1
    <2> QED
      BY <2>3, <2>4, <2>5, <2>6
  <1>4. ASSUME isets[1] # NULL, isets[2] # NULL
        PROVE  Range(List(isets[1], heap)) \cap Range(List(isets[2], heap)) = {}
    BY <1>2, <1>3, <1>4
  <1> QED
    BY <1>3, <1>4 DEF ListsAreSound

\* The ranges of a set of integers (iset/) stay in order, with a gap between any two
\* of them and linked both ways, and two sets never share a range, whatever numbers
\* there are and however much memory: whichever ranges are made, grown, joined,
\* shrunk, split and freed, also when highest does not point at the last range any
\* more, when memory runs out in the middle of a call, and when iset_copy gets lost.
THEOREM ListsStaySound ==
    ASSUME NULL \notin Nat, MaxBlocks \in Nat, Numbers \subseteq Int, IsFiniteSet(Numbers),
           AreRanges
    PROVE  Spec => []ListsAreSound
  <1>1. Init => IInv
    BY NothingIsOwned DEF Init, IInv
  <1>2. IInv /\ [Next]_vars => IInv'
    BY NextKeeps
  <1>3. IInv => ListsAreSound
    BY OwnedAreSound
  <1> QED
    BY <1>1, <1>2, <1>3, PTL DEF Spec

-----------------------------------------------------------------------------
\* The numbers in the sets.

\* The numbers that a list is about
Known(R, h) == {m \in Numbers : Holds(R, h, m)}

\* They are the numbers in the set.
LEMMA KnownAreIn ==
    ASSUME NULL \notin Nat, Numbers \subseteq Int, IsHeap(heap), NEW R, NEW j \in {1, 2},
           isets[j] # NULL, Chain(R, isets[j].lowest, heap, NULL)
    PROVE  NumbersIn(j) = Known(R, heap)
  <1>1. \A m \in Numbers : HasNumber(isets[j], heap, m) <=> Holds(R, heap, m)
    BY HasNumberTells
  <1> QED
    BY <1>1 DEF NumbersIn, Known

\* The same after a step
LEMMA KnownAreInNext ==
    ASSUME NULL \notin Nat, Numbers \subseteq Int, NEW R, NEW j \in {1, 2},
           NEW sets, isets' = sets, NEW h, heap' = h, IsHeap(h),
           sets[j] # NULL, Chain(R, sets[j].lowest, h, NULL)
    PROVE  NumbersIn(j)' = Known(R, h)
  <1>1. \A m \in Numbers : HasNumber(sets[j], h, m) <=> Holds(R, h, m)
    BY HasNumberTells
  <1>2. NumbersIn(j)' = {m \in Numbers : HasNumber(sets[j], h, m)}
    BY DEF NumbersIn
  <1> QED
    BY <1>1, <1>2 DEF Known

\* The set j has the same numbers before and after a step that leaves its ranges
\* alone.
LEMMA OthersAreIn ==
    ASSUME NULL \notin Nat, Numbers \subseteq Int, IInv,
           NEW R \in [{1, 2} -> SUBSET Nat], Owns(R, isets, heap), NEW j \in {1, 2},
           NEW h, heap' = h, IsHeap(h),
           \A a \in R[j] : a \in DOMAIN h /\ h[a] = heap[a],
           NEW sets, isets' = sets, sets[j] = isets[j]
    PROVE  NumbersIn(j)' = NumbersIn(j)
  <1>1. CASE isets[j] = NULL
    BY <1>1 DEF NumbersIn
  <1>2. CASE isets[j] # NULL
    <2>1. Chain(R[j], isets[j].lowest, heap, NULL) /\ R[j] \subseteq DOMAIN heap
      BY <1>2 DEF Owns
    <2>2. R[j] \subseteq DOMAIN h
      OBVIOUS
    <2>3. Chain(R[j], sets[j].lowest, h, NULL)
      BY <2>1, <2>2, SameChain
    <2>4. NumbersIn(j) = Known(R[j], heap)
      BY <1>2, <2>1, KnownAreIn DEF IInv
    <2>5. NumbersIn(j)' = Known(R[j], h)
      BY <1>2, <2>3, KnownAreInNext
    <2>6. \A a \in R[j] : h[a].start = heap[a].start /\ h[a].end = heap[a].end
      OBVIOUS
    <2>7. Known(R[j], h) = Known(R[j], heap)
      BY <2>6 DEF Known, Holds
    <2> QED
      BY <2>4, <2>5, <2>7
  <1> QED
    BY <1>1, <1>2

\* What is known when a call on the set i has changed its list R[i] to A: which numbers
\* are in it before and after the call, and that the other set has kept its own.
Told(i, R, t, A) ==
    /\ NumbersIn(i) = Known(R[i], heap)
    /\ NumbersIn(i)' = Known(A, t.heap)
    /\ \A j \in {1, 2} \ {i} : NumbersIn(j)' = NumbersIn(j)
    /\ ret' = t.ret

LEMMA FinishTells ==
    ASSUME NULL \notin Nat, NULL \notin [lowest : Ptr, highest : Ptr],
           MaxBlocks \in Nat, Numbers \subseteq Int, IInv,
           NEW i \in {1, 2}, IsSet(i), NEW t, Finish(i, t), ~t.stopped,
           NEW R \in [{1, 2} -> SUBSET Nat], Owns(R, isets, heap),
           NEW A, Changed(Start(i), R[i], t, A)
    PROVE  Told(i, R, t, A)
  <1>1. PICK h, sets : h = t.heap /\ sets = [isets EXCEPT ![i] = t.is]
    OBVIOUS
  <1>2. isets' = sets /\ heap' = h /\ ret' = t.ret
    BY <1>1 DEF Finish
  <1>3. /\ IsWork(t) /\ Chain(A, t.is.lowest, h, NULL)
        /\ \A a \in DOMAIN heap \ R[i] : a \in DOMAIN h /\ h[a] = heap[a]
    BY <1>1, StartIsWork DEF Changed
  <1>4. IsHeap(h) /\ t.is \in [lowest : Ptr, highest : Ptr]
    BY <1>1, <1>3 DEF IsWork
  <1>5. isets \in [{1, 2} -> [lowest : Ptr, highest : Ptr] \cup {NULL}] /\ IsHeap(heap)
    BY DEF IInv
  <1>6. sets[i] = t.is /\ \A j \in {1, 2} \ {i} : sets[j] = isets[j]
    BY <1>1, <1>5
  <1>7. isets[i] # NULL /\ Chain(R[i], isets[i].lowest, heap, NULL)
    BY DEF IsSet, Owns
  <1>8. NumbersIn(i) = Known(R[i], heap)
    BY <1>5, <1>7, KnownAreIn
  <1>9. sets[i] # NULL /\ Chain(A, sets[i].lowest, h, NULL)
    BY <1>3, <1>4, <1>6
  <1>10. NumbersIn(i)' = Known(A, h)
    BY <1>2, <1>4, <1>9, KnownAreInNext
  <1>11. ASSUME NEW j \in {1, 2} \ {i} PROVE NumbersIn(j)' = NumbersIn(j)
    <2>1. R[j] \cap R[i] = {} /\ R[j] \subseteq DOMAIN heap
      BY <1>11 DEF Owns
    <2>2. \A a \in R[j] : a \in DOMAIN h /\ h[a] = heap[a]
      BY <1>3, <2>1
    <2>3. sets[j] = isets[j]
      BY <1>6
    <2> QED
      BY <1>2, <1>4, <2>2, <2>3, OthersAreIn
  <1> QED
    BY <1>1, <1>2, <1>8, <1>10, <1>11 DEF Told

\* In a set that is not stale highest points at the last range.
LEMMA FreshEnds ==
    ASSUME NULL \notin Nat, IInv, NEW i \in {1, 2}, isets[i] # NULL, ~Stale(i),
           NEW R, Chain(R, isets[i].lowest, heap, NULL)
    PROVE  Ends(R, heap, isets[i].highest)
  <1>1. PICK low, high : low = isets[i].lowest /\ high = isets[i].highest
    OBVIOUS
  <1>2. Chain(R, low, heap, NULL) /\ IsHeap(heap)
    BY <1>1 DEF IInv
  <1>3. /\ \A a \in R : a # NULL /\ heap[a].start \in Int
        /\ low = NULL => R = {}
    BY <1>2 DEF Chain, Begins, IsHeap, Block
  <1>4. CASE low = NULL
    <2>1. high = NULL
      BY <1>1, <1>4 DEF IInv, AreTidy, Tidy
    <2> QED
      BY <1>1, <1>3, <1>4, <2>1 DEF Ends
  <1>5. CASE low # NULL
    <2>1. PICK l : l = List(isets[i], heap)
      OBVIOUS
    <2>2. high = Last(l)
      BY <1>1, <1>5, <2>1 DEF Stale
    <2>3. Along(l, R, low, heap)
      BY <1>1, <1>2, <2>1, ListGoesAlong
    <2>4. PICK n \in Nat : n = Len(l) /\ n # 0
      BY <1>5, <2>3 DEF Along
    <2>5. /\ high = l[n] /\ l \in Seq(R)
          /\ \A a \in R : \E k \in 1..n : l[k] = a
          /\ \A j, k \in 1..n : j < k => Below(heap, l[j], l[k])
      BY <2>2, <2>3, <2>4 DEF Along, Last
    <2>6. n \in 1..n /\ high \in R
      BY <2>4, <2>5
    <2>7. ASSUME NEW b \in R PROVE ~Below(heap, high, b)
      <3>1. PICK k \in 1..n : l[k] = b
        BY <2>5
      <3>2. CASE k = n
        BY <1>3, <2>5, <2>6, <3>1, <3>2 DEF Below
      <3>3. CASE k # n
        <4>1. Below(heap, b, high)
          BY <2>5, <2>6, <3>1, <3>3
        <4> QED
          BY <1>3, <2>6, <4>1 DEF Below
      <3> QED
        BY <3>2, <3>3
    <2> QED
      BY <1>1, <1>3, <2>6, <2>7 DEF Ends
  <1> QED
    BY <1>4, <1>5

\* One number is added.
LEMMA AddTells ==
    ASSUME NULL \notin Nat, NULL \notin [lowest : Ptr, highest : Ptr],
           MaxBlocks \in Nat, Numbers \subseteq Int, IInv, ~stopped',
           NEW i \in {1, 2}, NEW n \in Numbers, IsetAdd(i, n)
    PROVE  OthersStay(i) /\ (~Stale(i) => PutsIn(NumbersIn(i), NumbersIn(i)', {n}))
  <1>1. PICK s, t : s = Start(i) /\ t = AddNumber(s, n)
    OBVIOUS
  <1>2. IsSet(i) /\ Finish(i, t)
    BY <1>1 DEF IsetAdd
  <1>3. ~t.stopped
    BY <1>2 DEF Finish
  <1>4. PICK R \in [{1, 2} -> SUBSET Nat] : Owns(R, isets, heap)
    BY DEF IInv, AreOwned
  <1>5. isets[i] # NULL /\ Chain(R[i], isets[i].lowest, heap, NULL)
    BY <1>2, <1>4 DEF IsSet, Owns
  <1>6. /\ IsWork(s) /\ Goes(s) /\ s.is = isets[i] /\ s.heap = heap
        /\ Chain(R[i], s.is.lowest, s.heap, NULL)
    BY <1>1, <1>2, <1>5, StartIsWork
  <1>7. n \in Int
    OBVIOUS
  <1>8. PICK A : Changed(s, R[i], t, A) /\ Adds(s, R[i], t, A, n)
    BY <1>1, <1>6, <1>7, AddIsChanged
  <1>9. Told(i, R, t, A)
    BY <1>1, <1>2, <1>3, <1>4, <1>8, FinishTells
  <1>10. ASSUME ~Stale(i) PROVE PutsIn(NumbersIn(i), NumbersIn(i)', {n})
    <2>1. Ends(R[i], heap, isets[i].highest)
      BY <1>5, <1>10, FreshEnds
    <2>2. \A m \in Int : Holds(A, t.heap, m) <=> Holds(R[i], heap, m) \/ (m = n /\ t.ret = 0)
      BY <1>3, <1>6, <1>8, <2>1 DEF Adds
    <2>3. CASE t.ret = 0
      <3>1. Known(A, t.heap) = Known(R[i], heap) \cup {n}
        BY <2>2, <2>3 DEF Known
      <3> QED
        BY <1>9, <2>3, <3>1 DEF Told, PutsIn
    <2>4. CASE t.ret # 0
      <3>1. Known(A, t.heap) = Known(R[i], heap)
        BY <2>2, <2>4 DEF Known
      <3> QED
        BY <1>9, <2>4, <3>1 DEF Told, PutsIn
    <2> QED
      BY <2>3, <2>4
  <1> QED
    BY <1>9, <1>10 DEF Told, OthersStay

\* One number is removed.
LEMMA RemoveTells ==
    ASSUME NULL \notin Nat, NULL \notin [lowest : Ptr, highest : Ptr],
           MaxBlocks \in Nat, Numbers \subseteq Int, IInv, ~stopped',
           NEW i \in {1, 2}, NEW n \in Numbers, IsetRemove(i, n)
    PROVE  OthersStay(i) /\ TakesOut(NumbersIn(i), NumbersIn(i)', {n})
  <1>1. PICK s, t : s = Start(i) /\ t = RemoveNumber(s, n)
    OBVIOUS
  <1>2. IsSet(i) /\ Finish(i, t)
    BY <1>1 DEF IsetRemove
  <1>3. ~t.stopped
    BY <1>2 DEF Finish
  <1>4. PICK R \in [{1, 2} -> SUBSET Nat] : Owns(R, isets, heap)
    BY DEF IInv, AreOwned
  <1>5. isets[i] # NULL /\ Chain(R[i], isets[i].lowest, heap, NULL)
    BY <1>2, <1>4 DEF IsSet, Owns
  <1>6. /\ IsWork(s) /\ Goes(s) /\ s.is = isets[i] /\ s.heap = heap
        /\ Chain(R[i], s.is.lowest, s.heap, NULL)
    BY <1>1, <1>2, <1>5, StartIsWork
  <1>7. n \in Int
    OBVIOUS
  <1>8. PICK A : Changed(s, R[i], t, A) /\ Takes(s, R[i], t, A, n)
    BY <1>1, <1>6, <1>7, RemoveIsChanged
  <1>9. Told(i, R, t, A)
    BY <1>1, <1>2, <1>3, <1>4, <1>8, FinishTells
  <1>10. \A m \in Int : Holds(A, t.heap, m) <=> Holds(R[i], heap, m) /\ (m # n \/ t.ret # 0)
    BY <1>6, <1>8 DEF Takes
  <1>11. CASE t.ret = 0
    <2>1. Known(A, t.heap) = Known(R[i], heap) \ {n}
      BY <1>10, <1>11 DEF Known
    <2> QED
      BY <1>9, <1>11, <2>1 DEF Told, TakesOut, OthersStay
  <1>12. CASE t.ret # 0
    <2>1. Known(A, t.heap) = Known(R[i], heap)
      BY <1>10, <1>12 DEF Known
    <2> QED
      BY <1>9, <1>12, <2>1 DEF Told, TakesOut, OthersStay
  <1> QED
    BY <1>11, <1>12

\* A sequence of numbers, which are those of the set P, is added.
LEMMA AddAllTells ==
    ASSUME NULL \notin Nat, NULL \notin [lowest : Ptr, highest : Ptr],
           MaxBlocks \in Nat, Numbers \subseteq Int, IInv, ~stopped',
           NEW i \in {1, 2}, NEW numbers, NEW P, Lists(numbers, P), IsSet(i),
           Finish(i, AddAll(Start(i), numbers))
    PROVE  /\ OthersStay(i)
           /\ ~Stale(i) => PutsIn(NumbersIn(i), NumbersIn(i)', P \cap Numbers)
  <1>1. PICK s, t : s = Start(i) /\ t = AddAll(s, numbers)
    OBVIOUS
  <1>2. Finish(i, t)
    BY <1>1
  <1>3. ~t.stopped
    BY <1>2 DEF Finish
  <1>4. PICK R \in [{1, 2} -> SUBSET Nat] : Owns(R, isets, heap)
    BY DEF IInv, AreOwned
  <1>5. isets[i] # NULL /\ Chain(R[i], isets[i].lowest, heap, NULL)
    BY <1>4 DEF IsSet, Owns
  <1>6. /\ IsWork(s) /\ Goes(s) /\ s.is = isets[i] /\ s.heap = heap
        /\ Chain(R[i], s.is.lowest, s.heap, NULL)
    BY <1>1, <1>5, StartIsWork
  <1>7. PICK set : set = FirstOf(numbers, Len(numbers))
    OBVIOUS
  <1>8. numbers \in Seq(Int) /\ \A m \in Int : m \in P <=> m \in set
    BY <1>7 DEF Lists, FirstOf
  <1>9. DoneTo(TRUE, s, R[i], t, set)
    BY <1>1, <1>6, <1>7, <1>8, AddAllDoes
  <1>10. PICK A : Changed(s, R[i], t, A) /\ AddsAll(s, R[i], t, A, set)
    BY <1>9 DEF DoneTo, Did
  <1>11. Told(i, R, t, A)
    BY <1>1, <1>2, <1>3, <1>4, <1>10, FinishTells
  <1>12. ASSUME ~Stale(i) PROVE PutsIn(NumbersIn(i), NumbersIn(i)', P \cap Numbers)
    <2>1. Ends(R[i], heap, isets[i].highest)
      BY <1>5, <1>12, FreshEnds
    <2>2. /\ \A m \in Int : Holds(R[i], heap, m) => Holds(A, t.heap, m)
          /\ \A m \in Int : Holds(A, t.heap, m) => Holds(R[i], heap, m) \/ m \in P
          /\ t.ret = 0 => \A m \in Int : m \in P => Holds(A, t.heap, m)
      BY <1>3, <1>6, <1>8, <1>10, <2>1 DEF AddsAll
    <2>3. /\ Known(R[i], heap) \subseteq Known(A, t.heap)
          /\ Known(A, t.heap) \subseteq Known(R[i], heap) \cup (P \cap Numbers)
      BY <2>2 DEF Known
    <2>4. t.ret = 0 => P \cap Numbers \subseteq Known(A, t.heap)
      BY <2>2 DEF Known
    <2> QED
      BY <1>11, <2>3, <2>4 DEF Told, PutsIn
  <1> QED
    BY <1>11, <1>12 DEF Told, OthersStay

\* It is removed.
LEMMA RemoveAllTells ==
    ASSUME NULL \notin Nat, NULL \notin [lowest : Ptr, highest : Ptr],
           MaxBlocks \in Nat, Numbers \subseteq Int, IInv, ~stopped',
           NEW i \in {1, 2}, NEW numbers, NEW P, Lists(numbers, P), IsSet(i),
           Finish(i, RemoveAll(Start(i), numbers))
    PROVE  OthersStay(i) /\ TakesOut(NumbersIn(i), NumbersIn(i)', P \cap Numbers)
  <1>1. PICK s, t : s = Start(i) /\ t = RemoveAll(s, numbers)
    OBVIOUS
  <1>2. Finish(i, t)
    BY <1>1
  <1>3. ~t.stopped
    BY <1>2 DEF Finish
  <1>4. PICK R \in [{1, 2} -> SUBSET Nat] : Owns(R, isets, heap)
    BY DEF IInv, AreOwned
  <1>5. isets[i] # NULL /\ Chain(R[i], isets[i].lowest, heap, NULL)
    BY <1>4 DEF IsSet, Owns
  <1>6. /\ IsWork(s) /\ Goes(s) /\ s.is = isets[i] /\ s.heap = heap
        /\ Chain(R[i], s.is.lowest, s.heap, NULL)
    BY <1>1, <1>5, StartIsWork
  <1>7. PICK set : set = FirstOf(numbers, Len(numbers))
    OBVIOUS
  <1>8. numbers \in Seq(Int) /\ \A m \in Int : m \in P <=> m \in set
    BY <1>7 DEF Lists, FirstOf
  <1>9. DoneTo(FALSE, s, R[i], t, set)
    BY <1>1, <1>6, <1>7, <1>8, RemoveAllDoes
  <1>10. PICK A : Changed(s, R[i], t, A) /\ TakesAll(s, R[i], t, A, set)
    BY <1>9 DEF DoneTo, Did
  <1>11. Told(i, R, t, A)
    BY <1>1, <1>2, <1>3, <1>4, <1>10, FinishTells
  <1>12. /\ \A m \in Int : Holds(A, t.heap, m) => Holds(R[i], heap, m)
         /\ \A m \in Int : m \notin P /\ Holds(R[i], heap, m) => Holds(A, t.heap, m)
         /\ t.ret = 0 => \A m \in Int : m \in P => ~Holds(A, t.heap, m)
    BY <1>6, <1>8, <1>10 DEF TakesAll
  <1>13. /\ Known(A, t.heap) \subseteq Known(R[i], heap)
         /\ Known(R[i], heap) \ (P \cap Numbers) \subseteq Known(A, t.heap)
    BY <1>12 DEF Known
  <1>14. t.ret = 0 => P \cap Numbers \cap Known(A, t.heap) = {}
    BY <1>12 DEF Known
  <1>15. TakesOut(NumbersIn(i), NumbersIn(i)', P \cap Numbers)
    BY <1>11, <1>13, <1>14 DEF Told, TakesOut
  <1> QED
    BY <1>11, <1>15 DEF Told, OthersStay

\* Only numbers that are not in the other set may go in an intersection.
LEMMA IsectTells ==
    ASSUME NULL \notin Nat, NULL \notin [lowest : Ptr, highest : Ptr],
           MaxBlocks \in Nat, Numbers \subseteq Int, IsFiniteSet(Numbers), IInv, ~stopped',
           NEW i \in {1, 2}, NEW j \in {1, 2}, IsetIsect(i, j)
    PROVE  /\ OthersStay(i)
           /\ NumbersIn(i) \cap NumbersIn(j) \subseteq NumbersIn(i)'
           /\ NumbersIn(i)' \subseteq NumbersIn(i)
  <1>1. PICK others : others = {n \in Numbers : HasNumber(isets[j], heap, n)}
    OBVIOUS
  <1>2. PICK s, t : s = Start(i) /\ t = Isect(s, others)
    OBVIOUS
  <1>3. IsSet(i) /\ IsSet(j) /\ Finish(i, t)
    BY <1>1, <1>2 DEF IsetIsect
  <1>4. ~t.stopped
    BY <1>3 DEF Finish
  <1>5. PICK R \in [{1, 2} -> SUBSET Nat] : Owns(R, isets, heap)
    BY DEF IInv, AreOwned
  <1>6. isets[i] # NULL /\ Chain(R[i], isets[i].lowest, heap, NULL)
    BY <1>3, <1>5 DEF IsSet, Owns
  <1>7. IsWork(s) /\ s.heap = heap /\ Chain(R[i], s.is.lowest, s.heap, NULL)
    BY <1>2, <1>3, <1>6, StartIsWork
  <1>8. PICK A : Changed(s, R[i], t, A) /\ Leaves(s, R[i], t, A, others)
    BY <1>2, <1>7, IsectLeaves
  <1>9. Told(i, R, t, A)
    BY <1>2, <1>3, <1>4, <1>5, <1>8, FinishTells
  <1>10. NumbersIn(j) = others
    BY <1>1, <1>3 DEF NumbersIn, IsSet
  <1>11. /\ \A m \in Int : Holds(A, t.heap, m) => Holds(R[i], heap, m)
         /\ \A m \in Int : m \in others /\ Holds(R[i], heap, m) => Holds(A, t.heap, m)
    BY <1>7, <1>8 DEF Leaves
  <1>12. /\ Known(A, t.heap) \subseteq Known(R[i], heap)
         /\ Known(R[i], heap) \cap others \subseteq Known(A, t.heap)
    BY <1>11 DEF Known
  <1> QED
    BY <1>9, <1>10, <1>12 DEF Told, OthersStay

\* A set is emptied or destroyed.
LEMMA ClearTells ==
    ASSUME NULL \notin Nat, NULL \notin [lowest : Ptr, highest : Ptr],
           MaxBlocks \in Nat, Numbers \subseteq Int, IInv,
           NEW i \in {1, 2}, IsetClear(i) \/ IsetDestroy(i)
    PROVE  OthersStay(i) /\ NumbersIn(i)' = {}
  <1>1. PICK s, t, u : s = Start(i) /\ t = Emptied(s) /\ u = [t EXCEPT !.is = NULL]
    OBVIOUS
  <1>2. IsSet(i) /\ (Finish(i, t) \/ Finish(i, u))
    BY <1>1 DEF IsetClear, IsetDestroy
  <1>3. PICK R \in [{1, 2} -> SUBSET Nat] : Owns(R, isets, heap)
    BY DEF IInv, AreOwned
  <1>4. Chain(R[i], isets[i].lowest, heap, NULL)
    BY <1>2, <1>3 DEF IsSet, Owns
  <1>5. IsWork(s) /\ Goes(s) /\ s.heap = heap /\ Chain(R[i], s.is.lowest, s.heap, NULL)
    BY <1>1, <1>2, <1>4, StartIsWork
  <1>6. Changed(s, R[i], t, {}) /\ t.stopped = s.stopped
    BY <1>1, <1>5, EmptiedIsChanged
  <1>7. ~t.stopped
    BY <1>5, <1>6 DEF Goes
  <1>8. CASE Finish(i, t)
    <2>1. Told(i, R, t, {})
      BY <1>1, <1>2, <1>3, <1>6, <1>7, <1>8, FinishTells
    <2>2. Known({}, t.heap) = {}
      BY DEF Known, Holds
    <2> QED
      BY <2>1, <2>2 DEF Told, OthersStay
  <1>9. CASE Finish(i, u)
    <2>1. IsWork(t)
      BY <1>6 DEF Changed
    <2>2. PICK h, sets : h = t.heap /\ sets = [isets EXCEPT ![i] = NULL]
      OBVIOUS
    <2>3. u.is = NULL /\ u.heap = h /\ ~u.stopped
      <3>1. PICK is, rt, k : is = t.is /\ rt = t.ret /\ k = t.left
        OBVIOUS
      <3>2. t = [is |-> is, heap |-> h, ret |-> rt, stopped |-> FALSE, left |-> k]
        BY <1>7, <2>1, <2>2, <3>1 DEF IsWork
      <3>3. u = [t EXCEPT !.is = NULL]
        BY <1>1
      <3>4. u = [is |-> NULL, heap |-> h, ret |-> rt, stopped |-> FALSE, left |-> k]
        BY <3>2, <3>3
      <3> QED
        BY <3>4
    <2>4. isets' = sets /\ heap' = h
      BY <1>9, <2>2, <2>3 DEF Finish
    <2>5. isets \in [{1, 2} -> [lowest : Ptr, highest : Ptr] \cup {NULL}]
      BY DEF IInv
    <2>6. NumbersIn(i)' = {}
      BY <2>2, <2>4, <2>5 DEF NumbersIn
    <2>7. IsHeap(h) /\ \A a \in DOMAIN heap \ R[i] : a \in DOMAIN h /\ h[a] = heap[a]
      BY <1>5, <1>6, <2>1, <2>2 DEF Changed, IsWork
    <2>8. ASSUME NEW j \in {1, 2} \ {i} PROVE NumbersIn(j)' = NumbersIn(j)
      <3>1. R[j] \cap R[i] = {} /\ R[j] \subseteq DOMAIN heap
        BY <1>3, <2>8 DEF Owns
      <3>2. \A a \in R[j] : a \in DOMAIN h /\ h[a] = heap[a]
        BY <2>7, <3>1
      <3>3. sets[j] = isets[j]
        BY <2>2, <2>5
      <3> QED
        BY <1>3, <2>4, <2>7, <3>2, <3>3, OthersAreIn
    <2> QED
      BY <2>6, <2>8 DEF OthersStay
  <1> QED
    BY <1>2, <1>8, <1>9

\* A set is made.
LEMMA CreateTells ==
    ASSUME NULL \notin Nat, NULL \notin [lowest : Ptr, highest : Ptr],
           Numbers \subseteq Int, IInv, NEW i \in {1, 2}, IsetCreate(i)
    PROVE  OthersStay(i) /\ NumbersIn(i)' = {}
  <1>1. PICK R \in [{1, 2} -> SUBSET Nat] : Owns(R, isets, heap)
    BY DEF IInv, AreOwned
  <1>2. PICK sets : sets = isets' /\ \A j \in {1, 2} \ {i} : sets[j] = isets[j]
    BY DEF IsetCreate, IInv
  <1>3. heap' = heap /\ IsHeap(heap)
    BY DEF IsetCreate, IInv
  <1>4. ASSUME NEW j \in {1, 2} \ {i} PROVE NumbersIn(j)' = NumbersIn(j)
    <2>1. \A a \in R[j] : a \in DOMAIN heap /\ heap[a] = heap[a]
      BY <1>1 DEF Owns
    <2> QED
      BY <1>1, <1>2, <1>3, <2>1, OthersAreIn
  <1>5. NumbersIn(i)' = {}
    <2>1. PICK new : new = [lowest |-> NULL, highest |-> NULL]
      OBVIOUS
    <2>2. sets[i] = new /\ new.lowest = NULL
      BY <1>2, <2>1 DEF IsetCreate, IInv
    <2>3. new # NULL
      BY <2>1 DEF Ptr
    <2>4. Chain({}, sets[i].lowest, heap, NULL)
      BY <2>2 DEF Chain, Apart, Begins
    <2>5. NumbersIn(i)' = Known({}, heap)
      BY <1>2, <1>3, <2>2, <2>3, <2>4, KnownAreInNext
    <2> QED
      BY <2>5 DEF Known, Holds
  <1> QED
    BY <1>4, <1>5 DEF OthersStay

\* A set is copied.
LEMMA CopyTells ==
    ASSUME NULL \notin Nat, MaxBlocks \in Nat, Numbers \subseteq Int, IInv,
           NEW i \in {1, 2}, NEW j \in {1, 2}, IsetCopy(i, j) \/ IsetCopyFails(i, j)
    PROVE  OthersStay(j)
  <1>1. IsSet(i) /\ isets[j] = NULL /\ i # j
    BY DEF IsetCopy, IsetCopyFails, IsSet
  <1>2. PICK R \in [{1, 2} -> SUBSET Nat] : Owns(R, isets, heap)
    BY DEF IInv, AreOwned
  <1>3. /\ Chain(R[i], isets[i].lowest, heap, NULL)
        /\ IsHeap(heap) /\ Cardinality(DOMAIN heap) <= MaxBlocks
        /\ isets \in [{1, 2} -> [lowest : Ptr, highest : Ptr] \cup {NULL}]
    BY <1>1, <1>2 DEF Owns, IsSet, IInv
  <1>4. PICK list : list = List(isets[i], heap)
    OBVIOUS
  <1>5. /\ Len(list) \in Nat /\ DOMAIN list = 1..Len(list)
        /\ \A k \in DOMAIN list : list[k] \in R[i]
    <2>1. Along(list, R[i], isets[i].lowest, heap)
      BY <1>3, <1>4, ListGoesAlong
    <2> QED
      BY <2>1 DEF Along
  <1>6. PICK size \in Nat : size = Cardinality(DOMAIN heap) /\ size <= MaxBlocks
    BY <1>3, FS_CardinalityType DEF IsHeap
  <1>7. Room = MaxBlocks - size /\ Room \in Nat
    BY <1>6 DEF Room
  <1>8. PICK n, m : /\ n = IF IsetCopy(i, j) THEN Len(list) ELSE Room
                    /\ m = Copied(list, n)
    OBVIOUS
  <1>9. n \in Nat /\ 1..n \subseteq DOMAIN list
    BY <1>4, <1>5, <1>7, <1>8 DEF IsetCopy, IsetCopyFails
  <1>10. Copies(heap, heap[list[1]], n, m)
    BY <1>3, <1>5, <1>8, <1>9, CopiedAre
  <1>11. PICK g, first : g = m.heap /\ first = m.first
    OBVIOUS
  <1>12. IsHeap(g) /\ \A a \in DOMAIN heap : a \in DOMAIN g /\ g[a] = heap[a]
    BY <1>10, <1>11 DEF Copies, IsCopy
  <1>13. first \notin DOMAIN heap
    <2>1. CASE n = 0
      <3>1. first = NULL
        BY <1>10, <1>11, <2>1 DEF Copies, NoCopy
      <3> QED
        BY <1>3, <3>1 DEF IsHeap
    <2>2. CASE n # 0
      BY <1>9, <1>10, <1>11, <2>2 DEF Copies
    <2> QED
      BY <2>1, <2>2
  <1>14. heap' = g \/ heap' = Freed(g, first)
    BY <1>4, <1>8, <1>11 DEF IsetCopy, IsetCopyFails
  <1>15. HasLost(Freed(g, first), g, first)
    BY <1>12, <1>11, FreedIs
  <1>16. PICK h : /\ heap' = h /\ IsHeap(h)
                  /\ \A a \in DOMAIN heap : a \in DOMAIN h /\ h[a] = heap[a]
    BY <1>12, <1>13, <1>14, <1>15 DEF HasLost
  <1>17. PICK sets : sets = isets' /\ \A k \in {1, 2} \ {j} : sets[k] = isets[k]
    BY <1>3 DEF IsetCopy, IsetCopyFails
  <1>18. ASSUME NEW k \in {1, 2} \ {j} PROVE NumbersIn(k)' = NumbersIn(k)
    <2>1. \A a \in R[k] : a \in DOMAIN h /\ h[a] = heap[a]
      BY <1>2, <1>16 DEF Owns
    <2> QED
      BY <1>2, <1>16, <1>17, <2>1, OthersAreIn
  <1> QED
    BY <1>18 DEF OthersStay

\* A copy has the numbers of the first range, if there is one.
LEMMA CopyHasTheFirst ==
    ASSUME NULL \notin Nat, NULL \notin [lowest : Ptr, highest : Ptr],
           MaxBlocks \in Nat, Numbers \subseteq Int, IInv,
           NEW i \in {1, 2}, NEW j \in {1, 2}, IsetCopy(i, j)
    PROVE  IF Len(List(isets[i], heap)) <= 1 THEN NumbersIn(j)' = NumbersIn(i)
           ELSE NumbersIn(j)' \subseteq NumbersIn(i)
  <1>1. IsSet(i) /\ isets[j] = NULL /\ i # j /\ isets[i] # NULL
    BY DEF IsetCopy, IsSet
  <1>2. PICK R \in [{1, 2} -> SUBSET Nat] : Owns(R, isets, heap)
    BY DEF IInv, AreOwned
  <1>3. /\ Chain(R[i], isets[i].lowest, heap, NULL) /\ IsHeap(heap)
        /\ isets \in [{1, 2} -> [lowest : Ptr, highest : Ptr] \cup {NULL}]
    BY <1>1, <1>2 DEF Owns, IsSet, IInv
  <1>4. PICK list, n : list = List(isets[i], heap) /\ n = Len(list)
    OBVIOUS
  <1>5. /\ n \in Nat /\ DOMAIN list = 1..n
        /\ \A k \in 1..n : list[k] \in R[i]
        /\ \A a \in R[i] : \E k \in 1..n : list[k] = a
    <2>1. Along(list, R[i], isets[i].lowest, heap)
      BY <1>3, <1>4, ListGoesAlong
    <2>2. /\ Len(list) \in Nat /\ DOMAIN list = 1..Len(list)
          /\ \A k \in DOMAIN list : list[k] \in R[i]
      BY <2>1 DEF Along
    <2>3. \A a \in R[i] : \E k \in 1..Len(list) : list[k] = a
      BY <2>1 DEF Along
    <2> QED
      BY <1>4, <2>2, <2>3
  <1>6. PICK m : m = Copied(list, n)
    OBVIOUS
  <1>7. PICK b : b = heap[list[1]]
    OBVIOUS
  <1>8. Copies(heap, b, n, m) /\ (n > 0 => b.start <= b.end)
    BY <1>3, <1>5, <1>6, <1>7, CopiedAre
  <1>9. PICK g, first, last : g = m.heap /\ first = m.first /\ last = m.last
    OBVIOUS
  <1>10. IsHeap(g) /\ first \in Ptr /\ last \in Ptr
    BY <1>8, <1>9 DEF Copies, IsCopy
  <1>11. PICK new, sets : /\ new = [lowest |-> first, highest |-> last]
                          /\ sets = [isets EXCEPT ![j] = new]
    OBVIOUS
  <1>12. heap' = g /\ isets' = sets
    BY <1>4, <1>6, <1>9, <1>11 DEF IsetCopy
  <1>13. /\ sets[j] = new /\ new.lowest = first /\ new # NULL
    BY <1>3, <1>10, <1>11
  <1>14. NumbersIn(i) = Known(R[i], heap)
    BY <1>1, <1>3, KnownAreIn
  <1>15. CASE n = 0
    <2>1. first = NULL
      BY <1>8, <1>9, <1>15 DEF Copies, NoCopy
    <2>2. Chain({}, sets[j].lowest, g, NULL)
      BY <1>13, <2>1 DEF Chain, Apart, Begins
    <2>3. NumbersIn(j)' = Known({}, g)
      BY <1>10, <1>12, <1>13, <2>2, KnownAreInNext
    <2>4. R[i] = {}
      BY <1>5, <1>15
    <2> QED
      BY <1>4, <1>14, <1>15, <2>3, <2>4 DEF Known, Holds
  <1>16. CASE n > 0
    <2>1. /\ first \in DOMAIN g /\ g[first].start = b.start /\ g[first].end = b.end
          /\ g[first].prev = NULL /\ g[first].next = NULL
      BY <1>8, <1>9, <1>16 DEF Copies
    <2>2. first # NULL /\ ~Below(g, first, first) /\ g[first].start <= g[first].end
      BY <1>8, <1>10, <1>16, <2>1 DEF IsHeap, Block, Below
    <2>3. PICK A : A = {first}
      OBVIOUS
    <2>4. Begins(A, g, first) /\ Apart(A, g, NULL)
      BY <2>2, <2>3 DEF Begins, Apart
    <2>5. Follows(A, g, first, NULL) /\ Precedes(A, g, first, NULL)
      BY <2>2, <2>3 DEF Follows, Precedes
    <2>6. Chain(A, sets[j].lowest, g, NULL)
      BY <1>13, <2>1, <2>2, <2>3, <2>4, <2>5 DEF Chain
    <2>7. NumbersIn(j)' = Known(A, g)
      BY <1>10, <1>12, <1>13, <2>6, KnownAreInNext
    <2>8. \A k \in Numbers : Holds(A, g, k) <=> b.start <= k /\ k <= b.end
      BY <2>1, <2>3 DEF Holds
    <2>9. list[1] \in R[i]
      BY <1>5, <1>16
    <2>10. Known(A, g) \subseteq Known(R[i], heap)
      BY <1>7, <2>8, <2>9 DEF Known, Holds
    <2>11. n <= 1 => R[i] = {list[1]}
      BY <1>5, <1>16, <2>9
    <2>12. n <= 1 => Known(A, g) = Known(R[i], heap)
      BY <1>7, <2>8, <2>11 DEF Known, Holds
    <2> QED
      BY <1>4, <1>14, <2>7, <2>10, <2>12
  <1> QED
    BY <1>5, <1>15, <1>16

\* Calls put in and take out what they should.
LEMMA CallsTell ==
    ASSUME NULL \notin Nat, NULL \notin [lowest : Ptr, highest : Ptr],
           MaxBlocks \in Nat, Numbers \subseteq Int, IsFiniteSet(Numbers), AreRanges,
           IInv, ~stopped', NEW i \in {1, 2}, NEW j \in {1, 2}
    PROVE  CallsAreRight(i, j)
  <1>1. ASSUME NEW n \in Numbers
        PROVE  /\ IsetAdd(i, n) /\ ~Stale(i)
                    => PutsIn(NumbersIn(i), NumbersIn(i)', {n})
               /\ IsetRemove(i, n) => TakesOut(NumbersIn(i), NumbersIn(i)', {n})
    BY AddTells, RemoveTells
  <1>2. /\ \A r \in Added : IsetAddRange(i, r[1], r[2]) /\ ~Stale(i)
                => PutsIn(NumbersIn(i), NumbersIn(i)', r[1]..r[2] \cap Numbers)
        /\ \A r \in Removed : IsetRemoveRange(i, r[1], r[2])
                => TakesOut(NumbersIn(i), NumbersIn(i)', r[1]..r[2] \cap Numbers)
    <2>1. ASSUME NEW r \in Added, IsetAddRange(i, r[1], r[2]), ~Stale(i)
          PROVE  PutsIn(NumbersIn(i), NumbersIn(i)', r[1]..r[2] \cap Numbers)
      BY <2>1, RangeIsListed, AddAllTells DEF IsetAddRange
    <2>2. ASSUME NEW r \in Removed, IsetRemoveRange(i, r[1], r[2])
          PROVE  TakesOut(NumbersIn(i), NumbersIn(i)', r[1]..r[2] \cap Numbers)
      BY <2>2, RangeIsListed, RemoveAllTells DEF IsetRemoveRange
    <2> QED
      BY <2>1, <2>2
  <1>3. ASSUME IsSet(j)
        PROVE  \E P : Lists(InOrder(isets[j], heap), P) /\ P \cap Numbers = NumbersIn(j)
    <2>1. PICK R \in [{1, 2} -> SUBSET Nat] : Owns(R, isets, heap)
      BY DEF IInv, AreOwned
    <2>2. /\ isets[j] # NULL /\ Chain(R[j], isets[j].lowest, heap, NULL)
          /\ IsHeap(heap)
      BY <1>3, <2>1 DEF Owns, IsSet, IInv
    <2>3. Lists(InOrder(isets[j], heap), Numbered(R[j], heap))
      BY <2>2, InOrderLists
    <2>4. NumbersIn(j) = Known(R[j], heap)
      BY <2>2, KnownAreIn
    <2>5. Numbered(R[j], heap) \cap Numbers = NumbersIn(j)
      BY <2>4 DEF Numbered, Known
    <2> QED
      BY <2>3, <2>5
  <1>4. ASSUME IsetUnion(i, j), ~Stale(i)
        PROVE  PutsIn(NumbersIn(i), NumbersIn(i)', NumbersIn(j))
    <2>1. PICK numbers : /\ numbers = InOrder(isets[j], heap) /\ IsSet(i) /\ IsSet(j)
                         /\ Finish(i, AddAll(Start(i), numbers))
      BY <1>4 DEF IsetUnion
    <2>2. PICK P : Lists(numbers, P) /\ P \cap Numbers = NumbersIn(j)
      BY <1>3, <2>1
    <2>3. PutsIn(NumbersIn(i), NumbersIn(i)', P \cap Numbers)
      BY <1>4, <2>1, <2>2, AddAllTells
    <2> QED
      BY <2>2, <2>3
  <1>5. ASSUME IsetDiff(i, j)
        PROVE  TakesOut(NumbersIn(i), NumbersIn(i)', NumbersIn(j))
    <2>1. PICK numbers : /\ numbers = InOrder(isets[j], heap) /\ IsSet(i) /\ IsSet(j)
                         /\ Finish(i, RemoveAll(Start(i), numbers))
      BY <1>5 DEF IsetDiff
    <2>2. PICK P : Lists(numbers, P) /\ P \cap Numbers = NumbersIn(j)
      BY <1>3, <2>1
    <2>3. TakesOut(NumbersIn(i), NumbersIn(i)', P \cap Numbers)
      BY <2>1, <2>2, RemoveAllTells
    <2> QED
      BY <2>2, <2>3
  <1>6. IsetIsect(i, j) => /\ NumbersIn(i) \cap NumbersIn(j) \subseteq NumbersIn(i)'
                           /\ NumbersIn(i)' \subseteq NumbersIn(i)
    BY IsectTells
  <1>7. IsetCreate(i) \/ IsetClear(i) \/ IsetDestroy(i) => NumbersIn(i)' = {}
    BY CreateTells, ClearTells
  <1>8. IsetCopy(i, j)
            => IF Len(List(isets[i], heap)) <= 1 THEN NumbersIn(j)' = NumbersIn(i)
               ELSE NumbersIn(j)' \subseteq NumbersIn(i)
    BY CopyHasTheFirst
  <1> QED
    BY <1>1, <1>2, <1>4, <1>5, <1>6, <1>7, <1>8 DEF CallsAreRight

\* A step changes the numbers of at most one set.
LEMMA OneSetChanges ==
    ASSUME NULL \notin Nat, NULL \notin [lowest : Ptr, highest : Ptr],
           MaxBlocks \in Nat, Numbers \subseteq Int, IsFiniteSet(Numbers), AreRanges,
           IInv, ~stopped', [Next]_vars
    PROVE  \E i \in {1, 2} : OthersStay(i)
  <1>1. CASE UNCHANGED vars
    BY <1>1 DEF vars, OthersStay, NumbersIn
  <1>2. ASSUME NEW i \in {1, 2}, IsetCreate(i) \/ IsetClear(i) \/ IsetDestroy(i)
        PROVE  OthersStay(i)
    BY <1>2, CreateTells, ClearTells
  <1>3. ASSUME NEW n \in Numbers, IsetAdd(1, n) \/ IsetRemove(1, n)
        PROVE  OthersStay(1)
    BY <1>3, AddTells, RemoveTells
  <1>4. /\ \A r \in Added \cup Removed : Lists(Interval(r[1], r[2]), r[1]..r[2])
        /\ 1 \in {1, 2} /\ 2 \in {1, 2}
    BY RangeIsListed
  <1>5. ASSUME NEW r \in Added, IsetAddRange(2, r[1], r[2])
        PROVE  OthersStay(2)
    BY <1>4, <1>5, AddAllTells DEF IsetAddRange
  <1>6. ASSUME NEW r \in Removed, IsetRemoveRange(1, r[1], r[2])
        PROVE  OthersStay(1)
    BY <1>4, <1>6, RemoveAllTells DEF IsetRemoveRange
  <1>7. CASE IsetUnion(1, 2) \/ IsetDiff(1, 2)
    <2>1. PICK numbers : /\ numbers = InOrder(isets[2], heap) /\ IsSet(1) /\ IsSet(2)
                         /\ \/ Finish(1, AddAll(Start(1), numbers))
                            \/ Finish(1, RemoveAll(Start(1), numbers))
      BY <1>7 DEF IsetUnion, IsetDiff
    <2>2. PICK R \in [{1, 2} -> SUBSET Nat] : Owns(R, isets, heap)
      BY DEF IInv, AreOwned
    <2>3. Chain(R[2], isets[2].lowest, heap, NULL) /\ IsHeap(heap)
      BY <2>1, <2>2 DEF Owns, IsSet, IInv
    <2>4. Lists(numbers, Numbered(R[2], heap))
      BY <2>1, <2>3, InOrderLists
    <2> QED
      BY <2>1, <2>4, AddAllTells, RemoveAllTells
  <1>8. CASE IsetIsect(1, 2)
    BY <1>8, IsectTells
  <1>9. CASE IsetCopy(1, 2) \/ IsetCopyFails(1, 2)
    BY <1>9, CopyTells
  <1> QED
    BY <1>1, <1>2, <1>3, <1>5, <1>6, <1>7, <1>8, <1>9 DEF Next

\* Calls put just the numbers that they are given into a set, or take just them out of
\* it, and change no other set (KeepsPromise, which says what is left out).  So it is for
\* any numbers and ranges and however much memory.
THEOREM CallsDoTheirWork ==
    ASSUME NULL \notin Nat, NULL \notin [lowest : Ptr, highest : Ptr], AreRanges,
           MaxBlocks \in Nat, Numbers \subseteq Int, IsFiniteSet(Numbers)
    PROVE  Spec => KeepsPromise
  <1>1. Init => IInv
    BY NothingIsOwned DEF Init, IInv
  <1>2. IInv /\ [Next]_vars => IInv'
    BY NextKeeps
  <1>3. IInv /\ [Next]_vars
            => [~stopped' => /\ \A i, j \in {1, 2} : i # j => CallsAreRight(i, j)
                             /\ \E i \in {1, 2} : OthersStay(i)]_vars
    BY CallsTell, OneSetChanges
  <1> QED
    BY <1>1, <1>2, <1>3, PTL DEF Spec, KeepsPromise

=============================================================================
