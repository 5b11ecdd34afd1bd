----------------------------- MODULE Sbuf_proofs -----------------------------
(***************************************************************************)
(* Theorems about the editing buffer: its variables keep their types, its  *)
(* marks stay within the text whatever is edited through other marks,      *)
(* handles and slots agree, and the cached line numbers stay right.  And   *)
(* it implements SbufSpec: an edit replaces the range that the caller's    *)
(* mark has, or that the call has come to, and the marks follow it; any    *)
(* other step places one mark, answers, writes under the lock, or does     *)
(* nothing that a client could tell.                                       *)
(***************************************************************************)
EXTENDS SbufRefinement, SbufText_proofs

-----------------------------------------------------------------------------
\* Slots.

\* The slots ms are slots, and those in use lie within a text of n characters.
MarksSound(ms, n) ==
    /\ ms \in Seq(Mark)
    /\ \A i \in 1..Len(ms) : ms[i].inuse => ms[i].begin + ms[i].len <= n

\* The slots ns belong to the same handles as ms.
SameHandles(ms, ns) ==
    /\ Len(ns) = Len(ms)
    /\ \A i \in 1..Len(ms) :
            ns[i].inuse = ms[i].inuse /\ ns[i].handle = ms[i].handle

\* HandlesMatchSlots, of the slots ms and the handles' slots held.
HandlesFit(ms, held) ==
    /\ held[Aux] # 0
    /\ \A h \in Handles : held[h] # 0 =>
            ms[held[h]].inuse /\ ms[held[h]].handle = h
    /\ \A i \in 1..Len(ms) : ms[i].inuse =>
            ms[i].handle \in Handles /\ held[ms[i].handle] = i

\* The mark m lies within a text of n characters.
Within(m, n) == m.begin + m.len <= n

\* adjust_marks keeps a mark within the text.
LEMMA AdjustMarkWithin ==
    ASSUME NEW m \in Mark, NEW begin \in Nat, NEW len \in Nat,
           NEW newlen \in Nat, NEW n \in Nat, begin + len <= n,
           Within(m, n),
           NEW a, a = AdjustMark(m, begin, len, newlen)
    PROVE  /\ a \in Mark /\ a.inuse = m.inuse /\ a.handle = m.handle
           /\ Within(a, n - len + newlen)
  <1> USE DEF Within
  <1>1. PICK b \in Nat, l \in Nat : b = m.begin /\ l = m.len
    BY DEF Mark
  <1>2. CASE m.begin < begin /\ EndOf(m) > begin
    <2>1. PICK k : k = IF b + l <= begin + len THEN newlen + begin - b
                       ELSE l - len + newlen
      OBVIOUS
    <2>2. k \in Nat /\ b + k <= n - len + newlen
      BY <1>1, <1>2, <2>1 DEF EndOf
    <2>3. a = [m EXCEPT !.len = k, !.dirty = TRUE]
      BY <1>1, <1>2, <2>1 DEF AdjustMark, EndOf
    <2> QED
      BY <1>1, <2>2, <2>3 DEF Mark
  <1>3. CASE /\ ~(m.begin < begin /\ EndOf(m) > begin)
             /\ m.begin >= begin /\ m.begin <= begin + len
    <2>1. PICK k : k = IF b + l > begin + len THEN newlen + (b + l - (begin + len))
                       ELSE newlen
      OBVIOUS
    <2>2. k \in Nat /\ begin + k <= n - len + newlen
      BY <1>1, <1>3, <2>1 DEF EndOf
    <2>3. a = [m EXCEPT !.begin = begin, !.len = k, !.dirty = TRUE]
      <3>1. k = IF EndOf(m) > begin + len
                THEN newlen + (EndOf(m) - (begin + len)) ELSE newlen
        BY <1>1, <2>1 DEF EndOf
      <3> QED
        BY <1>3, <3>1, Zenon DEF AdjustMark
    <2> QED
      BY <2>2, <2>3 DEF Mark
  <1>4. CASE /\ ~(m.begin < begin /\ EndOf(m) > begin)
             /\ ~(m.begin >= begin /\ m.begin <= begin + len)
             /\ m.begin >= begin + len
    <2>1. PICK k : k = b + newlen - len
      OBVIOUS
    <2>2. k \in Nat /\ k + l <= n - len + newlen
      BY <1>1, <1>4, <2>1
    <2>3. a = [m EXCEPT !.begin = k]
      BY <1>1, <1>4, <2>1 DEF AdjustMark, EndOf
    <2> QED
      BY <1>1, <2>2, <2>3 DEF Mark
  <1>5. CASE /\ ~(m.begin < begin /\ EndOf(m) > begin)
             /\ ~(m.begin >= begin /\ m.begin <= begin + len)
             /\ ~(m.begin >= begin + len)
    <2>1. a = m
      BY <1>5 DEF AdjustMark, EndOf
    <2>2. b + l <= n - len + newlen
      BY <1>1, <1>5 DEF EndOf
    <2> QED
      BY <1>1, <2>1, <2>2
  <1> QED
    BY <1>2, <1>3, <1>4, <1>5

\* adjust_marks keeps all marks in use within the text, and their handles.
LEMMA AdjustMarksSound ==
    ASSUME NEW n \in Nat, NEW ms, MarksSound(ms, n),
           NEW begin \in Nat, NEW len \in Nat, NEW newlen \in Nat,
           begin + len <= n,
           NEW ns, ns = AdjustMarks(ms, begin, len, newlen)
    PROVE  /\ MarksSound(ns, n - len + newlen)
           /\ SameHandles(ms, ns)
  <1>1. ms \in Seq(Mark) /\ DOMAIN ms = 1..Len(ms)
    BY DEF MarksSound
  <1>2. ASSUME NEW i \in 1..Len(ms)
        PROVE  /\ ns[i] \in Mark
               /\ ns[i].inuse = ms[i].inuse /\ ns[i].handle = ms[i].handle
               /\ ns[i].inuse => ns[i].begin + ns[i].len <= n - len + newlen
    <2>1. PICK m \in Mark : m = ms[i]
      BY <1>1
    <2>2. ns[i] = IF m.inuse THEN AdjustMark(m, begin, len, newlen) ELSE m
      BY <1>1, <2>1 DEF AdjustMarks
    <2>3. CASE m.inuse
      <3>1. Within(m, n)
        BY <2>1, <2>3 DEF MarksSound, Within
      <3>2. PICK a : a = AdjustMark(m, begin, len, newlen)
        OBVIOUS
      <3>3. /\ a \in Mark /\ a.inuse = m.inuse /\ a.handle = m.handle
            /\ Within(a, n - len + newlen)
        BY <3>1, <3>2, AdjustMarkWithin, SMTT(60)
      <3> QED
        BY <2>1, <2>2, <2>3, <3>2, <3>3 DEF Within
    <2>4. CASE ~m.inuse
      BY <2>1, <2>2, <2>4
    <2> QED
      BY <2>3, <2>4
  <1>3. /\ Len(ns) = Len(ms) /\ Len(ms) \in Nat /\ DOMAIN ns = 1..Len(ms)
        /\ ns = [i \in 1..Len(ms) |-> ns[i]]
    BY <1>1 DEF AdjustMarks
  <1>4. ns \in Seq(Mark)
    <2>1. \A i \in 1..Len(ms) : ns[i] \in Mark
      BY <1>2
    <2> QED
      BY <1>3, <2>1
  <1> QED
    BY <1>2, <1>3, <1>4 DEF MarksSound, SameHandles

\* sbuf_remark moves one mark.
LEMMA RemarkedSound ==
    ASSUME NEW n \in Nat, NEW ms, MarksSound(ms, n),
           NEW slot \in 1..Len(ms), NEW pos \in Nat, NEW len \in Nat,
           pos + len <= n,
           NEW ns, ns = Remarked(ms, slot, pos, len)
    PROVE  /\ MarksSound(ns, n) /\ SameHandles(ms, ns)
           /\ ns[slot].begin = pos /\ ns[slot].len = len
  <1>1. ms \in Seq(Mark) /\ Len(ms) \in Nat
    BY DEF MarksSound
  <1>2. PICK m : m = [ms[slot] EXCEPT !.begin = pos, !.len = len, !.dirty = FALSE]
    OBVIOUS
  <1>3. ns = [ms EXCEPT ![slot] = m]
    BY <1>1, <1>2 DEF Remarked
  <1>4. ms[slot] \in Mark
    BY <1>1
  <1>5. /\ m \in Mark /\ m.inuse = ms[slot].inuse /\ m.handle = ms[slot].handle
        /\ m.begin = pos /\ m.len = len
    BY <1>2, <1>4 DEF Mark
  <1>6. /\ ns \in Seq(Mark) /\ Len(ns) = Len(ms)
        /\ \A i \in 1..Len(ms) : ns[i] = IF i = slot THEN m ELSE ms[i]
    BY <1>1, <1>3, <1>5
  <1> QED
    BY <1>5, <1>6 DEF MarksSound, SameHandles

\* Handles and slots that agree still do when the slots keep their handles.
LEMMA HandlesStayFit ==
    ASSUME NEW ms \in Seq(Mark), NEW ns, SameHandles(ms, ns),
           NEW held \in [Handles -> 0..Len(ms)], HandlesFit(ms, held)
    PROVE  HandlesFit(ns, held)
  <1>1. ASSUME NEW h \in Handles, held[h] # 0
        PROVE  ns[held[h]].inuse /\ ns[held[h]].handle = h
    <2>1. held[h] \in 1..Len(ms)
      BY <1>1
    <2> QED
      BY <1>1, <2>1 DEF SameHandles, HandlesFit
  <1> QED
    BY <1>1 DEF SameHandles, HandlesFit

-----------------------------------------------------------------------------
\* The position cache.

Entry == [pos : Nat, line : Int]

\* The entries of c stand in order, none is behind a text of n characters, and
\* there is room for one more.
CacheSound(c, n) ==
    /\ c \in Seq(Entry)
    /\ Len(c) < PosCacheAlloc
    /\ \A i, j \in 1..Len(c) : i < j => c[i].pos < c[j].pos
    /\ \A i \in 1..Len(c) : c[i].pos <= n

\* What the entries are.
LEMMA SoundEntries ==
    ASSUME NEW n, NEW c, CacheSound(c, n)
    PROVE  /\ c \in Seq(Entry) /\ Len(c) \in Nat
           /\ \A i \in 1..Len(c) : c[i].pos \in Nat
           /\ \A i \in 1..Len(c) : c[i].line \in Int
  <1>1. c \in Seq(Entry)
    BY DEF CacheSound
  <1>2. ASSUME NEW i \in 1..Len(c)
        PROVE  c[i].pos \in Nat /\ c[i].line \in Int
    <2>1. PICK e \in Entry : e = c[i]
      BY <1>1
    <2> QED
      BY <2>1 DEF Entry
  <1> QED
    BY <1>1, <1>2

\* The first k entries of c, and no others, are before pos.
Divides(k, c, pos) ==
    /\ k \in 0..Len(c)
    /\ \A i \in 1..k : c[i].pos < pos
    /\ \A i \in k + 1..Len(c) : c[i].pos >= pos

\* The loop that comes from the beginning of the cache divides it.
LEMMA EntriesBeforeDivides ==
    ASSUME NEW n, NEW c, CacheSound(c, n), NEW pos \in Nat
    PROVE  Divides(EntriesBefore(c, pos), c, pos)
  <1> DEFINE S == {i \in 0..Len(c) : i = Len(c) \/ c[i + 1].pos >= pos}
  <1>1. c \in Seq(Entry) /\ Len(c) \in Nat /\ \A i \in 1..Len(c) : c[i].pos \in Nat
    BY SoundEntries
  <1>2. S \subseteq Nat /\ Len(c) \in S
    BY <1>1
  <1>3. EntriesBefore(c, pos) = Min(S)
    BY DEF EntriesBefore
  <1>4. Min(S) \in S /\ \A i \in S : Min(S) <= i
    <2> HIDE DEF S
    <2> QED
      BY <1>2, MinIsLeast
  <1>5. PICK k \in S : k = Min(S)
    BY <1>4
  <1>6. ASSUME NEW i \in 1..k
        PROVE  c[i].pos < pos
    <2>1. i - 1 \in 0..Len(c) /\ ~(k <= i - 1) /\ i \in 1..Len(c)
      BY <1>5, <1>1
    <2>2. i - 1 \notin S
      BY <2>1, <1>4, <1>5
    <2>3. ~(c[i].pos >= pos)
      BY <2>1, <2>2
    <2> QED
      BY <1>1, <2>1, <2>3
  <1>7. ASSUME NEW i \in k + 1..Len(c)
        PROVE  c[i].pos >= pos
    <2>1. k + 1 \in 1..Len(c) /\ c[k + 1].pos >= pos /\ i \in 1..Len(c)
      BY <1>5, <1>1
    <2>2. c[k + 1].pos \in Nat /\ c[i].pos \in Nat
      BY <1>1, <2>1
    <2>3. i = k + 1 \/ c[k + 1].pos < c[i].pos
      BY <2>1 DEF CacheSound
    <2> QED
      BY <2>1, <2>2, <2>3
  <1> QED
    BY <1>3, <1>5, <1>6, <1>7 DEF Divides

\* So does the loop that comes from its end.
LEMMA EntriesUpToLastDivides ==
    ASSUME NEW n, NEW c, CacheSound(c, n), NEW pos \in Nat
    PROVE  Divides(EntriesUpToLast(c, pos), c, pos)
  <1> DEFINE S == {i \in 0..Len(c) : i = 0 \/ c[i].pos < pos}
  <1>1. c \in Seq(Entry) /\ Len(c) \in Nat /\ \A i \in 1..Len(c) : c[i].pos \in Nat
    BY SoundEntries
  <1>2. S \subseteq 0..Len(c) /\ 0 \in S
    BY <1>1
  <1>3. EntriesUpToLast(c, pos) = Max(S)
    BY DEF EntriesUpToLast
  <1>4. Max(S) \in S /\ \A i \in S : i <= Max(S)
    <2> HIDE DEF S
    <2> QED
      BY <1>1, <1>2, MaxIsGreatest
  <1>5. PICK k \in S : k = Max(S)
    BY <1>4
  <1>6. ASSUME NEW i \in k + 1..Len(c)
        PROVE  c[i].pos >= pos
    <2>1. i \in 1..Len(c) /\ ~(i <= k)
      BY <1>5, <1>1
    <2>2. i \notin S
      BY <2>1, <1>4, <1>5
    <2>3. ~(c[i].pos < pos)
      BY <2>1, <2>2
    <2> QED
      BY <1>1, <2>1, <2>3
  <1>7. ASSUME NEW i \in 1..k
        PROVE  c[i].pos < pos
    <2>1. k \in 1..Len(c) /\ c[k].pos < pos /\ i \in 1..Len(c)
      BY <1>5, <1>1
    <2>2. c[k].pos \in Nat /\ c[i].pos \in Nat
      BY <1>1, <2>1
    <2>3. i = k \/ c[i].pos < c[k].pos
      BY <2>1 DEF CacheSound
    <2> QED
      BY <2>1, <2>2, <2>3
  <1> QED
    BY <1>3, <1>5, <1>6, <1>7 DEF Divides

\* d is c without its entries in the range, and those behind it moved.
Adjusted(d, c, a, b, pos, oldlen, newlen, n) ==
    /\ Divides(a, c, pos) /\ Divides(b, c, pos + oldlen) /\ a <= b
    /\ d \in Seq([pos : Int, line : Int]) /\ Len(d) = a + (Len(c) - b)
    /\ \A i \in 1..Len(d) :
        d[i] = IF i <= a THEN c[i]
               ELSE [pos  |-> c[i - a + b].pos + newlen - oldlen,
                     line |-> c[i - a + b].line + n]

\* That is what sbuf_adjust_pos_cache makes of it.
LEMMA AdjustPosCacheAdjusts ==
    ASSUME NEW top, NEW c, CacheSound(c, top), NEW pos \in Nat,
           NEW oldlen \in Nat, NEW newlen \in Nat, NEW n \in Int,
           NEW d, d = AdjustPosCache(c, pos, oldlen, newlen, n)
    PROVE  \E a, b : Adjusted(d, c, a, b, pos, oldlen, newlen, n)
  <1>p. PICK a, b : a = EntriesBefore(c, pos) /\ b = EntriesBefore(c, pos + oldlen)
    OBVIOUS
  <1>q. Divides(a, c, pos)
    BY <1>p, EntriesBeforeDivides
  <1>r. Divides(b, c, pos + oldlen)
    <2>1. pos + oldlen \in Nat
      OBVIOUS
    <2> QED
      BY <1>p, <2>1, EntriesBeforeDivides
  <1>1. /\ a = EntriesBefore(c, pos) /\ Divides(a, c, pos)
        /\ b = EntriesBefore(c, pos + oldlen) /\ Divides(b, c, pos + oldlen)
    BY <1>p, <1>q, <1>r
  <1>2. c \in Seq(Entry) /\ Len(c) \in Nat /\ \A i \in 1..Len(c) : c[i].pos \in Nat
    BY SoundEntries
  <1>3. a \in 0..Len(c) /\ b \in 0..Len(c)
    BY <1>1 DEF Divides
  <1>4. a <= b
    <2>1. SUFFICES ASSUME ~(a <= b) PROVE FALSE
      OBVIOUS
    <2>2. b + 1 \in 1..a /\ b + 1 \in b + 1..Len(c) /\ b + 1 \in 1..Len(c)
      BY <1>2, <1>3, <2>1
    <2>3. c[b + 1].pos < pos /\ c[b + 1].pos >= pos + oldlen
      BY <1>1, <2>2 DEF Divides
    <2> QED
      BY <1>2, <2>2, <2>3
  <1>5. PICK kept, after : kept = SubSeq(c, 1, a) /\ after = SubSeq(c, b + 1, Len(c))
    OBVIOUS
  <1>6. /\ kept \in Seq(Entry) /\ Len(kept) = a
        /\ \A i \in 1..a : kept[i] = c[i]
    <2>1. kept \in Seq(Entry) /\ IsSlice(kept, c, 0, a)
      <3>1. 0 \in 0..Len(c) /\ a \in 0..Len(c) /\ kept = SubSeq(c, 0 + 1, a)
        BY <1>2, <1>3, <1>5
      <3> QED
        BY <1>2, <3>1, Slice
    <2> QED
      BY <2>1, <1>3 DEF IsSlice
  <1>7. /\ after \in Seq(Entry) /\ Len(after) = Len(c) - b
        /\ \A i \in 1..Len(c) - b : after[i] = c[b + i]
    <2>1. after \in Seq(Entry) /\ IsSlice(after, c, b, Len(c))
      <3>1. b \in 0..Len(c) /\ Len(c) \in b..Len(c)
        BY <1>2, <1>3
      <3> QED
        BY <1>2, <1>5, <3>1, Slice
    <2> QED
      BY <2>1 DEF IsSlice
  <1>8. PICK moved : moved = [i \in 1..Len(after) |->
                                [pos  |-> after[i].pos + newlen - oldlen,
                                 line |-> after[i].line + n]]
    OBVIOUS
  <1>9. PICK k \in Nat : k = Len(c) - b /\ k = Len(after)
    <2>1. Len(c) - b \in Nat /\ Len(after) = Len(c) - b
      BY <1>2, <1>3, <1>7
    <2> QED
      BY <2>1
  <1>10. \A i \in 1..k : moved[i] = [pos  |-> c[b + i].pos + newlen - oldlen,
                                     line |-> c[b + i].line + n]
    BY <1>7, <1>8, <1>9
  <1>11. moved \in Seq([pos : Int, line : Int]) /\ Len(moved) = k
    <2>1. \A i \in 1..k : moved[i] \in [pos : Int, line : Int]
      <3> TAKE i \in 1..k
      <3>1. PICK e \in Entry : e = c[b + i]
        BY <1>2, <1>3, <1>9
      <3>2. PICK p \in Nat, l \in Int : p = e.pos /\ l = e.line
        BY DEF Entry
      <3>3. moved[i] = [pos |-> p + newlen - oldlen, line |-> l + n]
        BY <1>10, <3>1, <3>2
      <3> QED
        BY <3>3
    <2>2. moved = [i \in 1..k |-> moved[i]]
      <3>1. PICK x : x = Len(after)
        OBVIOUS
      <3>2. moved = [i \in 1..x |-> [pos  |-> after[i].pos + newlen - oldlen,
                                     line |-> after[i].line + n]]
        BY <1>8, <3>1
      <3>3. x = k
        BY <1>9, <3>1
      <3> QED
        BY <3>2, <3>3
    <2>3. PICK T : T = [pos : Int, line : Int]
      OBVIOUS
    <2>4. \A i \in 1..k : moved[i] \in T
      BY <2>1, <2>3
    <2>5. moved \in Seq(T) /\ Len(moved) = k
      BY <2>2, <2>4, CellsAreSeq
    <2> QED
      BY <2>3, <2>5
  <1>12. kept \in Seq([pos : Int, line : Int])
    <2>1. \A i \in 1..a : kept[i] \in [pos : Int, line : Int]
      <3> TAKE i \in 1..a
      <3>1. PICK e \in Entry : e = kept[i]
        BY <1>6, <1>3
      <3> QED
        BY <3>1 DEF Entry
    <2>2. kept = [i \in 1..a |-> kept[i]] /\ a \in Nat
      BY <1>3, <1>6
    <2> QED
      BY <2>1, <2>2, CellsAreSeq
  <1>13. /\ d \in Seq([pos : Int, line : Int]) /\ Len(d) = a + k
         /\ \A i \in 1..Len(d) : d[i] = IF i <= a THEN kept[i] ELSE moved[i - a]
    <2>1. d = kept \o moved
      BY <1>1, <1>5, <1>8 DEF AdjustPosCache
    <2>2. d \in Seq([pos : Int, line : Int]) /\ IsJoin(d, kept, moved)
      <3>1. PICK T : T = [pos : Int, line : Int]
        OBVIOUS
      <3>2. kept \in Seq(T) /\ moved \in Seq(T)
        BY <3>1, <1>11, <1>12
      <3>3. d \in Seq(T) /\ IsJoin(d, kept, moved)
        BY <2>1, <3>2, Join
      <3> QED
        BY <3>1, <3>3
    <2> QED
      BY <2>2, <1>6, <1>11 DEF IsJoin
  <1>14. ASSUME NEW i \in 1..Len(d)
         PROVE  d[i] = IF i <= a THEN c[i]
                       ELSE [pos  |-> c[i - a + b].pos + newlen - oldlen,
                             line |-> c[i - a + b].line + n]
    <2>1. CASE i <= a
      <3>1. i \in 1..a
        <4>1. PICK x \in Nat : x = a
          BY <1>3
        <4>2. i \in 1..x + k
          BY <1>13, <4>1
        <4> QED
          BY <2>1, <4>1, <4>2
      <3>2. d[i] = kept[i]
        BY <2>1, <1>13
      <3>3. kept[i] = c[i]
        BY <3>1, <1>6
      <3> QED
        BY <2>1, <3>2, <3>3
    <2>2. CASE ~(i <= a)
      <3>1. PICK j \in 1..k : j = i - a /\ b + j = i - a + b
        <4>1. PICK x \in Nat, y \in Nat : x = a /\ y = b
          BY <1>2, <1>3
        <4>2. i \in 1..x + k /\ i > x
          BY <2>2, <4>1, <1>13
        <4>3. i - x \in 1..k /\ y + (i - x) = i - x + y
          BY <4>2
        <4> QED
          BY <4>1, <4>3
      <3>2. d[i] = moved[j]
        BY <2>2, <1>13, <3>1
      <3>3. moved[j] = [pos  |-> c[b + j].pos + newlen - oldlen,
                        line |-> c[b + j].line + n]
        BY <1>10
      <3> QED
        BY <2>2, <3>1, <3>2, <3>3
    <2> QED
      BY <2>1, <2>2
  <1>15. Len(d) = a + (Len(c) - b)
    BY <1>9, <1>13
  <1>16. d \in Seq([pos : Int, line : Int])
    BY <1>13
  <1>17. Adjusted(d, c, a, b, pos, oldlen, newlen, n)
    BY <1>1, <1>4, <1>14, <1>15, <1>16 DEF Adjusted
  <1> QED
    BY <1>17


\* What is kept of the cache is sound for the text after the change.
LEMMA AdjustedIsSound ==
    ASSUME NEW top \in Nat, NEW c, CacheSound(c, top), NEW pos \in Nat,
           NEW oldlen \in Nat, NEW newlen \in Nat, pos + oldlen <= top,
           NEW n \in Int, NEW d, NEW a, NEW b,
           Adjusted(d, c, a, b, pos, oldlen, newlen, n)
    PROVE  CacheSound(d, top - oldlen + newlen)
  <1>1. /\ c \in Seq(Entry) /\ Len(c) \in Nat
        /\ \A i \in 1..Len(c) : c[i].pos \in Nat /\ c[i].line \in Int
    BY SoundEntries
  <1>2. a \in 0..Len(c) /\ b \in a..Len(c) /\ Len(d) = a + (Len(c) - b)
    BY <1>1 DEF Adjusted, Divides
  <1>3. PICK k \in Nat : k = Len(d)
    <2>1. a + (Len(c) - b) \in Nat
      BY <1>1, <1>2
    <2> QED
      BY <1>2, <2>1
  <1>4. ASSUME NEW i \in 1..k
        PROVE  /\ d[i] \in Entry /\ d[i].pos <= top - oldlen + newlen
               /\ i <= a => d[i].pos = c[i].pos /\ d[i].pos < pos
               /\ i > a => /\ d[i].pos = c[i - a + b].pos + newlen - oldlen
                           /\ d[i].pos >= pos + newlen
    <2>1. CASE i <= a
      <3>1. i \in 1..a /\ i \in 1..Len(c)
        BY <2>1, <1>2
      <3>2. d[i] = c[i]
        BY <2>1, <1>3 DEF Adjusted
      <3>3. c[i] \in Entry
        BY <3>1, <1>1
      <3>4. PICK p \in Nat : p = c[i].pos
        BY <3>1, <1>1
      <3>5. p < pos
        BY <3>1, <3>4 DEF Adjusted, Divides
      <3>6. p <= top - oldlen + newlen /\ ~(i > a)
        BY <2>1, <3>5, <1>1, <1>2
      <3> QED
        BY <3>2, <3>3, <3>4, <3>5, <3>6
    <2>2. CASE ~(i <= a)
      <3>0. PICK x \in Nat, y \in Nat, z \in Nat :
                x = a /\ y = b /\ z = Len(c) /\ y <= z /\ k = x + (z - y)
        <4>1. PICK z \in Nat : z = Len(c)
          BY <1>1
        <4>2. a \in Nat /\ b \in Nat /\ b <= z /\ k = a + (z - b)
          BY <1>2, <1>3, <4>1
        <4> QED
          BY <4>1, <4>2
      <3>1. PICK j \in b + 1..Len(c) : j = i - a + b
        <4>1. i > x /\ i <= x + (z - y)
          BY <2>2, <3>0
        <4>2. PICK j \in y + 1..z : j = i - x + y
          BY <3>0, <4>1
        <4>3. b + 1..Len(c) = y + 1..z /\ i - x + y = i - a + b
          BY <3>0
        <4> QED
          BY <4>2, <4>3
      <3>2. d[i] = [pos |-> c[j].pos + newlen - oldlen, line |-> c[j].line + n]
        BY <2>2, <3>1, <1>3 DEF Adjusted
      <3>3. j \in 1..Len(c)
        BY <1>1, <1>2, <3>1
      <3>4. PICK p \in Nat, l \in Int : p = c[j].pos /\ l = c[j].line
        BY <1>1, <3>3
      <3>5. p >= pos + oldlen /\ p <= top
        BY <3>1, <3>3, <3>4 DEF Adjusted, Divides, CacheSound
      <3>6. PICK q \in Nat : q = p + newlen - oldlen
        BY <3>5
      <3>7. d[i] = [pos |-> q, line |-> l + n]
        BY <3>2, <3>4, <3>6
      <3>8. q <= top - oldlen + newlen /\ q >= pos + newlen
        BY <3>5, <3>6
      <3>9. d[i] \in Entry /\ d[i].pos = q
        BY <3>7 DEF Entry
      <3>10. q = c[i - a + b].pos + newlen - oldlen
        BY <3>1, <3>4, <3>6
      <3> QED
        BY <2>2, <3>8, <3>9, <3>10
    <2> QED
      BY <2>1, <2>2
  <1>5. d \in Seq(Entry)
    <2>1. d = [i \in 1..k |-> d[i]]
      <3>1. d \in Seq([pos : Int, line : Int])
        BY DEF Adjusted
      <3> QED
        BY <1>3, <3>1
    <2>2. \A i \in 1..k : d[i] \in Entry
      BY <1>4
    <2> QED
      BY <2>1, <2>2, CellsAreSeq
  <1>6. ASSUME NEW i \in 1..k, NEW j \in 1..k, i < j
        PROVE  d[i].pos < d[j].pos
    <2>1. CASE j <= a
      <3>1. i \in 1..Len(c) /\ j \in 1..Len(c) /\ i <= a
        BY <2>1, <1>2, <1>6
      <3>2. c[i].pos < c[j].pos
        BY <3>1, <1>6 DEF CacheSound
      <3> QED
        BY <2>1, <3>1, <3>2, <1>4
    <2>2. CASE i <= a /\ j > a
      <3>1. d[i].pos < pos /\ d[j].pos >= pos + newlen
        BY <2>2, <1>4
      <3>2. PICK p \in Nat, q \in Nat : p = d[i].pos /\ q = d[j].pos
        <4>1. PICK e \in Entry, f \in Entry : e = d[i] /\ f = d[j]
          BY <1>4
        <4> QED
          BY <4>1 DEF Entry
      <3> QED
        BY <3>1, <3>2
    <2>3. CASE i > a
      <3>1. PICK x \in 1..Len(c), y \in 1..Len(c) :
                x = i - a + b /\ y = j - a + b /\ x < y
        BY <2>3, <1>1, <1>2, <1>3, <1>6
      <3>2. PICK p \in Nat, q \in Nat : p = c[x].pos /\ q = c[y].pos
        BY <1>1
      <3>3. p < q
        BY <3>1, <3>2 DEF CacheSound
      <3>4. /\ d[i].pos = p + newlen - oldlen
            /\ d[j].pos = q + newlen - oldlen
        <4>1. j > a
          BY <2>3, <1>2, <1>6
        <4> QED
          BY <2>3, <4>1, <1>4, <3>1, <3>2
      <3> QED
        BY <3>3, <3>4
    <2> QED
      BY <2>1, <2>2, <2>3, <1>1, <1>2
  <1>7. Len(d) < PosCacheAlloc
    BY <1>1, <1>2, PosCacheAllocAssumption DEF CacheSound
  <1> QED
    BY <1>3, <1>4, <1>5, <1>6, <1>7 DEF CacheSound


\* The cached line numbers are those of the text t.
LinesRight(c, t) == \A i \in 1..Len(c) : c[i].line = LineOf(t, c[i].pos)

\* The line numbers that are kept are right for the text after the change.
LEMMA AdjustedLinesRight ==
    ASSUME NEW t \in Seq(Chars), NEW new \in Seq(Chars), NEW pos \in Nat,
           NEW len \in Nat, pos + len <= Len(t),
           NEW u, u = Splice(t, pos, len, new),
           NEW c, CacheSound(c, Len(t)), LinesRight(c, t),
           NEW n \in Int,
           n = Newlines(new) - Newlines(SubSeq(t, pos + 1, pos + len)),
           NEW d, NEW a, NEW b, Adjusted(d, c, a, b, pos, len, Len(new), n)
    PROVE  LinesRight(d, u)
  <1>1. /\ \A p \in 0..pos : LineOf(u, p) = LineOf(t, p)
        /\ \A p \in pos + len..Len(t) :
                LineOf(u, p - len + Len(new)) = LineOf(t, p) + n
    BY LineOfSplice
  <1>2. /\ Len(c) \in Nat /\ Len(t) \in Nat /\ Len(new) \in Nat
        /\ \A i \in 1..Len(c) : c[i].pos \in Nat /\ c[i].line \in Int
    BY SoundEntries
  <1>3. a \in 0..Len(c) /\ b \in a..Len(c) /\ Len(d) = a + (Len(c) - b)
    BY <1>2 DEF Adjusted, Divides
  <1>4. ASSUME NEW i \in 1..Len(d)
        PROVE  d[i].line = LineOf(u, d[i].pos)
    <2>1. CASE i <= a
      <3>1. i \in 1..a /\ i \in 1..Len(c)
        BY <2>1, <1>2, <1>3
      <3>2. d[i] = c[i]
        BY <2>1 DEF Adjusted
      <3>3. PICK p \in 0..pos : p = c[i].pos
        <4>1. c[i].pos < pos
          BY <3>1 DEF Adjusted, Divides
        <4> QED
          BY <4>1, <3>1, <1>2
      <3>4. c[i].line = LineOf(t, p)
        BY <3>1, <3>3 DEF LinesRight
      <3> QED
        BY <1>1, <3>2, <3>3, <3>4
    <2>2. CASE ~(i <= a)
      <3>1. PICK j \in b + 1..Len(c) : j = i - a + b
        <4>1. i - a + b \in b + 1..Len(c)
          BY <2>2, <1>2, <1>3
        <4> QED
          BY <4>1
      <3>2. d[i] = [pos |-> c[j].pos + Len(new) - len, line |-> c[j].line + n]
        BY <2>2, <3>1 DEF Adjusted
      <3>3. j \in 1..Len(c)
        BY <1>2, <1>3, <3>1
      <3>4. PICK p \in pos + len..Len(t) : p = c[j].pos
        <4>1. c[j].pos >= pos + len
          BY <3>1 DEF Adjusted, Divides
        <4>2. c[j].pos <= Len(t)
          BY <3>3 DEF CacheSound
        <4> QED
          BY <4>1, <4>2, <3>3, <1>2
      <3>5. c[j].line = LineOf(t, p)
        BY <3>3, <3>4 DEF LinesRight
      <3>6. PICK q : q = p - len + Len(new) /\ q = p + Len(new) - len
        BY <1>2, <3>4
      <3>7. LineOf(u, q) = LineOf(t, p) + n
        BY <1>1, <3>6
      <3>8. d[i] = [pos |-> q, line |-> LineOf(t, p) + n]
        BY <3>2, <3>4, <3>5, <3>6
      <3> QED
        BY <3>7, <3>8
    <2> QED
      BY <2>1, <2>2
  <1> QED
    BY <1>4 DEF LinesRight

\* sbuf_clear_pos_cache leaves what is right for every text that is the same up
\* to pos.
LEMMA ClearedIsSound ==
    ASSUME NEW n, NEW c, CacheSound(c, n), NEW pos \in Nat,
           NEW m \in Nat, pos <= m, NEW d, d = ClearPosCache(c, pos)
    PROVE  /\ CacheSound(d, m)
           /\ \A t, u : (/\ LinesRight(c, t)
                         /\ \A p \in 0..pos : LineOf(u, p) = LineOf(t, p))
                            => LinesRight(d, u)
  <1>1. /\ c \in Seq(Entry) /\ Len(c) \in Nat
        /\ \A i \in 1..Len(c) : c[i].pos \in Nat
    BY SoundEntries
  <1>2. PICK k : k = EntriesUpToLast(c, pos) /\ Divides(k, c, pos)
    <2>1. Divides(EntriesUpToLast(c, pos), c, pos)
      BY EntriesUpToLastDivides
    <2> QED
      BY <2>1
  <1>3. k \in 0..Len(c)
    BY <1>2 DEF Divides
  <1>4. d \in Seq(Entry) /\ IsSlice(d, c, 0, k)
    <2>1. d = SubSeq(c, 0 + 1, k)
      BY <1>2 DEF ClearPosCache
    <2>2. 0 \in 0..Len(c) /\ k \in 0..Len(c)
      BY <1>1, <1>3
    <2> QED
      BY <1>1, <2>1, <2>2, Slice
  <1>5. Len(d) = k /\ \A i \in 1..k : d[i] = c[i] /\ i \in 1..Len(c)
    BY <1>1, <1>3, <1>4 DEF IsSlice
  <1>6. \A i \in 1..k : d[i].pos \in 0..pos /\ d[i].pos <= m
    <2> TAKE i \in 1..k
    <2>1. PICK p \in Nat : p = d[i].pos
      BY <1>1, <1>5
    <2>2. p < pos
      BY <2>1, <1>2, <1>5 DEF Divides
    <2> QED
      BY <2>1, <2>2
  <1>7. \A i, j \in 1..k : i < j => d[i].pos < d[j].pos
    BY <1>5 DEF CacheSound
  <1>8. Len(d) < PosCacheAlloc
    BY <1>1, <1>3, <1>5, PosCacheAllocAssumption DEF CacheSound
  <1>9. CacheSound(d, m)
    BY <1>4, <1>5, <1>6, <1>7, <1>8 DEF CacheSound
  <1>10. ASSUME NEW t, NEW u, LinesRight(c, t),
                \A p \in 0..pos : LineOf(u, p) = LineOf(t, p)
         PROVE  LinesRight(d, u)
    <2>1. ASSUME NEW i \in 1..k
          PROVE  d[i].line = LineOf(u, d[i].pos)
      <3>1. PICK p \in 0..pos : p = d[i].pos /\ p = c[i].pos
        BY <1>5, <1>6
      <3>2. d[i].line = LineOf(t, p)
        BY <3>1, <1>5, <1>10 DEF LinesRight
      <3> QED
        BY <3>1, <3>2, <1>10
    <2> QED
      BY <2>1, <1>5 DEF LinesRight
  <1> QED
    BY <1>9, <1>10


-----------------------------------------------------------------------------
\* Changes of the text.

\* A change of the text keeps every mark within it.
LEMMA EditStep ==
    ASSUME text \in Seq(Chars), NEW ms, MarksSound(ms, Len(text)),
           NEW pos \in Nat, NEW len \in Nat, pos + len <= Len(text),
           NEW new \in Seq(Chars), Edit(ms, pos, len, new)
    PROVE  /\ text' \in Seq(Chars) /\ Len(text') = Len(text) - len + Len(new)
           /\ Spliced(text', text, pos, len, new)
           /\ MarksSound(marks', Len(text')) /\ SameHandles(ms, marks')
  <1>1. text' = Splice(text, pos, len, new)
        /\ marks' = AdjustMarks(ms, pos, len, Len(new))
    BY DEF Edit
  <1>2. text' \in Seq(Chars) /\ Spliced(text', text, pos, len, new)
    BY <1>1, SpliceIsSpliced
  <1>3. Len(text') = Len(text) - len + Len(new)
    BY <1>2 DEF Spliced
  <1>4. PICK n \in Nat, k \in Nat : n = Len(text) /\ k = Len(new)
    OBVIOUS
  <1>5. MarksSound(ms, n) /\ pos + len <= n /\ marks' = AdjustMarks(ms, pos, len, k)
    BY <1>1, <1>4
  <1>6. MarksSound(marks', n - len + k) /\ SameHandles(ms, marks')
    BY <1>5, AdjustMarksSound
  <1> QED
    BY <1>2, <1>3, <1>4, <1>6

\* A change by strchange keeps the position cache sound, and right.
LEMMA StrChangeStep ==
    ASSUME text \in Seq(Chars), NEW ms, MarksSound(ms, Len(text)),
           CacheSound(pc, Len(text)),
           NEW pos \in Nat, NEW len \in Nat, pos + len <= Len(text),
           NEW new \in Seq(Chars), StrChange(ms, pos, len, new)
    PROVE  /\ CacheSound(pc', Len(text'))
           /\ LinesRight(pc, text) => LinesRight(pc', text')
  <1>1. PICK n : n = Newlines(new) - Newlines(SubSeq(text, pos + 1, pos + len))
    OBVIOUS
  <1>2. n \in Int
    <2>1. PICK w : w = SubSeq(text, pos + 1, pos + len)
      OBVIOUS
    <2>2. w \in Seq(Chars)
      BY <2>1
    <2>3. Newlines(w) \in Nat /\ Newlines(new) \in Nat
      BY <2>2, NewlinesOfConcat
    <2> QED
      BY <1>1, <2>1, <2>3
  <1>3. PICK k \in Nat, top \in Nat : k = Len(new) /\ top = Len(text)
    OBVIOUS
  <1>4. pc' = AdjustPosCache(pc, pos, len, k, n)
    BY <1>1, <1>3 DEF StrChange
  <1>5. PICK a, b : Adjusted(pc', pc, a, b, pos, len, k, n)
    BY <1>2, <1>4, AdjustPosCacheAdjusts
  <1>6. CacheSound(pc', top - len + k)
    <2>1. CacheSound(pc, top) /\ pos + len <= top
      BY <1>3
    <2> QED
      BY <1>2, <1>5, <2>1, AdjustedIsSound
  <1>7. Len(text') = top - len + k
    BY <1>3, EditStep DEF StrChange
  <1>8. ASSUME LinesRight(pc, text)
        PROVE  LinesRight(pc', text')
    <2>1. text' = Splice(text, pos, len, new)
      BY DEF StrChange, Edit
    <2>2. Adjusted(pc', pc, a, b, pos, len, Len(new), n)
      BY <1>3, <1>5
    <2> QED
      BY <1>1, <1>2, <1>8, <2>1, <2>2, AdjustedLinesRight
  <1> QED
    BY <1>6, <1>7, <1>8

\* A change of a columnar mark drops what it does not keep right.
LEMMA ColumnStep ==
    ASSUME text \in Seq(Chars), CacheSound(pc, Len(text)),
           NEW from \in Nat, NEW pos \in Nat, from <= pos,
           NEW len \in Nat, pos + len <= Len(text),
           NEW new \in Seq(Chars), text' = Splice(text, pos, len, new),
           pc' = ClearPosCache(pc, from)
    PROVE  /\ CacheSound(pc', Len(text'))
           /\ LinesRight(pc, text) => LinesRight(pc', text')
  <1>1. text' \in Seq(Chars) /\ Spliced(text', text, pos, len, new)
    BY SpliceIsSpliced
  <1>2. Len(text') \in Nat /\ from <= Len(text')
    BY <1>1 DEF Spliced
  <1>3. \A p \in 0..pos : LineOf(text', p) = LineOf(text, p)
    BY LineOfSplice
  <1>4. \A p \in 0..from : LineOf(text', p) = LineOf(text, p)
    BY <1>3
  <1>5. PICK m \in Nat : m = Len(text') /\ from <= m
    BY <1>2
  <1>6. /\ CacheSound(pc', m)
        /\ \A t, u : (/\ LinesRight(pc, t)
                      /\ \A p \in 0..from : LineOf(u, p) = LineOf(t, p))
                            => LinesRight(pc', u)
    BY <1>5, ClearedIsSound
  <1> QED
    BY <1>4, <1>5, <1>6


-----------------------------------------------------------------------------
\* Line numbers.

\* The entry nearest to pos is an entry, and the one at pos if there is one.
LEMMA FindNearestFinds ==
    ASSUME NEW n, CacheSound(pc, n), pc # <<>>, NEW pos \in Nat
    PROVE  /\ FindNearest(pos) \in 1..Len(pc)
           /\ \A i \in 1..Len(pc) : pc[i].pos = pos => pc[FindNearest(pos)].pos = pos
  <1>1. /\ pc \in Seq(Entry) /\ Len(pc) \in Nat /\ Len(pc) # 0
        /\ \A i \in 1..Len(pc) : pc[i].pos \in Nat
    <2>1. /\ pc \in Seq(Entry) /\ Len(pc) \in Nat
          /\ \A i \in 1..Len(pc) : pc[i].pos \in Nat
      BY SoundEntries
    <2>2. Len(pc) # 0
      BY <2>1, EmptySeq
    <2> QED
      BY <2>1, <2>2
  <1>2. \A i, j \in 1..Len(pc) : i < j => pc[i].pos < pc[j].pos
    BY DEF CacheSound
  <1>3. PICK k : k = EntriesBefore(pc, pos)
    OBVIOUS
  <1>4. Divides(k, pc, pos)
    BY <1>3, EntriesBeforeDivides
  <1>5. k \in 0..Len(pc)
    BY <1>4 DEF Divides
  <1>6. CASE Len(pc) = 1 \/ pos <= pc[1].pos
    <2>1. FindNearest(pos) = 1 /\ 1 \in 1..Len(pc)
      BY <1>1, <1>6 DEF FindNearest
    <2>2. ASSUME NEW i \in 1..Len(pc), pc[i].pos = pos
          PROVE  i = 1
      <3>1. CASE Len(pc) = 1
        BY <3>1
      <3>2. CASE Len(pc) # 1
        <4>1. pos <= pc[1].pos /\ pc[1].pos \in Nat
          BY <1>1, <1>6, <3>2, <2>1
        <4>2. ~(pc[1].pos < pc[i].pos)
          BY <4>1, <2>2
        <4>3. ~(1 < i)
          BY <4>2, <1>2, <2>1
        <4> QED
          BY <4>3
      <3> QED
        BY <3>1, <3>2
    <2> QED
      BY <2>1, <2>2
  <1>7. CASE ~(Len(pc) = 1 \/ pos <= pc[1].pos) /\ pos >= pc[Len(pc)].pos
    <2>1. FindNearest(pos) = Len(pc) /\ Len(pc) \in 1..Len(pc)
      BY <1>1, <1>7 DEF FindNearest
    <2>2. ASSUME NEW i \in 1..Len(pc), pc[i].pos = pos
          PROVE  i = Len(pc)
      <3>1. pc[Len(pc)].pos \in Nat
        BY <1>1, <2>1
      <3>2. ~(pc[i].pos < pc[Len(pc)].pos)
        BY <3>1, <1>7, <2>2
      <3>3. ~(i < Len(pc))
        BY <3>2, <1>2, <2>1
      <3> QED
        BY <3>3, <1>1
    <2> QED
      BY <2>1, <2>2
  <1>8. CASE ~(Len(pc) = 1 \/ pos <= pc[1].pos) /\ ~(pos >= pc[Len(pc)].pos)
    <2>1. k # 0
      <3>1. SUFFICES ASSUME k = 0 PROVE FALSE
        OBVIOUS
      <3>2. 1 \in k + 1..Len(pc) /\ 1 \in 1..Len(pc)
        BY <1>1, <3>1
      <3>3. pc[1].pos >= pos /\ pc[1].pos \in Nat
        BY <3>2, <1>1, <1>4 DEF Divides
      <3> QED
        BY <3>3, <1>8
    <2>2. k # Len(pc)
      <3>1. SUFFICES ASSUME k = Len(pc) PROVE FALSE
        OBVIOUS
      <3>2. k \in 1..k /\ k \in 1..Len(pc)
        BY <1>1, <1>5, <3>1
      <3>3. pc[k].pos < pos /\ pc[k].pos \in Nat
        BY <3>2, <1>1, <1>4 DEF Divides
      <3> QED
        BY <3>1, <3>3, <1>8
    <2>3. k \in 1..Len(pc) /\ k + 1 \in 1..Len(pc)
      BY <1>1, <1>5, <2>1, <2>2
    <2>4. FindNearest(pos) = IF pos - pc[k].pos < pc[k + 1].pos - pos
                             THEN k ELSE k + 1
      <3>1. PICK j \in 1..Len(pc) : j = k + 1
        BY <2>3
      <3>2. j - 1 = k
        BY <2>3, <3>1
      <3>3. FindNearest(pos) = IF pos - pc[j - 1].pos < pc[j].pos - pos
                               THEN j - 1 ELSE j
        BY <1>3, <1>8, <3>1, Zenon DEF FindNearest
      <3>4. FindNearest(pos) = IF pos - pc[k].pos < pc[j].pos - pos THEN k ELSE j
        BY <3>2, <3>3, Zenon
      <3> QED
        BY <3>1, <3>4, Zenon
    <2>5. ASSUME NEW i \in 1..Len(pc), pc[i].pos = pos
          PROVE  FindNearest(pos) = i
      <3>1. ~(i <= k)
        <4>1. i <= k => pc[i].pos < pos
          BY <1>4 DEF Divides
        <4> QED
          BY <4>1, <2>5
      <3>2. ~(i > k + 1)
        <4>1. k + 1 \in k + 1..Len(pc)
          BY <2>3
        <4>2. pc[k + 1].pos >= pos /\ pc[k + 1].pos \in Nat
          BY <4>1, <2>3, <1>1, <1>4 DEF Divides
        <4>3. i > k + 1 => pc[k + 1].pos < pc[i].pos
          BY <1>2, <2>3
        <4> QED
          BY <4>2, <4>3, <2>5
      <3>3. i = k + 1
        BY <3>1, <3>2, <2>3
      <3>4. PICK p \in Nat : p = pc[k].pos /\ p < pos
        <4>1. k \in 1..k
          BY <2>3
        <4>2. pc[k].pos < pos /\ pc[k].pos \in Nat
          BY <4>1, <2>3, <1>1, <1>4 DEF Divides
        <4> QED
          BY <4>2
      <3>5. pc[k + 1].pos = pos
        BY <3>3, <2>5
      <3>6. ~(pos - pc[k].pos < pc[k + 1].pos - pos)
        BY <3>4, <3>5
      <3> QED
        BY <3>3, <3>6, <2>4
    <2> QED
      BY <2>3, <2>4, <2>5
  <1> QED
    BY <1>6, <1>7, <1>8

\* From any known position compute_lineno counts to the right line number.
LEMMA ComputeLinenoCounts ==
    ASSUME text \in Seq(Chars), NEW pos \in 0..Len(text),
           NEW known \in 0..Len(text)
    PROVE  /\ LineOf(text, pos) \in Nat
           /\ \A line \in Int : ComputeLineno(pos, known, line) \in Int
           /\ ComputeLineno(pos, known, LineOf(text, known)) = LineOf(text, pos)
  <1>1. CASE known <= pos
    <2>1. PICK k : k = Newlines(SubSeq(text, known + 1, pos))
      OBVIOUS
    <2>2. /\ LineOf(text, known) \in Nat /\ k \in Nat
          /\ LineOf(text, pos) = LineOf(text, known) + k
      <3>1. pos \in known..Len(text)
        BY <1>1
      <3> QED
        BY <2>1, <3>1, LineOfLater
    <2>3. \A line : ComputeLineno(pos, known, line) = line + k
      BY <1>1, <2>1 DEF ComputeLineno
    <2> QED
      BY <2>2, <2>3
  <1>2. CASE ~(known <= pos)
    <2>1. PICK k : k = Newlines(SubSeq(text, pos + 1, known))
      OBVIOUS
    <2>2. /\ LineOf(text, pos) \in Nat /\ k \in Nat
          /\ LineOf(text, known) = LineOf(text, pos) + k
      <3>1. known \in pos..Len(text)
        BY <1>2
      <3> QED
        BY <2>1, <3>1, LineOfLater
    <2>3. \A line : ComputeLineno(pos, known, line) = line - k
      BY <1>2, <2>1 DEF ComputeLineno
    <2> QED
      BY <2>2, <2>3
  <1> QED
    BY <1>1, <1>2

\* sbuf_lineno returns a number, the right one if the cache is right.
LEMMA LinenoOfIsRight ==
    ASSUME text \in Seq(Chars), CacheSound(pc, Len(text)),
           NEW pos \in 0..Len(text)
    PROVE  /\ LinenoOf(pos) \in Int
           /\ LinesRight(pc, text) => LinenoOf(pos) = LineOf(text, pos)
  <1>1. CASE pc = <<>>
    <2>1. LinenoOf(pos) = ComputeLineno(pos, 0, 0)
      BY <1>1 DEF LinenoOf
    <2>2. LineOf(text, 0) = 0
      <3>1. SubSeq(text, 1, 0) = <<>>
        BY SubSeqEmpty
      <3> QED
        BY <3>1, NewlinesOfEmpty DEF LineOf
    <2>3. 0 \in 0..Len(text)
      OBVIOUS
    <2>4. /\ ComputeLineno(pos, 0, LineOf(text, 0)) = LineOf(text, pos)
          /\ LineOf(text, pos) \in Nat
      BY <2>3, ComputeLinenoCounts
    <2> QED
      BY <2>1, <2>2, <2>4
  <1>2. CASE pc # <<>>
    <2>1. PICK i : i = FindNearest(pos)
      OBVIOUS
    <2>2. i \in 1..Len(pc)
      BY <1>2, <2>1, FindNearestFinds
    <2>3. LinenoOf(pos) = ComputeLineno(pos, pc[i].pos, pc[i].line)
      BY <1>2, <2>1 DEF LinenoOf
    <2>4. PICK known \in 0..Len(text), line \in Int :
                known = pc[i].pos /\ line = pc[i].line
      <3>1. pc[i].pos \in Nat /\ pc[i].line \in Int
        BY <2>2, SoundEntries
      <3>2. pc[i].pos <= Len(text)
        BY <2>2 DEF CacheSound
      <3> QED
        BY <3>1, <3>2
    <2>5. /\ ComputeLineno(pos, known, line) \in Int
          /\ ComputeLineno(pos, known, LineOf(text, known)) = LineOf(text, pos)
      BY ComputeLinenoCounts
    <2>6. LinesRight(pc, text) => line = LineOf(text, known)
      BY <2>2, <2>4 DEF LinesRight
    <2> QED
      BY <2>3, <2>4, <2>5, <2>6
  <1> QED
    BY <1>1, <1>2


\* r is c without its k-th element.
LEMMA RemoveAtCells ==
    ASSUME NEW S, NEW c \in Seq(S), NEW k \in 1..Len(c), NEW r, r = RemoveAt(c, k)
    PROVE  /\ r \in Seq(S) /\ Len(r) = Len(c) - 1
           /\ \A i \in 1..Len(r) : r[i] = IF i < k THEN c[i] ELSE c[i + 1]
  <1>1. PICK a, b : a = SubSeq(c, 1, k - 1) /\ b = SubSeq(c, k + 1, Len(c))
    OBVIOUS
  <1>2. a \in Seq(S) /\ IsSlice(a, c, 0, k - 1)
    <2>1. a = SubSeq(c, 0 + 1, k - 1) /\ 0 \in 0..Len(c) /\ k - 1 \in 0..Len(c)
      BY <1>1
    <2> QED
      BY <2>1, Slice
  <1>3. b \in Seq(S) /\ IsSlice(b, c, k, Len(c))
    <2>1. k \in 0..Len(c) /\ Len(c) \in k..Len(c)
      OBVIOUS
    <2> QED
      BY <1>1, <2>1, Slice
  <1>4. r \in Seq(S) /\ IsJoin(r, a, b)
    <2>1. r = a \o b
      BY <1>1 DEF RemoveAt
    <2> QED
      BY <1>2, <1>3, <2>1, Join
  <1>5. Len(a) = k - 1 /\ Len(b) = Len(c) - k /\ Len(r) = Len(c) - 1
    BY <1>2, <1>3, <1>4 DEF IsSlice, IsJoin
  <1>6. ASSUME NEW i \in 1..Len(r)
        PROVE  r[i] = IF i < k THEN c[i] ELSE c[i + 1]
    <2>1. CASE i < k
      <3>1. i \in 1..Len(a)
        BY <2>1, <1>5
      <3>2. r[i] = a[i]
        BY <1>4, <1>5, <3>1 DEF IsJoin
      <3> QED
        BY <2>1, <3>1, <3>2, <1>2, <1>5 DEF IsSlice
    <2>2. CASE ~(i < k)
      <3>1. PICK j \in 1..Len(c) - k : j = i - (k - 1) /\ k + j = i + 1
        BY <2>2, <1>5
      <3>2. r[i] = b[j]
        BY <2>2, <3>1, <1>4, <1>5 DEF IsJoin
      <3>3. b[j] = c[k + j]
        BY <1>3 DEF IsSlice
      <3> QED
        BY <2>2, <3>1, <3>2, <3>3
    <2> QED
      BY <2>1, <2>2
  <1> QED
    BY <1>4, <1>5, <1>6

\* r is c with e as its k-th element.
IsInserted(r, c, k, e) ==
    /\ Len(r) = Len(c) + 1
    /\ \A i \in 1..Len(r) :
            r[i] = IF i < k THEN c[i] ELSE IF i = k THEN e ELSE c[i - 1]

\* That is what InsertAt makes of it.
LEMMA InsertAtCells ==
    ASSUME NEW S, NEW c \in Seq(S), NEW k \in 1..Len(c) + 1, NEW e \in S,
           NEW r, r = InsertAt(c, k, e)
    PROVE  r \in Seq(S) /\ IsInserted(r, c, k, e)
  <1>1. PICK a, b : a = SubSeq(c, 1, k - 1) /\ b = SubSeq(c, k, Len(c))
    OBVIOUS
  <1>2. a \in Seq(S) /\ IsSlice(a, c, 0, k - 1)
    <2>1. a = SubSeq(c, 0 + 1, k - 1) /\ 0 \in 0..Len(c) /\ k - 1 \in 0..Len(c)
      BY <1>1
    <2> QED
      BY <2>1, Slice
  <1>3. b \in Seq(S) /\ IsSlice(b, c, k - 1, Len(c))
    <2>1. PICK p \in 0..Len(c) : p = k - 1
      OBVIOUS
    <2>2. Len(c) \in p..Len(c) /\ b = SubSeq(c, p + 1, Len(c))
      BY <1>1, <2>1
    <2>3. b \in Seq(S) /\ IsSlice(b, c, p, Len(c))
      BY <2>2, Slice
    <2> QED
      BY <2>1, <2>3
  <1>4. PICK m : m = <<e>>
    OBVIOUS
  <1>5. m \in Seq(S) /\ Len(m) = 1 /\ m[1] = e
    BY <1>4
  <1>6. r \in Seq(S) /\ Parts(r, a, m, b)
    <2>1. r = (a \o m) \o b
      BY <1>1, <1>4 DEF InsertAt
    <2> QED
      BY <1>2, <1>3, <1>5, <2>1, ConcatHasParts
  <1>7. Len(a) = k - 1 /\ Len(b) = Len(c) - (k - 1) /\ Len(r) = Len(c) + 1
    BY <1>2, <1>3, <1>5, <1>6 DEF IsSlice, Parts
  <1>8. ASSUME NEW i \in 1..Len(r)
        PROVE  r[i] = IF i < k THEN c[i] ELSE IF i = k THEN e ELSE c[i - 1]
    <2>1. CASE i < k
      <3>1. i \in 1..k - 1 /\ r[i] = a[i]
        BY <2>1, <1>6, <1>7 DEF Parts
      <3> QED
        BY <2>1, <3>1, <1>2 DEF IsSlice
    <2>2. CASE i = k
      <3>1. r[i] = m[i - (k - 1)] /\ i - (k - 1) = 1
        BY <2>2, <1>5, <1>6, <1>7 DEF Parts
      <3> QED
        BY <2>2, <3>1, <1>5
    <2>3. CASE i > k
      <3>1. PICK j \in 1..Len(c) - (k - 1) : j = i - (k - 1 + 1) /\ k - 1 + j = i - 1
        BY <2>3, <1>7
      <3>2. r[i] = b[j]
        BY <2>3, <3>1, <1>5, <1>6, <1>7 DEF Parts
      <3>3. b[j] = c[k - 1 + j]
        BY <1>3 DEF IsSlice
      <3> QED
        BY <2>3, <3>1, <3>2, <3>3
    <2> QED
      BY <2>1, <2>2, <2>3
  <1> QED
    BY <1>6, <1>7, <1>8 DEF IsInserted

\* A full cache loses one entry, one that is full less one none.
LEMMA MakeRoomMakesRoom ==
    ASSUME NEW n, NEW c, CacheSound(c, n), NEW r, r = MakeRoom(c)
    PROVE  /\ CacheSound(r, n) /\ Len(r) < PosCacheAlloc - 1
           /\ \A i \in 1..Len(r) : \E j \in 1..Len(c) : r[i] = c[j]
  <1>1. /\ c \in Seq(Entry) /\ Len(c) \in Nat /\ PosCacheAlloc \in Nat
        /\ PosCacheAlloc >= 4 /\ Len(c) < PosCacheAlloc
        /\ \A i \in 1..Len(c) : c[i].pos \in Nat
    BY SoundEntries, PosCacheAllocAssumption DEF CacheSound
  <1>2. CASE ~(Len(c) >= PosCacheAlloc - 1)
    <2>1. r = c
      BY <1>2 DEF MakeRoom
    <2> QED
      BY <1>1, <1>2, <2>1
  <1>3. CASE Len(c) >= PosCacheAlloc - 1
    <2> DEFINE Span(i) == c[i].pos - c[i - 2].pos
               least == {i \in 3..Len(c) : \A j \in 3..Len(c) : Span(i) <= Span(j)}
    <2>1. Len(c) = PosCacheAlloc - 1 /\ 3 \in 3..Len(c)
      BY <1>1, <1>3
    <2>2. \A i \in 3..Len(c) : Span(i) \in Nat
      <3> TAKE i \in 3..Len(c)
      <3>1. PICK j : j = i - 2
        OBVIOUS
      <3>2. j \in 1..Len(c) /\ i \in 1..Len(c) /\ j < i
        BY <1>1, <3>1
      <3>3. c[j].pos < c[i].pos /\ c[j].pos \in Nat /\ c[i].pos \in Nat
        BY <3>2, <1>1 DEF CacheSound
      <3>4. c[i].pos - c[j].pos \in Nat
        BY <3>3
      <3> QED
        BY <3>1, <3>4
    <2>3. least # {}
      <3> HIDE DEF Span
      <3> DEFINE spans == {Span(i) : i \in 3..Len(c)}
      <3>1. spans \subseteq Nat /\ spans # {}
        BY <2>1, <2>2
      <3>2. PICK x \in spans : \A y \in spans : x <= y
        BY <3>1, LeastNatural
      <3>3. PICK i \in 3..Len(c) : x = Span(i)
        BY <3>2
      <3>4. \A j \in 3..Len(c) : Span(i) <= Span(j)
        BY <3>2, <3>3
      <3> QED
        BY <3>4
    <2>4. Min(least) \in least
      <3>1. least \subseteq Nat
        OBVIOUS
      <3> HIDE DEF least
      <3> QED
        BY <2>3, <3>1, MinIsLeast
    <2>5. PICK m \in 3..Len(c) : m = Min(least)
      BY <2>4
    <2>6. r = RemoveAt(c, m - 1)
      BY <1>3, <2>5 DEF MakeRoom
    <2> HIDE DEF least, Span
    <2>7. PICK k \in 1..Len(c) : k = m - 1
      BY <1>1
    <2>8. /\ r \in Seq(Entry) /\ Len(r) = Len(c) - 1
          /\ \A i \in 1..Len(r) : r[i] = IF i < k THEN c[i] ELSE c[i + 1]
      BY <1>1, <2>6, <2>7, RemoveAtCells
    <2>9. ASSUME NEW i \in 1..Len(r)
          PROVE  \E j \in 1..Len(c) : /\ r[i] = c[j]
                                      /\ j = IF i < k THEN i ELSE i + 1
      <3>1. PICK j \in 1..Len(c) : j = IF i < k THEN i ELSE i + 1
        BY <1>1, <2>8
      <3>2. r[i] = c[j]
        BY <2>8, <3>1
      <3> QED
        BY <3>1, <3>2
    <2>10. \A i \in 1..Len(r) : r[i].pos <= n
      BY <2>9 DEF CacheSound
    <2>11. ASSUME NEW i \in 1..Len(r), NEW j \in 1..Len(r), i < j
           PROVE  r[i].pos < r[j].pos
      <3>1. PICK x \in 1..Len(c) : r[i] = c[x] /\ x = IF i < k THEN i ELSE i + 1
        BY <2>9
      <3>2. PICK y \in 1..Len(c) : r[j] = c[y] /\ y = IF j < k THEN j ELSE j + 1
        BY <2>9
      <3>3. x < y
        BY <2>11, <3>1, <3>2
      <3> QED
        BY <3>1, <3>2, <3>3 DEF CacheSound
    <2>12. Len(r) < PosCacheAlloc - 1
      BY <1>1, <2>1, <2>8
    <2>13. CacheSound(r, n)
      BY <1>1, <2>8, <2>10, <2>11, <2>12 DEF CacheSound
    <2> QED
      BY <2>9, <2>12, <2>13
  <1> QED
    BY <1>2, <1>3


\* A new pair goes where the order wants it.
LEMMA PutIntoCacheSound ==
    ASSUME NEW n \in Nat, NEW c, CacheSound(c, n), NEW pos \in 0..n,
           NEW line \in Int, \A i \in 1..Len(c) : c[i].pos # pos,
           NEW d, d = PutIntoCache(c, pos, line)
    PROVE  /\ CacheSound(d, n)
           /\ \A i \in 1..Len(d) :
                d[i] = [pos |-> pos, line |-> line] \/ \E j \in 1..Len(c) : d[i] = c[j]
  <1>1. PICK r : r = MakeRoom(c)
    OBVIOUS
  <1>2. /\ CacheSound(r, n) /\ Len(r) < PosCacheAlloc - 1
        /\ \A i \in 1..Len(r) : \E j \in 1..Len(c) : r[i] = c[j]
    BY <1>1, MakeRoomMakesRoom
  <1>3. /\ r \in Seq(Entry) /\ Len(r) \in Nat
        /\ \A i \in 1..Len(r) : r[i].pos \in Nat
    BY <1>2, SoundEntries
  <1>4. \A i \in 1..Len(r) : r[i].pos # pos
    BY <1>2
  <1>5. PICK k : k = EntriesUpToLast(r, pos)
    OBVIOUS
  <1>6. Divides(k, r, pos)
    BY <1>2, <1>5, EntriesUpToLastDivides
  <1>7. k \in 0..Len(r)
    BY <1>6 DEF Divides
  <1>8. PICK e \in Entry : e = [pos |-> pos, line |-> line]
    <2>1. [pos |-> pos, line |-> line] \in Entry
      BY DEF Entry
    <2> QED
      BY <2>1
  <1>9. PICK p \in 1..Len(r) + 1 : p = k + 1
    BY <1>3, <1>7
  <1>10. /\ d \in Seq(Entry) /\ Len(d) = Len(r) + 1
         /\ \A i \in 1..Len(d) :
                d[i] = IF i < p THEN r[i] ELSE IF i = p THEN e ELSE r[i - 1]
    <2>1. d = InsertAt(r, p, e)
      BY <1>1, <1>5, <1>8, <1>9 DEF PutIntoCache
    <2>2. d \in Seq(Entry) /\ IsInserted(d, r, p, e)
      BY <2>1, <1>3, InsertAtCells
    <2> QED
      BY <2>2 DEF IsInserted
  <1>11. ASSUME NEW i \in 1..Len(d)
         PROVE  /\ i < p => /\ i \in 1..Len(r) /\ d[i] = r[i] /\ d[i].pos < pos
                /\ i = p => d[i] = e /\ d[i].pos = pos
                /\ i > p => /\ i - 1 \in 1..Len(r) /\ d[i] = r[i - 1]
                            /\ d[i].pos > pos
    <2>1. CASE i < p
      <3>1. i \in 1..k /\ i \in 1..Len(r)
        BY <2>1, <1>3, <1>7, <1>9
      <3>2. r[i].pos < pos /\ d[i] = r[i]
        BY <2>1, <3>1, <1>6, <1>10 DEF Divides
      <3> QED
        BY <2>1, <3>1, <3>2
    <2>2. CASE i = p
      <3>1. d[i] = e
        BY <2>2, <1>10
      <3> QED
        BY <2>2, <3>1, <1>8
    <2>3. CASE i > p
      <3>0. i \in Nat /\ k \in Nat /\ Len(r) \in Nat /\ p = k + 1 /\ i <= Len(r) + 1
        BY <1>3, <1>7, <1>9, <1>10
      <3>1. PICK j \in k + 1..Len(r) : j = i - 1
        BY <2>3, <3>0
      <3>2. j \in 1..Len(r)
        BY <3>1, <1>3, <1>7
      <3>3. r[j].pos >= pos /\ r[j].pos \in Nat /\ r[j].pos # pos
        BY <3>1, <3>2, <1>3, <1>4, <1>6 DEF Divides
      <3>4. d[i] = r[j]
        BY <2>3, <3>1, <1>10
      <3> QED
        BY <2>3, <3>1, <3>2, <3>3, <3>4
    <2> QED
      BY <2>1, <2>2, <2>3
  <1>12. ASSUME NEW i \in 1..Len(d), NEW j \in 1..Len(d), i < j
         PROVE  d[i].pos < d[j].pos
    <2>1. CASE j < p
      <3>1. i < p
        BY <2>1, <1>12
      <3>2. /\ i \in 1..Len(r) /\ j \in 1..Len(r)
            /\ d[i] = r[i] /\ d[j] = r[j]
        BY <2>1, <3>1, <1>11
      <3> QED
        BY <3>2, <1>2, <1>12 DEF CacheSound
    <2>2. CASE i < p /\ j >= p
      <3>1. d[i].pos < pos /\ (d[j].pos = pos \/ d[j].pos > pos)
        BY <2>2, <1>11
      <3>2. PICK x \in Nat, y \in Nat : x = d[i].pos /\ y = d[j].pos
        <4>1. PICK f \in Entry, g \in Entry : f = d[i] /\ g = d[j]
          BY <1>10
        <4> QED
          BY <4>1 DEF Entry
      <3> QED
        BY <3>1, <3>2
    <2>3. CASE i = p
      <3>1. j > p
        BY <2>3, <1>12
      <3> QED
        BY <2>3, <3>1, <1>11
    <2>4. CASE i > p
      <3>1. j > p
        BY <2>4, <1>12
      <3>2. PICK x \in 1..Len(r), y \in 1..Len(r) :
                x = i - 1 /\ y = j - 1 /\ x < y
        BY <2>4, <3>1, <1>11, <1>12
      <3>3. d[i] = r[x] /\ d[j] = r[y]
        BY <2>4, <3>1, <3>2, <1>11
      <3> QED
        BY <3>2, <3>3, <1>2 DEF CacheSound
    <2> QED
      BY <2>1, <2>2, <2>3, <2>4
  <1>13. ASSUME NEW i \in 1..Len(d)
         PROVE  /\ d[i] = e \/ \E j \in 1..Len(r) : d[i] = r[j]
                /\ d[i].pos <= n
    <2>1. d[i] = e \/ \E j \in 1..Len(r) : d[i] = r[j]
      BY <1>11
    <2>2. d[i] = e => d[i].pos <= n
      BY <1>8
    <2>3. ASSUME NEW j \in 1..Len(r), d[i] = r[j]
          PROVE  d[i].pos <= n
      BY <2>3, <1>2 DEF CacheSound
    <2> QED
      BY <2>1, <2>2, <2>3
  <1>14. Len(d) < PosCacheAlloc
    BY <1>2, <1>3, <1>10, PosCacheAllocAssumption
  <1>15. CacheSound(d, n)
    BY <1>10, <1>12, <1>13, <1>14 DEF CacheSound
  <1> QED
    BY <1>2, <1>8, <1>13, <1>15

-----------------------------------------------------------------------------
\* The inductive invariant.

\* The buffer: what holds of the text, the slots and the cache between any two
\* steps, within a call too.
BufferOK ==
    /\ text \in Seq(Chars)
    /\ MarksSound(marks, Len(text))
    /\ slotOf \in [Handles -> 0..Len(marks)]
    /\ HandlesFit(marks, slotOf)
    /\ CacheSound(pc, Len(text))

\* A call in progress works on a handle that is held; the mark that is read
\* into has not moved to before where the reading began; and what sbuf_lineno
\* reported last is forgotten when another call begins.
JobHolds ==
    /\ job.op \in {"remove", "insert", "read"} => slotOf[job.h] # 0
    /\ job.op = "read" => job.begin <= EndOf(MarkOf(job.h))
    /\ job.op # "idle" => answer = NoAnswer

CallOK ==
    /\ JobTypeOK
    /\ JobHolds
    /\ flags \subseteq {"locked", "dirty", "loaded"}
    /\ answer \in [pos : Int, line : Int]

IInv == BufferOK /\ CallOK

\* The invariant has what is wanted of it.
LEMMA IInvImplies ==
    ASSUME IInv
    PROVE  TypeOK /\ MarksInBounds /\ HandlesMatchSlots
  <1>1. /\ marks \in Seq(Mark) /\ DOMAIN marks = 1..Len(marks)
        /\ pc \in Seq([pos : Nat, line : Int])
    BY DEF IInv, BufferOK, MarksSound, CacheSound, Entry
  <1>2. TypeOK
    BY <1>1 DEF IInv, BufferOK, CallOK, TypeOK
  <1>3. MarksInBounds
    BY <1>1 DEF IInv, BufferOK, MarksSound, MarksInBounds
  <1>4. HandlesMatchSlots
    BY <1>1 DEF IInv, BufferOK, HandlesFit, HandlesMatchSlots
  <1> QED
    BY <1>2, <1>3, <1>4

\* The slot of a handle that is held is in use, and its mark within the text.
LEMMA HeldSlot ==
    ASSUME NEW n \in Nat, NEW ms, MarksSound(ms, n),
           NEW held \in [Handles -> 0..Len(ms)], HandlesFit(ms, held),
           NEW h \in Handles, held[h] # 0
    PROVE  /\ held[h] \in 1..Len(ms) /\ ms[held[h]] \in Mark
           /\ ms[held[h]].inuse
           /\ ms[held[h]].begin \in Nat /\ ms[held[h]].len \in Nat
           /\ ms[held[h]].begin + ms[held[h]].len <= n
  <1>1. Len(ms) \in Nat /\ ms \in Seq(Mark)
    BY DEF MarksSound
  <1>2. PICK i \in 1..Len(ms) : i = held[h]
    BY <1>1
  <1>3. PICK m \in Mark : m = ms[i]
    BY <1>1
  <1>4. m.inuse
    BY <1>2, <1>3 DEF HandlesFit
  <1>5. m.begin + m.len <= n
    BY <1>3, <1>4 DEF MarksSound
  <1>6. m.begin \in Nat /\ m.len \in Nat
    BY DEF Mark
  <1> QED
    BY <1>2, <1>3, <1>4, <1>5, <1>6

\* The same in the buffer.
LEMMA HeldMark ==
    ASSUME BufferOK, NEW h \in Handles, slotOf[h] # 0
    PROVE  /\ slotOf[h] \in 1..Len(marks) /\ MarkOf(h) \in Mark
           /\ MarkOf(h).inuse
           /\ MarkOf(h).begin \in Nat /\ MarkOf(h).len \in Nat
           /\ MarkOf(h).begin + MarkOf(h).len <= Len(text)
  <1>a. PICK n \in Nat : n = Len(text)
    BY DEF BufferOK
  <1>b. PICK ms, held : ms = marks /\ held = slotOf
    OBVIOUS
  <1>1. ms = marks /\ held = slotOf /\ n = Len(text)
    BY <1>a, <1>b
  <1>2. /\ MarksSound(ms, n) /\ held \in [Handles -> 0..Len(ms)]
        /\ HandlesFit(ms, held) /\ held[h] # 0
    BY <1>1 DEF BufferOK
  <1>3. /\ held[h] \in 1..Len(ms) /\ ms[held[h]] \in Mark
        /\ ms[held[h]].inuse
        /\ ms[held[h]].begin \in Nat /\ ms[held[h]].len \in Nat
        /\ ms[held[h]].begin + ms[held[h]].len <= n
    BY <1>2, HeldSlot
  <1> QED
    BY <1>1, <1>3 DEF MarkOf

\* The buffer after a change of the text.
LEMMA BufferAfterEdit ==
    ASSUME BufferOK, NEW ms, MarksSound(ms, Len(text)), SameHandles(marks, ms),
           NEW pos \in Nat, NEW len \in Nat, pos + len <= Len(text),
           NEW new \in Seq(Chars), Edit(ms, pos, len, new),
           slotOf' = slotOf, CacheSound(pc', Len(text'))
    PROVE  BufferOK'
  <1>1. /\ text' \in Seq(Chars) /\ MarksSound(marks', Len(text'))
        /\ SameHandles(ms, marks')
    BY EditStep DEF BufferOK
  <1>2. /\ marks \in Seq(Mark) /\ slotOf \in [Handles -> 0..Len(marks)]
        /\ HandlesFit(marks, slotOf)
    BY DEF BufferOK, MarksSound
  <1>3. SameHandles(marks, marks')
    <2>1. Len(ms) = Len(marks) /\ Len(marks') = Len(marks)
      BY <1>1 DEF SameHandles
    <2> QED
      BY <1>1, <2>1 DEF SameHandles
  <1>4. PICK held : held = slotOf
    OBVIOUS
  <1>5. HandlesFit(marks', held)
    BY <1>2, <1>3, <1>4, HandlesStayFit
  <1>6. Len(marks') = Len(marks)
    BY <1>3 DEF SameHandles
  <1> QED
    BY <1>1, <1>2, <1>4, <1>5, <1>6 DEF BufferOK

\* The buffer after strchange.
LEMMA BufferAfterStrChange ==
    ASSUME BufferOK, NEW ms, MarksSound(ms, Len(text)), SameHandles(marks, ms),
           NEW pos \in Nat, NEW len \in Nat, pos + len <= Len(text),
           NEW new \in Seq(Chars), StrChange(ms, pos, len, new),
           slotOf' = slotOf
    PROVE  BufferOK'
  <1>1. Edit(ms, pos, len, new)
    BY DEF StrChange
  <1>2. CacheSound(pc', Len(text'))
    BY StrChangeStep DEF BufferOK
  <1> QED
    BY <1>1, <1>2, BufferAfterEdit

\* The buffer after marks have been moved or their slots' flags set.
LEMMA BufferAfterMarks ==
    ASSUME BufferOK, MarksSound(marks', Len(text)), SameHandles(marks, marks'),
           UNCHANGED <<text, slotOf, pc>>
    PROVE  BufferOK'
  <1>1. /\ marks \in Seq(Mark) /\ slotOf \in [Handles -> 0..Len(marks)]
        /\ HandlesFit(marks, slotOf)
    BY DEF BufferOK, MarksSound
  <1>2. PICK held : held = slotOf
    OBVIOUS
  <1>3. HandlesFit(marks', held)
    BY <1>1, <1>2, HandlesStayFit
  <1>4. Len(marks') = Len(marks)
    BY DEF SameHandles
  <1> QED
    BY <1>2, <1>3, <1>4 DEF BufferOK

\* Slots that are left alone are the same slots.
LEMMA SameHandlesSelf ==
    ASSUME NEW ms PROVE SameHandles(ms, ms)
  BY DEF SameHandles

\* No call is in progress after a step: nothing has to hold of it.
LEMMA CallAfterReturn ==
    ASSUME job' = Idle, flags' \subseteq {"locked", "dirty", "loaded"},
           answer' \in [pos : Int, line : Int]
    PROVE  CallOK'
  BY DEF CallOK, JobTypeOK, JobHolds, Idle

\* The kinds of calls in progress.
LEMMA JobKinds ==
    ASSUME CallOK
    PROVE  /\ job.op = "idle" => job = Idle
           /\ job.op = "remove" =>
                /\ job \in [op : {"remove"}, h : Handles, new : Seq(Chars),
                            p : Nat, top : Nat, from : Nat, to : Nat,
                            want : Seq(Chars)]
                /\ job.p <= Len(text) /\ slotOf[job.h] # 0
           /\ job.op = "insert" =>
                /\ job \in [op : {"insert"}, h : Handles, rest : Seq(Chars),
                            pos : Nat, begin : Nat, end : Nat, col : Nat,
                            w : Nat]
                /\ job.begin <= job.end /\ job.end <= job.pos
                /\ job.pos <= Len(text) /\ slotOf[job.h] # 0
           /\ job.op = "read" =>
                /\ job \in [op : {"read"}, h : Handles, begin : Nat,
                            got : Seq(Chars), load : BOOLEAN]
                /\ slotOf[job.h] # 0 /\ job.begin <= EndOf(MarkOf(job.h))
           /\ job.op # "idle" => answer = NoAnswer
  BY DEF CallOK, JobTypeOK, JobHolds, Idle, Aborted

\* sbuf_create
LEMMA InitEstablishes == Init => IInv
  <1>1. SUFFICES ASSUME Init PROVE IInv
    OBVIOUS
  <1>2. MarkGrow \in Nat /\ MarkGrow >= 1 /\ Aux \in Handles
    BY MarkGrowAssumption, HandlesAssumption
  <1>3. UnusedSlot \in Mark /\ NewMark(Aux, 0, 0) \in Mark
    BY <1>2 DEF UnusedSlot, NewMark, Mark
  <1>4. /\ marks \in Seq(Mark) /\ Len(marks) = MarkGrow
        /\ \A i \in 1..MarkGrow :
                marks[i] = IF i = 1 THEN NewMark(Aux, 0, 0) ELSE UnusedSlot
    <2>1. marks = [MoreSlots EXCEPT ![1] = NewMark(Aux, 0, 0)]
      BY <1>1 DEF Init
    <2> QED
      BY <1>2, <1>3, <2>1 DEF MoreSlots
  <1>5. text = <<>> /\ Len(text) = 0 /\ pc = <<>> /\ Len(pc) = 0
    BY <1>1 DEF Init
  <1>6. MarksSound(marks, Len(text))
    BY <1>4, <1>5 DEF MarksSound, NewMark, UnusedSlot
  <1>7. slotOf \in [Handles -> 0..Len(marks)]
    BY <1>1, <1>2, <1>4 DEF Init
  <1>8. HandlesFit(marks, slotOf)
    <2>1. \A h \in Handles : slotOf[h] = IF h = Aux THEN 1 ELSE 0
      BY <1>1 DEF Init
    <2>2. marks[1] = NewMark(Aux, 0, 0)
      BY <1>2, <1>4
    <2> QED
      BY <1>2, <1>4, <2>1, <2>2 DEF HandlesFit, NewMark, UnusedSlot
  <1>9. CacheSound(pc, Len(text))
    BY <1>5, PosCacheAllocAssumption DEF CacheSound
  <1>10. CallOK
    BY <1>1 DEF Init, CallOK, JobTypeOK, JobHolds, Idle, NoAnswer
  <1> QED
    BY <1>5, <1>6, <1>7, <1>8, <1>9, <1>10 DEF IInv, BufferOK

-----------------------------------------------------------------------------
\* Marks: one lemma for each call.

\* sbuf_mark takes a slot that no handle has.
LEMMA SbufMarkKeeps ==
    ASSUME IInv, NEW h \in Handles, NEW pos \in Nat, NEW len \in Nat,
           SbufMark(h, pos, len)
    PROVE  BufferOK'
  <1>1. /\ marks \in Seq(Mark) /\ Len(marks) \in Nat
        /\ slotOf \in [Handles -> 0..Len(marks)] /\ slotOf[h] = 0
        /\ \A i \in 1..Len(marks) :
                marks[i].inuse => marks[i].begin + marks[i].len <= Len(text)
    BY DEF IInv, BufferOK, MarksSound, SbufMark
  <1>2. MarkGrow \in Nat /\ MarkGrow >= 1
    BY MarkGrowAssumption
  <1>3. PICK more : more = MoreSlots
    OBVIOUS
  <1>4. /\ more \in Seq(Mark) /\ Len(more) = MarkGrow
        /\ \A i \in 1..MarkGrow : more[i] = UnusedSlot
    <2>1. UnusedSlot \in Mark
      BY DEF UnusedSlot, Mark
    <2> QED
      BY <1>2, <1>3, <2>1 DEF MoreSlots
  <1>5. PICK room, slot :
            /\ room = IF FreeSlots = {} THEN marks \o MoreSlots ELSE marks
            /\ slot = IF FreeSlots = {} THEN Len(marks) + 1 ELSE Min(FreeSlots)
    OBVIOUS
  <1>6. /\ room \in Seq(Mark) /\ Len(room) >= Len(marks) /\ Len(room) \in Nat
        /\ slot \in 1..Len(room)
        /\ slot \in 1..Len(marks) => ~marks[slot].inuse
        /\ \A i \in 1..Len(room) : IF i <= Len(marks) THEN room[i] = marks[i]
                                   ELSE room[i] = UnusedSlot
    <2>1. CASE FreeSlots = {}
      <3>1. room = marks \o more /\ slot = Len(marks) + 1
        BY <1>3, <1>5, <2>1
      <3>2. room \in Seq(Mark) /\ IsJoin(room, marks, more)
        BY <1>1, <1>4, <3>1, Join
      <3>3. Len(room) = Len(marks) + MarkGrow
        BY <1>4, <3>2 DEF IsJoin
      <3>4. ASSUME NEW i \in 1..Len(room), ~(i <= Len(marks))
            PROVE  room[i] = UnusedSlot
        <4>1. PICK j \in 1..MarkGrow : j = i - Len(marks)
          BY <1>1, <1>2, <3>3, <3>4
        <4>2. room[i] = more[j]
          BY <3>2, <3>4, <4>1 DEF IsJoin
        <4> QED
          BY <1>4, <4>2
      <3>5. \A i \in 1..Len(room) : i <= Len(marks) => room[i] = marks[i]
        BY <3>2 DEF IsJoin
      <3> QED
        BY <1>1, <1>2, <3>1, <3>2, <3>3, <3>4, <3>5
    <2>2. CASE FreeSlots # {}
      <3>1. room = marks /\ slot = Min(FreeSlots)
        BY <1>5, <2>2
      <3>2. FreeSlots \subseteq Nat
        BY <1>1 DEF FreeSlots
      <3>3. slot \in FreeSlots
        BY <2>2, <3>1, <3>2, MinIsLeast
      <3>4. slot \in 1..Len(marks) /\ ~marks[slot].inuse
        BY <1>1, <3>3 DEF FreeSlots
      <3> QED
        BY <1>1, <3>1, <3>4
    <2> QED
      BY <2>1, <2>2
  <1>7. PICK m \in Mark : m = NewMark(h, pos, len)
    BY DEF NewMark, Mark
  <1>8. m.inuse /\ m.handle = h /\ m.begin + m.len <= Len(text)
    BY <1>7 DEF NewMark, SbufMark
  <1>9. marks' = [room EXCEPT ![slot] = m] /\ slotOf' = [slotOf EXCEPT ![h] = slot]
        /\ UNCHANGED <<text, pc>>
    BY <1>5, <1>7 DEF SbufMark
  <1>10. /\ marks' \in Seq(Mark) /\ Len(marks') = Len(room)
         /\ \A i \in 1..Len(room) : marks'[i] = IF i = slot THEN m ELSE room[i]
    BY <1>6, <1>9
  <1>11. MarksSound(marks', Len(text)')
    <2>1. ASSUME NEW i \in 1..Len(room), marks'[i].inuse
          PROVE  marks'[i].begin + marks'[i].len <= Len(text)
      <3>1. CASE i = slot
        BY <3>1, <1>8, <1>10
      <3>2. CASE i # slot
        <4>1. i <= Len(marks) /\ marks'[i] = marks[i]
          BY <2>1, <3>2, <1>6, <1>10 DEF UnusedSlot
        <4> QED
          BY <4>1, <2>1, <1>1
      <3> QED
        BY <3>1, <3>2
    <2> QED
      BY <2>1, <1>9, <1>10 DEF MarksSound
  <1>12. slotOf' \in [Handles -> 0..Len(marks')]
    BY <1>1, <1>6, <1>9, <1>10
  <1>13. HandlesFit(marks', slotOf')
    <2>1. \A g \in Handles : slotOf'[g] = IF g = h THEN slot ELSE slotOf[g]
      BY <1>1, <1>9
    <2>2. HandlesFit(marks, slotOf)
      BY DEF IInv, BufferOK
    <2>3. slotOf'[Aux] # 0
      BY <2>1, <2>2, <1>6, HandlesAssumption DEF HandlesFit
    <2>4. ASSUME NEW g \in Handles, slotOf'[g] # 0
          PROVE  marks'[slotOf'[g]].inuse /\ marks'[slotOf'[g]].handle = g
      <3>1. CASE g = h
        BY <3>1, <2>1, <1>6, <1>8, <1>10
      <3>2. CASE g # h
        <4>1. PICK i \in 1..Len(marks) : i = slotOf[g] /\ slotOf'[g] = i
          BY <3>2, <2>1, <2>4, <1>1
        <4>2. marks[i].inuse /\ marks[i].handle = g
          BY <4>1, <2>1, <2>2, <2>4, <3>2 DEF HandlesFit
        <4>3. i # slot /\ i \in 1..Len(room) /\ i <= Len(marks)
          BY <4>2, <1>1, <1>6
        <4>4. marks'[i] = marks[i]
          BY <4>3, <1>6, <1>10
        <4> QED
          BY <4>1, <4>2, <4>4
      <3> QED
        BY <3>1, <3>2
    <2>5. ASSUME NEW i \in 1..Len(room), marks'[i].inuse
          PROVE  marks'[i].handle \in Handles /\ slotOf'[marks'[i].handle] = i
      <3>1. CASE i = slot
        BY <3>1, <2>1, <1>8, <1>10
      <3>2. CASE i # slot
        <4>1. i \in 1..Len(marks) /\ marks'[i] = marks[i]
          BY <2>5, <3>2, <1>1, <1>6, <1>10 DEF UnusedSlot
        <4>2. marks[i].handle \in Handles /\ slotOf[marks[i].handle] = i
          BY <4>1, <2>2, <2>5 DEF HandlesFit
        <4>3. marks[i].handle # h
          BY <4>1, <4>2, <1>1
        <4> QED
          BY <4>1, <4>2, <4>3, <2>1
      <3> QED
        BY <3>1, <3>2
    <2> QED
      BY <2>3, <2>4, <2>5, <1>10 DEF HandlesFit
  <1> QED
    BY <1>9, <1>11, <1>12, <1>13 DEF IInv, BufferOK

\* More slots do not matter to the handles.
LEMMA SbufMarkNoMemoryKeeps ==
    ASSUME IInv, SbufMarkNoMemory
    PROVE  BufferOK'
  <1>1. /\ marks \in Seq(Mark) /\ Len(marks) \in Nat
        /\ slotOf \in [Handles -> 0..Len(marks)] /\ HandlesFit(marks, slotOf)
        /\ \A i \in 1..Len(marks) :
                marks[i].inuse => marks[i].begin + marks[i].len <= Len(text)
    BY DEF IInv, BufferOK, MarksSound
  <1>2. MarkGrow \in Nat
    BY MarkGrowAssumption
  <1>3. PICK more : more = MoreSlots
    OBVIOUS
  <1>4. /\ more \in Seq(Mark) /\ Len(more) = MarkGrow
        /\ \A i \in 1..MarkGrow : ~more[i].inuse
    <2>1. UnusedSlot \in Mark /\ ~UnusedSlot.inuse
      BY DEF UnusedSlot, Mark
    <2> QED
      BY <1>2, <1>3, <2>1 DEF MoreSlots
  <1>5. marks' = marks \o more /\ UNCHANGED <<text, slotOf, pc>>
    BY <1>3 DEF SbufMarkNoMemory
  <1>6. marks' \in Seq(Mark) /\ IsJoin(marks', marks, more)
    BY <1>1, <1>4, <1>5, Join
  <1>7. Len(marks') = Len(marks) + MarkGrow
    BY <1>4, <1>6 DEF IsJoin
  <1>8. ASSUME NEW i \in 1..Len(marks'), marks'[i].inuse
        PROVE  i \in 1..Len(marks) /\ marks'[i] = marks[i]
    <2>1. CASE i <= Len(marks)
      BY <2>1, <1>1, <1>6 DEF IsJoin
    <2>2. CASE ~(i <= Len(marks))
      <3>1. PICK j \in 1..MarkGrow : j = i - Len(marks)
        BY <1>1, <1>2, <1>7, <2>2
      <3>2. marks'[i] = more[j]
        BY <1>6, <2>2, <3>1 DEF IsJoin
      <3> QED
        BY <1>4, <1>8, <3>2
    <2> QED
      BY <2>1, <2>2
  <1>9. MarksSound(marks', Len(text)')
    BY <1>1, <1>5, <1>6, <1>8 DEF MarksSound
  <1>10. slotOf' \in [Handles -> 0..Len(marks')]
    BY <1>1, <1>2, <1>5, <1>7
  <1>11. HandlesFit(marks', slotOf')
    <2>1. ASSUME NEW h \in Handles, slotOf[h] # 0
          PROVE  marks'[slotOf[h]].inuse /\ marks'[slotOf[h]].handle = h
      <3>1. PICK i \in 1..Len(marks) : i = slotOf[h]
        BY <1>1, <2>1
      <3>2. i \in 1..Len(marks') /\ marks'[i] = marks[i]
        BY <1>1, <1>2, <1>6, <1>7 DEF IsJoin
      <3> QED
        BY <1>1, <2>1, <3>1, <3>2 DEF HandlesFit
    <2> QED
      BY <1>1, <1>5, <1>8, <2>1 DEF HandlesFit
  <1> QED
    BY <1>5, <1>9, <1>10, <1>11 DEF IInv, BufferOK

\* sbuf_unmark frees the slot and the client forgets the handle.
LEMMA SbufUnmarkKeeps ==
    ASSUME IInv, NEW h \in Handles, SbufUnmark(h)
    PROVE  BufferOK'
  <1>1. /\ marks \in Seq(Mark) /\ Len(marks) \in Nat
        /\ slotOf \in [Handles -> 0..Len(marks)] /\ HandlesFit(marks, slotOf)
        /\ \A i \in 1..Len(marks) :
                marks[i].inuse => marks[i].begin + marks[i].len <= Len(text)
    BY DEF IInv, BufferOK, MarksSound
  <1>2. slotOf[h] \in 1..Len(marks) /\ h # Aux
    BY <1>1, HandlesAssumption DEF SbufUnmark, Ready
  <1>3. PICK slot \in 1..Len(marks) : slot = slotOf[h]
    BY <1>2
  <1>4. PICK m : m = [marks[slot] EXCEPT !.inuse = FALSE]
    OBVIOUS
  <1>5. m \in Mark /\ ~m.inuse
    <2>1. marks[slot] \in Mark
      BY <1>1
    <2> QED
      BY <1>4, <2>1 DEF Mark
  <1>6. /\ marks' = [marks EXCEPT ![slot] = m]
        /\ slotOf' = [slotOf EXCEPT ![h] = 0] /\ UNCHANGED <<text, pc>>
    BY <1>3, <1>4 DEF SbufUnmark
  <1>7. /\ marks' \in Seq(Mark) /\ Len(marks') = Len(marks)
        /\ \A i \in 1..Len(marks) : marks'[i] = IF i = slot THEN m ELSE marks[i]
    BY <1>1, <1>5, <1>6
  <1>8. \A g \in Handles : slotOf'[g] = IF g = h THEN 0 ELSE slotOf[g]
    BY <1>1, <1>6
  <1>9. MarksSound(marks', Len(text)')
    BY <1>1, <1>5, <1>6, <1>7 DEF MarksSound
  <1>10. slotOf' \in [Handles -> 0..Len(marks')]
    BY <1>1, <1>6, <1>7
  <1>11. HandlesFit(marks', slotOf')
    <2>1. slotOf'[Aux] # 0
      BY <1>1, <1>2, <1>8, HandlesAssumption DEF HandlesFit
    <2>2. ASSUME NEW g \in Handles, slotOf'[g] # 0
          PROVE  marks'[slotOf'[g]].inuse /\ marks'[slotOf'[g]].handle = g
      <3>1. g # h /\ slotOf'[g] = slotOf[g] /\ slotOf[g] # 0
        BY <2>2, <1>8
      <3>2. PICK i \in 1..Len(marks) : i = slotOf[g]
        BY <3>1, <1>1
      <3>3. marks[i].inuse /\ marks[i].handle = g
        BY <3>1, <3>2, <1>1 DEF HandlesFit
      <3>4. i # slot
        BY <3>1, <3>3, <1>1, <1>2, <1>3 DEF HandlesFit
      <3>5. marks'[i] = marks[i]
        BY <3>4, <1>7
      <3> QED
        BY <3>1, <3>2, <3>3, <3>5
    <2>3. ASSUME NEW i \in 1..Len(marks), marks'[i].inuse
          PROVE  marks'[i].handle \in Handles /\ slotOf'[marks'[i].handle] = i
      <3>1. i # slot /\ marks'[i] = marks[i]
        BY <2>3, <1>5, <1>7
      <3>2. marks[i].handle \in Handles /\ slotOf[marks[i].handle] = i
        BY <2>3, <3>1, <1>1 DEF HandlesFit
      <3>3. marks[i].handle # h
        BY <3>1, <3>2, <1>3
      <3> QED
        BY <3>1, <3>2, <3>3, <1>8
    <2> QED
      BY <2>1, <2>2, <2>3, <1>7 DEF HandlesFit
  <1> QED
    BY <1>6, <1>9, <1>10, <1>11 DEF IInv, BufferOK


\* What is left of a text without some of its characters is a text.
LEMMA WithoutIsText ==
    ASSUME NEW t \in Seq(Chars), NEW out
    PROVE  Without(t, out) \in Seq(Chars)
  <1> DEFINE P == {p \in 0..Len(t) - 1 : p \notin out}
             Recursive(f) == f = [i \in 0..Cardinality(P) |->
                        IF i = 0 THEN -1 ELSE Min({p \in P : p > f[i - 1]})]
             nth == CHOOSE f : Recursive(f)
  <1>1. P \subseteq 0..Len(t) - 1
    OBVIOUS
  <1>2. IsFiniteSet(P) /\ P \subseteq Nat
    <2>1. IsFiniteSet(0..Len(t) - 1)
      BY FS_Interval
    <2> HIDE DEF P
    <2>2. P \in SUBSET (0..Len(t) - 1) /\ P \subseteq Nat
      BY <1>1
    <2> QED
      BY <2>1, <2>2, FS_Subset
  <1>3. Enumerates(nth, P)
    <2>1. \E f : Enumerates(f, P)
      <3> HIDE DEF P
      <3> QED
        BY <1>2, EnumerationExists
    <2>2. Recursive(nth)
      BY <2>1 DEF Enumerates
    <2> QED
      BY <2>2 DEF Enumerates
  <1>4. Without(t, out) = [i \in 1..Cardinality(P) |-> t[nth[i] + 1]]
    BY DEF Without
  <1> HIDE DEF nth, P
  <1>5. PICK g, R : g = nth /\ R = P
    OBVIOUS
  <1>6. [i \in 1..Cardinality(R) |-> t[g[i] + 1]] \in Seq(Chars)
    <2>1. R \subseteq 0..Len(t) - 1 /\ Enumerates(g, R)
      BY <1>1, <1>3, <1>5
    <2> QED
      BY <2>1, EnumeratedText
  <1> QED
    BY <1>4, <1>5, <1>6


\* sbuf_remark, and sbuf_search which ends in it.
LEMMA RemarkKeeps ==
    ASSUME IInv, NEW h \in Handles, slotOf[h] # 0, NEW pos \in Nat,
           NEW len \in Nat, pos + len <= Len(text),
           marks' = Remarked(marks, slotOf[h], pos, len),
           UNCHANGED <<text, slotOf, pc>>
    PROVE  BufferOK'
  <1>1. BufferOK
    BY DEF IInv
  <1>2. PICK slot \in 1..Len(marks) : slot = slotOf[h]
    BY <1>1, HeldMark
  <1>3. PICK n \in Nat : n = Len(text)
    BY <1>1 DEF BufferOK
  <1>4. MarksSound(marks, n) /\ pos + len <= n
        /\ marks' = Remarked(marks, slot, pos, len)
    BY <1>1, <1>2, <1>3 DEF BufferOK
  <1>5. MarksSound(marks', n) /\ SameHandles(marks, marks')
    <2>1. PICK ms, ns : ms = marks /\ ns = marks'
      OBVIOUS
    <2>2. /\ MarksSound(ms, n) /\ slot \in 1..Len(ms)
          /\ ns = Remarked(ms, slot, pos, len)
      BY <1>4, <2>1
    <2>3. MarksSound(ns, n) /\ SameHandles(ms, ns)
      BY <1>4, <2>2, RemarkedSound
    <2> QED
      BY <2>1, <2>3
  <1> QED
    BY <1>1, <1>3, <1>5, BufferAfterMarks

\* The search remarks within the other mark.
LEMMA SbufSearchKeeps ==
    ASSUME IInv, NEW h \in Handles, NEW inside \in Handles, NEW pat \in Patterns,
           NEW backward \in BOOLEAN, SbufSearch(h, inside, pat, backward)
    PROVE  BufferOK'
  <1>1. text \in Seq(Chars) /\ pat \in Seq(Chars) /\ BufferOK
    BY PatternsAssumption DEF IInv, BufferOK
  <1>2. PICK m : m = MarkOf(inside)
    OBVIOUS
  <1>3. m.begin \in Nat /\ m.len \in Nat /\ m.begin + m.len <= Len(text)
    BY <1>1, <1>2, HeldMark DEF SbufSearch, Ready
  <1>4. PICK found : found = Matches(text, m, pat) /\ found # {}
    BY <1>2 DEF SbufSearch
  <1>5. /\ Min(found) \in Nat /\ Min(found) + Len(pat) <= m.begin + m.len
        /\ Max(found) \in Nat /\ Max(found) + Len(pat) <= m.begin + m.len
    BY <1>1, <1>3, <1>4, MatchesWithin
  <1>6. PICK pos, len : /\ pos = IF backward THEN Max(found) ELSE Min(found)
                        /\ len = Len(pat)
    OBVIOUS
  <1>7. pos \in Nat /\ len \in Nat /\ pos + len <= Len(text)
    <2>1. PICK b \in Nat, e \in Nat : b = m.begin + m.len /\ e = Len(text)
      BY <1>1, <1>3
    <2>2. len \in Nat /\ b <= e
      BY <1>1, <1>3, <1>6, <2>1
    <2>3. pos \in Nat /\ pos + len <= b
      BY <1>5, <1>6, <2>1
    <2> QED
      BY <2>1, <2>2, <2>3
  <1>8. /\ marks' = Remarked(marks, slotOf[h], pos, len) /\ slotOf[h] # 0
        /\ UNCHANGED <<text, slotOf, pc>>
    BY <1>2, <1>4, <1>6 DEF SbufSearch, Ready
  <1> QED
    BY <1>7, <1>8, RemarkKeeps

\* The calls that set a mark's fields leave where it is.
LEMMA SetMarkKeeps ==
    ASSUME IInv, NEW h \in Handles, SetMark(h)
    PROVE  BufferOK'
  <1>1. BufferOK /\ slotOf[h] # 0 /\ UNCHANGED <<text, slotOf, pc>>
    BY DEF IInv, SetMark, Ready
  <1>2. PICK slot \in 1..Len(marks) : slot = slotOf[h]
    BY <1>1, HeldMark
  <1>3. marks \in Seq(Mark)
        /\ \A i \in 1..Len(marks) :
                marks[i].inuse => marks[i].begin + marks[i].len <= Len(text)
    BY <1>1 DEF BufferOK, MarksSound
  <1>4. PICK old \in Mark : old = marks[slot]
    BY <1>3
  <1>5. PICK m \in Mark : /\ marks' = [marks EXCEPT ![slot] = m]
                          /\ m.inuse = old.inuse /\ m.handle = old.handle
                          /\ m.begin = old.begin /\ m.len = old.len
    <2>1. CASE \E mode \in ColumnarModes :
                    marks' = [marks EXCEPT ![slotOf[h]].columnar = mode]
      <3>1. PICK mode \in BOOLEAN :
                    marks' = [marks EXCEPT ![slot].columnar = mode]
        BY <1>2, <2>1, ModesAssumption
      <3>2. PICK m : m = [old EXCEPT !.columnar = mode]
        OBVIOUS
      <3>3. /\ m \in Mark /\ m.inuse = old.inuse /\ m.handle = old.handle
            /\ m.begin = old.begin /\ m.len = old.len
        BY <3>2 DEF Mark
      <3>4. marks' = [marks EXCEPT ![slot] = m]
        BY <1>4, <3>1, <3>2
      <3> QED
        BY <3>3, <3>4
    <2>2. CASE \E code \in Codes :
                    marks' = [marks EXCEPT ![slotOf[h]].code = code]
      <3>1. PICK code \in Nat : marks' = [marks EXCEPT ![slot].code = code]
        BY <1>2, <2>2, CodesAssumption
      <3>2. PICK m : m = [old EXCEPT !.code = code]
        OBVIOUS
      <3>3. /\ m \in Mark /\ m.inuse = old.inuse /\ m.handle = old.handle
            /\ m.begin = old.begin /\ m.len = old.len
        BY <3>2 DEF Mark
      <3>4. marks' = [marks EXCEPT ![slot] = m]
        BY <1>4, <3>1, <3>2
      <3> QED
        BY <3>3, <3>4
    <2>3. CASE \E dirty \in DirtyBits :
                    marks' = [marks EXCEPT ![slotOf[h]].dirty = dirty]
      <3>1. PICK dirty \in BOOLEAN : marks' = [marks EXCEPT ![slot].dirty = dirty]
        BY <1>2, <2>3, ModesAssumption
      <3>2. PICK m : m = [old EXCEPT !.dirty = dirty]
        OBVIOUS
      <3>3. /\ m \in Mark /\ m.inuse = old.inuse /\ m.handle = old.handle
            /\ m.begin = old.begin /\ m.len = old.len
        BY <3>2 DEF Mark
      <3>4. marks' = [marks EXCEPT ![slot] = m]
        BY <1>4, <3>1, <3>2
      <3> QED
        BY <3>3, <3>4
    <2> QED
      BY <2>1, <2>2, <2>3 DEF SetMark
  <1>6. /\ marks' \in Seq(Mark) /\ Len(marks') = Len(marks)
        /\ \A i \in 1..Len(marks) : marks'[i] = IF i = slot THEN m ELSE marks[i]
    BY <1>3, <1>5
  <1>7. MarksSound(marks', Len(text)) /\ SameHandles(marks, marks')
    BY <1>3, <1>4, <1>5, <1>6 DEF MarksSound, SameHandles
  <1> QED
    BY <1>1, <1>7, BufferAfterMarks

-----------------------------------------------------------------------------
\* Changes of the text by a client.

\* sbuf_strchange and sbuf_change
LEMMA ChangeKeeps ==
    ASSUME IInv, NEW h \in Handles, slotOf[h] # 0, job = Idle,
           NEW new \in Seq(Chars), Change(h, new)
    PROVE  IInv' /\ (LinesRight(pc, text) => LinesRight(pc', text'))
  <1>1. BufferOK /\ text \in Seq(Chars) /\ CallOK
    BY DEF IInv, BufferOK
  <1>2. PICK m : m = MarkOf(h)
    OBVIOUS
  <1>3. m.begin \in Nat /\ m.len \in Nat /\ m.begin + m.len <= Len(text)
    BY <1>1, <1>2, HeldMark
  <1>4. answer' = NoAnswer /\ slotOf' = slotOf
    BY DEF Change
  <1>5. answer' \in [pos : Int, line : Int]
    BY <1>4 DEF NoAnswer
  <1>6. CASE m.columnar
    <2>1. StartColumns(h, new)
      BY <1>2, <1>6 DEF Change
    <2>2. UNCHANGED <<text, marks, pc, flags>>
      BY <2>1 DEF StartColumns
    <2>3. BufferOK'
      BY <1>1, <1>4, <2>2 DEF BufferOK
    <2>4. PICK b \in 0..Len(text), e \in 0..Len(text) : b = m.begin /\ e = EndOf(m)
      BY <1>1, <1>3 DEF EndOf
    <2>5. PICK from \in Nat, to \in Nat : from = Colno(text, b) /\ to = Colno(text, e)
      BY <1>1, ColnoIsNat
    <2>6. PICK top \in 0..b, p \in 0..e : top = Boln(text, b) /\ p = Boln(text, e)
      BY BolnStops
    <2>7. PICK want \in Seq(Chars) :
                want = Without(text, {q \in InColumns(text, m.begin, m.len) :
                                        text[q + 1] # NL})
      BY <1>1, WithoutIsText
    <2>8. job' = IF from > to THEN Idle
                 ELSE [op |-> "remove", h |-> h, new |-> new, p |-> p,
                       top |-> top, from |-> from, to |-> to, want |-> want]
      BY <1>2, <2>1, <2>4, <2>5, <2>6, <2>7 DEF StartColumns
    <2>9. CallOK'
      <3>1. CASE from > to
        BY <1>1, <1>5, <2>2, <2>8, <3>1, CallAfterReturn DEF CallOK
      <3>2. CASE ~(from > to)
        <4>1. job' = [op |-> "remove", h |-> h, new |-> new, p |-> p,
                      top |-> top, from |-> from, to |-> to, want |-> want]
          BY <2>8, <3>2
        <4>2. p \in Nat /\ top \in Nat /\ p <= Len(text)
          BY <1>1, <2>4, <2>6
        <4>3. JobTypeOK'
          BY <4>1, <4>2, <2>2 DEF JobTypeOK
        <4>4. JobHolds'
          BY <1>4, <4>1 DEF JobHolds
        <4> QED
          BY <1>1, <1>5, <2>2, <4>3, <4>4 DEF CallOK
      <3> QED
        BY <3>1, <3>2
    <2> QED
      BY <2>2, <2>3, <2>9 DEF IInv, LinesRight
  <1>7. CASE ~m.columnar
    <2>1. /\ StrChange(marks, m.begin, m.len, new)
          /\ flags' = flags \cup {"dirty"} /\ job' = Idle
      BY <1>2, <1>7 DEF Change
    <2>2. PICK b \in Nat, l \in Nat : b = m.begin /\ l = m.len
      BY <1>3
    <2>3. StrChange(marks, b, l, new) /\ b + l <= Len(text)
      BY <1>3, <2>1, <2>2
    <2>4. BufferOK'
      BY <1>1, <1>4, <2>3, BufferAfterStrChange, SameHandlesSelf DEF BufferOK
    <2>5. LinesRight(pc, text) => LinesRight(pc', text')
      BY <1>1, <2>3, StrChangeStep DEF BufferOK
    <2>6. CallOK'
      BY <1>1, <1>5, <2>1, CallAfterReturn DEF CallOK
    <2> QED
      BY <2>4, <2>5, <2>6 DEF IInv
  <1> QED
    BY <1>6, <1>7


\* A mark whose own range is replaced takes exactly what it was replaced with.
LEMMA AdjustOwnMark ==
    ASSUME NEW m \in Mark, NEW newlen \in Nat
    PROVE  LET a == AdjustMark(m, m.begin, m.len, newlen)
           IN  a.begin = m.begin /\ a.len = newlen
  <1>1. PICK b \in Nat, l \in Nat : b = m.begin /\ l = m.len
    BY DEF Mark
  <1>2. /\ ~(m.begin < b) /\ m.begin >= b /\ m.begin <= b + l
        /\ ~(m.begin + m.len > b + l)
    BY <1>1
  <1>3. AdjustMark(m, b, l, newlen)
            = [m EXCEPT !.begin = b, !.len = newlen, !.dirty = TRUE]
    BY <1>2, Zenon DEF AdjustMark, EndOf
  <1> QED
    BY <1>1, <1>3 DEF Mark

\* A mark is moved to a range and the range then changed through it: how
\* sbuf_load and sbuf_insert_file change the text.
LEMMA ChangeThroughMark ==
    ASSUME BufferOK, NEW h \in Handles, slotOf[h] # 0,
           NEW pos \in Nat, NEW len \in Nat, pos + len <= Len(text),
           NEW new \in Seq(Chars),
           StrChange(Remarked(marks, slotOf[h], pos, len), pos, len, new),
           slotOf' = slotOf
    PROVE  /\ BufferOK'
           /\ LinesRight(pc, text) => LinesRight(pc', text')
           /\ MarkOf(h)'.begin = pos /\ MarkOf(h)'.len = Len(new)
           /\ text' \in Seq(Chars) /\ Spliced(text', text, pos, len, new)
  <1>1. PICK slot \in 1..Len(marks) : slot = slotOf[h] /\ marks[slot].inuse
    BY HeldMark DEF MarkOf
  <1>n. PICK n \in Nat : n = Len(text)
    BY DEF BufferOK
  <1>m. PICK ms : ms = marks
    OBVIOUS
  <1>r. PICK ns : ns = Remarked(ms, slot, pos, len)
    OBVIOUS
  <1>2. n = Len(text) /\ ms = marks /\ ns = Remarked(ms, slot, pos, len)
    BY <1>n, <1>m, <1>r
  <1>3. /\ MarksSound(ns, n) /\ SameHandles(ms, ns)
        /\ ns[slot].begin = pos /\ ns[slot].len = len
    <2>1. MarksSound(ms, n) /\ slot \in 1..Len(ms) /\ pos + len <= n
      BY <1>2 DEF BufferOK
    <2> QED
      BY <1>2, <2>1, RemarkedSound
  <1>4. StrChange(ns, pos, len, new)
    BY <1>1, <1>2
  <1>5. MarksSound(ns, Len(text)) /\ SameHandles(marks, ns)
    BY <1>2, <1>3
  <1>6. BufferOK'
    BY <1>4, <1>5, BufferAfterStrChange
  <1>7. LinesRight(pc, text) => LinesRight(pc', text')
    BY <1>4, <1>5, StrChangeStep DEF BufferOK
  <1>8. text' \in Seq(Chars) /\ Spliced(text', text, pos, len, new)
    BY <1>4, <1>5, EditStep DEF BufferOK, StrChange
  <1>9. MarkOf(h)'.begin = pos /\ MarkOf(h)'.len = Len(new)
    <2>1. slot \in 1..Len(ns) /\ ns[slot].inuse /\ ns \in Seq(Mark)
      BY <1>1, <1>2, <1>3 DEF SameHandles, MarksSound
    <2>2. PICK m \in Mark : m = ns[slot]
      BY <2>1
    <2>3. marks' = AdjustMarks(ns, pos, len, Len(new))
      BY <1>4 DEF StrChange, Edit
    <2>4. marks'[slot] = AdjustMark(m, pos, len, Len(new))
      BY <2>1, <2>2, <2>3 DEF AdjustMarks
    <2>5. m.begin = pos /\ m.len = len /\ Len(new) \in Nat
      BY <1>3, <2>2
    <2>6. marks'[slot].begin = pos /\ marks'[slot].len = Len(new)
      BY <2>4, <2>5, AdjustOwnMark
    <2> QED
      BY <1>1, <2>6 DEF MarkOf
  <1> QED
    BY <1>6, <1>7, <1>8, <1>9

-----------------------------------------------------------------------------
\* The loops over the lines of a columnar mark.


\* The column insertion begins where the mark is.
LEMMA InsertJobOK ==
    ASSUME BufferOK', NEW h \in Handles, slotOf'[h] # 0, NEW new \in Seq(Chars),
           job' = InsertJob(text', marks'[slotOf'[h]], h, new),
           flags' \subseteq {"locked", "dirty", "loaded"}, answer' = NoAnswer
    PROVE  CallOK'
  <1>1. text' \in Seq(Chars)
    BY DEF BufferOK
  <1>2. PICK m : m = marks'[slotOf'[h]]
    OBVIOUS
  <1>3. PICK b \in 0..Len(text') : b = m.begin
    <2>a. PICK n \in Nat : n = Len(text')
      BY <1>1
    <2>b. PICK ms, held : ms = marks' /\ held = slotOf'
      OBVIOUS
    <2>1. ms = marks' /\ held = slotOf' /\ n = Len(text')
      BY <2>a, <2>b
    <2>2. /\ MarksSound(ms, n) /\ held \in [Handles -> 0..Len(ms)]
          /\ HandlesFit(ms, held) /\ held[h] # 0
      BY <2>1 DEF BufferOK
    <2>3. /\ ms[held[h]].begin \in Nat /\ ms[held[h]].len \in Nat
          /\ ms[held[h]].begin + ms[held[h]].len <= n
      BY <2>2, HeldSlot
    <2>4. m = ms[held[h]]
      BY <1>2, <2>1
    <2>5. m.begin \in 0..n
      BY <2>3, <2>4
    <2> QED
      BY <2>1, <2>5
  <1>4. PICK t \in Seq(Chars) : t = text'
    BY <1>1
  <1>5. PICK col \in Nat, w \in Nat : col = Colno(t, b) /\ w = StringWidth(new)
    <2>1. b \in 0..Len(t)
      BY <1>3, <1>4
    <2>2. Colno(t, b) \in Nat /\ StringWidth(new) \in Nat
      BY <2>1, ColnoIsNat, StringWidthIsNat
    <2> QED
      BY <2>2
  <1>6. job' = [op |-> "insert", h |-> h, rest |-> new, pos |-> b, begin |-> b,
                end |-> b, col |-> col, w |-> w]
    BY <1>2, <1>3, <1>4, <1>5 DEF InsertJob
  <1>7. b \in Nat /\ b <= Len(text')
    BY <1>1, <1>3
  <1>8. JobTypeOK'
    BY <1>6, <1>7 DEF JobTypeOK
  <1>9. JobHolds'
    BY <1>6 DEF JobHolds
  <1>10. NoAnswer \in [pos : Int, line : Int]
    BY DEF NoAnswer
  <1> QED
    BY <1>8, <1>9, <1>10 DEF CallOK

\* One line of the columns is removed.
LEMMA RemoveLineKeeps ==
    ASSUME IInv, RemoveLine
    PROVE  IInv' /\ (LinesRight(pc, text) => LinesRight(pc', text'))
  <1>1. BufferOK /\ text \in Seq(Chars) /\ CallOK /\ job.op = "remove"
    BY DEF IInv, BufferOK, RemoveLine
  <1>2. PICK h \in Handles, new \in Seq(Chars), p \in 0..Len(text), top \in Nat,
             from \in Nat, to \in Nat :
            /\ h = job.h /\ new = job.new /\ p = job.p /\ top = job.top
            /\ from = job.from /\ to = job.to /\ slotOf[h] # 0
    BY <1>1, JobKinds
  <1>3. PICK b \in p..Len(text), e \in p..Len(text) : b = PartBegin /\ e = PartEnd
    BY <1>1, <1>2, ColposStops DEF PartBegin, PartEnd
  <1>4. PICK len \in Nat : len = e - b
    BY <1>3 DEF RemoveLine
  <1>5. b \in Nat /\ b + len <= Len(text) /\ p <= b /\ p \in Nat
    BY <1>2, <1>3, <1>4
  <1>6. /\ Edit(marks, b, len, <<>>) /\ pc' = ClearPosCache(pc, p)
        /\ flags' = flags \cup {"dirty"} /\ UNCHANGED <<slotOf, answer>>
    BY <1>2, <1>3, <1>4 DEF RemoveLine
  <1>7. <<>> \in Seq(Chars) /\ Len(<<>>) = 0
    OBVIOUS
  <1>8. /\ CacheSound(pc', Len(text'))
        /\ LinesRight(pc, text) => LinesRight(pc', text')
    <2>1. text' = Splice(text, b, len, <<>>)
      BY <1>6 DEF Edit
    <2> QED
      BY <1>1, <1>5, <1>6, <1>7, <2>1, ColumnStep DEF BufferOK
  <1>9. BufferOK'
    BY <1>1, <1>5, <1>6, <1>7, <1>8, BufferAfterEdit, SameHandlesSelf DEF BufferOK
  <1>10. text' \in Seq(Chars) /\ Len(text') = Len(text) - len
    <2>1. text' \in Seq(Chars) /\ Len(text') = Len(text) - len + Len(<<>>)
      BY <1>1, <1>5, <1>6, <1>7, EditStep DEF BufferOK
    <2> QED
      BY <1>1, <1>4, <1>7, <2>1
  <1>11. flags' \subseteq {"locked", "dirty", "loaded"} /\ answer' = NoAnswer
    BY <1>1, <1>6, JobKinds DEF CallOK
  <1>12. PICK above : above = LineAbove(text', p)
    OBVIOUS
  <1>13. above = -1 \/ (above \in Nat /\ above <= p)
    <2>1. CASE p = 0
      BY <1>12, <2>1 DEF LineAbove
    <2>2. CASE p # 0
      <3>1. PICK q \in Nat : q = p - 1
        BY <1>5, <2>2
      <3>2. PICK t : t = text'
        OBVIOUS
      <3>3. above = Boln(t, q)
        BY <1>12, <2>2, <3>1, <3>2 DEF LineAbove
      <3>4. above \in 0..q
        BY <3>3, BolnStops
      <3> QED
        BY <1>5, <3>1, <3>4
    <2> QED
      BY <2>1, <2>2
  <1>14. CASE above >= top
    <2>1. job' = [job EXCEPT !.p = above]
      BY <1>2, <1>12, <1>14 DEF RemoveLine
    <2>2. above \in Nat /\ above <= Len(text')
      <3>1. above \in Nat /\ above <= p
        BY <1>2, <1>13, <1>14
      <3> QED
        BY <3>1, <1>1, <1>3, <1>4, <1>10
    <2>3. job \in [op : {"remove"}, h : Handles, new : Seq(Chars), p : Nat,
                   top : Nat, from : Nat, to : Nat, want : Seq(Chars)]
      BY <1>1, JobKinds
    <2>4. /\ job' \in [op : {"remove"}, h : Handles, new : Seq(Chars), p : Nat,
                       top : Nat, from : Nat, to : Nat, want : Seq(Chars)]
          /\ job'.p = above /\ job'.h = h /\ job'.op = "remove"
      BY <1>2, <2>1, <2>2, <2>3
    <2>5. JobTypeOK'
      BY <2>2, <2>4 DEF JobTypeOK
    <2>6. JobHolds'
      BY <1>2, <1>6, <1>11, <2>4 DEF JobHolds
    <2>7. CallOK'
      BY <1>11, <2>5, <2>6 DEF CallOK, NoAnswer
    <2> QED
      BY <1>8, <1>9, <2>7 DEF IInv
  <1>15. CASE ~(above >= top)
    <2>1. job' = InsertJob(text', marks'[slotOf'[h]], h, new)
      BY <1>2, <1>6, <1>12, <1>15 DEF RemoveLine
    <2>2. slotOf'[h] # 0
      BY <1>2, <1>6
    <2>3. CallOK'
      BY <1>9, <1>11, <2>1, <2>2, InsertJobOK
    <2> QED
      BY <1>8, <1>9, <2>3 DEF IInv
  <1> QED
    BY <1>14, <1>15


\* One line is inserted into the columns, and the next one goes behind it.
LEMMA InsertLineKeeps ==
    ASSUME IInv, InsertLine
    PROVE  IInv' /\ (LinesRight(pc, text) => LinesRight(pc', text'))
  <1>1. BufferOK /\ text \in Seq(Chars) /\ CallOK /\ job.op = "insert"
    BY DEF IInv, BufferOK, InsertLine
  <1>2. PICK rest \in Seq(Chars), pos \in Nat, begin \in Nat, end \in Nat,
             col \in Nat, w \in Nat :
            /\ rest = job.rest /\ pos = job.pos /\ begin = job.begin
            /\ end = job.end /\ col = job.col /\ w = job.w
            /\ begin <= end /\ end <= pos /\ pos <= Len(text)
            /\ slotOf[job.h] # 0
    BY <1>1, JobKinds
  <1>3. PICK n \in 0..Len(rest) : /\ n = LineLength(rest)
                                 /\ \A i \in 1..n : rest[i] # NL
    BY LineLengthStops
  <1>4. PICK line : line = Pad(rest, n, w)
    OBVIOUS
  <1>5. line \in Seq(Chars) /\ Len(line) = w /\ \A i \in 1..w : line[i] # NL
    BY <1>3, <1>4, PadIsLine
  <1>6. /\ Edit(marks, pos, 0, line) /\ pc' = ClearPosCache(pc, pos)
        /\ flags' = flags \cup {"dirty"} /\ UNCHANGED <<slotOf, answer>>
        /\ job' = [job EXCEPT !.rest = NextLine(rest), !.end = pos + w,
                              !.pos = Colpos(text', Eoln(text', pos), col)]
    BY <1>2, <1>3, <1>4 DEF InsertLine
  <1>7. 0 \in Nat /\ pos + 0 <= Len(text) /\ pos <= pos
    BY <1>2
  <1>8. /\ CacheSound(pc', Len(text'))
        /\ LinesRight(pc, text) => LinesRight(pc', text')
    <2>1. text' = Splice(text, pos, 0, line)
      BY <1>6 DEF Edit
    <2> QED
      BY <1>1, <1>5, <1>6, <1>7, <2>1, ColumnStep DEF BufferOK
  <1>9. BufferOK'
    BY <1>1, <1>5, <1>6, <1>7, <1>8, BufferAfterEdit, SameHandlesSelf DEF BufferOK
  <1>10. /\ text' \in Seq(Chars) /\ Len(text') = Len(text) - 0 + Len(line)
         /\ Spliced(text', text, pos, 0, line)
    BY <1>1, <1>5, <1>6, <1>7, EditStep DEF BufferOK
  <1>11. PICK t \in Seq(Chars) : t = text'
    BY <1>10
  <1>12. Len(t) = Len(text) + w /\ pos \in 0..Len(t) /\ pos + w \in pos..Len(t)
    <2>1. PICK k \in Nat : k = Len(text)
      BY <1>1
    <2>2. Len(t) = k + w
      BY <1>5, <1>10, <1>11, <2>1
    <2>3. pos <= k
      BY <1>2, <2>1
    <2> QED
      BY <2>1, <2>2, <2>3
  <1>13. \A p \in pos..pos + w - 1 : t[p + 1] # NL
    <2> TAKE p \in pos..pos + w - 1
    <2>0. PICK k \in Nat, z \in Nat : k = Len(t) /\ z = pos + w /\ z <= k
      BY <1>2, <1>12
    <2>1. PICK i \in 1..Len(t) : i = p + 1
      <3>1. p \in pos..z - 1
        BY <2>0
      <3>2. p + 1 \in 1..k
        BY <2>0, <3>1
      <3> QED
        BY <2>0, <3>2
    <2>2. ~(i <= pos) /\ i <= pos + Len(line)
      BY <1>5, <2>1
    <2>3. t[i] = line[i - pos]
      BY <1>10, <1>11, <2>2 DEF Spliced
    <2>4. i - pos \in 1..w
      BY <2>1
    <2> QED
      BY <1>5, <2>1, <2>3, <2>4
  <1>14. PICK e \in pos..Len(t) : e = Eoln(t, pos) /\ pos + w <= e
    <2>1. PICK q \in pos..Len(t) : q = pos + w
      BY <1>12
    <2>2. /\ Eoln(t, pos) \in pos..Len(t)
          /\ \A r \in pos..Len(t) :
                (\A p \in pos..r - 1 : t[p + 1] # NL) => r <= Eoln(t, pos)
      BY <1>12, EolnStops
    <2>3. q <= Eoln(t, pos)
      BY <1>13, <2>1, <2>2
    <2> QED
      BY <2>1, <2>2, <2>3
  <1>15. PICK next \in e..Len(t) : next = Colpos(t, e, col)
    <2>1. Len(t) \in Nat /\ e \in 0..Len(t)
      BY <1>2, <1>14
    <2> QED
      BY <2>1, ColposStops
  <1>16. PICK tail \in Seq(Chars) : tail = NextLine(rest)
    BY NextLineIsText
  <1>17. job' = [job EXCEPT !.rest = tail, !.end = pos + w, !.pos = next]
    BY <1>6, <1>11, <1>14, <1>15, <1>16
  <1>18. job \in [op : {"insert"}, h : Handles, rest : Seq(Chars), pos : Nat,
                  begin : Nat, end : Nat, col : Nat, w : Nat]
    BY <1>1, JobKinds
  <1>19. next \in Nat /\ pos + w \in Nat
    BY <1>2, <1>12, <1>14, <1>15
  <1>20. /\ job' \in [op : {"insert"}, h : Handles, rest : Seq(Chars), pos : Nat,
                      begin : Nat, end : Nat, col : Nat, w : Nat]
         /\ job'.begin = begin /\ job'.end = pos + w /\ job'.pos = next
         /\ job'.h = job.h /\ job'.op = "insert"
    BY <1>2, <1>17, <1>18, <1>19
  <1>21. begin <= pos + w /\ pos + w <= next /\ next <= Len(text')
    <2>1. PICK x \in Nat : x = Len(t) /\ next <= x /\ e <= next /\ pos + w <= e
      BY <1>2, <1>14, <1>15
    <2>2. begin <= pos
      BY <1>2
    <2> QED
      BY <1>11, <2>1, <2>2
  <1>22. JobTypeOK'
    BY <1>20, <1>21 DEF JobTypeOK
  <1>23. answer' = NoAnswer /\ flags' \subseteq {"locked", "dirty", "loaded"}
    BY <1>1, <1>6, JobKinds DEF CallOK
  <1>24. JobHolds'
    BY <1>2, <1>6, <1>20, <1>23 DEF JobHolds
  <1>25. CallOK'
    BY <1>22, <1>23, <1>24 DEF CallOK, NoAnswer
  <1> QED
    BY <1>8, <1>9, <1>25 DEF IInv

\* The mark gets the text that was inserted.
LEMMA InsertEndKeeps ==
    ASSUME IInv, InsertEnd
    PROVE  IInv'
  <1>1. BufferOK /\ text \in Seq(Chars) /\ CallOK /\ job.op = "insert"
    BY DEF IInv, BufferOK, InsertEnd
  <1>2. PICK h \in Handles, begin \in Nat, end \in Nat :
            /\ h = job.h /\ begin = job.begin /\ end = job.end
            /\ begin <= end /\ end <= Len(text) /\ slotOf[h] # 0
    <2>1. PICK h \in Handles, pos \in Nat, begin \in Nat, end \in Nat :
            /\ h = job.h /\ pos = job.pos /\ begin = job.begin /\ end = job.end
            /\ begin <= end /\ end <= pos /\ pos <= Len(text) /\ slotOf[h] # 0
      BY <1>1, JobKinds
    <2>2. end <= Len(text)
      BY <1>1, <2>1
    <2> QED
      BY <2>1, <2>2
  <1>3. PICK len \in Nat : len = end - begin
    BY <1>2
  <1>4. begin + len <= Len(text)
    BY <1>2, <1>3
  <1>5. /\ marks' = Remarked(marks, slotOf[h], begin, len) /\ job' = Idle
        /\ UNCHANGED <<text, slotOf, pc, flags, answer>>
    BY <1>2, <1>3 DEF InsertEnd
  <1>6. BufferOK'
    BY <1>2, <1>4, <1>5, RemarkKeeps
  <1>7. CallOK'
    BY <1>1, <1>5, CallAfterReturn DEF CallOK
  <1> QED
    BY <1>6, <1>7 DEF IInv

\* An assertion fails, or there is no memory: the buffer stays as it is.
LEMMA ColumnsEndKeeps ==
    ASSUME IInv, InsertLineAborts \/ ColumnsNoMemory
    PROVE  IInv'
  <1>1. /\ UNCHANGED <<text, marks, slotOf, pc, flags, answer>>
        /\ job' = Aborted \/ job' = Idle
    BY DEF InsertLineAborts, ColumnsNoMemory
  <1>2. BufferOK'
    BY <1>1 DEF IInv, BufferOK
  <1>3. answer = NoAnswer /\ CallOK
    <2>1. job.op # "idle"
      BY DEF InsertLineAborts, ColumnsNoMemory
    <2> QED
      BY <2>1, JobKinds DEF IInv
  <1>4. CallOK'
    BY <1>1, <1>3 DEF CallOK, JobTypeOK, JobHolds, Idle, Aborted
  <1> QED
    BY <1>2, <1>4 DEF IInv

-----------------------------------------------------------------------------
\* Reading files.

\* sbuf_load removes the old text.
LEMMA SbufLoadKeeps ==
    ASSUME IInv, NEW opened, SbufLoad(opened)
    PROVE  IInv' /\ (LinesRight(pc, text) => LinesRight(pc', text'))
  <1>1. /\ BufferOK /\ CallOK /\ text \in Seq(Chars) /\ Aux \in Handles
        /\ slotOf[Aux] # 0
    BY HandlesAssumption DEF IInv, BufferOK, HandlesFit
  <1>2. PICK n \in Nat : n = Len(text)
    BY <1>1
  <1>3. /\ StrChange(Remarked(marks, slotOf[Aux], 0, n), 0, n, <<>>)
        /\ slotOf' = slotOf /\ answer' = NoAnswer
        /\ flags' \subseteq flags \cup {"loaded", "dirty"}
        /\ job' = ReadJob(Aux, 0, TRUE) \/ job' = Idle
    BY <1>2 DEF SbufLoad
  <1>4. 0 \in Nat /\ 0 + n <= Len(text) /\ <<>> \in Seq(Chars) /\ Len(<<>>) = 0
    BY <1>2
  <1>5. /\ BufferOK' /\ (LinesRight(pc, text) => LinesRight(pc', text'))
        /\ MarkOf(Aux)'.begin = 0 /\ MarkOf(Aux)'.len = Len(<<>>)
    <2>1. PICK h \in Handles, new \in Seq(Chars), z \in Nat :
                h = Aux /\ new = <<>> /\ z = 0
      BY <1>1, <1>4
    <2>2. /\ StrChange(Remarked(marks, slotOf[h], z, n), z, n, new)
          /\ slotOf' = slotOf /\ slotOf[h] # 0 /\ z + n <= Len(text)
      BY <1>1, <1>2, <1>3, <2>1
    <2>3. /\ BufferOK' /\ (LinesRight(pc, text) => LinesRight(pc', text'))
          /\ MarkOf(h)'.begin = z /\ MarkOf(h)'.len = Len(new)
      BY <1>1, <2>2, ChangeThroughMark
    <2> QED
      BY <2>1, <2>3
  <1>6. flags' \subseteq {"locked", "dirty", "loaded"}
        /\ answer' \in [pos : Int, line : Int]
    BY <1>1, <1>3 DEF CallOK, NoAnswer
  <1>7. CallOK'
    <2>1. CASE job' = Idle
      BY <1>6, <2>1, CallAfterReturn
    <2>2. CASE job' = ReadJob(Aux, 0, TRUE)
      <3>1. job' = [op |-> "read", h |-> Aux, begin |-> 0, got |-> <<>>,
                    load |-> TRUE]
        BY <2>2 DEF ReadJob
      <3>2. JobTypeOK'
        BY <1>1, <3>1 DEF JobTypeOK
      <3>3. JobHolds'
        BY <1>1, <1>3, <1>4, <1>5, <3>1 DEF JobHolds, EndOf, MarkOf
      <3> QED
        BY <1>6, <3>2, <3>3 DEF CallOK
    <2> QED
      BY <1>3, <2>1, <2>2
  <1> QED
    BY <1>5, <1>7 DEF IInv

\* Without memory the mark is moved to the beginning of the empty text.
LEMMA SbufLoadNoMemoryKeeps ==
    ASSUME IInv, SbufLoadNoMemory
    PROVE  IInv'
  <1>1. /\ BufferOK /\ CallOK /\ text \in Seq(Chars) /\ Aux \in Handles
        /\ slotOf[Aux] # 0
    BY HandlesAssumption DEF IInv, BufferOK, HandlesFit
  <1>2. /\ marks' = Remarked(marks, slotOf[Aux], 0, 0) /\ job' = Idle
        /\ UNCHANGED <<text, slotOf, pc>> /\ answer' = NoAnswer
        /\ flags' = flags \cup {"loaded"}
    BY DEF SbufLoadNoMemory
  <1>3. 0 \in Nat /\ 0 + 0 <= Len(text)
    BY <1>1
  <1>4. BufferOK'
    BY <1>1, <1>2, <1>3, RemarkKeeps
  <1>5. CallOK'
    BY <1>1, <1>2, CallAfterReturn DEF CallOK, NoAnswer
  <1> QED
    BY <1>4, <1>5 DEF IInv

\* sbuf_insert_file remembers where the mark began.
LEMMA SbufInsertFileKeeps ==
    ASSUME IInv, NEW h \in Handles, SbufInsertFile(h)
    PROVE  IInv'
  <1>1. /\ BufferOK /\ CallOK /\ slotOf[h] # 0
        /\ UNCHANGED <<text, marks, slotOf, pc, flags>> /\ answer' = NoAnswer
    BY DEF IInv, SbufInsertFile, Ready
  <1>2. PICK b \in Nat, l \in Nat : b = MarkOf(h).begin /\ l = MarkOf(h).len
    BY <1>1, HeldMark
  <1>3. job' = [op |-> "read", h |-> h, begin |-> b, got |-> <<>>, load |-> FALSE]
    BY <1>2 DEF SbufInsertFile, ReadJob
  <1>4. JobTypeOK'
    BY <1>3 DEF JobTypeOK
  <1>5. MarkOf(h)'.begin = b /\ MarkOf(h)'.len = l
    BY <1>1, <1>2 DEF MarkOf
  <1>6. JobHolds'
    BY <1>1, <1>2, <1>3, <1>5 DEF JobHolds, EndOf, MarkOf
  <1>7. BufferOK'
    BY <1>1 DEF BufferOK
  <1> QED
    BY <1>1, <1>4, <1>6, <1>7 DEF IInv, CallOK, NoAnswer


\* A block that was read goes behind what the mark holds.
LEMMA ReadChunkKeeps ==
    ASSUME IInv, NEW s \in Seq(Chars), ReadChunk(s)
    PROVE  IInv' /\ (LinesRight(pc, text) => LinesRight(pc', text'))
  <1>1. BufferOK /\ CallOK /\ job.op = "read" /\ text \in Seq(Chars)
    BY DEF IInv, BufferOK, ReadChunk
  <1>2. PICK h \in Handles, begin \in Nat, got \in Seq(Chars) :
            /\ h = job.h /\ begin = job.begin /\ got = job.got
            /\ slotOf[h] # 0 /\ begin <= EndOf(MarkOf(h))
    BY <1>1, JobKinds
  <1>3. PICK end \in 0..Len(text) : end = EndOf(MarkOf(h))
    BY <1>1, <1>2, HeldMark DEF EndOf
  <1>4. /\ StrChange(Remarked(marks, slotOf[h], end, 0), end, 0, s)
        /\ flags' = flags \cup {"dirty"} /\ UNCHANGED <<slotOf, answer>>
        /\ job' = [job EXCEPT !.got = got \o s]
    BY <1>2, <1>3 DEF ReadChunk
  <1>5. end \in Nat /\ 0 \in Nat /\ end + 0 <= Len(text)
    BY <1>1, <1>3
  <1>6. /\ BufferOK' /\ (LinesRight(pc, text) => LinesRight(pc', text'))
        /\ MarkOf(h)'.begin = end /\ MarkOf(h)'.len = Len(s)
    BY <1>1, <1>2, <1>4, <1>5, ChangeThroughMark
  <1>7. job \in [op : {"read"}, h : Handles, begin : Nat, got : Seq(Chars),
                 load : BOOLEAN]
    BY <1>1, JobKinds
  <1>8. PICK more \in Seq(Chars) : more = got \o s
    <2>1. got \o s \in Seq(Chars)
      BY ConcatProperties
    <2> QED
      BY <2>1
  <1>9. /\ job' \in [op : {"read"}, h : Handles, begin : Nat, got : Seq(Chars),
                     load : BOOLEAN]
        /\ job'.h = h /\ job'.begin = begin /\ job'.op = "read"
    BY <1>2, <1>4, <1>7, <1>8
  <1>10. begin <= EndOf(MarkOf(h))'
    BY <1>2, <1>3, <1>6 DEF EndOf
  <1>11. answer' = NoAnswer /\ flags' \subseteq {"locked", "dirty", "loaded"}
    BY <1>1, <1>4, JobKinds DEF CallOK
  <1>12. JobTypeOK'
    BY <1>9 DEF JobTypeOK
  <1>13. JobHolds'
    BY <1>2, <1>4, <1>9, <1>10, <1>11 DEF JobHolds, MarkOf
  <1> QED
    BY <1>6, <1>11, <1>12, <1>13 DEF IInv, CallOK, NoAnswer

\* After an error what was read is removed again.
LEMMA ReadErrorKeeps ==
    ASSUME IInv, ReadError
    PROVE  IInv' /\ (LinesRight(pc, text) => LinesRight(pc', text'))
  <1>1. BufferOK /\ CallOK /\ job.op = "read" /\ text \in Seq(Chars)
    BY DEF IInv, BufferOK, ReadError
  <1>2. PICK h \in Handles, begin \in Nat :
            /\ h = job.h /\ begin = job.begin
            /\ slotOf[h] # 0 /\ begin <= EndOf(MarkOf(h))
    BY <1>1, JobKinds
  <1>3. PICK end \in 0..Len(text) : end = EndOf(MarkOf(h))
    BY <1>1, <1>2, HeldMark DEF EndOf
  <1>4. PICK gone \in Nat : gone = end - begin
    BY <1>2, <1>3
  <1>5. /\ StrChange(Remarked(marks, slotOf[h], begin, gone), begin, gone, <<>>)
        /\ flags' = FlagsAfterRead(flags \cup {"dirty"})
        /\ job' = Idle /\ UNCHANGED <<slotOf, answer>>
    BY <1>2, <1>3, <1>4 DEF ReadError
  <1>6. <<>> \in Seq(Chars) /\ begin + gone <= Len(text)
    BY <1>1, <1>2, <1>3, <1>4
  <1>7. BufferOK' /\ (LinesRight(pc, text) => LinesRight(pc', text'))
    BY <1>1, <1>2, <1>5, <1>6, ChangeThroughMark
  <1>8. CallOK'
    BY <1>1, <1>5, CallAfterReturn DEF CallOK, FlagsAfterRead
  <1> QED
    BY <1>7, <1>8 DEF IInv

\* The end of the file changes flags only.
LEMMA ReadEndKeeps ==
    ASSUME IInv, ReadEnd
    PROVE  IInv'
  <1>1. BufferOK /\ CallOK
    BY DEF IInv
  <1>2. /\ flags' = FlagsAfterRead(flags) /\ job' = Idle
        /\ UNCHANGED <<text, marks, slotOf, pc, answer>>
    BY DEF ReadEnd
  <1>3. CallOK'
    BY <1>1, <1>2, CallAfterReturn DEF CallOK, FlagsAfterRead
  <1>4. BufferOK'
    BY <1>1, <1>2 DEF BufferOK
  <1> QED
    BY <1>3, <1>4 DEF IInv

-----------------------------------------------------------------------------
\* Flags, the lock and line numbers.

\* The calls that only set flags.
LEMMA FlagsKeep ==
    ASSUME IInv,
           \/ SbufLoadNoName
           \/ \E dirty \in BOOLEAN : SbufSetDirty(dirty)
           \/ SbufLock
           \/ SbufUnlock
    PROVE  IInv'
  <1>1. BufferOK /\ CallOK
    BY DEF IInv
  <1>2. /\ flags' \subseteq flags \cup {"loaded", "dirty", "locked"}
        /\ job' = Idle /\ answer' = NoAnswer
        /\ UNCHANGED <<text, marks, slotOf, pc>>
    BY DEF SbufLoadNoName, SbufSetDirty, SbufLock, SbufUnlock
  <1>3. BufferOK'
    BY <1>1, <1>2 DEF BufferOK
  <1>4. CallOK'
    BY <1>1, <1>2, CallAfterReturn DEF CallOK, NoAnswer
  <1> QED
    BY <1>3, <1>4 DEF IInv

\* The holder of the lock changes characters; as long as none of them is a
\* newline, the line numbers stay.
LEMMA ClientWriteKeeps ==
    ASSUME IInv, NEW pos \in 0..Len(text) - 1, NEW c \in WriteChars,
           ClientWrite(pos, c)
    PROVE  /\ IInv'
           /\ (NL \notin WriteChars /\ LinesRight(pc, text))
                    => LinesRight(pc', text')
  <1>1. BufferOK /\ CallOK /\ text \in Seq(Chars) /\ c \in Chars
    BY WriteCharsAssumption DEF IInv, BufferOK
  <1>2. /\ text[pos + 1] \in WriteChars /\ text' = [text EXCEPT ![pos + 1] = c]
        /\ job' = Idle /\ answer' = NoAnswer
        /\ UNCHANGED <<marks, slotOf, pc, flags>>
    BY DEF ClientWrite
  <1>3. PICK k \in 1..Len(text) : k = pos + 1
    BY <1>1
  <1>4. /\ text' \in Seq(Chars) /\ Len(text') = Len(text)
        /\ \A i \in 1..Len(text) : text'[i] = IF i = k THEN c ELSE text[i]
    BY <1>1, <1>2, <1>3
  <1>5. BufferOK'
    BY <1>1, <1>2, <1>4 DEF BufferOK
  <1>6. CallOK'
    BY <1>1, <1>2, CallAfterReturn DEF CallOK, NoAnswer
  <1>7. ASSUME NL \notin WriteChars, LinesRight(pc, text)
        PROVE  LinesRight(pc', text')
    <2>1. PICK t \in Seq(Chars), u \in Seq(Chars) : t = text /\ u = text'
      BY <1>1, <1>4
    <2>2. Len(u) = Len(t) /\ \A i \in 1..Len(t) : u[i] = NL <=> t[i] = NL
      BY <1>2, <1>3, <1>4, <1>7, <2>1
    <2>3. \A p \in 0..Len(t) : LineOf(u, p) = LineOf(t, p)
      BY <2>2, SameNewlines
    <2>4. ASSUME NEW i \in 1..Len(pc)
          PROVE  pc[i].line = LineOf(u, pc[i].pos)
      <3>1. pc[i].pos \in Nat /\ pc[i].pos <= Len(text)
        BY <1>1, SoundEntries DEF BufferOK, CacheSound
      <3>2. PICK p \in 0..Len(t) : p = pc[i].pos
        BY <2>1, <3>1
      <3>3. pc[i].line = LineOf(t, p)
        BY <1>7, <2>1, <3>2 DEF LinesRight
      <3> QED
        BY <2>3, <3>2, <3>3
    <2> QED
      BY <1>2, <2>1, <2>4 DEF LinesRight
  <1> QED
    BY <1>5, <1>6, <1>7 DEF IInv

\* sbuf_lineno remembers what it has counted.
LEMMA SbufLinenoKeeps ==
    ASSUME IInv, NEW pos \in QueryPos, SbufLineno(pos)
    PROVE  /\ IInv'
           /\ LinesRight(pc, text) =>
                /\ LinesRight(pc', text')
                /\ answer'.line = LineOf(text', answer'.pos)
  <1>1. BufferOK /\ CallOK /\ text \in Seq(Chars) /\ CacheSound(pc, Len(text))
    BY DEF IInv, BufferOK
  <1>2. pos \in Nat /\ pos <= Len(text) /\ Len(text) \in Nat
    BY <1>1, QueryPosAssumption DEF SbufLineno
  <1>3. PICK n \in Nat : n = Len(text)
    BY <1>2
  <1>4. pos \in 0..n /\ pos \in 0..Len(text) /\ CacheSound(pc, n)
    BY <1>1, <1>2, <1>3
  <1>5. /\ LinenoOf(pos) \in Int
        /\ LinesRight(pc, text) => LinenoOf(pos) = LineOf(text, pos)
    BY <1>1, <1>4, LinenoOfIsRight
  <1>6. PICK line \in Int : line = LinenoOf(pos)
    BY <1>5
  <1>7. LinesRight(pc, text) => line = LineOf(text, pos)
    BY <1>5, <1>6, Zenon
  <1>8. answer' = [pos |-> pos, line |-> LinenoOf(pos)]
    BY DEF SbufLineno
  <1>9. answer' \in [pos : Int, line : Int] /\ answer'.pos = pos /\ answer'.line = line
    BY <1>2, <1>6, <1>8
  <1>10. pc' = IF pc # <<>> /\ pc[FindNearest(pos)].pos = pos THEN pc
               ELSE PutIntoCache(pc, pos, LinenoOf(pos))
    BY Zenon DEF SbufLineno
  <1>11. job' = Idle /\ UNCHANGED <<text, marks, slotOf, flags>>
    BY DEF SbufLineno
  <1>12. /\ CacheSound(pc', Len(text))
         /\ LinesRight(pc, text) => LinesRight(pc', text)
    <2>1. CASE pc # <<>> /\ pc[FindNearest(pos)].pos = pos
      <3>1. pc' = pc
        BY <1>10, <2>1
      <3> QED
        BY <1>1, <3>1
    <2>2. CASE ~(pc # <<>> /\ pc[FindNearest(pos)].pos = pos)
      <3>1. pc' = PutIntoCache(pc, pos, line)
        BY <1>6, <1>10, <2>2
      <3>2. \A i \in 1..Len(pc) : pc[i].pos # pos
        <4>1. CASE pc = <<>>
          BY <4>1
        <4>2. CASE pc # <<>>
          <5>1. \A i \in 1..Len(pc) : pc[i].pos = pos => pc[FindNearest(pos)].pos = pos
            BY <1>2, <1>4, <4>2, FindNearestFinds
          <5> QED
            BY <2>2, <4>2, <5>1
        <4> QED
          BY <4>1, <4>2
      <3>3. PICK d : d = pc'
        OBVIOUS
      <3>4. d = PutIntoCache(pc, pos, line)
        BY <3>1, <3>3
      <3>5. /\ CacheSound(d, n)
            /\ \A i \in 1..Len(d) :
                    d[i] = [pos |-> pos, line |-> line]
                        \/ \E j \in 1..Len(pc) : d[i] = pc[j]
        BY <1>4, <3>2, <3>4, PutIntoCacheSound
      <3>6. ASSUME LinesRight(pc, text)
            PROVE  LinesRight(d, text)
        <4>1. line = LineOf(text, pos)
          BY <1>7, <3>6
        <4>2. \A j \in 1..Len(pc) : pc[j].line = LineOf(text, pc[j].pos)
          BY <3>6 DEF LinesRight
        <4>3. ASSUME NEW i \in 1..Len(d)
              PROVE  d[i].line = LineOf(text, d[i].pos)
          <5>1. CASE d[i] = [pos |-> pos, line |-> line]
            BY <4>1, <5>1
          <5>2. CASE \E j \in 1..Len(pc) : d[i] = pc[j]
            BY <4>2, <5>2
          <5> QED
            BY <3>5, <5>1, <5>2
        <4> QED
          BY <4>3 DEF LinesRight
      <3> QED
        BY <1>3, <3>3, <3>5, <3>6
    <2> QED
      BY <2>1, <2>2
  <1>13. BufferOK'
    BY <1>1, <1>11, <1>12 DEF BufferOK
  <1>14. CallOK'
    BY <1>1, <1>9, <1>11, CallAfterReturn DEF CallOK
  <1>15. text' = text
    BY <1>11
  <1>16. ASSUME LinesRight(pc, text)
         PROVE  LinesRight(pc', text') /\ answer'.line = LineOf(text', answer'.pos)
    <2>1. line = LineOf(text, pos)
      BY <1>7, <1>16
    <2>2. LinesRight(pc', text)
      BY <1>12, <1>16
    <2>3. answer'.line = LineOf(text, answer'.pos)
      BY <1>9, <2>1
    <2> QED
      BY <1>15, <2>2, <2>3
  <1> QED
    BY <1>13, <1>14, <1>16 DEF IInv


-----------------------------------------------------------------------------
\* Every step keeps the invariant.

\* As long as the holder of the lock writes no newline over other characters,
\* a step leaves the cached line numbers right, and what it reports is right.
LinesStep ==
    (NL \notin WriteChars /\ LinesRight(pc, text)) => LinesRight(pc', text')

AnswersStep ==
    (LinesRight(pc, text) /\ AnswersAreRight) => AnswersAreRight'

\* A step that forgets the last answer, or leaves it and the text alone, reports
\* nothing wrong.
LEMMA NothingReported ==
    ASSUME answer' = NoAnswer \/ UNCHANGED <<text, answer>>
    PROVE  AnswersStep
  BY DEF AnswersStep, AnswersAreRight, NoAnswer

\* A step that leaves the text and the cache alone leaves the cache right.
LEMMA SameLines ==
    ASSUME UNCHANGED <<text, pc>>
    PROVE  LinesStep
  BY DEF LinesStep

\* The calls on marks, which leave the text, the cache and the flags alone.
LEMMA MarkCallKeeps ==
    ASSUME IInv, BufferOK', job = Idle, UNCHANGED <<text, pc, flags, job>>,
           answer' = NoAnswer
    PROVE  IInv' /\ LinesStep /\ AnswersStep
  <1>1. flags' \subseteq {"locked", "dirty", "loaded"} /\ job' = Idle
    BY DEF IInv, CallOK
  <1>2. answer' \in [pos : Int, line : Int]
    BY DEF NoAnswer
  <1>3. CallOK'
    BY <1>1, <1>2, CallAfterReturn
  <1> QED
    BY <1>3, NothingReported, SameLines DEF IInv

\* The calls of a client that name a handle, except those on several marks.
LEMMA HandleCallKeeps ==
    ASSUME IInv, NEW h \in Handles,
           \/ \E pos, len \in Positions : SbufMark(h, pos, len) \/ SbufRemark(h, pos, len)
           \/ SbufUnmark(h)
           \/ SetMark(h)
           \/ \E new \in Inserts : SbufStrchange(h, new)
           \/ SbufInsertFile(h)
    PROVE  IInv' /\ LinesStep /\ AnswersStep
  <1>1. ASSUME NEW pos \in Positions, NEW len \in Positions, SbufMark(h, pos, len)
        PROVE  IInv' /\ LinesStep /\ AnswersStep
    <2>1. pos \in Nat /\ len \in Nat
      BY MaxLenAssumption DEF Positions
    <2>2. BufferOK'
      BY <1>1, <2>1, SbufMarkKeeps
    <2> QED
      BY <1>1, <2>2, MarkCallKeeps DEF SbufMark
  <1>2. ASSUME NEW pos \in Positions, NEW len \in Positions, SbufRemark(h, pos, len)
        PROVE  IInv' /\ LinesStep /\ AnswersStep
    <2>1. pos \in Nat /\ len \in Nat
      BY MaxLenAssumption DEF Positions
    <2>2. BufferOK'
      BY <1>2, <2>1, RemarkKeeps DEF SbufRemark, Ready
    <2> QED
      BY <1>2, <2>2, MarkCallKeeps DEF SbufRemark, Ready
  <1>3. CASE SbufUnmark(h)
    BY <1>3, SbufUnmarkKeeps, MarkCallKeeps DEF SbufUnmark, Ready
  <1>4. CASE SetMark(h)
    BY <1>4, SetMarkKeeps, MarkCallKeeps DEF SetMark, Ready
  <1>5. ASSUME NEW new \in Inserts, SbufStrchange(h, new)
        PROVE  IInv' /\ LinesStep /\ AnswersStep
    <2>1. new \in Seq(Chars)
      BY StringsAssumption
    <2>2. slotOf[h] # 0 /\ job = Idle /\ Change(h, new) /\ answer' = NoAnswer
      BY <1>5 DEF SbufStrchange, Ready, Change
    <2>3. IInv' /\ LinesStep
      BY <2>1, <2>2, ChangeKeeps DEF LinesStep
    <2> QED
      BY <2>2, <2>3, NothingReported
  <1>6. CASE SbufInsertFile(h)
    <2>1. UNCHANGED <<text, pc>> /\ answer' = NoAnswer
      BY <1>6 DEF SbufInsertFile
    <2> QED
      BY <1>6, <2>1, SbufInsertFileKeeps, NothingReported, SameLines
  <1> QED
    BY <1>1, <1>2, <1>3, <1>4, <1>5, <1>6

\* The other calls of a client.
LEMMA ClientCallKeeps ==
    ASSUME IInv, ClientCall
    PROVE  IInv' /\ LinesStep /\ AnswersStep
  <1>1. ASSUME NEW h \in Handles, NEW repl \in Handles, SbufChange(h, repl)
        PROVE  IInv' /\ LinesStep /\ AnswersStep
    <2>1. /\ slotOf[h] # 0 /\ slotOf[repl] # 0 /\ job = Idle
          /\ Change(h, Strat(text, MarkOf(repl))) /\ answer' = NoAnswer
      BY <1>1 DEF SbufChange, Ready, Change
    <2>2. text \in Seq(Chars) /\ BufferOK
      BY DEF IInv, BufferOK
    <2>3. Strat(text, MarkOf(repl)) \in Seq(Chars)
      BY <2>1, <2>2, HeldMark, StratIsText
    <2>4. IInv' /\ LinesStep
      BY <2>1, <2>3, ChangeKeeps DEF LinesStep
    <2> QED
      BY <2>1, <2>4, NothingReported
  <1>2. ASSUME NEW h \in Handles, NEW inside \in Handles, NEW pat \in Patterns,
               NEW backward \in BOOLEAN, SbufSearch(h, inside, pat, backward)
        PROVE  IInv' /\ LinesStep /\ AnswersStep
    <2>1. BufferOK'
      BY <1>2, SbufSearchKeeps
    <2> QED
      BY <1>2, <2>1, MarkCallKeeps DEF SbufSearch, Ready
  <1>3. CASE SbufMarkNoMemory
    BY <1>3, SbufMarkNoMemoryKeeps, MarkCallKeeps DEF SbufMarkNoMemory
  <1>4. ASSUME NEW opened, SbufLoad(opened)
        PROVE  IInv' /\ LinesStep /\ AnswersStep
    <2>1. IInv' /\ LinesStep
      BY <1>4, SbufLoadKeeps DEF LinesStep
    <2>2. answer' = NoAnswer
      BY <1>4 DEF SbufLoad
    <2> QED
      BY <2>1, <2>2, NothingReported
  <1>5. CASE SbufLoadNoMemory
    <2>1. UNCHANGED <<text, pc>> /\ answer' = NoAnswer
      BY <1>5 DEF SbufLoadNoMemory
    <2> QED
      BY <1>5, <2>1, SbufLoadNoMemoryKeeps, NothingReported, SameLines
  <1>6. CASE \/ SbufLoadNoName
             \/ \E dirty \in BOOLEAN : SbufSetDirty(dirty)
             \/ SbufLock
             \/ SbufUnlock
    <2>1. UNCHANGED <<text, pc>> /\ answer' = NoAnswer
      BY <1>6 DEF SbufLoadNoName, SbufSetDirty, SbufLock, SbufUnlock
    <2> QED
      BY <1>6, <2>1, FlagsKeep, NothingReported, SameLines
  <1>7. ASSUME NEW pos \in 0..Len(text) - 1, NEW c \in WriteChars,
               ClientWrite(pos, c)
        PROVE  IInv' /\ LinesStep /\ AnswersStep
    <2>1. IInv' /\ LinesStep
      BY <1>7, ClientWriteKeeps DEF LinesStep
    <2>2. answer' = NoAnswer
      BY <1>7 DEF ClientWrite
    <2> QED
      BY <2>1, <2>2, NothingReported
  <1>8. ASSUME NEW pos \in QueryPos, SbufLineno(pos)
        PROVE  IInv' /\ LinesStep /\ AnswersStep
    BY <1>8, SbufLinenoKeeps DEF LinesStep, AnswersStep, AnswersAreRight
  <1> QED
    BY <1>1, <1>2, <1>3, <1>4, <1>5, <1>6, <1>7, <1>8, HandleCallKeeps
       DEF ClientCall

\* The steps of a call in progress.
LEMMA CallStepKeeps ==
    ASSUME IInv, CallStep
    PROVE  IInv' /\ LinesStep /\ AnswersStep
  <1>1. CallOK
    BY DEF IInv
  <1>2. job.op # "idle" /\ answer' = answer
    BY DEF CallStep, RemoveLine, InsertLine, InsertLineAborts, InsertEnd,
           ColumnsNoMemory, ReadChunk, ReadEnd, ReadError
  <1>3. AnswersStep
    BY <1>1, <1>2, JobKinds, NothingReported
  <1>4. CASE RemoveLine \/ InsertLine \/ ReadError
    BY <1>3, <1>4, RemoveLineKeeps, InsertLineKeeps, ReadErrorKeeps DEF LinesStep
  <1>5. CASE InsertLineAborts \/ ColumnsNoMemory \/ InsertEnd \/ ReadEnd
    <2>1. UNCHANGED <<text, pc>>
      BY <1>5 DEF InsertLineAborts, ColumnsNoMemory, InsertEnd, ReadEnd
    <2>2. IInv'
      BY <1>5, ColumnsEndKeeps, InsertEndKeeps, ReadEndKeeps
    <2> QED
      BY <1>3, <2>1, <2>2, SameLines
  <1>6. ASSUME NEW s \in Chunks, ReadChunk(s)
        PROVE  IInv' /\ LinesStep /\ AnswersStep
    <2>1. s \in Seq(Chars)
      BY StringsAssumption
    <2> QED
      BY <1>3, <1>6, <2>1, ReadChunkKeeps DEF LinesStep
  <1> QED
    BY <1>4, <1>5, <1>6 DEF CallStep

LEMMA NextKeeps ==
    ASSUME IInv, [Next]_vars
    PROVE  IInv' /\ LinesStep /\ AnswersStep
  <1>1. CASE ClientCall
    BY <1>1, ClientCallKeeps
  <1>2. CASE CallStep
    BY <1>2, CallStepKeeps
  <1>3. CASE UNCHANGED vars
    <2>1. UNCHANGED <<text, marks, slotOf, pc, flags, job, answer>>
      BY <1>3 DEF vars
    <2>2. IInv'
      BY <2>1 DEF IInv, BufferOK, CallOK, JobTypeOK, JobHolds, MarkOf
    <2> QED
      BY <2>1, <2>2, SameLines, NothingReported
  <1> QED
    BY <1>1, <1>2, <1>3 DEF Next, Dead

\* The invariant of the editing buffer.
LEMMA Invariant == Spec => []IInv
  <1>1. IInv /\ [Next]_vars => IInv'
    BY NextKeeps
  <1> QED
    BY InitEstablishes, <1>1, PTL DEF Spec


-----------------------------------------------------------------------------
\* What holds of the editing buffer, for any number of handles, any size of the
\* cache and any strings.

\* Every variable keeps its type through all calls, and the positions that a
\* columnar change keeps between two lines stay within the text.
THEOREM TypeCorrect == Spec => []TypeOK
  <1>1. IInv => TypeOK
    BY IInvImplies
  <1> QED
    BY Invariant, <1>1, PTL

\* What sbuf_validate and adjust_marks assert: whatever is edited through any
\* mark, in whatever order, every mark in use lies within the text.
THEOREM MarksStayInBounds == Spec => []MarksInBounds
  <1>1. IInv => MarksInBounds
    BY IInvImplies
  <1> QED
    BY Invariant, <1>1, PTL

\* sbuf_mark and sbuf_unmark: handles and slots in use are in bijection however
\* often slots are freed, reused and moved to a larger array.
THEOREM HandlesKeepTheirSlots == Spec => []HandlesMatchSlots
  <1>1. IInv => HandlesMatchSlots
    BY IInvImplies
  <1> QED
    BY Invariant, <1>1, PTL

\* A search for a code finds a handle that has it, if one has.
LEMMA CodesAreFound ==
    ASSUME IInv, NEW code \in Codes \ {0}
    PROVE  Finds(code)
  <1>1. /\ BufferOK /\ HandlesFit(marks, slotOf)
        /\ DOMAIN marks = 1..Len(marks) /\ Len(marks) \in Nat
        /\ slotOf \in [Handles -> 0..Len(marks)]
    BY DEF IInv, BufferOK, MarksSound
  <1>2. PICK found : found = {i \in DOMAIN marks : marks[i].inuse /\ marks[i].code = code}
    OBVIOUS
  <1>3. FindMarkByCode(code) = IF found = {} THEN NoHandle ELSE marks[Min(found)].handle
    BY <1>2 DEF FindMarkByCode
  <1>4. CASE found = {}
    <2>1. FindMarkByCode(code) = NoHandle
      BY <1>3, <1>4
    <2>2. ASSUME NEW g \in Handles
          PROVE  CodeOf(g) # code
      <3>1. CASE slotOf[g] = 0
        BY <3>1 DEF CodeOf
      <3>2. CASE slotOf[g] # 0
        <4>1. slotOf[g] \in 1..Len(marks) /\ MarkOf(g).inuse
          BY <1>1, <3>2, HeldMark
        <4> QED
          BY <1>1, <1>2, <1>4, <3>2, <4>1 DEF MarkOf, CodeOf
      <3> QED
        BY <3>1, <3>2
    <2> QED
      BY <2>1, <2>2 DEF Finds
  <1>5. CASE found # {}
    <2>1. found \subseteq Nat
      BY <1>1, <1>2
    <2>2. PICK i \in found : i = Min(found)
      BY <1>5, <2>1, MinIsLeast
    <2>3. i \in 1..Len(marks) /\ marks[i].inuse /\ marks[i].code = code
      BY <1>1, <1>2
    <2>4. PICK h : h = FindMarkByCode(code)
      OBVIOUS
    <2>5. h = marks[i].handle
      BY <1>3, <1>5, <2>2, <2>4
    <2>6. h \in Handles /\ slotOf[h] = i
      BY <1>1, <2>3, <2>5 DEF HandlesFit
    <2>7. h # NoHandle
      BY <2>6, HandlesAssumption
    <2>8. CodeOf(h) = code
      BY <2>3, <2>6 DEF CodeOf, MarkOf
    <2> QED
      BY <2>4, <2>6, <2>7, <2>8 DEF Finds
  <1> QED
    BY <1>4, <1>5

\* The slots ns have the codes of ms.
SameCodes(ms, ns) ==
    /\ Len(ns) = Len(ms)
    /\ \A i \in 1..Len(ms) : ns[i].code = ms[i].code

LEMMA RemarkedSameCodes ==
    ASSUME NEW ms \in Seq(Mark), NEW slot \in 1..Len(ms), NEW pos, NEW len
    PROVE  SameCodes(ms, Remarked(ms, slot, pos, len))
  <1>1. PICK m \in Mark : m = ms[slot]
    OBVIOUS
  <1>2. PICK v : v = [m EXCEPT !.begin = pos, !.len = len, !.dirty = FALSE]
    OBVIOUS
  <1>3. v.code = m.code
    BY <1>2 DEF Mark
  <1>4. Remarked(ms, slot, pos, len) = [ms EXCEPT ![slot] = v]
    BY <1>1, <1>2 DEF Remarked
  <1>5. PICK ns : ns = [ms EXCEPT ![slot] = v]
    OBVIOUS
  <1>6. Len(ns) = Len(ms) /\ \A i \in 1..Len(ms) : ns[i] = IF i = slot THEN v ELSE ms[i]
    BY <1>5
  <1> QED
    BY <1>1, <1>3, <1>4, <1>5, <1>6 DEF SameCodes

LEMMA AdjustedSameCodes ==
    ASSUME NEW ms \in Seq(Mark), NEW begin, NEW len, NEW n
    PROVE  SameCodes(ms, AdjustMarks(ms, begin, len, n))
  <1>1. ASSUME NEW m \in Mark
        PROVE  AdjustMark(m, begin, len, n).code = m.code
    BY DEF AdjustMark, Mark
  <1>2. PICK ns : ns = AdjustMarks(ms, begin, len, n)
    OBVIOUS
  <1>3. \A i \in 1..Len(ms) :
            ns[i] = IF ms[i].inuse THEN AdjustMark(ms[i], begin, len, n) ELSE ms[i]
    BY <1>2 DEF AdjustMarks
  <1>4. Len(ns) = Len(ms)
    BY <1>2 DEF AdjustMarks
  <1>5. ASSUME NEW i \in 1..Len(ms)
        PROVE  ns[i].code = ms[i].code
    <2>1. PICK m \in Mark : m = ms[i]
      OBVIOUS
    <2> QED
      BY <1>1, <1>3, <2>1
  <1> QED
    BY <1>2, <1>4, <1>5 DEF SameCodes

\* Handles whose slots keep their codes keep theirs.
LEMMA CodesStay ==
    ASSUME BufferOK, SameCodes(marks, marks'), slotOf' = slotOf, NEW h \in Handles
    PROVE  CodeOf(h)' = CodeOf(h)
  <1>1. slotOf[h] # 0 => slotOf[h] \in 1..Len(marks)
    BY DEF BufferOK
  <1> QED
    BY <1>1 DEF CodeOf, MarkOf, SameCodes

\* An edit keeps all codes.
LEMMA EditKeepsCodes ==
    ASSUME BufferOK, NEW ms, SameCodes(marks, ms), ms \in Seq(Mark),
           NEW pos, NEW len, NEW new, Edit(ms, pos, len, new), slotOf' = slotOf,
           NEW h \in Handles
    PROVE  CodeOf(h)' = CodeOf(h)
  <1>1. PICK ns : ns = AdjustMarks(ms, pos, len, Len(new))
    OBVIOUS
  <1>2. SameCodes(ms, ns) /\ marks' = ns
    BY <1>1, AdjustedSameCodes DEF Edit
  <1>3. SameCodes(marks, marks')
    BY <1>2 DEF SameCodes
  <1> QED
    BY <1>3, CodesStay

\* So does one through a mark that is moved to the range first.
LEMMA ChangeThroughMarkKeepsCodes ==
    ASSUME BufferOK, NEW g \in Handles, slotOf[g] # 0, NEW pos \in Nat, NEW len \in Nat,
           pos + len <= Len(text), NEW old, NEW oldlen, NEW new,
           StrChange(Remarked(marks, slotOf[g], pos, len), old, oldlen, new),
           slotOf' = slotOf, NEW h \in Handles
    PROVE  CodeOf(h)' = CodeOf(h)
  <1>1. PICK slot \in 1..Len(marks) : slot = slotOf[g]
    BY HeldMark
  <1>2. marks \in Seq(Mark) /\ MarksSound(marks, Len(text)) /\ Len(text) \in Nat
    BY DEF BufferOK, MarksSound
  <1>3. PICK ms : ms = Remarked(marks, slot, pos, len)
    OBVIOUS
  <1>4. SameCodes(marks, ms)
    BY <1>2, <1>3, RemarkedSameCodes
  <1>5. PICK old1, n : old1 = marks /\ n = Len(text)
    OBVIOUS
  <1>6. MarksSound(ms, n)
    <2>1. n \in Nat /\ MarksSound(old1, n) /\ slot \in 1..Len(old1) /\ pos + len <= n
          /\ ms = Remarked(old1, slot, pos, len)
      BY <1>2, <1>3, <1>5
    <2> QED
      BY <2>1, RemarkedSound
  <1>7. ms \in Seq(Mark) /\ Edit(ms, old, oldlen, new)
    BY <1>1, <1>3, <1>6 DEF MarksSound, StrChange
  <1> QED
    BY <1>4, <1>7, EditKeepsCodes

\* What may become of h's code in a step.
CodeGiven(h) ==
    \/ CodeOf(h)' = CodeOf(h)
    \/ slotOf'[h] = 0
    \/ /\ slotOf[h] # 0 /\ CodeOf(h)' \in Codes
       /\ marks' = [marks EXCEPT ![slotOf[h]].code = CodeOf(h)']

LEMMA UntouchedCodes ==
    ASSUME UNCHANGED <<marks, slotOf>>, NEW h \in Handles
    PROVE  CodeGiven(h)
  BY DEF CodeGiven, CodeOf, MarkOf

LEMMA RemarkKeepsCodes ==
    ASSUME BufferOK, NEW g \in Handles, slotOf[g] # 0, NEW pos, NEW len,
           marks' = Remarked(marks, slotOf[g], pos, len), slotOf' = slotOf,
           NEW h \in Handles
    PROVE  CodeGiven(h)
  <1>1. slotOf[g] \in 1..Len(marks) /\ marks \in Seq(Mark)
    BY HeldMark DEF BufferOK, MarksSound
  <1> QED
    BY <1>1, RemarkedSameCodes, CodesStay DEF CodeGiven

\* sbuf_mark: the new mark has no code.
LEMMA SbufMarkCodes ==
    ASSUME IInv, NEW g \in Handles, NEW pos \in Nat, NEW len \in Nat,
           SbufMark(g, pos, len), NEW h \in Handles
    PROVE  CodeGiven(h)
  <1>1. /\ marks \in Seq(Mark) /\ Len(marks) \in Nat /\ BufferOK
        /\ slotOf \in [Handles -> 0..Len(marks)] /\ slotOf[g] = 0
        /\ HandlesFit(marks, slotOf)
    BY DEF IInv, BufferOK, MarksSound, SbufMark
  <1>2. PICK room, slot :
            /\ room = IF FreeSlots = {} THEN marks \o MoreSlots ELSE marks
            /\ slot = IF FreeSlots = {} THEN Len(marks) + 1 ELSE Min(FreeSlots)
    OBVIOUS
  <1>3. /\ marks' = [room EXCEPT ![slot] = NewMark(g, pos, len)]
        /\ slotOf' = [slotOf EXCEPT ![g] = slot]
    BY <1>2 DEF SbufMark
  <1>4. /\ slot \in DOMAIN room
        /\ \A i \in 1..Len(marks) :
                i \in DOMAIN room /\ room[i] = marks[i] /\ (i = slot => ~marks[i].inuse)
    <2>1. CASE FreeSlots = {}
      <3>1. PICK more : more = MoreSlots
        OBVIOUS
      <3>2. more \in Seq(Mark) /\ Len(more) >= 1 /\ Len(more) \in Nat
        <4>1. UnusedSlot \in Mark
          BY DEF UnusedSlot, Mark
        <4> QED
          BY <3>1, <4>1, MarkGrowAssumption DEF MoreSlots
      <3>3. room = marks \o more /\ slot = Len(marks) + 1
        BY <1>2, <2>1, <3>1
      <3>4. room \in Seq(Mark) /\ IsJoin(room, marks, more)
        BY <1>1, <3>2, <3>3, Join
      <3> QED
        BY <1>1, <3>2, <3>3, <3>4 DEF IsJoin
    <2>2. CASE FreeSlots # {}
      <3>1. FreeSlots \subseteq Nat
        BY <1>1 DEF FreeSlots
      <3>2. slot \in FreeSlots /\ room = marks
        BY <1>2, <2>2, <3>1, MinIsLeast
      <3> QED
        BY <1>1, <3>2 DEF FreeSlots
    <2> QED
      BY <2>1, <2>2
  <1>5. CASE h = g
    <2>1. slotOf'[h] = slot /\ marks'[slot] = NewMark(g, pos, len)
      BY <1>1, <1>3, <1>4, <1>5
    <2>2. CodeOf(h)' = 0 /\ CodeOf(h) = 0
      BY <1>1, <1>5, <2>1 DEF CodeOf, MarkOf, NewMark
    <2> QED
      BY <2>2 DEF CodeGiven
  <1>6. CASE h # g
    <2>1. slotOf'[h] = slotOf[h]
      BY <1>1, <1>3, <1>6
    <2>2. CASE slotOf[h] = 0
      BY <2>1, <2>2 DEF CodeGiven
    <2>3. CASE slotOf[h] # 0
      <3>1. PICK i \in 1..Len(marks) : i = slotOf[h] /\ marks[i].inuse
        BY <1>1, <2>3 DEF HandlesFit
      <3>2. marks'[i] = marks[i]
        BY <1>3, <1>4, <3>1
      <3> QED
        BY <2>1, <2>3, <3>1, <3>2 DEF CodeGiven, CodeOf, MarkOf
    <2> QED
      BY <2>2, <2>3
  <1> QED
    BY <1>5, <1>6

\* More slots, or one slot given up, leave the codes of the others.
LEMMA SlotsKeepCodes ==
    ASSUME IInv, NEW h \in Handles, SbufMarkNoMemory \/ \E g \in Handles : SbufUnmark(g)
    PROVE  CodeGiven(h)
  <1>1. /\ marks \in Seq(Mark) /\ Len(marks) \in Nat /\ BufferOK
        /\ slotOf \in [Handles -> 0..Len(marks)]
    BY DEF IInv, BufferOK, MarksSound
  <1>2. CASE SbufMarkNoMemory
    <2>1. PICK more : more = MoreSlots
      OBVIOUS
    <2>2. more \in Seq(Mark)
      <3>1. UnusedSlot \in Mark
        BY DEF UnusedSlot, Mark
      <3> QED
        BY <2>1, <3>1, MarkGrowAssumption DEF MoreSlots
    <2>3. marks' = marks \o more /\ slotOf' = slotOf
      BY <1>2, <2>1 DEF SbufMarkNoMemory
    <2>4. \A i \in 1..Len(marks) : marks'[i] = marks[i]
      BY <1>1, <2>2, <2>3, Join DEF IsJoin
    <2> QED
      BY <1>1, <2>3, <2>4 DEF CodeGiven, CodeOf, MarkOf
  <1>3. ASSUME NEW g \in Handles, SbufUnmark(g)
        PROVE  CodeGiven(h)
    <2>1. /\ marks' = [marks EXCEPT ![slotOf[g]].inuse = FALSE]
          /\ slotOf' = [slotOf EXCEPT ![g] = 0]
      BY <1>3 DEF SbufUnmark
    <2>2. CASE h = g
      BY <1>1, <2>1, <2>2 DEF CodeGiven
    <2>3. CASE h # g
      <3>1. slotOf'[h] = slotOf[h]
        BY <1>1, <2>1, <2>3
      <3>2. ASSUME NEW i \in 1..Len(marks)
            PROVE  marks'[i].code = marks[i].code
        <4>1. PICK slot \in 1..Len(marks) : slot = slotOf[g]
          BY <1>1, <1>3, HeldMark DEF SbufUnmark, Ready
        <4>2. PICK m : m = [marks[slot] EXCEPT !.inuse = FALSE]
          OBVIOUS
        <4>3. marks[slot] \in Mark
          BY <1>1
        <4>4. m.code = marks[slot].code
          BY <4>2, <4>3 DEF Mark
        <4>5. marks' = [marks EXCEPT ![slot] = m]
          BY <2>1, <4>1, <4>2
        <4>6. marks'[i] = IF i = slot THEN m ELSE marks[i]
          BY <1>1, <4>5
        <4> QED
          BY <4>4, <4>6
      <3> QED
        BY <1>1, <3>1, <3>2 DEF CodeGiven, CodeOf, MarkOf
    <2> QED
      BY <2>2, <2>3
  <1> QED
    BY <1>2, <1>3

\* sbuf_set_mark_code changes the code of its own mark only, and the calls like it none.
LEMMA SetMarkCodes ==
    ASSUME IInv, NEW g \in Handles, SetMark(g), NEW h \in Handles
    PROVE  CodeGiven(h)
  <1>1. BufferOK /\ slotOf[g] # 0 /\ slotOf' = slotOf /\ marks \in Seq(Mark)
    BY DEF IInv, SetMark, Ready, BufferOK, MarksSound
  <1>2. PICK slot \in 1..Len(marks) : slot = slotOf[g]
    BY <1>1, HeldMark
  <1>3. PICK m \in Mark : m = marks[slot]
    BY <1>1
  <1>4. ASSUME NEW v, v.code = m.code, marks' = [marks EXCEPT ![slot] = v]
        PROVE  CodeGiven(h)
    <2>1. Len(marks') = Len(marks)
          /\ \A i \in 1..Len(marks) : marks'[i] = IF i = slot THEN v ELSE marks[i]
      BY <1>1, <1>4
    <2>2. SameCodes(marks, marks')
      BY <1>3, <1>4, <2>1 DEF SameCodes
    <2> QED
      BY <1>1, <2>2, CodesStay DEF CodeGiven
  <1>5. ASSUME NEW mode \in BOOLEAN, marks' = [marks EXCEPT ![slotOf[g]].columnar = mode]
        PROVE  CodeGiven(h)
    <2>1. PICK v : v = [m EXCEPT !.columnar = mode]
      OBVIOUS
    <2>2. v.code = m.code /\ marks' = [marks EXCEPT ![slot] = v]
      BY <1>2, <1>3, <1>5, <2>1 DEF Mark
    <2> QED
      BY <1>4, <2>2
  <1>6. ASSUME NEW dirty \in BOOLEAN, marks' = [marks EXCEPT ![slotOf[g]].dirty = dirty]
        PROVE  CodeGiven(h)
    <2>1. PICK v : v = [m EXCEPT !.dirty = dirty]
      OBVIOUS
    <2>2. v.code = m.code /\ marks' = [marks EXCEPT ![slot] = v]
      BY <1>2, <1>3, <1>6, <2>1 DEF Mark
    <2> QED
      BY <1>4, <2>2
  <1>7. ASSUME NEW code \in Codes, marks' = [marks EXCEPT ![slotOf[g]].code = code]
        PROVE  CodeGiven(h)
    <2>1. PICK v : v = [m EXCEPT !.code = code]
      OBVIOUS
    <2>2. v.code = code /\ marks' = [marks EXCEPT ![slot] = v]
      BY <1>2, <1>3, <1>7, <2>1 DEF Mark
    <2>3. \A i \in 1..Len(marks) : marks'[i] = IF i = slot THEN v ELSE marks[i]
      BY <1>1, <2>2
    <2>4. CASE slotOf[h] = slot
      <3>1. CodeOf(h)' = code
        BY <1>1, <2>2, <2>3, <2>4 DEF CodeOf, MarkOf
      <3> QED
        BY <1>2, <1>7, <2>4, <3>1 DEF CodeGiven
    <2>5. CASE slotOf[h] # slot
      <3>1. slotOf[h] # 0 => slotOf[h] \in 1..Len(marks)
        BY <1>1 DEF BufferOK
      <3> QED
        BY <1>1, <2>3, <2>5, <3>1 DEF CodeGiven, CodeOf, MarkOf
    <2> QED
      BY <2>4, <2>5
  <1> QED
    BY <1>5, <1>6, <1>7, ModesAssumption DEF SetMark

\* sbuf_strchange and sbuf_change
LEMMA ChangeCodes ==
    ASSUME IInv, NEW g \in Handles, NEW new, Change(g, new), NEW h \in Handles
    PROVE  CodeGiven(h)
  <1>1. BufferOK /\ slotOf' = slotOf /\ marks \in Seq(Mark)
    BY DEF IInv, BufferOK, MarksSound, Change
  <1>2. CASE MarkOf(g).columnar
    BY <1>1, <1>2, UntouchedCodes DEF Change, StartColumns
  <1>3. CASE ~MarkOf(g).columnar
    <2>1. Edit(marks, MarkOf(g).begin, MarkOf(g).len, new)
      BY <1>3 DEF Change, StrChange
    <2> QED
      BY <1>1, <2>1, EditKeepsCodes DEF CodeGiven, SameCodes
  <1> QED
    BY <1>2, <1>3

LEMMA ClientCallCodes ==
    ASSUME IInv, ClientCall, NEW h \in Handles
    PROVE  CodeGiven(h)
  <1>1. BufferOK /\ slotOf[Aux] # 0 /\ Aux \in Handles /\ text \in Seq(Chars)
    BY HandlesAssumption DEF IInv, BufferOK, HandlesFit
  <1>2. ASSUME NEW g \in Handles, NEW pos \in Positions, NEW len \in Positions,
               SbufMark(g, pos, len) \/ SbufRemark(g, pos, len)
        PROVE  CodeGiven(h)
    <2>1. pos \in Nat /\ len \in Nat
      BY MaxLenAssumption DEF Positions
    <2>2. CASE SbufMark(g, pos, len)
      BY <2>1, <2>2, SbufMarkCodes
    <2>3. CASE SbufRemark(g, pos, len)
      BY <1>1, <2>3, RemarkKeepsCodes DEF SbufRemark, Ready
    <2> QED
      BY <1>2, <2>2, <2>3
  <1>3. ASSUME NEW g \in Handles,
               \/ SbufUnmark(g)
               \/ SetMark(g)
               \/ \E new \in Inserts : SbufStrchange(g, new)
               \/ \E repl \in Handles : SbufChange(g, repl)
               \/ SbufInsertFile(g)
        PROVE  CodeGiven(h)
    BY <1>3, SlotsKeepCodes, SetMarkCodes, ChangeCodes, UntouchedCodes
       DEF SbufStrchange, SbufChange, SbufInsertFile
  <1>4. ASSUME NEW g \in Handles, NEW inside \in Handles, NEW pat \in Patterns,
               NEW backward \in BOOLEAN, SbufSearch(g, inside, pat, backward)
        PROVE  CodeGiven(h)
    BY <1>1, <1>4, RemarkKeepsCodes DEF SbufSearch, Ready
  <1>5. ASSUME NEW opened, SbufLoad(opened)
        PROVE  CodeGiven(h)
    <2>1. /\ StrChange(Remarked(marks, slotOf[Aux], 0, Len(text)), 0, Len(text), <<>>)
          /\ slotOf' = slotOf
      BY <1>5 DEF SbufLoad
    <2>2. 0 \in Nat /\ Len(text) \in Nat /\ 0 + Len(text) <= Len(text)
      BY <1>1
    <2> QED
      BY <1>1, <2>1, <2>2, ChangeThroughMarkKeepsCodes DEF CodeGiven
  <1>6. CASE SbufLoadNoMemory
    BY <1>1, <1>6, RemarkKeepsCodes DEF SbufLoadNoMemory
  <1>7. ASSUME \/ SbufLoadNoName
               \/ \E dirty \in BOOLEAN : SbufSetDirty(dirty)
               \/ SbufLock
               \/ SbufUnlock
               \/ \E pos \in 0..Len(text) - 1, c \in WriteChars : ClientWrite(pos, c)
               \/ \E pos \in QueryPos : SbufLineno(pos)
        PROVE  CodeGiven(h)
    BY <1>7, UntouchedCodes
       DEF SbufLoadNoName, SbufSetDirty, SbufLock, SbufUnlock, ClientWrite, SbufLineno
  <1> QED
    BY <1>2, <1>3, <1>4, <1>5, <1>6, <1>7, SlotsKeepCodes DEF ClientCall

LEMMA CallStepCodes ==
    ASSUME IInv, CallStep, NEW h \in Handles
    PROVE  CodeGiven(h)
  <1>1. BufferOK /\ marks \in Seq(Mark) /\ CallOK /\ text \in Seq(Chars)
        /\ slotOf \in [Handles -> 0..Len(marks)]
    BY DEF IInv, BufferOK, MarksSound
  <1>2. CASE RemoveLine \/ InsertLine
    <2>1. \E pos, len, new : Edit(marks, pos, len, new)
      BY <1>2 DEF RemoveLine, InsertLine
    <2>2. slotOf' = slotOf
      BY <1>2 DEF RemoveLine, InsertLine
    <2> QED
      BY <1>1, <2>1, <2>2, EditKeepsCodes DEF CodeGiven, SameCodes
  <1>3. CASE InsertEnd
    <2>1. job.h \in Handles /\ slotOf[job.h] # 0
      BY <1>1, <1>3, JobKinds DEF InsertEnd
    <2> QED
      BY <1>1, <1>3, <2>1, RemarkKeepsCodes DEF InsertEnd
  <1>4. CASE InsertLineAborts \/ ColumnsNoMemory \/ ReadEnd
    BY <1>4, UntouchedCodes DEF InsertLineAborts, ColumnsNoMemory, ReadEnd
  <1>5. ASSUME NEW s \in Chunks, ReadChunk(s)
        PROVE  CodeGiven(h)
    <2>1. PICK g \in Handles : g = job.h /\ slotOf[g] # 0
      BY <1>1, <1>5, JobKinds DEF ReadChunk
    <2>2. PICK end \in 0..Len(text) : end = EndOf(MarkOf(g))
      BY <1>1, <2>1, HeldMark DEF EndOf
    <2>3. StrChange(Remarked(marks, slotOf[g], end, 0), end, 0, s) /\ slotOf' = slotOf
      BY <1>5, <2>1, <2>2 DEF ReadChunk
    <2>4. end \in Nat /\ 0 \in Nat /\ end + 0 <= Len(text)
      BY <2>2
    <2> QED
      BY <1>1, <2>1, <2>3, <2>4, ChangeThroughMarkKeepsCodes DEF CodeGiven
  <1>6. CASE ReadError
    <2>1. PICK g \in Handles, begin \in Nat :
              /\ g = job.h /\ begin = job.begin
              /\ slotOf[g] # 0 /\ begin <= EndOf(MarkOf(g))
      BY <1>1, <1>6, JobKinds DEF ReadError
    <2>2. PICK end \in 0..Len(text) : end = EndOf(MarkOf(g))
      BY <1>1, <2>1, HeldMark DEF EndOf
    <2>3. PICK gone \in Nat : gone = end - begin
      BY <2>1, <2>2
    <2>4. StrChange(Remarked(marks, slotOf[g], begin, gone), begin, gone, <<>>)
          /\ slotOf' = slotOf
      BY <1>6, <2>1, <2>2, <2>3 DEF ReadError
    <2>5. begin + gone <= Len(text)
      BY <2>1, <2>2, <2>3
    <2> QED
      BY <1>1, <2>1, <2>4, <2>5, ChangeThroughMarkKeepsCodes DEF CodeGiven
  <1> QED
    BY <1>2, <1>3, <1>4, <1>5, <1>6 DEF CallStep

\* All codes are found.
CodesFound == \A code \in Codes \ {0} : Finds(code)

\* sbuf_find_mark_by_code: a search for a code finds a handle for which it was set, and
\* one if anybody holds one.  However slots are reused, added and edited through, a new
\* mark has no code and a held one keeps the code last set for it.
THEOREM CodesFindMarks == Spec => CodesFindTheirMarks
  <1>1. IInv => CodesFound
    BY CodesAreFound DEF CodesFound
  <1>2. IInv /\ CodesFound' /\ [Next]_vars =>
            [ /\ \A h \in Handles : CodeOf(h)' # CodeOf(h) =>
                    \/ slotOf'[h] = 0
                    \/ /\ slotOf[h] # 0 /\ CodeOf(h)' \in Codes
                       /\ marks' = [marks EXCEPT ![slotOf[h]].code = CodeOf(h)']
              /\ \A code \in Codes \ {0} : Finds(code)' ]_vars
    <2>1. ASSUME IInv, Next, NEW h \in Handles
          PROVE  CodeGiven(h)
      <3>1. CASE Dead
        BY <3>1, UntouchedCodes DEF Dead, vars
      <3> QED
        BY <2>1, <3>1, ClientCallCodes, CallStepCodes DEF Next
    <2>2. CodesFound' => \A code \in Codes \ {0} : Finds(code)'
      BY DEF CodesFound
    <2> QED
      BY <2>1, <2>2 DEF CodeGiven
  <1> QED
    BY Invariant, <1>1, <1>2, PTL DEF Spec, CodesFindTheirMarks

\* sbuf_colpos undoes sbuf_colno at every position of every text that calls can
\* make, whatever tabs are in it and however wide they are.
THEOREM ColumnsFindPositions == Spec => []ColumnsAreInverse
  <1>1. IInv => text \in Seq(Chars)
    BY DEF IInv, BufferOK
  <1>2. IInv => ColumnsAreInverse
    BY <1>1, ColposUndoesColno DEF ColumnsAreInverse
  <1> QED
    BY Invariant, <1>2, PTL

LEMMA LinesStayRight ==
    ASSUME NL \notin WriteChars
    PROVE  Spec => [](LinesRight(pc, text) /\ AnswersAreRight)
  <1>1. Init => LinesRight(pc, text) /\ AnswersAreRight
    BY DEF Init, LinesRight, AnswersAreRight
  <1>2. IInv /\ (LinesRight(pc, text) /\ AnswersAreRight) /\ [Next]_vars
            => (LinesRight(pc, text) /\ AnswersAreRight)'
    BY NextKeeps DEF LinesStep, AnswersStep
  <1> QED
    BY Invariant, <1>1, <1>2, PTL DEF Spec

\* sbuf_adjust_pos_cache, sbuf_clear_pos_cache and put_into_cache keep the cached
\* line numbers right, in order and within the array through every edit, as long
\* as the holder of sbuf_lock does not write newlines into the text.
THEOREM PosCacheStaysRight ==
    ASSUME NL \notin WriteChars
    PROVE  Spec => []PosCacheRight
  <1>1. IInv /\ LinesRight(pc, text) => PosCacheRight
    <2>1. SUFFICES ASSUME IInv, LinesRight(pc, text) PROVE PosCacheRight
      OBVIOUS
    <2>2. CacheSound(pc, Len(text)) /\ Len(pc) \in Nat /\ DOMAIN pc = 1..Len(pc)
      BY <2>1 DEF IInv, BufferOK, CacheSound
    <2>3. ASSUME NEW i \in 1..Len(pc) - 1
          PROVE  pc[i].pos < pc[i + 1].pos
      <3>1. PICK a \in 1..Len(pc), b \in 1..Len(pc) : a = i /\ b = i + 1 /\ a < b
        BY <2>2
      <3> QED
        BY <2>2, <3>1 DEF CacheSound
    <2> QED
      BY <2>1, <2>2, <2>3 DEF PosCacheRight, CacheSound, LinesRight
  <1> QED
    BY Invariant, LinesStayRight, <1>1, PTL

\* sbuf_lineno returns the number of newlines before the position, whichever
\* cached pair it counts from and whatever was edited since that was cached,
\* under the same condition on the holder of the lock.
THEOREM LineNumbersAreRight ==
    ASSUME NL \notin WriteChars
    PROVE  Spec => []AnswersAreRight
  BY LinesStayRight, PTL


-----------------------------------------------------------------------------
\* Loading a file.

\* A block that is spliced in at the end of the text is appended.
LEMMA SplicedAtEnd ==
    ASSUME NEW t \in Seq(Chars), NEW s \in Seq(Chars), NEW u \in Seq(Chars),
           NEW n \in Nat, n = Len(t), Spliced(u, t, n, 0, s)
    PROVE  u = t \o s /\ Len(u) = n + Len(s)
  <1>1. PICK k \in Nat : k = Len(s)
    OBVIOUS
  <1>2. /\ Len(u) = n + k
        /\ \A i \in 1..n + k : u[i] = IF i <= n THEN t[i] ELSE s[i - n]
    <2>1. Len(u) = n + k
      BY <1>1 DEF Spliced
    <2>2. ASSUME NEW i \in 1..n + k
          PROVE  u[i] = IF i <= n THEN t[i] ELSE s[i - n]
      <3>1. u[i] = IF i <= n THEN t[i]
                   ELSE IF i <= n + k THEN s[i - n] ELSE t[i - k + 0]
        BY <1>1, <2>1 DEF Spliced
      <3> QED
        BY <3>1
    <2> QED
      BY <2>1, <2>2
  <1>3. /\ t \o s \in Seq(Chars) /\ Len(t \o s) = n + k
        /\ \A i \in 1..n + k : (t \o s)[i] = IF i <= n THEN t[i] ELSE s[i - n]
    BY <1>1
  <1> QED
    BY <1>1, <1>2, <1>3, SeqEqual

\* Nothing is left of a text all of which is replaced by nothing.
LEMMA SplicedAway ==
    ASSUME NEW t \in Seq(Chars), NEW u \in Seq(Chars),
           NEW n \in Nat, n = Len(t), Spliced(u, t, 0, n, <<>>)
    PROVE  u = <<>>
  <1>1. Len(u) = 0
    BY DEF Spliced
  <1> QED
    BY <1>1

\* While sbuf_load reads, the text is what has been read so far, and the
\* buffer's own mark ends where it does.
LoadHolds ==
    job.op = "read" /\ job.load =>
        /\ job.h = Aux /\ job.begin = 0 /\ job.got = text
        /\ EndOf(MarkOf(Aux)) = Len(text)

\* When no load is in progress after a step there is nothing to hold.
LEMMA NothingLoaded ==
    ASSUME job' = Idle \/ job'.op # "read" \/ ~job'.load
    PROVE  LoadHolds'
  BY DEF LoadHolds, Idle

\* sbuf_load begins to read with an empty text.
LEMMA SbufLoadBegins ==
    ASSUME IInv, NEW opened, SbufLoad(opened)
    PROVE  LoadHolds'
  <1>1. /\ BufferOK /\ text \in Seq(Chars) /\ Aux \in Handles /\ slotOf[Aux] # 0
    BY HandlesAssumption DEF IInv, BufferOK, HandlesFit
  <1>2. PICK n \in Nat : n = Len(text)
    BY <1>1
  <1>3. PICK h \in Handles, new \in Seq(Chars), z \in Nat :
            h = Aux /\ new = <<>> /\ z = 0
    <2>1. 0 \in Nat /\ <<>> \in Seq(Chars)
      OBVIOUS
    <2> QED
      BY <1>1, <2>1
  <1>4. /\ StrChange(Remarked(marks, slotOf[h], z, n), z, n, new)
        /\ slotOf' = slotOf /\ slotOf[h] # 0 /\ z + n <= Len(text)
    BY <1>1, <1>2, <1>3 DEF SbufLoad
  <1>5. /\ MarkOf(h)'.begin = z /\ MarkOf(h)'.len = Len(new)
        /\ text' \in Seq(Chars) /\ Spliced(text', text, z, n, new)
    BY <1>1, <1>4, ChangeThroughMark
  <1>6. PICK u \in Seq(Chars) : u = text'
    BY <1>5
  <1>7. Spliced(u, text, 0, n, <<>>)
    BY <1>3, <1>5, <1>6
  <1>8. u = <<>>
    BY <1>1, <1>2, <1>7, SplicedAway
  <1>9. job' = Idle \/ job' = ReadJob(Aux, 0, TRUE)
    BY DEF SbufLoad
  <1>10. ASSUME job' = ReadJob(Aux, 0, TRUE)
         PROVE  LoadHolds'
    <2>1. /\ job'.op = "read" /\ job'.h = Aux /\ job'.begin = 0
          /\ job'.got = <<>>
      BY <1>10 DEF ReadJob
    <2>2. EndOf(MarkOf(Aux))' = 0 /\ text' = <<>> /\ Len(<<>>) = 0
      BY <1>3, <1>5, <1>6, <1>8 DEF EndOf
    <2> QED
      BY <2>1, <2>2 DEF LoadHolds
  <1> QED
    BY <1>9, <1>10, NothingLoaded

\* A block that is read is appended to the text.
LEMMA ReadChunkAppends ==
    ASSUME IInv, LoadHolds, NEW s \in Seq(Chars), ReadChunk(s)
    PROVE  LoadHolds'
  <1>1. BufferOK /\ CallOK /\ job.op = "read" /\ text \in Seq(Chars)
    BY DEF IInv, BufferOK, ReadChunk
  <1>2. /\ job \in [op : {"read"}, h : Handles, begin : Nat, got : Seq(Chars),
                    load : BOOLEAN]
        /\ slotOf[job.h] # 0
    BY <1>1, JobKinds
  <1>3. job' = [job EXCEPT !.got = job.got \o s] /\ slotOf' = slotOf
    BY DEF ReadChunk
  <1>4. /\ job'.op = "read" /\ job'.h = job.h /\ job'.begin = job.begin
        /\ job'.got = job.got \o s /\ job'.load = job.load
    BY <1>2, <1>3
  <1>5. ASSUME job.load
        PROVE  LoadHolds'
    <2>1. /\ job.h = Aux /\ job.begin = 0 /\ job.got = text
          /\ EndOf(MarkOf(Aux)) = Len(text)
      BY <1>1, <1>5 DEF LoadHolds
    <2>2. PICK h \in Handles : h = Aux
      BY <1>2, <2>1
    <2>3. PICK n \in Nat : n = Len(text)
      BY <1>1
    <2>4. /\ StrChange(Remarked(marks, slotOf[h], n, 0), n, 0, s)
          /\ slotOf[h] # 0 /\ n + 0 <= Len(text) /\ 0 \in Nat
      BY <1>2, <2>1, <2>2, <2>3 DEF ReadChunk
    <2>5. /\ MarkOf(h)'.begin = n /\ MarkOf(h)'.len = Len(s)
          /\ text' \in Seq(Chars) /\ Spliced(text', text, n, 0, s)
      BY <1>1, <1>3, <2>4, ChangeThroughMark
    <2>6. PICK u \in Seq(Chars) : u = text'
      BY <2>5
    <2>7. u = text \o s /\ Len(u) = n + Len(s)
      BY <1>1, <2>3, <2>5, <2>6, SplicedAtEnd
    <2>8. EndOf(MarkOf(Aux))' = n + Len(s)
      BY <2>2, <2>5 DEF EndOf
    <2> QED
      BY <1>4, <2>1, <2>6, <2>7, <2>8 DEF LoadHolds
  <1> QED
    BY <1>4, <1>5, NothingLoaded

\* After a failed load nothing is left of what was read; otherwise all is there.
LEMMA LoadEnds ==
    ASSUME IInv, LoadHolds, job.op = "read", job.load, job' = Idle,
           ReadEnd \/ ReadError
    PROVE  text' = job.got \/ text' = <<>>
  <1>1. /\ BufferOK /\ CallOK /\ text \in Seq(Chars)
        /\ job.h = Aux /\ job.begin = 0 /\ job.got = text
        /\ EndOf(MarkOf(Aux)) = Len(text)
    BY DEF IInv, BufferOK, LoadHolds
  <1>2. CASE ReadEnd
    BY <1>1, <1>2 DEF ReadEnd
  <1>3. CASE ReadError
    <2>1. slotOf[Aux] # 0 /\ Aux \in Handles
      BY HandlesAssumption DEF IInv, BufferOK, HandlesFit
    <2>2. PICK n \in Nat : n = Len(text)
      BY <1>1
    <2>3. n - 0 = n
      OBVIOUS
    <2>4. /\ StrChange(Remarked(marks, slotOf[Aux], 0, n), 0, n, <<>>)
          /\ slotOf' = slotOf
      BY <1>1, <1>3, <2>2, <2>3 DEF ReadError
    <2>5. PICK h \in Handles, new \in Seq(Chars), z \in Nat :
              h = Aux /\ new = <<>> /\ z = 0
      <3>1. 0 \in Nat /\ <<>> \in Seq(Chars)
        OBVIOUS
      <3> QED
        BY <2>1, <3>1
    <2>6. /\ StrChange(Remarked(marks, slotOf[h], z, n), z, n, new)
          /\ slotOf[h] # 0 /\ z + n <= Len(text)
      BY <2>1, <2>2, <2>4, <2>5
    <2>7. text' \in Seq(Chars) /\ Spliced(text', text, z, n, new)
      BY <1>1, <2>4, <2>6, ChangeThroughMark
    <2>8. PICK u \in Seq(Chars) : u = text'
      BY <2>7
    <2>9. Spliced(u, text, 0, n, <<>>)
      BY <2>5, <2>7, <2>8
    <2> QED
      BY <1>1, <2>2, <2>8, <2>9, SplicedAway
  <1> QED
    BY <1>2, <1>3

\* The other calls do not load.
LEMMA ClientCallLoads ==
    ASSUME IInv, LoadHolds, ClientCall
    PROVE  job = Idle /\ LoadHolds'
  <1>1. job = Idle
    BY DEF ClientCall, SbufMark, SbufRemark, SbufUnmark, SetMark, SbufStrchange,
           SbufChange, SbufInsertFile, SbufSearch, SbufMarkNoMemory, SbufLoad,
           SbufLoadNoMemory, SbufLoadNoName, SbufSetDirty, SbufLock, SbufUnlock,
           ClientWrite, SbufLineno, Ready
  <1>2. ASSUME NEW h \in Handles, NEW new, Change(h, new)
        PROVE  LoadHolds'
    <2>1. job' = job \/ job'.op = "remove" \/ job' = Idle
      BY <1>2 DEF Change, StartColumns
    <2> QED
      BY <1>1, <2>1, NothingLoaded
  <1>3. ASSUME NEW h \in Handles, SbufInsertFile(h)
        PROVE  LoadHolds'
    BY <1>3, NothingLoaded DEF SbufInsertFile, ReadJob
  <1>4. CASE job' = job
    BY <1>1, <1>4, NothingLoaded
  <1>5. \/ job' = job
        \/ \E h \in Handles :
              \/ SbufInsertFile(h)
              \/ \E new \in Inserts : Change(h, new)
              \/ \E repl \in Handles : Change(h, Strat(text, MarkOf(repl)))
        \/ \E opened \in Loads \cap {"yes", "none", "error"} : SbufLoad(opened)
    BY DEF ClientCall, SbufMark, SbufRemark, SbufUnmark, SetMark, SbufStrchange,
           SbufChange, SbufSearch, SbufMarkNoMemory, SbufLoadNoMemory,
           SbufLoadNoName, SbufSetDirty, SbufLock, SbufUnlock, ClientWrite,
           SbufLineno
  <1> QED
    BY <1>1, <1>2, <1>3, <1>4, <1>5, SbufLoadBegins

\* The steps of a call in progress go on with the load, or end it.
LEMMA CallStepLoads ==
    ASSUME IInv, LoadHolds, CallStep
    PROVE  /\ LoadHolds'
           /\ (job.op = "read" /\ job.load /\ job' = Idle)
                    => (text' = job.got \/ text' = <<>>)
  <1>1. ASSUME NEW s \in Chunks, ReadChunk(s)
        PROVE  LoadHolds' /\ job' # Idle
    <2>1. s \in Seq(Chars) /\ CallOK
      BY StringsAssumption DEF IInv
    <2>2. /\ job \in [op : {"read"}, h : Handles, begin : Nat, got : Seq(Chars),
                      load : BOOLEAN]
          /\ job' = [job EXCEPT !.got = job.got \o s]
      BY <1>1, <2>1, JobKinds DEF ReadChunk
    <2>3. job'.op = "read"
      BY <2>2
    <2> QED
      BY <1>1, <2>1, <2>3, ReadChunkAppends DEF Idle
  <1>2. CASE ReadEnd \/ ReadError
    <2>1. job' = Idle
      BY <1>2 DEF ReadEnd, ReadError
    <2> QED
      BY <1>2, <2>1, NothingLoaded, LoadEnds
  <1>3. ASSUME RemoveLine \/ InsertLine \/ InsertLineAborts \/ InsertEnd
                    \/ ColumnsNoMemory
        PROVE  LoadHolds' /\ job.op # "read"
    <2>1. job.op \in {"remove", "insert"} /\ CallOK
      BY <1>3 DEF RemoveLine, InsertLine, InsertLineAborts, InsertEnd,
                  ColumnsNoMemory, IInv
    <2>2. job'.op # "read"
      <3>1. CASE RemoveLine
        <4>1. job.op = "remove"
          BY <3>1 DEF RemoveLine
        <4>2. job \in [op : {"remove"}, h : Handles, new : Seq(Chars), p : Nat,
                       top : Nat, from : Nat, to : Nat, want : Seq(Chars)]
          BY <2>1, <4>1, JobKinds
        <4>3. \/ \E above : job' = [job EXCEPT !.p = above]
              \/ \E t, m, h, new : job' = InsertJob(t, m, h, new)
          BY <3>1 DEF RemoveLine
        <4> QED
          BY <4>2, <4>3 DEF InsertJob
      <3>2. CASE InsertLine
        <4>1. job.op = "insert"
          BY <3>2 DEF InsertLine
        <4>2. job \in [op : {"insert"}, h : Handles, rest : Seq(Chars), pos : Nat,
                       begin : Nat, end : Nat, col : Nat, w : Nat]
          BY <2>1, <4>1, JobKinds
        <4>3. \E rest, end, pos :
                job' = [job EXCEPT !.rest = rest, !.end = end, !.pos = pos]
          BY <3>2 DEF InsertLine
        <4> QED
          BY <4>2, <4>3
      <3>3. CASE InsertLineAborts \/ InsertEnd \/ ColumnsNoMemory
        BY <3>3 DEF InsertLineAborts, InsertEnd, ColumnsNoMemory, Idle, Aborted
      <3> QED
        BY <1>3, <3>1, <3>2, <3>3
    <2> QED
      BY <2>1, <2>2, NothingLoaded
  <1> QED
    BY <1>1, <1>2, <1>3, LoadEnds DEF CallStep

\* sbuf_load: a file that could not be read to its end leaves no part of itself in
\* the buffer, wherever the reading failed and whatever blocks it came in; a file
\* that was read is there in full and in order.
THEOREM FailedLoadsLeaveNothing == Spec => FailedLoadIsEmpty
  <1>1. Init => LoadHolds
    BY DEF Init, LoadHolds, Idle
  <1>2. IInv /\ LoadHolds /\ [Next]_vars => LoadHolds'
    <2>1. ASSUME IInv, LoadHolds, UNCHANGED vars
          PROVE  LoadHolds'
      <3>1. UNCHANGED <<text, marks, slotOf, job>>
        BY <2>1 DEF vars
      <3> QED
        BY <2>1, <3>1 DEF LoadHolds, EndOf, MarkOf
    <2> QED
      BY <2>1, ClientCallLoads, CallStepLoads DEF Next, Dead
  <1>3. IInv /\ LoadHolds /\ [Next]_vars =>
            [(job.op = "read" /\ job.load /\ job' = Idle /\ text' # job.got)
                => text' = <<>>]_vars
    <2>1. ASSUME IInv, LoadHolds, ClientCall PROVE job.op # "read"
      BY <2>1, ClientCallLoads DEF Idle
    <2>2. ASSUME job = Aborted PROVE job.op # "read"
      BY <2>2 DEF Aborted
    <2> QED
      BY <2>1, <2>2, CallStepLoads DEF Next, Dead
  <1> QED
    BY Invariant, <1>1, <1>2, <1>3, PTL DEF Spec, FailedLoadIsEmpty

\* check_pos_cache: the cached positions are in order, within the text and within
\* the array, even when the holder of the lock writes newlines.
THEOREM PosCacheStaysInOrder == Spec => [](CacheSound(pc, Len(text)))
  <1>1. IInv => CacheSound(pc, Len(text))
    BY DEF IInv, BufferOK
  <1> QED
    BY Invariant, <1>1, PTL

\* The positions of t that are not in out.
Kept(t, out) == {p \in 0..Len(t) - 1 : p \notin out}

\* What is left of t: its characters at the positions kept, each behind as many
\* others as there are positions kept before it.
LEMMA WithoutCells ==
    ASSUME NEW t \in Seq(Chars), NEW out, NEW P, P = Kept(t, out),
           NEW w, w = Without(t, out)
    PROVE  /\ IsFiniteSet(P) /\ P \subseteq 0..Len(t) - 1 /\ P \subseteq Nat
           /\ w \in Seq(Chars) /\ Len(w) = Cardinality(P)
           /\ \A i \in 1..Len(w) : \E p \in P : Cardinality(UpTo(P, p)) = i
           /\ \A p \in P : \A i \in 1..Len(w) :
                Cardinality(UpTo(P, p)) = i => w[i] = t[p + 1]
           /\ \A p \in P : Cardinality(UpTo(P, p)) \in 1..Len(w)
  <1> DEFINE Recursive(f) == f = [i \in 0..Cardinality(P) |->
                        IF i = 0 THEN -1 ELSE Min({p \in P : p > f[i - 1]})]
             nth == CHOOSE f : Recursive(f)
  <1>1. P \subseteq 0..Len(t) - 1 /\ P \subseteq Nat
    BY DEF Kept
  <1>2. IsFiniteSet(P)
    <2>1. IsFiniteSet(0..Len(t) - 1)
      BY FS_Interval
    <2>2. P \in SUBSET (0..Len(t) - 1)
      BY <1>1
    <2> QED
      BY <2>1, <2>2, FS_Subset
  <1>3. Enumerates(nth, P)
    <2>1. \E f : Enumerates(f, P)
      BY <1>1, <1>2, EnumerationExists
    <2>2. Recursive(nth)
      BY <2>1 DEF Enumerates
    <2> QED
      BY <2>2 DEF Enumerates
  <1>4. w = [i \in 1..Cardinality(P) |-> t[nth[i] + 1]]
    BY DEF Without, Kept
  <1> HIDE DEF nth
  <1>5. PICK f : f = nth
    OBVIOUS
  <1>6. PICK n \in Nat : n = Cardinality(P)
    BY <1>2, FS_CardinalityType
  <1>7. \A i \in 1..n : f[i] \in P /\ Cardinality(UpTo(P, f[i])) = i
    BY <1>1, <1>2, <1>3, <1>5, <1>6, EnumerationStays
  <1>8. w \in Seq(Chars)
    BY WithoutIsText
  <1>9. Len(w) = n /\ \A i \in 1..n : w[i] = t[f[i] + 1]
    BY <1>4, <1>5, <1>6
  <1>10. ASSUME NEW p \in P, NEW i \in 1..n, Cardinality(UpTo(P, p)) = i
         PROVE  w[i] = t[p + 1]
    <2>1. PICK q \in P : q = f[i] /\ Cardinality(UpTo(P, q)) = i
      BY <1>7
    <2>2. Cardinality(UpTo(P, p)) = Cardinality(UpTo(P, q))
      BY <1>10, <2>1
    <2>3. p = q
      BY <1>1, <1>2, <2>2, RanksDiffer
    <2> QED
      BY <1>9, <2>1, <2>3
  <1>11. ASSUME NEW p \in P
         PROVE  Cardinality(UpTo(P, p)) \in 1..n
    <2>1. PICK U : U = UpTo(P, p)
      OBVIOUS
    <2>2. U \in SUBSET P /\ p \in U
      BY <1>1, <2>1 DEF UpTo
    <2>3. IsFiniteSet(U) /\ Cardinality(U) <= n /\ U # {}
      BY <1>2, <1>6, <2>2, FS_Subset
    <2>4. Cardinality(U) # 0 /\ Cardinality(U) \in Nat
      BY <2>3, FS_EmptySet, FS_CardinalityType
    <2> QED
      BY <2>1, <2>3, <2>4
  <1>12. \A i \in 1..n : \E p \in P : Cardinality(UpTo(P, p)) = i
    BY <1>7
  <1> QED
    BY <1>1, <1>2, <1>6, <1>8, <1>9, <1>10, <1>11, <1>12

\* A character that is not taken away is still there.
LEMMA KeptStays ==
    ASSUME NEW t \in Seq(Chars), NEW out, NEW p \in 0..Len(t) - 1, p \notin out
    PROVE  \E i \in 1..Len(Without(t, out)) : Without(t, out)[i] = t[p + 1]
  <1>1. PICK P, w : P = Kept(t, out) /\ w = Without(t, out)
    OBVIOUS
  <1>2. p \in P
    BY <1>1 DEF Kept
  <1>3. PICK i : i = Cardinality(UpTo(P, p))
    OBVIOUS
  <1>4. i \in 1..Len(w) /\ w[i] = t[p + 1]
    BY <1>1, <1>2, <1>3, WithoutCells
  <1> QED
    BY <1>1, <1>4

\* What selects a set of positions is what is left without the others.
LEMMA SelectedIsLeft ==
    ASSUME NEW t \in Seq(Chars), NEW taken, taken \subseteq 0..Len(t) - 1,
           NEW w, Selects(w, t, taken)
    PROVE  w = Without(t, (0..Len(t) - 1) \ taken)
  <1>1. PICK out : out = (0..Len(t) - 1) \ taken
    OBVIOUS
  <1>2. PICK P, v : P = Kept(t, out) /\ v = Without(t, out)
    OBVIOUS
  <1>3. P = taken
    BY <1>1, <1>2 DEF Kept
  <1>4. /\ v \in Seq(Chars) /\ Len(v) = Cardinality(P)
        /\ \A i \in 1..Len(v) : \E p \in P : Cardinality(UpTo(P, p)) = i
        /\ \A p \in P : \A i \in 1..Len(v) : Cardinality(UpTo(P, p)) = i => v[i] = t[p + 1]
    BY <1>2, WithoutCells
  <1>5. /\ w \in Seq(Chars) /\ Len(w) = Cardinality(P)
        /\ \A p \in P : \A i \in 1..Len(w) : Cardinality(UpTo(P, p)) = i => w[i] = t[p + 1]
    BY <1>3 DEF Selects
  <1>6. ASSUME NEW i \in 1..Len(w)
        PROVE  w[i] = v[i]
    <2>1. i \in 1..Len(v)
      BY <1>4, <1>5
    <2>2. PICK p \in P : Cardinality(UpTo(P, p)) = i
      BY <1>4, <2>1
    <2> QED
      BY <1>4, <1>5, <2>1, <2>2
  <1>7. w = v
    BY <1>4, <1>5, <1>6, SeqEqual
  <1> QED
    BY <1>1, <1>2, <1>7

\* sbuf_change: the loop of sbuf_strat copies exactly as many characters as the loop of
\* sbuf_mark_length counts, from a mark within the text; they are the characters in the
\* columns of the mark's ends, and the newlines, and sbuf_pos_inside_mark agrees.
THEOREM CopiesFit == Spec => []LengthIsWhatIsCopied
  <1>1. ASSUME IInv, NEW h \in Handles, slotOf[h] # 0,
               NEW m, m = MarkOf(h), NEW taken,
               taken = IF m.columnar THEN InColumns(text, m.begin, m.len)
                       ELSE m.begin..m.begin + m.len - 1
        PROVE  /\ MarkLength(text, m) = Len(Strat(text, m))
               /\ Strat(text, m) = Without(text, (0..Len(text) - 1) \ taken)
               /\ \A p \in 0..Len(text) - 1 :
                    text[p + 1] # NL => (PosInsideMark(text, m, p) <=> p \in taken)
    <2>1. /\ text \in Seq(Chars) /\ m \in Mark /\ m.begin \in Nat /\ m.len \in Nat
          /\ m.begin + m.len <= Len(text)
      BY <1>1, HeldMark DEF IInv, BufferOK
    <2>2. /\ Len(Strat(text, m)) = MarkLength(text, m)
          /\ Selects(Strat(text, m), text, Taken(text, m))
      BY <2>1, StratIsText
    <2>3. ASSUME NEW p \in 0..Len(text) - 1, text[p + 1] # NL
          PROVE  PosInsideMark(text, m, p) <=> p \in taken
      <3>1. m.begin <= p /\ p < m.begin + m.len <=> p \in m.begin..m.begin + m.len - 1
        BY <2>1
      <3>2. CASE m.columnar
        BY <1>1, <2>3, <3>1, <3>2 DEF PosInsideMark, InColumns
      <3>3. CASE ~m.columnar
        BY <1>1, <3>1, <3>3 DEF PosInsideMark
      <3> QED
        BY <3>2, <3>3
    <2>4. taken \subseteq 0..Len(text) - 1
      <3>1. taken \subseteq m.begin..m.begin + m.len - 1
        BY <1>1 DEF InColumns
      <3> QED
        BY <2>1, <3>1
    <2>5. Taken(text, m) = taken
      BY <1>1 DEF Taken
    <2>6. Strat(text, m) = Without(text, (0..Len(text) - 1) \ taken)
      BY <2>1, <2>2, <2>4, <2>5, SelectedIsLeft
    <2> QED
      BY <2>2, <2>3, <2>6
  <1>2. IInv => LengthIsWhatIsCopied
    BY <1>1 DEF LengthIsWhatIsCopied
  <1> QED
    BY Invariant, <1>2, PTL

\* Without nothing, a text is what it is.
LEMMA WithoutNothing ==
    ASSUME NEW t \in Seq(Chars)
    PROVE  Without(t, {}) = t
  <1>1. PICK P, w : P = Kept(t, {}) /\ w = Without(t, {})
    OBVIOUS
  <1>2. \A x : x \in P <=> x \in 0..Len(t) - 1
    BY <1>1 DEF Kept
  <1>3. IsFiniteSet({}) /\ Cardinality({}) = 0
    BY FS_EmptySet
  <1>4. Cardinality(P) = Len(t)
    <2>1. P = {} \cup (0..Len(t) - 1)
      BY <1>2
    <2>2. Cardinality(P) = Cardinality({}) + (Len(t) - 0)
      BY <1>3, <2>1, CountBehind
    <2> QED
      BY <1>3, <2>2
  <1>5. ASSUME NEW i \in 1..Len(t)
        PROVE  w[i] = t[i]
    <2>1. PICK p \in P : p = i - 1 /\ p + 1 = i
      BY <1>2
    <2>2. UpTo(P, p) = {} \cup (0..i - 1)
      BY <1>2, <2>1 DEF UpTo
    <2>3. Cardinality(UpTo(P, p)) = Cardinality({}) + (i - 0)
      BY <1>3, <2>2, CountBehind
    <2>4. Cardinality(UpTo(P, p)) = i
      BY <1>3, <2>3
    <2>5. Len(w) = Len(t)
      BY <1>1, <1>4, WithoutCells
    <2>6. w[i] = t[p + 1]
      BY <1>1, <2>4, <2>5, WithoutCells
    <2> QED
      BY <2>1, <2>6
  <1>6. w \in Seq(Chars) /\ Len(w) = Len(t)
    BY <1>1, <1>4, WithoutCells
  <1> QED
    BY <1>1, <1>5, <1>6, SeqEqual

\* The positions from a to b are in out.
Covers(out, a, b) == \A x \in a..b - 1 : x \in out

\* To take the last of what is to be taken first, and then the rest, leaves the
\* same text.
LEMMA WithoutLater ==
    ASSUME NEW t \in Seq(Chars), NEW u \in Seq(Chars),
           NEW line \in Nat, NEW a \in Nat, NEW b \in Nat,
           CutFromLine(u, t, line, a, b), NEW out, Covers(out, a, b),
           \A x \in out : x \in Nat /\ x < b,
           NEW rest, \A x : x \in rest <=> x \in out /\ x < a
    PROVE  Without(u, rest) = Without(t, out)
  <1>0. /\ a <= b /\ b <= Len(t) /\ Len(u) = Len(t) - (b - a)
        /\ \A i \in 1..Len(u) : u[i] = IF i <= a THEN t[i] ELSE t[i + (b - a)]
        /\ \A x \in a..b - 1 : x \in out
    <2>1. /\ b \in a..Len(t) /\ Len(u) = Len(t) - (b - a)
          /\ \A i \in 1..Len(u) : u[i] = IF i <= a THEN t[i] ELSE t[i + (b - a)]
          /\ \A x \in a..b - 1 : x \in out
      BY Zenon DEF CutFromLine, Covers
    <2> QED
      BY <2>1
  <1>1. PICK P, Q, A : /\ P = Kept(t, out) /\ Q = Kept(u, rest)
                       /\ A = {x \in P : x < a}
    OBVIOUS
  <1>2. PICK w, v : w = Without(t, out) /\ v = Without(u, rest)
    OBVIOUS
  <1>3. /\ IsFiniteSet(P) /\ P \subseteq 0..Len(t) - 1 /\ P \subseteq Nat
        /\ w \in Seq(Chars) /\ Len(w) = Cardinality(P)
        /\ \A i \in 1..Len(w) : \E p \in P : Cardinality(UpTo(P, p)) = i
        /\ \A p \in P : \A i \in 1..Len(w) :
                Cardinality(UpTo(P, p)) = i => w[i] = t[p + 1]
    BY <1>1, <1>2, WithoutCells
  <1>4. /\ IsFiniteSet(Q) /\ Q \subseteq 0..Len(u) - 1 /\ Q \subseteq Nat
        /\ v \in Seq(Chars) /\ Len(v) = Cardinality(Q)
        /\ \A i \in 1..Len(v) : \E q \in Q : Cardinality(UpTo(Q, q)) = i
        /\ \A q \in Q : \A i \in 1..Len(v) :
                Cardinality(UpTo(Q, q)) = i => v[i] = u[q + 1]
    BY <1>1, <1>2, WithoutCells
  <1>5. /\ Len(t) \in Nat /\ Len(u) \in Nat /\ a <= Len(u)
        /\ a <= b /\ b <= Len(t) /\ Len(u) = Len(t) - (b - a)
    BY <1>0
  <1>6. IsFiniteSet(A) /\ \A x \in A : x < a /\ x < b /\ x \in Nat
    <2>1. A \in SUBSET P
      BY <1>1
    <2>2. IsFiniteSet(A)
      BY <1>3, <2>1, FS_Subset
    <2>3. \A x \in A : x \in Nat /\ x < a
      BY <1>1, <1>3
    <2> QED
      BY <1>0, <2>2, <2>3
  <1>7. \A x : x \in P <=> x \in A \/ x \in b..Len(t) - 1
    <2>1. \A x : x \in P <=> x \in 0..Len(t) - 1 /\ x \notin out
      BY <1>1 DEF Kept
    <2>2. \A x \in 0..Len(t) - 1 : x < a \/ x \in a..b - 1 \/ x \in b..Len(t) - 1
      BY <1>5
    <2>3. \A x \in b..Len(t) - 1 : x \in 0..Len(t) - 1 /\ ~(x < b)
      BY <1>5
    <2> QED
      BY <1>0, <1>1, <2>1, <2>2, <2>3
  <1>8. \A x : x \in Q <=> x \in A \/ x \in a..Len(u) - 1
    <2>1. \A x : x \in Q <=> x \in 0..Len(u) - 1 /\ ~(x \in out /\ x < a)
      BY <1>1 DEF Kept
    <2>2. \A x : x \in A <=> x \in 0..Len(t) - 1 /\ x \notin out /\ x < a
      BY <1>1 DEF Kept
    <2>3. \A x \in 0..Len(u) - 1 : x \in 0..Len(t) - 1
      BY <1>5
    <2>4. \A x \in 0..Len(t) - 1 : x < a => x \in 0..Len(u) - 1
      BY <1>5
    <2>5. \A x : x \in a..Len(u) - 1 <=> x \in 0..Len(u) - 1 /\ ~(x < a)
      BY <1>5
    <2> QED
      BY <2>1, <2>2, <2>3, <2>4, <2>5
  <1>9. PICK c \in Nat : c = Cardinality(A)
    BY <1>6, FS_CardinalityType
  <1>10. Cardinality(P) = c + (Len(t) - b) /\ Cardinality(Q) = c + (Len(u) - a)
    <2>1. ASSUME NEW k \in Nat, k = Len(t)
          PROVE  Cardinality(P) = Cardinality(A) + (k - b)
      <3>1. P = A \cup (b..k - 1)
        BY <1>7, <2>1
      <3>2. b <= k
        BY <1>5, <2>1
      <3>3. Cardinality(A \cup (b..k - 1)) = Cardinality(A) + (k - b)
        BY <1>6, <3>2, CountBehind
      <3> QED
        BY <3>1, <3>3
    <2>2. ASSUME NEW k \in Nat, k = Len(u)
          PROVE  Cardinality(Q) = Cardinality(A) + (k - a)
      <3>1. Q = A \cup (a..k - 1)
        BY <1>8, <2>2
      <3>2. a <= k /\ \A x \in A : x < a /\ x \in Nat
        BY <1>5, <1>6, <2>2
      <3> QED
        BY <1>6, <3>1, <3>2, CountBehind
    <2> QED
      BY <1>5, <1>9, <2>1, <2>2
  <1>11. Len(v) = Len(w)
    BY <1>3, <1>4, <1>5, <1>10
  <1>12. ASSUME NEW i \in 1..Len(w)
         PROVE  v[i] = w[i]
    <2>1. PICK p \in P : Cardinality(UpTo(P, p)) = i
      BY <1>3
    <2>2. w[i] = t[p + 1]
      BY <1>3, <2>1
    <2>3. CASE p < a
      <3>1. p \in A /\ p \in Q
        BY <1>1, <1>8, <2>3
      <3>2. p \in 0..Len(u) - 1
        BY <1>1, <3>1 DEF Kept
      <3>3. \A x : x \in UpTo(P, p) <=> x \in A /\ x <= p
        <4>0. p \in Nat /\ \A x \in P : x \in Nat
          BY <1>3
        <4>1. \A x \in P : x <= p => x < a
          BY <2>3, <4>0
        <4> QED
          BY <1>1, <4>1 DEF UpTo
      <3>4. \A x : x \in UpTo(Q, p) <=> x \in A /\ x <= p
        <4>0. p \in Nat
          BY <1>3
        <4>1. \A x \in a..Len(u) - 1 : ~(x <= p)
          BY <2>3, <4>0, <1>5
        <4> QED
          BY <1>8, <4>1 DEF UpTo
      <3>5. UpTo(Q, p) = UpTo(P, p)
        BY <3>3, <3>4
      <3>6. v[i] = u[p + 1]
        BY <1>4, <1>11, <2>1, <3>1, <3>5
      <3>7. u[p + 1] = t[p + 1]
        BY <1>0, <1>5, <2>3, <3>2
      <3> QED
        BY <2>2, <3>6, <3>7
    <2>4. CASE ~(p < a)
      <3>1. p \in b..Len(t) - 1
        BY <1>6, <1>7, <2>4
      <3>2. PICK q : q = p - (b - a)
        OBVIOUS
      <3>3. q \in a..Len(u) - 1 /\ q + 1 + (b - a) = p + 1 /\ q \in Nat
            /\ p + 1 - b = q + 1 - a
        BY <1>5, <3>1, <3>2
      <3>4. q \in Q
        BY <1>8, <3>3
      <3>5. \A x : x \in UpTo(P, p) <=> x \in A \/ x \in b..(p + 1) - 1
        <4>1. \A x \in A : x <= p
          BY <1>6, <3>1
        <4>2. \A x : x \in b..(p + 1) - 1 <=> x \in b..Len(t) - 1 /\ x <= p
          BY <3>1, <1>5
        <4> QED
          BY <1>7, <4>1, <4>2 DEF UpTo
      <3>6. \A x : x \in UpTo(Q, q) <=> x \in A \/ x \in a..(q + 1) - 1
        <4>1. \A x \in A : x <= q
          BY <1>6, <3>3
        <4>2. \A x : x \in a..(q + 1) - 1 <=> x \in a..Len(u) - 1 /\ x <= q
          BY <3>3, <1>5
        <4> QED
          BY <1>8, <4>1, <4>2 DEF UpTo
      <3>7. Cardinality(UpTo(P, p)) = Cardinality(A) + ((p + 1) - b)
        <4>1. PICK k \in Nat : k = p + 1 /\ b <= k
          BY <3>1
        <4>2. UpTo(P, p) = A \cup (b..k - 1)
          BY <3>5, <4>1
        <4>3. Cardinality(A \cup (b..k - 1)) = Cardinality(A) + (k - b)
          BY <1>6, <4>1, CountBehind
        <4> QED
          BY <4>1, <4>2, <4>3
      <3>8. Cardinality(UpTo(Q, q)) = Cardinality(A) + ((q + 1) - a)
        <4>1. PICK k \in Nat : k = q + 1 /\ a <= k
          BY <3>3
        <4>2. UpTo(Q, q) = A \cup (a..k - 1)
          BY <3>6, <4>1
        <4>3. \A x \in A : x < a /\ x \in Nat
          BY <1>6
        <4>4. Cardinality(A \cup (a..k - 1)) = Cardinality(A) + (k - a)
          BY <1>6, <4>1, <4>3, CountBehind
        <4> QED
          BY <4>1, <4>2, <4>4
      <3>9. Cardinality(UpTo(Q, q)) = i
        BY <2>1, <3>3, <3>7, <3>8
      <3>10. v[i] = u[q + 1]
        BY <1>4, <1>11, <3>4, <3>9
      <3>11. u[q + 1] = t[p + 1]
        <4>1. q + 1 \in 1..Len(u) /\ ~(q + 1 <= a)
          BY <1>5, <3>3
        <4> QED
          BY <1>0, <3>3, <4>1
      <3> QED
        BY <2>2, <3>10, <3>11
    <2> QED
      BY <2>3, <2>4
  <1> QED
    BY <1>2, <1>3, <1>4, <1>11, <1>12, SeqEqual


\* There is a tab in s.
HasTab(s) == \E i \in 1..Len(s) : s[i] = Tab

\* What is known of the text want that the columnar removal is to leave: without
\* a tab there or on the lines that are done, it is t without what has still to
\* be taken.
Foreseen(t, top, p, from, to, want) ==
    \/ HasTab(want)
    \/ TabBehind(t, p)
    \/ Without(t, Selected(t, top, p, from, to)) = want

\* To take what is before a from u leaves the same as to take all from t.
SameRest(u, t, out, a) == Without(u, Before(out, a)) = Without(t, out)

\* Without tabs in the way, a line's part of what has to be taken is cut out.
LEMMA PartIsTaken ==
    ASSUME NEW t \in Seq(Chars), NEW u \in Seq(Chars), NEW top \in Nat,
           NEW p \in Nat, top <= p, NEW from \in Nat, NEW to \in Nat,
           NEW a \in Nat, NEW b \in Nat, CutFromLine(u, t, p, a, b),
           TakesOnly(t, from, to, a, b), TakesAll(t, p, from, to, a, b),
           NEW out, out = Selected(t, top, p, from, to)
    PROVE  SameRest(u, t, out, a)
  <1>1. out = Selected(t, top, p, from, to)
    OBVIOUS
  <1>2. /\ p \in 0..Len(t) /\ a \in p..Len(t) /\ b \in a..Len(t)
        /\ SameLine(t, p, b) /\ Len(u) = Len(t) - (b - a)
        /\ \A i \in 1..Len(u) : u[i] = IF i <= a THEN t[i] ELSE t[i + (b - a)]
    BY Zenon DEF CutFromLine
  <1>3. ASSUME NEW x \in a..b - 1
        PROVE  x \in out
    <2>1. x \in top..Len(t) - 1 /\ x + 1 \in p + 1..b
      BY <1>2
    <2>2. t[x + 1] # NL /\ SameLine(t, p, x + 1)
      BY <1>2, <2>1 DEF SameLine
    <2>3. from <= Colno(t, x) /\ Colno(t, x) < to
      BY DEF TakesOnly
    <2> QED
      BY <1>1, <2>1, <2>2, <2>3 DEF Selected
  <1>4. ASSUME NEW x \in out, ~(x < p)
        PROVE  x \in a..b - 1
    <2>1. /\ x \in top..Len(t) - 1 /\ SameLine(t, p, x + 1)
          /\ from <= Colno(t, x) /\ Colno(t, x) < to
      BY <1>1 DEF Selected
    <2>2. x \in p..Len(t) - 1
      BY <1>2, <1>4, <2>1
    <2> QED
      BY <2>1, <2>2 DEF TakesAll
  <1>5. \A x \in out : x \in Nat /\ x >= top
    BY <1>1 DEF Selected
  <1>6. \A x \in out : x < b
    <2> TAKE x \in out
    <2>1. CASE x < p
      BY <1>2, <1>5, <2>1
    <2>2. CASE ~(x < p)
      BY <1>2, <1>4, <2>2
    <2> QED
      BY <2>1, <2>2
  <1>7. PICK rest : rest = Before(out, a)
    OBVIOUS
  <1>r. \A x : x \in rest <=> x \in out /\ x < a
    BY <1>7 DEF Before
  <1>8. Without(u, rest) = Without(t, out)
    <2>1. Covers(out, a, b) /\ \A x \in out : x \in Nat /\ x < b
      BY <1>3, <1>5, <1>6 DEF Covers
    <2> QED
      BY <1>r, <2>1, WithoutLater
  <1> QED
    BY <1>7, <1>8 DEF SameRest

\* One line of the removal.  Of a tab that straddles the left edge of the columns
\* sbuf_strat takes no notice, so it is in want; one that straddles the right
\* edge stays in the text.
LEMMA LineIsRemoved ==
    ASSUME NEW t \in Seq(Chars), NEW u \in Seq(Chars), NEW top \in Nat,
           NEW p \in Nat, LineStart(t, top), LineStart(t, p), top <= p,
           NEW from \in Nat, NEW to \in Nat, NEW want,
           Foreseen(t, top, p, from, to, want),
           NEW a, a = Colpos(t, p, from), NEW b, b = Colpos(t, p, to), a <= b,
           CutFromLine(u, t, p, a, b),
           NEW above, above = LineAbove(u, p)
    PROVE  /\ above >= top => /\ LineStart(u, top) /\ LineStart(u, above)
                              /\ Foreseen(u, top, above, from, to, want)
           /\ ~(above >= top) => HasTab(want) \/ HasTab(u) \/ u = want
  <1>1. p \in 0..Len(t) /\ Len(t) \in Nat /\ Len(u) \in Nat
    BY DEF LineStart
  <1>2. /\ a \in p..Len(t) /\ b \in a..Len(t) /\ SameLine(t, p, b)
        /\ \A x \in a..b - 1 : Colno(t, x) < to
        /\ \/ \A x \in a..b - 1 : from <= Colno(t, x)
           \/ a < Len(t) /\ t[a + 1] = Tab /\ Colno(t, a) < from
        /\ \/ \A x \in p..Len(t) - 1 :
                (SameLine(t, p, x + 1) /\ from <= Colno(t, x)
                                       /\ Colno(t, x) < to)
                    => x \in a..b - 1
           \/ b < Len(t) /\ t[b + 1] = Tab
    BY <1>1, PartOfLine
  <1>3. a \in Nat /\ b \in Nat
    BY <1>1, <1>2
  <1>4. /\ p = 0 => above = -1
        /\ p # 0 => above = Boln(u, p - 1)
    BY DEF LineAbove
  <1>5. ASSUME p # 0
        PROVE  /\ above \in 0..p - 1 /\ LineStart(u, above)
               /\ top < p => top <= above /\ LineStart(u, top)
    BY <1>3, <1>4, <1>5, LineAboveStays, TopIsLast
  <1>6. ASSUME above >= top
        PROVE  p # 0 /\ LineStart(u, above) /\ LineStart(u, top)
    <2>1. p # 0
      BY <1>4, <1>6
    <2>2. top < p
      BY <1>5, <1>6, <2>1
    <2> QED
      BY <1>5, <2>1, <2>2
  <1>7. CASE HasTab(want)
    BY <1>6, <1>7 DEF Foreseen
  <1>8. CASE TabBehind(t, p) \/ (b < Len(t) /\ t[b + 1] = Tab)
    <2>1. HasTab(u) /\ (p # 0 => TabBehind(u, above))
      BY <1>3, <1>4, <1>8, TabStays DEF HasTab
    <2> QED
      BY <1>6, <2>1 DEF Foreseen
  <1>9. CASE /\ Without(t, Selected(t, top, p, from, to)) = want
             /\ ~(b < Len(t) /\ t[b + 1] = Tab)
    <2>1. PICK out : out = Selected(t, top, p, from, to)
      OBVIOUS
    <2>2. CASE a < Len(t) /\ t[a + 1] = Tab /\ Colno(t, a) < from
      <3>1. a \in 0..Len(t) - 1
        BY <1>3, <2>2
      <3>2. a \notin out
        <4>1. Colno(t, a) \in Nat
          BY <3>1, ColnoIsNat
        <4> QED
          BY <2>1, <2>2, <4>1 DEF Selected
      <3>3. HasTab(want)
        BY <1>9, <2>1, <2>2, <3>1, <3>2, KeptStays DEF HasTab
      <3> QED
        BY <1>6, <3>3 DEF Foreseen
    <2>3. CASE ~(a < Len(t) /\ t[a + 1] = Tab /\ Colno(t, a) < from)
      <3>1. TakesOnly(t, from, to, a, b) /\ TakesAll(t, p, from, to, a, b)
        BY <1>2, <1>9, <2>3 DEF TakesOnly, TakesAll
      <3>2. PICK rest : rest = Before(out, a)
        OBVIOUS
      <3>3. Without(u, rest) = want
        <4>1. SameRest(u, t, out, a)
          BY <1>3, <2>1, <3>1, PartIsTaken
        <4> QED
          BY <1>9, <2>1, <3>2, <4>1 DEF SameRest
      <3>4. ASSUME above >= top
            PROVE  Foreseen(u, top, above, from, to, want)
        <4>1. p # 0 /\ above = Boln(u, p - 1)
          BY <1>4, <1>6, <3>4
        <4>2. Selected(u, top, above, from, to) = rest
          BY <1>3, <2>1, <3>1, <3>2, <4>1, SelectedAbove
        <4> QED
          BY <3>3, <4>2 DEF Foreseen
      <3>5. ASSUME ~(above >= top)
            PROVE  u = want
        <4>1. top = p
          <5>1. CASE p = 0
            BY <5>1
          <5>2. CASE p # 0
            <6>1. above \in Nat /\ (top < p => top <= above)
              BY <1>5, <5>2
            <6> QED
              BY <3>5, <6>1
          <5> QED
            BY <5>1, <5>2
        <4>2. rest = {}
          <5>1. ASSUME NEW x \in out
                PROVE  ~(x < a)
            <6>1. /\ x \in p..Len(t) - 1 /\ SameLine(t, p, x + 1)
                  /\ from <= Colno(t, x) /\ Colno(t, x) < to
              BY <2>1, <4>1 DEF Selected
            <6>2. x \in a..b - 1
              BY <3>1, <6>1 DEF TakesAll
            <6> QED
              BY <1>3, <6>2
          <5> QED
            BY <3>2, <5>1 DEF Before
        <4> QED
          BY <3>3, <4>2, WithoutNothing
      <3> QED
        BY <1>6, <3>4, <3>5
    <2> QED
      BY <2>2, <2>3
  <1> QED
    BY <1>7, <1>8, <1>9 DEF Foreseen

-----------------------------------------------------------------------------
\* While a columnar removal is in progress, the rest of it is foreseen.
RemovalHolds ==
    job.op = "remove" =>
        /\ LineStart(text, job.top) /\ LineStart(text, job.p)
        /\ job.top <= job.p
        /\ Foreseen(text, job.top, job.p, job.from, job.to, job.want)

\* When no removal is in progress after a step there is nothing to foresee.
LEMMA NothingRemoved ==
    ASSUME job' = Idle \/ job'.op # "remove"
    PROVE  RemovalHolds'
  BY DEF RemovalHolds, Idle

\* A removal begins with all of the mark before it.
LEMMA RemovalBegins ==
    ASSUME IInv, job = Idle, NEW h \in Handles, slotOf[h] # 0, NEW new,
           Change(h, new)
    PROVE  RemovalHolds'
  <1>1. BufferOK /\ text \in Seq(Chars)
    BY DEF IInv, BufferOK
  <1>2. PICK m : m = MarkOf(h)
    OBVIOUS
  <1>3. m.begin \in Nat /\ m.len \in Nat /\ m.begin + m.len <= Len(text)
    BY <1>1, <1>2, HeldMark
  <1>4. CASE m.columnar
    <2>1. StartColumns(h, new) /\ text' = text
      BY <1>2, <1>4 DEF Change, StartColumns
    <2>2. PICK b \in 0..Len(text), e \in 0..Len(text) :
                b <= e /\ b = m.begin /\ e = EndOf(m) /\ m.len = e - b
      BY <1>1, <1>3 DEF EndOf
    <2>3. PICK from, to, top, p :
                /\ from = Colno(text, b) /\ to = Colno(text, e)
                /\ top = Boln(text, b) /\ p = Boln(text, e)
      OBVIOUS
    <2>4. PICK out : out = {q \in InColumns(text, b, e - b) : text[q + 1] # NL}
      OBVIOUS
    <2>5. PICK want : want = Without(text, out)
      OBVIOUS
    <2>6. job' = IF from > to THEN Idle
                 ELSE [op |-> "remove", h |-> h, new |-> new, p |-> p,
                       top |-> top, from |-> from, to |-> to, want |-> want]
      BY <1>2, <2>1, <2>2, <2>3, <2>4, <2>5 DEF StartColumns
    <2>7. out = Selected(text, top, p, from, to)
      <3>1. e \in b..Len(text)
        BY <2>2
      <3> QED
        BY <1>1, <2>3, <2>4, <3>1, SelectedAtFirst
    <2>8. Foreseen(text, top, p, from, to, want)
      BY <2>5, <2>7 DEF Foreseen
    <2>9. LineStart(text, top) /\ LineStart(text, p)
      BY <1>1, <2>3, BolnIsStart
    <2>10. top <= p
      <3>1. /\ top \in 0..b /\ p \in 0..e
            /\ \A q \in p + 1..e : text[q] # NL
        BY <2>3, BolnStops
      <3>2. top = 0 \/ text[top] = NL
        BY <2>9 DEF LineStart
      <3> QED
        BY <2>2, <3>1, <3>2
    <2>11. CASE from > to
      BY <2>6, <2>11, NothingRemoved
    <2>12. CASE ~(from > to)
      <3>1. /\ job'.top = top /\ job'.p = p /\ job'.from = from
            /\ job'.to = to /\ job'.want = want
        BY <2>6, <2>12
      <3> QED
        BY <2>1, <2>8, <2>9, <2>10, <3>1 DEF RemovalHolds
    <2> QED
      BY <2>11, <2>12
  <1>5. CASE ~m.columnar
    <2>1. job' = Idle
      BY <1>2, <1>5 DEF Change
    <2> QED
      BY <2>1, NothingRemoved
  <1> QED
    BY <1>4, <1>5

\* The part of a line between two columns is on that line.
LEMMA PartIsOnLine ==
    ASSUME NEW t \in Seq(Chars), NEW p \in 0..Len(t), LineStart(t, p),
           NEW from \in Nat, NEW to \in Nat,
           NEW a, a = Colpos(t, p, from), NEW b, b = Colpos(t, p, to), a <= b
    PROVE  a \in p..Len(t) /\ b \in a..Len(t) /\ SameLine(t, p, b)
  BY PartOfLine

\* The part of a line that is cut out.
LEMMA PartIsCut ==
    ASSUME IInv, RemoveLine, NEW p \in Nat, p = job.p, LineStart(text, p),
           NEW from \in Nat, from = job.from, NEW to \in Nat, to = job.to,
           NEW a, a = Colpos(text, p, from), NEW b, b = Colpos(text, p, to)
    PROVE  /\ a <= b /\ a = PartBegin /\ b = PartEnd
           /\ p \in 0..Len(text) /\ a \in p..Len(text) /\ b \in a..Len(text)
           /\ text' \in Seq(Chars) /\ CutFromLine(text', text, p, a, b)
  <1>1. BufferOK /\ text \in Seq(Chars) /\ job.op = "remove"
    BY DEF IInv, BufferOK, RemoveLine
  <1>2. LineStart(text, p)
    OBVIOUS
  <1>3. a <= b /\ a = PartBegin /\ b = PartEnd
    BY DEF RemoveLine, PartBegin, PartEnd
  <1>4. /\ p \in 0..Len(text) /\ a \in p..Len(text) /\ b \in a..Len(text)
        /\ SameLine(text, p, b)
    <2>1. p \in 0..Len(text)
      BY <1>2 DEF LineStart
    <2> QED
      BY <1>1, <1>2, <1>3, <2>1, PartIsOnLine
  <1>5. PICK u : u = text'
    OBVIOUS
  <1>6. u \in Seq(Chars) /\ CutFromLine(u, text, p, a, b)
    <2>1. PICK len \in Nat, pos \in Nat : len = b - a /\ pos = a
      BY <1>4
    <2>2. u = Splice(text, pos, len, <<>>)
      BY <1>3, <1>5, <2>1 DEF RemoveLine, Edit
    <2>3. pos + len <= Len(text) /\ <<>> \in Seq(Chars)
      BY <1>4, <2>1
    <2>4. u \in Seq(Chars) /\ Spliced(u, text, pos, len, <<>>)
      BY <1>1, <2>2, <2>3, SpliceIsSpliced
    <2>5. Len(<<>>) = 0 /\ Len(text) \in Nat
      BY <1>1
    <2>6. Len(u) = Len(text) - (b - a)
      BY <1>4, <2>1, <2>4, <2>5 DEF Spliced
    <2>7. ASSUME NEW i \in 1..Len(u)
          PROVE  u[i] = IF i <= a THEN text[i] ELSE text[i + (b - a)]
      <3>1. u[i] = IF i <= pos THEN text[i]
                   ELSE IF i <= pos + 0 THEN <<>>[i - pos]
                   ELSE text[i - 0 + len]
        BY <2>4, <2>5 DEF Spliced
      <3>2. i - 0 + len = i + (b - a) /\ pos + 0 = a /\ i \in Nat
        BY <2>1, <2>6
      <3> QED
        BY <2>1, <3>1, <3>2
    <2> QED
      BY <1>2, <1>4, <2>4, <2>6, <2>7 DEF CutFromLine
  <1> QED
    BY <1>3, <1>4, <1>5, <1>6

\* A line is removed from the columns.
LEMMA RemoveLineRemoves ==
    ASSUME IInv, RemovalHolds, RemoveLine
    PROVE  /\ RemovalHolds'
           /\ job'.op = "insert"
                => HasTab(job.want) \/ HasTab(text') \/ text' = job.want
  <1>1. BufferOK /\ text \in Seq(Chars) /\ CallOK /\ job.op = "remove"
    BY DEF IInv, BufferOK, RemoveLine
  <1>2. job \in [op : {"remove"}, h : Handles, new : Seq(Chars), p : Nat,
                 top : Nat, from : Nat, to : Nat, want : Seq(Chars)]
    BY <1>1, JobKinds
  <1>3. PICK p \in Nat, top \in Nat, from \in Nat, to \in Nat :
            /\ p = job.p /\ top = job.top /\ from = job.from
            /\ to = job.to
    BY <1>2
  <1>4. PICK want : want = job.want
    OBVIOUS
  <1>5. /\ LineStart(text, top) /\ LineStart(text, p) /\ top <= p
        /\ Foreseen(text, top, p, from, to, want)
    BY <1>1, <1>3, <1>4 DEF RemovalHolds
  <1>6. PICK a, b : a = Colpos(text, p, from) /\ b = Colpos(text, p, to)
    OBVIOUS
  <1>7. PICK u : u = text'
    OBVIOUS
  <1>8. a <= b /\ u \in Seq(Chars) /\ CutFromLine(u, text, p, a, b)
    BY <1>3, <1>5, <1>6, <1>7, PartIsCut
  <1>9. PICK above : above = LineAbove(u, p)
    OBVIOUS
  <1>10. /\ above >= top => /\ LineStart(u, top) /\ LineStart(u, above)
                            /\ Foreseen(u, top, above, from, to, want)
         /\ ~(above >= top) => HasTab(want) \/ HasTab(u) \/ u = want
    BY <1>1, <1>3, <1>5, <1>6, <1>8, <1>9, LineIsRemoved
  <1>11. CASE above >= top
    <2>1. job' = [job EXCEPT !.p = above]
      BY <1>3, <1>7, <1>9, <1>11 DEF RemoveLine
    <2>2. /\ job'.op = "remove" /\ job'.p = above /\ job'.top = top
          /\ job'.from = from /\ job'.to = to /\ job'.want = want
      BY <1>2, <1>3, <1>4, <2>1
    <2> QED
      BY <1>7, <1>10, <1>11, <2>2 DEF RemovalHolds
  <1>12. CASE ~(above >= top)
    <2>1. job'.op = "insert"
      BY <1>3, <1>7, <1>9, <1>12 DEF RemoveLine, InsertJob
    <2> QED
      BY <1>3, <1>4, <1>7, <1>10, <1>12, <2>1, NothingRemoved
  <1> QED
    BY <1>11, <1>12

\* The other calls remove nothing in columns.
LEMMA ClientCallRemoves ==
    ASSUME IInv, RemovalHolds, ClientCall
    PROVE  job = Idle /\ RemovalHolds'
  <1>1. job = Idle
    BY DEF ClientCall, SbufMark, SbufRemark, SbufUnmark, SetMark, SbufStrchange,
           SbufChange, SbufInsertFile, SbufSearch, SbufMarkNoMemory, SbufLoad,
           SbufLoadNoMemory, SbufLoadNoName, SbufSetDirty, SbufLock, SbufUnlock,
           ClientWrite, SbufLineno, Ready
  <1>2. ASSUME NEW h \in Handles, SbufInsertFile(h)
        PROVE  RemovalHolds'
    BY <1>2, NothingRemoved DEF SbufInsertFile, ReadJob
  <1>3. ASSUME NEW opened, SbufLoad(opened)
        PROVE  RemovalHolds'
    <2>1. job' = Idle \/ job'.op = "read"
      BY <1>3 DEF SbufLoad, ReadJob
    <2> QED
      BY <2>1, NothingRemoved
  <1>4. CASE job' = job
    BY <1>1, <1>4, NothingRemoved
  <1>5. \/ job' = job
        \/ \E h \in Handles :
              \/ SbufInsertFile(h)
              \/ slotOf[h] # 0 /\ \E new : Change(h, new)
        \/ \E opened \in Loads \cap {"yes", "none", "error"} : SbufLoad(opened)
    BY DEF ClientCall, SbufMark, SbufRemark, SbufUnmark, SetMark, SbufStrchange,
           SbufChange, SbufSearch, SbufMarkNoMemory, SbufLoadNoMemory,
           SbufLoadNoName, SbufSetDirty, SbufLock, SbufUnlock, ClientWrite,
           SbufLineno, Ready
  <1> QED
    BY <1>1, <1>2, <1>3, <1>4, <1>5, RemovalBegins

\* The steps of a call in progress go on with the removal, or end it.
LEMMA CallStepRemoves ==
    ASSUME IInv, RemovalHolds, CallStep
    PROVE  /\ RemovalHolds'
           /\ job.op = "remove" /\ job'.op = "insert"
                => HasTab(job.want) \/ HasTab(text') \/ text' = job.want
  <1>1. CASE RemoveLine
    BY <1>1, RemoveLineRemoves
  <1>2. CASE InsertLine
    <2>1. job.op = "insert" /\ CallOK
      BY <1>2 DEF InsertLine, IInv
    <2>2. job \in [op : {"insert"}, h : Handles, rest : Seq(Chars), pos : Nat,
                   begin : Nat, end : Nat, col : Nat, w : Nat]
      BY <2>1, JobKinds
    <2>3. \E rest, end, pos :
            job' = [job EXCEPT !.rest = rest, !.end = end, !.pos = pos]
      BY <1>2 DEF InsertLine
    <2>4. job'.op = "insert"
      BY <2>2, <2>3
    <2> QED
      BY <2>1, <2>4, NothingRemoved
  <1>3. ASSUME NEW s \in Chunks, ReadChunk(s)
        PROVE  RemovalHolds' /\ job.op # "remove"
    <2>1. job.op = "read" /\ CallOK
      BY <1>3 DEF ReadChunk, IInv
    <2>2. job \in [op : {"read"}, h : Handles, begin : Nat, got : Seq(Chars),
                   load : BOOLEAN]
      BY <2>1, JobKinds
    <2>3. job' = [job EXCEPT !.got = job.got \o s]
      BY <1>3 DEF ReadChunk
    <2>4. job'.op = "read"
      BY <2>2, <2>3
    <2> QED
      BY <2>1, <2>4, NothingRemoved
  <1>4. CASE InsertLineAborts \/ InsertEnd \/ ColumnsNoMemory \/ ReadEnd \/ ReadError
    <2>1. job' = Idle \/ job' = Aborted
      BY <1>4 DEF InsertLineAborts, InsertEnd, ColumnsNoMemory, ReadEnd, ReadError
    <2>2. job'.op # "remove" /\ job'.op # "insert"
      BY <2>1 DEF Idle, Aborted
    <2> QED
      BY <2>2, NothingRemoved
  <1> QED
    BY <1>1, <1>2, <1>3, <1>4 DEF CallStep

\* A tab is among the characters of a text.
LEMMA TabInRange ==
    ASSUME NEW s, s \in Seq(Chars), HasTab(s)
    PROVE  Tab \in Range(s)
  BY DEF HasTab, Range

\* Between any two steps the rest of a removal is foreseen.
LEMMA RemovalGoesOn == Spec => []RemovalHolds
  <1>1. Init => RemovalHolds
    BY DEF Init, RemovalHolds, Idle
  <1>2. IInv /\ RemovalHolds /\ [Next]_vars => RemovalHolds'
    <2>1. ASSUME IInv, RemovalHolds, UNCHANGED vars
          PROVE  RemovalHolds'
      <3>1. UNCHANGED <<text, job>>
        BY <2>1 DEF vars
      <3> QED
        BY <2>1, <3>1 DEF RemovalHolds
    <2> QED
      BY <2>1, ClientCallRemoves, CallStepRemoves DEF Next, Dead
  <1> QED
    BY Invariant, <1>1, <1>2, PTL DEF Spec

\* remove_columnar_mark: over all lines of the mark, from the last one up, the
\* removal takes the characters that sbuf_strat copies and no others, although the
\* columns of each line are found by counting in a text already changed below it;
\* only where there are tabs may it differ.
THEOREM RemovalTakesWhatIsCopied == Spec => RemovesTheSelectedBitOfLetters
  <1>1. IInv /\ IInv' /\ RemovalHolds /\ [Next]_vars =>
            [(/\ job.op = "remove" /\ job'.op = "insert"
              /\ Tab \notin Range(job.want) \cup Range(text'))
                => text' = job.want]_vars
    <2>1. ASSUME IInv, RemovalHolds, ClientCall PROVE job.op # "remove"
      BY <2>1, ClientCallRemoves DEF Idle
    <2>2. ASSUME job = Aborted PROVE job.op # "remove"
      BY <2>2 DEF Aborted
    <2>3. ASSUME IInv, IInv', RemovalHolds, CallStep,
                 job.op = "remove", job'.op = "insert",
                 Tab \notin Range(job.want) \cup Range(text')
          PROVE  text' = job.want
      <3>1. text' \in Seq(Chars)
        BY <2>3 DEF IInv, BufferOK
      <3>2. job.want \in Seq(Chars)
        <4>1. CallOK
          BY <2>3 DEF IInv
        <4> QED
          BY <2>3, <4>1, JobKinds
      <3>3. PICK s, w : s = text' /\ w = job.want
        OBVIOUS
      <3>4. ~HasTab(s) /\ ~HasTab(w)
        BY <2>3, <3>1, <3>2, <3>3, TabInRange
      <3> QED
        BY <2>3, <3>3, <3>4, CallStepRemoves
    <2> QED
      BY <2>1, <2>2, <2>3 DEF Next, Dead
  <1> QED
    BY Invariant, RemovalGoesOn, <1>1, PTL
       DEF Spec, RemovesTheSelectedBitOfLetters

-----------------------------------------------------------------------------
\* The editing buffer implements SbufSpec.

\* The operators that SbufSpec takes from SbufText are those of Sbuf.
LEMMA SameOperators ==
    /\ \A t, pos, len, new : Abstract!Splice(t, pos, len, new) = Splice(t, pos, len, new)
    /\ \A t, pos : Abstract!LineOf(t, pos) = LineOf(t, pos)
    /\ Abstract!NoAnswer = NoAnswer
  <1>1. \A S : Abstract!Cardinality(S) = Cardinality(S)
    BY DEF Abstract!Cardinality, Cardinality, Abstract!IsFiniteSet, IsFiniteSet
  <1> QED
    BY <1>1 DEF Abstract!Splice, Splice, Abstract!LineOf, LineOf,
       Abstract!Newlines, Newlines, Abstract!NoAnswer, NoAnswer

-----------------------------------------------------------------------------
\* One mark and one edit.

\* The mark at b of length l has become the mark at c of length k where an edit
\* of (begin, len) into n characters came before it, around it or after it; it
\* keeps its text unless changed.
Moved(b, l, c, k, changed, begin, len, n) ==
    \/ /\ b < begin /\ b + l > begin /\ changed
       /\ c = b /\ k = IF b + l <= begin + len THEN n + begin - b ELSE l - len + n
    \/ /\ b >= begin /\ b <= begin + len /\ changed
       /\ c = begin /\ k = IF b + l > begin + len THEN n + (b + l - (begin + len)) ELSE n
    \/ /\ b > begin + len /\ ~changed
       /\ c = b + n - len /\ k = l
    \/ /\ b < begin /\ b + l <= begin /\ ~changed
       /\ c = b /\ k = l

\* adjust_marks moves a mark so.
LEMMA AdjustMarkMoves ==
    ASSUME NEW m \in Mark, NEW begin \in Nat, NEW len \in Nat, NEW n \in Nat,
           NEW a \in Mark, a = AdjustMark(m, begin, len, n)
    PROVE  \E changed \in BOOLEAN :
              /\ Moved(m.begin, m.len, a.begin, a.len, changed, begin, len, n)
              /\ a.dirty = (m.dirty \/ changed)
  <1>1. PICK b \in Nat, l \in Nat : b = m.begin /\ l = m.len
    BY DEF Mark
  <1>2. PICK d \in BOOLEAN : d = m.dirty
    BY DEF Mark
  <1>3. CASE b < begin /\ b + l > begin
    <2>1. PICK k : k = IF b + l <= begin + len THEN n + begin - b ELSE l - len + n
      OBVIOUS
    <2>2. a = [m EXCEPT !.len = k, !.dirty = TRUE]
      BY <1>1, <1>3, <2>1 DEF AdjustMark, EndOf
    <2>3. a.begin = b /\ a.len = k /\ a.dirty = TRUE
      BY <1>1, <2>2 DEF Mark
    <2>4. Moved(m.begin, m.len, a.begin, a.len, TRUE, begin, len, n)
      BY <1>1, <1>3, <2>1, <2>3 DEF Moved
    <2> QED
      BY <2>3, <2>4
  <1>4. CASE b >= begin /\ b <= begin + len
    <2>1. PICK k : k = IF b + l > begin + len THEN n + (b + l - (begin + len)) ELSE n
      OBVIOUS
    <2>2. ~(m.begin < begin /\ EndOf(m) > begin) /\ m.begin >= begin
                /\ m.begin <= begin + len
      BY <1>1, <1>4
    <2>3. k = IF EndOf(m) > begin + len THEN n + (EndOf(m) - (begin + len)) ELSE n
      BY <1>1, <2>1 DEF EndOf
    <2>4. a = [m EXCEPT !.begin = begin, !.len = k, !.dirty = TRUE]
      BY <2>2, <2>3, Zenon DEF AdjustMark
    <2>5. a.begin = begin /\ a.len = k /\ a.dirty = TRUE
      BY <2>4 DEF Mark
    <2>6. Moved(m.begin, m.len, a.begin, a.len, TRUE, begin, len, n)
      BY <1>1, <1>4, <2>1, <2>5 DEF Moved
    <2> QED
      BY <2>5, <2>6
  <1>5. CASE b > begin + len
    <2>1. PICK c : c = b + n - len
      OBVIOUS
    <2>2. a = [m EXCEPT !.begin = c]
      BY <1>1, <1>5, <2>1 DEF AdjustMark, EndOf
    <2>3. a.begin = c /\ a.len = l /\ a.dirty = d
      BY <1>1, <1>2, <2>2 DEF Mark
    <2>4. Moved(m.begin, m.len, a.begin, a.len, FALSE, begin, len, n)
      BY <1>1, <1>5, <2>1, <2>3 DEF Moved
    <2> QED
      BY <1>2, <2>3, <2>4
  <1>6. CASE b < begin /\ b + l <= begin
    <2>1. a = m
      BY <1>1, <1>6 DEF AdjustMark, EndOf
    <2>2. Moved(m.begin, m.len, a.begin, a.len, FALSE, begin, len, n)
      BY <1>1, <1>6, <2>1 DEF Moved
    <2>3. a.dirty = (m.dirty \/ FALSE)
      BY <1>2, <2>1
    <2> QED
      BY <2>2, <2>3
  <1> QED
    BY <1>1, <1>3, <1>4, <1>5, <1>6

\* The characters (b, l) of t are those at c of u, with an edit of (begin, len)
\* into n characters after them or before them.
Apart(b, l, c, begin, len, n, t, u) ==
    /\ b + l <= Len(t) /\ c + l <= Len(u)
    /\ \/ b + l <= begin /\ c = b
       \/ b > begin + len /\ c = b + n - len

\* A mark that is moved with its text keeps its text.
LEMMA MovedText ==
    ASSUME NEW t \in Seq(Chars), NEW u \in Seq(Chars), NEW new \in Seq(Chars),
           NEW begin \in Nat, NEW len \in Nat, begin + len <= Len(t),
           Spliced(u, t, begin, len, new),
           NEW b \in Nat, NEW l \in Nat, NEW c \in Nat, NEW n \in Nat,
           n = Len(new), Apart(b, l, c, begin, len, n, t, u)
    PROVE  SubSeq(u, c + 1, c + l) = SubSeq(t, b + 1, b + l)
  <1>1. /\ b + l <= Len(t) /\ c + l <= Len(u)
        /\ \/ b + l <= begin /\ c = b
           \/ b > begin + len /\ c = b + n - len
    BY DEF Apart
  <1>2. PICK x, y : x = SubSeq(u, c + 1, c + l) /\ y = SubSeq(t, b + 1, b + l)
    OBVIOUS
  <1>3. /\ x \in Seq(Chars) /\ Len(x) = l /\ y \in Seq(Chars) /\ Len(y) = l
        /\ \A i \in 1..l : x[i] = u[c + i] /\ y[i] = t[b + i]
    <2>1. c \in 0..Len(u) /\ c + l \in c..Len(u) /\ b \in 0..Len(t) /\ b + l \in b..Len(t)
      BY <1>1
    <2>2. x \in Seq(Chars) /\ IsSlice(x, u, c, c + l)
      BY <1>2, <2>1, Slice
    <2>3. y \in Seq(Chars) /\ IsSlice(y, t, b, b + l)
      BY <1>2, <2>1, Slice
    <2> QED
      BY <2>2, <2>3 DEF IsSlice
  <1>4. ASSUME NEW i \in 1..l
        PROVE  u[c + i] = t[b + i]
    <2>1. PICK j \in 1..Len(u) : j = c + i
      BY <1>1
    <2>2. u[j] = IF j <= begin THEN t[j]
                 ELSE IF j <= begin + n THEN new[j - begin] ELSE t[j - n + len]
      BY DEF Spliced
    <2>3. CASE b + l <= begin /\ c = b
      BY <2>1, <2>2, <2>3
    <2>4. CASE b > begin + len /\ c = b + n - len
      <3>1. ~(j <= begin) /\ ~(j <= begin + n) /\ j - n + len = b + i
        BY <1>1, <2>1, <2>4
      <3>2. u[j] = t[j - n + len]
        BY <2>2, <3>1
      <3> QED
        BY <2>1, <3>1, <3>2
    <2> QED
      BY <1>1, <2>3, <2>4
  <1>5. x = y
    <2>1. Len(x) = Len(y) /\ \A i \in 1..Len(x) : x[i] = y[i]
      BY <1>3, <1>4
    <2> QED
      BY <1>3, <2>1, SeqEqual
  <1> QED
    BY <1>2, <1>5


\* What survived the edit of a text of length end is inside the mark exactly if
\* it was; what the edit put there is inside exactly if the mark was touched; and
\* a mark that was not touched has the same characters as before.
StillInside(b, l, c, k, touched, begin, len, n, end) ==
    /\ c + k <= end + n - len
    /\ touched <=> b <= begin + len /\ (b >= begin \/ b + l > begin)
    /\ \A p \in 0..begin - 1 : c <= p /\ p < c + k <=> b <= p /\ p < b + l
    /\ \A p \in begin..begin + n - 1 : c <= p /\ p < c + k <=> touched
    /\ \A p \in begin + len..end - 1 :
            c <= p + n - len /\ p + n - len < c + k <=> b <= p /\ p < b + l
    /\ b < begin => c = b
    /\ b >= begin => c = IF touched THEN begin ELSE b + n - len
    /\ ~touched => /\ k = l
                   /\ \/ b + l <= begin /\ c = b
                      \/ b > begin + len /\ c = b + n - len

\* What adjust_marks makes of a mark follows the edit.
LEMMA AdjustedFollows ==
    ASSUME NEW t \in Seq(Chars), NEW u \in Seq(Chars), NEW new \in Seq(Chars),
           NEW begin \in Nat, NEW len \in Nat, begin + len <= Len(t),
           Spliced(u, t, begin, len, new), NEW n \in Nat, n = Len(new),
           NEW m \in Mark, m.begin + m.len <= Len(t),
           NEW a \in Mark, a = AdjustMark(m, begin, len, n)
    PROVE  Abstract!Follows(t, u, begin, len, n, Shown(m), Shown(a))
  <1>1. PICK b \in Nat, l \in Nat : b = m.begin /\ l = m.len
    BY DEF Mark
  <1>2. PICK c \in Nat, k \in Nat : c = a.begin /\ k = a.len
    BY DEF Mark
  <1>3. PICK d \in BOOLEAN, e \in BOOLEAN : d = m.dirty /\ e = a.dirty
    BY DEF Mark
  <1>4. PICK v, w : v = Shown(m) /\ w = Shown(a)
    OBVIOUS
  <1>5. /\ v = [begin |-> b, len |-> l, dirty |-> d]
        /\ w = [begin |-> c, len |-> k, dirty |-> e]
    BY <1>1, <1>2, <1>3, <1>4 DEF Shown
  <1>6. PICK changed \in BOOLEAN :
            Moved(b, l, c, k, changed, begin, len, n) /\ (e <=> (d \/ changed))
    <2>1. \E changed \in BOOLEAN :
              /\ Moved(m.begin, m.len, a.begin, a.len, changed, begin, len, n)
              /\ a.dirty = (m.dirty \/ changed)
      BY AdjustMarkMoves
    <2> QED
      BY <1>1, <1>2, <1>3, <2>1
  <1>7. PICK end \in Nat : end = Len(t) /\ begin + len <= end /\ b + l <= end
    BY <1>1
  <1>8. StillInside(b, l, c, k, changed, begin, len, n, end)
    <2>1. CASE b < begin /\ b + l > begin
      BY <1>6, <1>7, <2>1 DEF Moved, StillInside
    <2>2. CASE b >= begin /\ b <= begin + len
      BY <1>6, <1>7, <2>2 DEF Moved, StillInside
    <2>3. CASE b > begin + len
      BY <1>6, <1>7, <2>3 DEF Moved, StillInside
    <2>4. CASE b < begin /\ b + l <= begin
      BY <1>6, <1>7, <2>4 DEF Moved, StillInside
    <2> QED
      BY <2>1, <2>2, <2>3, <2>4
  <1>9. Len(u) = end - len + n /\ c + k <= Len(u)
    BY <1>7, <1>8 DEF Spliced, StillInside
  <1>10. Abstract!InText(w, u)
    BY <1>5, <1>9 DEF Abstract!InText, Abstract!Placed
  <1>11. ~changed => SubSeq(u, c + 1, c + k) = SubSeq(t, b + 1, b + l)
    <2>1. ASSUME ~changed
          PROVE  SubSeq(u, c + 1, c + k) = SubSeq(t, b + 1, b + l)
      <3>1. k = l /\ (\/ b + l <= begin /\ c = b
                      \/ b > begin + len /\ c = b + n - len)
        BY <1>8, <2>1 DEF StillInside
      <3>2. Apart(b, l, c, begin, len, n, t, u)
        BY <1>7, <1>9, <3>1 DEF Apart
      <3>3. SubSeq(u, c + 1, c + l) = SubSeq(t, b + 1, b + l)
        BY <3>2, MovedText
      <3> QED
        BY <3>1, <3>3
    <2> QED
      BY <2>1
  <1>12. /\ v.begin = b /\ v.len = l /\ v.dirty = d
         /\ w.begin = c /\ w.len = k /\ w.dirty = e
    BY <1>5
  <1>13. Abstract!Touched(v, begin, len) <=> changed
    BY <1>8, <1>12 DEF Abstract!Touched, Abstract!EndOf, StillInside
  <1>14. /\ \A p \in 0..begin - 1 : Abstract!Inside(p, w) <=> Abstract!Inside(p, v)
         /\ \A p \in begin..begin + n - 1 : Abstract!Inside(p, w) <=> changed
         /\ \A p \in begin + len..end - 1 :
                Abstract!Inside(p + n - len, w) <=> Abstract!Inside(p, v)
    BY <1>8, <1>12 DEF Abstract!Inside, StillInside
  <1>15. /\ b < begin => c = b
         /\ b >= begin => c = IF changed THEN begin ELSE b + n - len
    BY <1>8 DEF StillInside
  <1>16. Abstract!EndOf(v) = b + l /\ Abstract!EndOf(w) = c + k
    BY <1>12 DEF Abstract!EndOf
  <1>17. Abstract!Follows(t, u, begin, len, n, v, w)
    BY <1>6, <1>7, <1>10, <1>11, <1>12, <1>13, <1>14, <1>15, <1>16 
       DEF Abstract!Follows
  <1> QED
    BY <1>4, <1>17

-----------------------------------------------------------------------------
\* The steps of the promise.

\* What was put into the text is found where it was put.
LEMMA NewPart ==
    ASSUME NEW t \in Seq(Chars), NEW u \in Seq(Chars), NEW new \in Seq(Chars),
           NEW pos \in Nat, NEW len \in Nat, pos + len <= Len(t),
           Spliced(u, t, pos, len, new)
    PROVE  SubSeq(u, pos + 1, pos + Len(new)) = new
  <1>n. PICK n \in Nat : n = Len(new)
    OBVIOUS
  <1>1. PICK x : x = SubSeq(u, pos + 1, pos + n)
    OBVIOUS
  <1>2. pos \in 0..Len(u) /\ pos + n \in pos..Len(u)
    BY <1>n DEF Spliced
  <1>3. x \in Seq(Chars) /\ IsSlice(x, u, pos, pos + n)
    BY <1>1, <1>2, Slice
  <1>4. Len(x) = n /\ \A i \in 1..n : x[i] = u[pos + i]
    BY <1>3 DEF IsSlice
  <1>5. ASSUME NEW i \in 1..n
        PROVE  u[pos + i] = new[i]
    <2>1. PICK j \in 1..Len(u) : j = pos + i
      BY <1>2
    <2>2. ~(j <= pos) /\ j <= pos + n /\ j - pos = i
      BY <2>1
    <2>3. u[j] = new[j - pos]
      BY <1>n, <2>2 DEF Spliced
    <2> QED
      BY <2>1, <2>2, <2>3
  <1>6. Len(x) = Len(new) /\ \A i \in 1..Len(x) : x[i] = new[i]
    BY <1>n, <1>4, <1>5
  <1>7. x = new
    BY <1>3, <1>6, SeqEqual
  <1> QED
    BY <1>n, <1>1, <1>7

\* Two handles that are held have different slots.
LEMMA SlotsDiffer ==
    ASSUME BufferOK, NEW g \in Handles, NEW h \in Handles, slotOf[g] # 0,
           slotOf[g] = slotOf[h]
    PROVE  g = h
  BY DEF BufferOK, HandlesFit

\* The marks of a client after an edit: those other than its own have followed.
Followed(t, u, pos, len, n, own) ==
    \A h \in Handles :
        /\ MarkByHandle'[h] = NoMark <=> MarkByHandle[h] = NoMark
        /\ slotOf[h] # 0 /\ slotOf[h] # own =>
            Abstract!Follows(t, u, pos, len, n, MarkByHandle[h], MarkByHandle'[h])
        /\ slotOf[h] # 0 /\ slotOf[h] = own =>
            MarkByHandle'[h] = [begin |-> pos, len |-> n, dirty |-> TRUE]

LEMMA EditFollowed ==
    ASSUME BufferOK, NEW ms, MarksSound(ms, Len(text)), SameHandles(marks, ms),
           NEW pos \in Nat, NEW len \in Nat, pos + len <= Len(text),
           NEW new \in Seq(Chars), Edit(ms, pos, len, new), slotOf' = slotOf,
           NEW own \in Nat,
           \A i \in 1..Len(marks) : i # own => ms[i] = marks[i],
           own \in 1..Len(marks) => ms[own].begin = pos /\ ms[own].len = len
    PROVE  Followed(text, text', pos, len, Len(new), own)
  <1>1. /\ text \in Seq(Chars) /\ text' \in Seq(Chars)
        /\ Spliced(text', text, pos, len, new)
    BY EditStep DEF BufferOK
  <1>2. PICK t \in Seq(Chars), u \in Seq(Chars) : t = text /\ u = text'
    BY <1>1
  <1>3. PICK n \in Nat : n = Len(new)
    OBVIOUS
  <1>4. /\ ms \in Seq(Mark) /\ Len(ms) = Len(marks) /\ Len(ms) \in Nat
        /\ marks' = AdjustMarks(ms, pos, len, n)
        /\ slotOf \in [Handles -> 0..Len(marks)]
    BY <1>3 DEF BufferOK, MarksSound, SameHandles, Edit
  <1>5. ASSUME NEW h \in Handles
        PROVE  /\ MarkByHandle[h] = IF slotOf[h] = 0 THEN NoMark
                                    ELSE Shown(marks[slotOf[h]])
               /\ MarkByHandle'[h] = IF slotOf[h] = 0 THEN NoMark
                                     ELSE Shown(marks'[slotOf[h]])
    BY DEF MarkByHandle, MarkOf
  <1>6. ASSUME NEW h \in Handles, slotOf[h] = 0
        PROVE  MarkByHandle[h] = NoMark /\ MarkByHandle'[h] = NoMark
    BY <1>5, <1>6
  <1>7. ASSUME NEW h \in Handles, slotOf[h] # 0
        PROVE  /\ MarkByHandle[h] # NoMark /\ MarkByHandle'[h] # NoMark
               /\ slotOf[h] # own =>
                    Abstract!Follows(t, u, pos, len, n,
                                     MarkByHandle[h], MarkByHandle'[h])
               /\ slotOf[h] = own =>
                    MarkByHandle'[h] = [begin |-> pos, len |-> n, dirty |-> TRUE]
    <2>1. /\ slotOf[h] \in 1..Len(marks) /\ MarkOf(h) \in Mark /\ MarkOf(h).inuse
      BY <1>7, HeldMark
    <2>2. PICK s \in 1..Len(ms) : s = slotOf[h]
      BY <1>4, <2>1
    <2>3. PICK m \in Mark : m = ms[s]
      BY <1>4
    <2>4. marks[s] \in Mark /\ marks[s].inuse
      BY <2>1, <2>2 DEF MarkOf
    <2>5. m.inuse
      BY <1>4, <2>2, <2>3, <2>4 DEF SameHandles
    <2>6. Within(m, Len(t))
      BY <1>2, <2>3, <2>5 DEF MarksSound, Within
    <2>7. PICK a : a = AdjustMark(m, pos, len, n)
      OBVIOUS
    <2>8. marks'[s] = a
      BY <1>4, <2>3, <2>5, <2>7 DEF AdjustMarks
    <2>9. a \in Mark
      <3>1. PICK z \in Nat : z = Len(t)
        BY <1>2
      <3>2. pos + len <= z /\ Within(m, z)
        BY <1>2, <2>6, <3>1
      <3> QED
        BY <2>7, <3>2, AdjustMarkWithin
    <2>10. MarkByHandle[h] = Shown(marks[s]) /\ MarkByHandle'[h] = Shown(a)
      BY <1>5, <1>7, <2>2, <2>8
    <2>11. /\ Shown(marks[s]) \in [begin : Nat, len : Nat, dirty : BOOLEAN]
           /\ Shown(a) \in [begin : Nat, len : Nat, dirty : BOOLEAN]
      BY <2>4, <2>9 DEF Shown, Mark
    <2>12. MarkByHandle[h] # NoMark /\ MarkByHandle'[h] # NoMark
      BY <2>10, <2>11, NoMarkAssumption
    <2>13. ASSUME s # own
           PROVE  Abstract!Follows(t, u, pos, len, n, MarkByHandle[h], MarkByHandle'[h])
      <3>1. marks[s] = m
        BY <1>4, <2>3, <2>13
      <3>2. m.begin + m.len <= Len(t) /\ pos + len <= Len(t)
        BY <1>2, <2>6 DEF Within
      <3>3. Spliced(u, t, pos, len, new)
        BY <1>1, <1>2
      <3>4. Abstract!Follows(t, u, pos, len, n, Shown(m), Shown(a))
        BY <1>3, <2>7, <2>9, <3>2, <3>3, AdjustedFollows
      <3> QED
        BY <2>10, <3>1, <3>4
    <2>14. ASSUME s = own
           PROVE  MarkByHandle'[h] = [begin |-> pos, len |-> n, dirty |-> TRUE]
      <3>1. m.begin = pos /\ m.len = len
        BY <1>4, <2>3, <2>14
      <3>2. /\ ~(m.begin < pos) /\ m.begin >= pos /\ m.begin <= pos + len
            /\ ~(EndOf(m) > pos + len)
        BY <3>1 DEF EndOf
      <3>3. a = [m EXCEPT !.begin = pos, !.len = n, !.dirty = TRUE]
        BY <2>7, <3>2, Zenon DEF AdjustMark
      <3>4. a.begin = pos /\ a.len = n /\ a.dirty = TRUE
        BY <3>3 DEF Mark
      <3> QED
        BY <2>10, <3>4 DEF Shown
    <2> QED
      BY <2>2, <2>12, <2>13, <2>14
  <1> QED
    BY <1>2, <1>3, <1>6, <1>7 DEF Followed

\* Of the slots ms only own differs from those of the buffer, and it is the
\* range that is replaced.
OwnRange(ms, own, pos, len) ==
    /\ \A i \in 1..Len(marks) : i # own => ms[i] = marks[i]
    /\ own \in 1..Len(marks) => ms[own].begin = pos /\ ms[own].len = len

\* What a client sees of the mark of a handle.
LEMMA MarkSeen ==
    ASSUME BufferOK, NEW h \in Handles
    PROVE  /\ MarkByHandle[h] # NoMark <=> slotOf[h] # 0
           /\ slotOf[h] # 0 =>
                /\ MarkByHandle[h] = Shown(MarkOf(h))
                /\ MarkByHandle[h].begin = MarkOf(h).begin
                /\ MarkByHandle[h].len = MarkOf(h).len
                /\ Abstract!EndOf(MarkByHandle[h]) = EndOf(MarkOf(h))
  <1>1. MarkByHandle[h] = IF slotOf[h] = 0 THEN NoMark ELSE Shown(MarkOf(h))
    BY DEF MarkByHandle, MarkOf
  <1>2. ASSUME slotOf[h] # 0
        PROVE  Shown(MarkOf(h)) # NoMark
    <2>1. MarkOf(h) \in Mark
      BY <1>2, HeldMark
    <2>2. Shown(MarkOf(h)) \in [begin : Nat, len : Nat, dirty : BOOLEAN]
      BY <2>1 DEF Shown, Mark
    <2> QED
      BY <2>2, NoMarkAssumption
  <1>3. /\ Shown(MarkOf(h)).begin = MarkOf(h).begin
        /\ Shown(MarkOf(h)).len = MarkOf(h).len
    BY DEF Shown
  <1> QED
    BY <1>1, <1>2, <1>3 DEF Abstract!EndOf, EndOf

\* The handles whose marks are not in slot own.
Others(own) == {h \in Handles : slotOf[h] = 0 \/ slotOf[h] # own}

\* SbufSpec's part of a change of the text: the marks of the others have followed,
\* and the one in slot own is what was put there.
Replaces(own, pos, len, new) ==
    /\ Abstract!Replaced(Others(own), pos, len, new)
    /\ Abstract!Became(pos, len) = new
    /\ \A h \in Handles : slotOf[h] # 0 /\ slotOf[h] = own =>
        MarkByHandle'[h] = [begin |-> pos, len |-> Len(new), dirty |-> TRUE]

\* A change of the text, as SbufSpec has it.
LEMMA ReplaceStep ==
    ASSUME BufferOK, NEW ms, MarksSound(ms, Len(text)), SameHandles(marks, ms),
           NEW pos \in Nat, NEW len \in Nat, pos + len <= Len(text),
           NEW new \in Seq(Chars), Edit(ms, pos, len, new), slotOf' = slotOf,
           answer' = NoAnswer, NEW own \in Nat, OwnRange(ms, own, pos, len)
    PROVE  Replaces(own, pos, len, new)
  <1>1. /\ text \in Seq(Chars) /\ text' \in Seq(Chars)
        /\ Len(text') = Len(text) - len + Len(new)
        /\ Spliced(text', text, pos, len, new)
    BY EditStep DEF BufferOK
  <1>2. Followed(text, text', pos, len, Len(new), own)
    BY EditFollowed DEF OwnRange
  <1>3. Abstract!Became(pos, len) = new
    <2>1. PICK t \in Seq(Chars), u \in Seq(Chars) : t = text /\ u = text'
      BY <1>1
    <2>2. pos + len <= Len(t) /\ Spliced(u, t, pos, len, new)
      BY <1>1, <2>1
    <2>3. SubSeq(u, pos + 1, pos + Len(new)) = new
      BY <2>2, NewPart
    <2>4. Len(u) - (Len(t) - (pos + len)) = pos + Len(new)
      BY <1>1, <2>1
    <2> QED
      BY <2>1, <2>3, <2>4 DEF Abstract!Became
  <1>4. text' = Abstract!Splice(text, pos, len, new)
    BY SameOperators DEF Edit
  <1>5. DOMAIN MarkByHandle' = Handles
    BY DEF MarkByHandle, MarkOf
  <1>6. \A h \in Handles : MarkByHandle'[h] = NoMark <=> MarkByHandle[h] = NoMark
    BY <1>2 DEF Followed
  <1>7. ASSUME NEW h \in Others(own), MarkByHandle[h] # NoMark
        PROVE  Abstract!Follows(text, text', pos, len, Len(new),
                                MarkByHandle[h], MarkByHandle'[h])
    <2>1. h \in Handles /\ slotOf[h] # 0 /\ slotOf[h] # own
      BY <1>7, MarkSeen DEF Others
    <2> QED
      BY <1>2, <2>1 DEF Followed
  <1>8. Abstract!Replaced(Others(own), pos, len, new)
    BY <1>4, <1>5, <1>6, <1>7, SameOperators, Zenon DEF Abstract!Replaced
  <1>9. \A h \in Handles : slotOf[h] # 0 /\ slotOf[h] = own =>
            MarkByHandle'[h] = [begin |-> pos, len |-> Len(new), dirty |-> TRUE]
    BY <1>2 DEF Followed
  <1> QED
    BY <1>3, <1>8, <1>9 DEF Replaces

\* A change that is not made through a mark moved for it: all marks follow.
LEMMA EditReplaces ==
    ASSUME BufferOK, NEW pos \in Nat, NEW len \in Nat, pos + len <= Len(text),
           NEW new \in Seq(Chars), Edit(marks, pos, len, new), slotOf' = slotOf,
           answer' = NoAnswer
    PROVE  /\ Abstract!Replaced(Handles, pos, len, new)
           /\ Abstract!Became(pos, len) = new
  <1>1. MarksSound(marks, Len(text)) /\ SameHandles(marks, marks)
    BY SameHandlesSelf DEF BufferOK
  <1>2. 0 \in Nat /\ OwnRange(marks, 0, pos, len)
    BY <1>1 DEF MarksSound, OwnRange
  <1>3. Replaces(0, pos, len, new)
    BY <1>1, <1>2, ReplaceStep
  <1>4. Others(0) = Handles
    BY DEF Others
  <1> QED
    BY <1>3, <1>4 DEF Replaces

\* A handle that is held has a mark within the text.
LEMMA HeldInText ==
    ASSUME NEW t \in Seq(Chars), NEW ms, MarksSound(ms, Len(t)),
           NEW held \in [Handles -> 0..Len(ms)], HandlesFit(ms, held),
           NEW h \in Handles, held[h] # 0
    PROVE  Abstract!InText(Shown(ms[held[h]]), t)
  <1>1. PICK n \in Nat : n = Len(t)
    OBVIOUS
  <1>2. MarksSound(ms, n)
    BY <1>1
  <1>3. /\ ms[held[h]] \in Mark
        /\ ms[held[h]].begin \in Nat /\ ms[held[h]].len \in Nat
        /\ ms[held[h]].begin + ms[held[h]].len <= n
    BY <1>2, HeldSlot
  <1>4. PICK m \in Mark : m = ms[held[h]]
    BY <1>3
  <1>5. PICK b \in Nat, l \in Nat : b = m.begin /\ l = m.len /\ b + l <= n
    BY <1>3, <1>4
  <1>6. m.dirty \in BOOLEAN
    BY DEF Mark
  <1>7. b \in 0..Len(t) /\ l \in 0..Len(t) /\ b + l <= Len(t)
    BY <1>1, <1>5
  <1> QED
    BY <1>4, <1>5, <1>6, <1>7 DEF Abstract!InText, Abstract!Placed, Shown

\* One mark is made, moved, given up or has its dirty bit changed.
MarkIsSet == \E h \in Handles : Abstract!SetMark(h, MarkByHandle'[h])

\* A call that does not touch the text, nor the marks of other handles, sets
\* one mark.
LEMMA OneMarkSet ==
    ASSUME BufferOK, BufferOK', text' = text, answer' = NoAnswer,
           NEW h \in Handles,
           \A g \in Handles : g # h =>
                /\ slotOf'[g] = slotOf[g]
                /\ slotOf[g] # 0 => marks'[slotOf[g]] = marks[slotOf[g]]
    PROVE  MarkIsSet
  <1>1. PICK m : m = MarkByHandle'[h]
    OBVIOUS
  <1>2. m = IF slotOf'[h] = 0 THEN NoMark ELSE Shown(marks'[slotOf'[h]])
    BY <1>1 DEF MarkByHandle, MarkOf
  <1>3. m = NoMark \/ Abstract!InText(m, text)
    <2>1. PICK ms, held : ms = marks' /\ held = slotOf'
      OBVIOUS
    <2>2. /\ text \in Seq(Chars) /\ MarksSound(ms, Len(text))
          /\ held \in [Handles -> 0..Len(ms)] /\ HandlesFit(ms, held)
      BY <2>1 DEF BufferOK
    <2>3. held[h] # 0 => Abstract!InText(Shown(ms[held[h]]), text)
      BY <2>2, HeldInText
    <2> QED
      BY <1>2, <2>1, <2>3
  <1>5. m # NoMark => Abstract!InText(m, text)
    BY <1>3
  <1>6. MarkByHandle' = [MarkByHandle EXCEPT ![h] = m]
    <2>1. ASSUME NEW g \in Handles, g # h
          PROVE  MarkByHandle'[g] = MarkByHandle[g]
      BY <2>1 DEF MarkByHandle, MarkOf
    <2> QED
      BY <1>1, <2>1 DEF MarkByHandle, MarkOf
  <1> QED
    BY <1>1, <1>5, <1>6, SameOperators, Zenon DEF Abstract!SetMark, MarkIsSet

\* A call that does not touch the text or the marks is not noticed.
LEMMA Unnoticed ==
    ASSUME UNCHANGED <<text, marks, slotOf>>, answer' = NoAnswer
    PROVE  Abstract!Forget
  <1>1. MarkByHandle' = MarkByHandle
    BY DEF MarkByHandle, MarkOf
  <1> QED
    BY <1>1, SameOperators DEF Abstract!Forget

\* Moving the mark of one handle leaves the slots of the others alone.
LEMMA RemarkSetsMark ==
    ASSUME BufferOK, BufferOK', NEW h \in Handles, slotOf[h] # 0,
           NEW pos, NEW len, marks' = Remarked(marks, slotOf[h], pos, len),
           UNCHANGED <<text, slotOf>>, answer' = NoAnswer
    PROVE  MarkIsSet
  <1>1. ASSUME NEW g \in Handles, g # h, slotOf[g] # 0
        PROVE  marks'[slotOf[g]] = marks[slotOf[g]]
    <2>1. slotOf[g] # slotOf[h]
      BY <1>1, SlotsDiffer
    <2>2. slotOf[g] \in DOMAIN marks
      BY <1>1, HeldMark DEF BufferOK, MarksSound
    <2> QED
      BY <2>1, <2>2 DEF Remarked
  <1> QED
    BY <1>1, OneMarkSet

-----------------------------------------------------------------------------
\* The calls on marks.

\* The slots that sbuf_mark adds are slots.
LEMMA MoreSlotsAreSlots == MoreSlots \in Seq(Mark)
  <1>1. UnusedSlot \in Mark /\ MarkGrow \in Nat
    BY MarkGrowAssumption DEF UnusedSlot, Mark
  <1> QED
    BY <1>1 DEF MoreSlots

\* sbuf_mark
LEMMA SbufMarkSets ==
    ASSUME IInv, NEW h \in Handles, NEW pos \in Nat, NEW len \in Nat,
           SbufMark(h, pos, len)
    PROVE  MarkIsSet
  <1>1. BufferOK /\ BufferOK' /\ marks \in Seq(Mark) /\ Len(marks) \in Nat
    BY SbufMarkKeeps DEF IInv, BufferOK, MarksSound
  <1>2. PICK more \in Seq(Mark) : more = MoreSlots
    BY MoreSlotsAreSlots
  <1>3. PICK room, slot :
            /\ room = IF FreeSlots = {} THEN marks \o more ELSE marks
            /\ slot = IF FreeSlots = {} THEN Len(marks) + 1 ELSE Min(FreeSlots)
    OBVIOUS
  <1>4. /\ marks' = [room EXCEPT ![slot] = NewMark(h, pos, len)]
        /\ slotOf' = [slotOf EXCEPT ![h] = slot]
        /\ text' = text /\ answer' = NoAnswer /\ slotOf[h] = 0
    BY <1>2, <1>3 DEF SbufMark
  <1>5. \A g \in Handles : g # h => slotOf'[g] = slotOf[g]
    BY <1>1, <1>4 DEF BufferOK
  <1>6. ASSUME NEW g \in Handles, g # h, slotOf[g] # 0
        PROVE  marks'[slotOf[g]] = marks[slotOf[g]]
    <2>1. PICK i \in 1..Len(marks) : i = slotOf[g] /\ marks[i].inuse
      BY <1>1, <1>6, HeldMark DEF MarkOf
    <2>2. i # slot /\ room[i] = marks[i] /\ i \in DOMAIN room
      <3>1. CASE FreeSlots = {}
        <4>1. IsJoin(room, marks, more) /\ room \in Seq(Mark)
          BY <1>1, <1>3, <3>1, Join
        <4>2. slot = Len(marks) + 1
          BY <1>3, <3>1
        <4> QED
          BY <1>1, <4>1, <4>2 DEF IsJoin
      <3>2. CASE FreeSlots # {}
        <4>1. FreeSlots \subseteq Nat
          BY <1>1 DEF FreeSlots
        <4>2. slot \in FreeSlots /\ room = marks
          BY <1>3, <3>2, <4>1, MinIsLeast
        <4> QED
          BY <1>1, <2>1, <4>2 DEF FreeSlots
      <3> QED
        BY <3>1, <3>2
    <2> QED
      BY <1>4, <2>1, <2>2
  <1> QED
    BY <1>1, <1>4, <1>5, <1>6, OneMarkSet


\* sbuf_mark that finds memory for more slots only
LEMMA SbufMarkNoMemoryIsUnnoticed ==
    ASSUME IInv, SbufMarkNoMemory
    PROVE  MarkIsSet
  <1>1. BufferOK /\ BufferOK' /\ marks \in Seq(Mark) /\ Aux \in Handles
    BY SbufMarkNoMemoryKeeps, HandlesAssumption DEF IInv, BufferOK, MarksSound
  <1>2. PICK more \in Seq(Mark) : more = MoreSlots
    BY MoreSlotsAreSlots
  <1>3. marks' = marks \o more /\ UNCHANGED <<text, slotOf>> /\ answer' = NoAnswer
    BY <1>2 DEF SbufMarkNoMemory
  <1>4. IsJoin(marks', marks, more)
    BY <1>1, <1>3, Join
  <1>5. ASSUME NEW g \in Handles, slotOf[g] # 0
        PROVE  marks'[slotOf[g]] = marks[slotOf[g]]
    <2>1. PICK i \in 1..Len(marks) : i = slotOf[g]
      BY <1>1, <1>5, HeldMark
    <2>2. i \in 1..Len(marks') /\ i <= Len(marks)
      BY <1>1, <1>2, <1>4 DEF IsJoin
    <2>3. marks'[i] = marks[i]
      BY <1>4, <2>2 DEF IsJoin
    <2> QED
      BY <2>1, <2>3
  <1> QED
    BY <1>1, <1>3, <1>5, OneMarkSet

\* sbuf_unmark
LEMMA SbufUnmarkSets ==
    ASSUME IInv, NEW h \in Handles, SbufUnmark(h)
    PROVE  MarkIsSet
  <1>1. BufferOK /\ BufferOK' /\ slotOf \in [Handles -> 0..Len(marks)]
    BY SbufUnmarkKeeps DEF IInv, BufferOK
  <1>2. /\ marks' = [marks EXCEPT ![slotOf[h]].inuse = FALSE]
        /\ slotOf' = [slotOf EXCEPT ![h] = 0] /\ slotOf[h] # 0
        /\ text' = text /\ answer' = NoAnswer
    BY DEF SbufUnmark, Ready
  <1>3. ASSUME NEW g \in Handles, g # h
        PROVE  /\ slotOf'[g] = slotOf[g]
               /\ slotOf[g] # 0 => marks'[slotOf[g]] = marks[slotOf[g]]
    <2>1. slotOf'[g] = slotOf[g]
      BY <1>1, <1>2, <1>3
    <2>2. ASSUME slotOf[g] # 0
          PROVE  marks'[slotOf[g]] = marks[slotOf[g]]
      <3>1. slotOf[g] # slotOf[h]
        BY <1>1, <1>3, <2>2, SlotsDiffer
      <3>2. slotOf[g] \in DOMAIN marks
        BY <1>1, <2>2, HeldMark DEF BufferOK, MarksSound
      <3> QED
        BY <1>2, <3>1, <3>2
    <2> QED
      BY <2>1, <2>2
  <1> QED
    BY <1>1, <1>2, <1>3, OneMarkSet

\* sbuf_mark_set_dirty, sbuf_mark_set_columnar and sbuf_set_mark_code
LEMMA SetMarkSets ==
    ASSUME IInv, NEW h \in Handles, SetMark(h)
    PROVE  MarkIsSet
  <1>1. BufferOK /\ BufferOK' /\ slotOf[h] # 0 /\ marks \in Seq(Mark)
        /\ UNCHANGED <<text, slotOf>> /\ answer' = NoAnswer
    BY SetMarkKeeps DEF IInv, BufferOK, MarksSound, SetMark, Ready
  <1>2. ASSUME NEW g \in Handles, g # h, slotOf[g] # 0
        PROVE  marks'[slotOf[g]] = marks[slotOf[g]]
    <2>1. slotOf[g] # slotOf[h]
      BY <1>1, <1>2, SlotsDiffer
    <2>2. slotOf[g] \in DOMAIN marks
      BY <1>1, <1>2, HeldMark
    <2>3. \A i \in DOMAIN marks : i # slotOf[h] => marks'[i] = marks[i]
      <3>1. CASE \E mode \in ColumnarModes :
                    marks' = [marks EXCEPT ![slotOf[h]].columnar = mode]
        BY <3>1
      <3>2. CASE \E code \in Codes :
                    marks' = [marks EXCEPT ![slotOf[h]].code = code]
        BY <3>2
      <3>3. CASE \E dirty \in DirtyBits :
                    marks' = [marks EXCEPT ![slotOf[h]].dirty = dirty]
        BY <3>3
      <3> QED
        BY <3>1, <3>2, <3>3 DEF SetMark
    <2> QED
      BY <2>1, <2>2, <2>3
  <1> QED
    BY <1>1, <1>2, OneMarkSet

\* sbuf_search
LEMMA SbufSearchSets ==
    ASSUME IInv, NEW h \in Handles, NEW inside \in Handles, NEW pat \in Patterns,
           NEW backward \in BOOLEAN, SbufSearch(h, inside, pat, backward)
    PROVE  MarkIsSet
  <1>1. PICK found : found = Matches(text, MarkOf(inside), pat)
    OBVIOUS
  <1>2. PICK pos, len : /\ pos = IF backward THEN Max(found) ELSE Min(found)
                        /\ len = Len(pat)
    OBVIOUS
  <1>3. /\ marks' = Remarked(marks, slotOf[h], pos, len) /\ slotOf[h] # 0
        /\ UNCHANGED <<text, slotOf>> /\ answer' = NoAnswer
    BY <1>1, <1>2 DEF SbufSearch, Ready
  <1> QED
    BY <1>3, SbufSearchKeeps, RemarkSetsMark DEF IInv

-----------------------------------------------------------------------------
\* The calls that change the text.

\* sbuf_strchange and sbuf_change
LEMMA ChangeIsPromised ==
    ASSUME IInv, NEW h \in Handles, slotOf[h] # 0,
           NEW new \in Seq(Chars), Change(h, new)
    PROVE  Changed(h, new) /\ Abstract!Next
  <1>1. BufferOK
    BY DEF IInv
  <1>2. answer' = NoAnswer /\ slotOf' = slotOf
    BY DEF Change
  <1>3. CASE MarkOf(h).columnar
    <2>1. UNCHANGED <<text, marks>>
      BY <1>3 DEF Change, StartColumns
    <2>2. Abstract!Forget
      BY <1>2, <2>1, Unnoticed
    <2> QED
      BY <1>3, <2>2 DEF Changed, Abstract!Next
  <1>4. CASE ~MarkOf(h).columnar
    <2>1. PICK b \in Nat, l \in Nat :
                b = MarkOf(h).begin /\ l = MarkOf(h).len /\ b + l <= Len(text)
      BY <1>1, HeldMark
    <2>2. Edit(marks, b, l, new)
      BY <1>4, <2>1 DEF Change, StrChange
    <2>3. Abstract!Replaced(Handles, b, l, new) /\ Abstract!Became(b, l) = new
      BY <1>1, <1>2, <2>1, <2>2, EditReplaces
    <2>4. /\ MarkByHandle[h] # NoMark
          /\ MarkByHandle[h].begin = b /\ MarkByHandle[h].len = l
      BY <1>1, <2>1, MarkSeen
    <2>5. Abstract!Change(h, new)
      BY <2>3, <2>4 DEF Abstract!Change
    <2>6. Abstract!Change(h, Abstract!Became(MarkByHandle[h].begin, MarkByHandle[h].len))
      BY <2>3, <2>4, <2>5
    <2>7. Abstract!Next
      BY <2>4, <2>6, Zenon DEF Abstract!Next
    <2> QED
      BY <1>4, <2>5, <2>7 DEF Changed
  <1> QED
    BY <1>3, <1>4

\* A mark is moved to a range and the range changed through it: the marks of the
\* other handles follow, and this one is what was put there.
LEMMA ChangeThroughMarkReplaces ==
    ASSUME BufferOK, NEW h \in Handles, slotOf[h] # 0,
           NEW pos \in Nat, NEW len \in Nat, pos + len <= Len(text),
           NEW new \in Seq(Chars),
           StrChange(Remarked(marks, slotOf[h], pos, len), pos, len, new),
           slotOf' = slotOf, answer' = NoAnswer
    PROVE  /\ Abstract!Replaced(Handles \ {h}, pos, len, new)
           /\ Abstract!Became(pos, len) = new
           /\ MarkByHandle'[h] = [begin |-> pos, len |-> Len(new), dirty |-> TRUE]
  <1>1. PICK slot \in 1..Len(marks) : slot = slotOf[h]
    BY HeldMark
  <1>n. PICK n \in Nat : n = Len(text)
    BY DEF BufferOK
  <1>m. PICK ms : ms = marks
    OBVIOUS
  <1>r. PICK ns : ns = Remarked(ms, slot, pos, len)
    OBVIOUS
  <1>2. n = Len(text) /\ ms = marks /\ ns = Remarked(ms, slot, pos, len)
    BY <1>n, <1>m, <1>r
  <1>3. /\ MarksSound(ns, n) /\ SameHandles(ms, ns)
        /\ ns[slot].begin = pos /\ ns[slot].len = len
    <2>1. MarksSound(ms, n) /\ slot \in 1..Len(ms) /\ pos + len <= n
          /\ n \in Nat /\ pos \in Nat /\ len \in Nat /\ ns = Remarked(ms, slot, pos, len)
      BY <1>2 DEF BufferOK
    <2>2. MarksSound(ns, n) /\ SameHandles(ms, ns)
      BY <2>1, RemarkedSound
    <2>3. ns[slot].begin = pos /\ ns[slot].len = len
      BY <2>1, RemarkedSound
    <2> QED
      BY <2>2, <2>3
  <1>4. MarksSound(ns, Len(text)) /\ SameHandles(marks, ns)
    BY <1>2, <1>3
  <1>5. Edit(ns, pos, len, new)
    BY <1>1, <1>2 DEF StrChange
  <1>6. \A i \in 1..Len(marks) : i # slot => ns[i] = marks[i]
    BY <1>2 DEF Remarked, BufferOK, MarksSound
  <1>7. slot \in Nat /\ OwnRange(ns, slot, pos, len)
    BY <1>3, <1>6 DEF OwnRange
  <1>8. ASSUME NEW g \in Handles \ {h}, slotOf[g] # 0
        PROVE  slotOf[g] # slot
    BY <1>1, <1>8, SlotsDiffer
  <1>9. Others(slot) = Handles \ {h}
    BY <1>1, <1>8 DEF Others
  <1>10. Replaces(slot, pos, len, new)
    BY <1>4, <1>5, <1>7, ReplaceStep
  <1> QED
    BY <1>1, <1>9, <1>10 DEF Replaces

\* When all of the text is taken every mark follows it to the beginning.
LEMMA EmptiedFollows ==
    ASSUME NEW t \in Seq(Chars), NEW u, Len(u) = 0,
           NEW m, Abstract!InText(m, t),
           NEW v, v = [begin |-> 0, len |-> 0, dirty |-> TRUE]
    PROVE  Abstract!Follows(t, u, 0, Len(t), 0, m, v)
  <1>1. PICK end \in Nat : end = Len(t)
    OBVIOUS
  <1>2. /\ m.begin \in 0..end /\ m.len \in 0..end /\ m.begin + m.len <= end
        /\ m.dirty \in BOOLEAN
    BY <1>1 DEF Abstract!InText, Abstract!Placed
  <1>3. Abstract!Touched(m, 0, end)
    BY <1>2 DEF Abstract!Touched
  <1>4. v.begin = 0 /\ v.len = 0 /\ v.dirty = TRUE
    OBVIOUS
  <1>5. Abstract!InText(v, u)
    BY <1>4 DEF Abstract!InText, Abstract!Placed
  <1> QED
    BY <1>1, <1>2, <1>3, <1>4, <1>5 DEF Abstract!Follows

\* The marks of other handles have followed, and so has that of h.
LEMMA OneMoreFollows ==
    ASSUME NEW h \in Handles, NEW pos, NEW len, NEW new,
           Abstract!Replaced(Handles \ {h}, pos, len, new),
           MarkByHandle[h] # NoMark =>
                Abstract!Follows(text, text', pos, len, Len(new),
                                 MarkByHandle[h], MarkByHandle'[h])
    PROVE  Abstract!Replaced(Handles, pos, len, new)
  <1>1. ASSUME NEW g \in Handles, MarkByHandle[g] # NoMark
        PROVE  Abstract!Follows(text, text', pos, len, Len(new),
                                MarkByHandle[g], MarkByHandle'[g])
    <2>1. CASE g = h
      BY <1>1, <2>1
    <2>2. CASE g # h
      BY <1>1, <2>2, Zenon DEF Abstract!Replaced
    <2> QED
      BY <2>1, <2>2
  <1> QED
    BY <1>1, Zenon DEF Abstract!Replaced

\* sbuf_load up to the first fread
LEMMA SbufLoadClears ==
    ASSUME IInv, NEW opened, SbufLoad(opened)
    PROVE  Abstract!Clear /\ Abstract!Next
  <1>1. BufferOK /\ text \in Seq(Chars) /\ Aux \in Handles /\ slotOf[Aux] # 0
    BY HandlesAssumption DEF IInv, BufferOK, HandlesFit
  <1>2. 0 \in Nat /\ <<>> \in Seq(Chars) /\ Len(text) \in Nat /\ Len(<<>>) = 0
    BY <1>1
  <1>3. PICK h \in Handles, new \in Seq(Chars), z \in Nat, n \in Nat :
            h = Aux /\ new = <<>> /\ z = 0 /\ n = Len(text)
    BY <1>1, <1>2
  <1>4. /\ StrChange(Remarked(marks, slotOf[h], z, n), z, n, new)
        /\ slotOf' = slotOf /\ slotOf[h] # 0 /\ z + n <= Len(text)
        /\ answer' = NoAnswer
    BY <1>1, <1>3 DEF SbufLoad
  <1>5. /\ Abstract!Replaced(Handles \ {h}, z, n, new)
        /\ MarkByHandle'[h] = [begin |-> z, len |-> Len(new), dirty |-> TRUE]
    BY <1>1, <1>4, ChangeThroughMarkReplaces
  <1>6. Len(text') = 0
    <2>1. text' = Splice(text, 0, Len(text), <<>>)
      BY <1>3, <1>4 DEF StrChange, Edit
    <2>2. Spliced(text', text, 0, Len(text), <<>>)
      <3>1. 0 + Len(text) <= Len(text)
        BY <1>2
      <3> QED
        BY <1>1, <1>2, <2>1, <3>1, SpliceIsSpliced
    <2> QED
      BY <1>2, <2>2 DEF Spliced
  <1>7. Abstract!InText(MarkByHandle[h], text)
    <2>1. PICK ms, held : ms = marks /\ held = slotOf
      OBVIOUS
    <2>2. /\ MarksSound(ms, Len(text)) /\ held \in [Handles -> 0..Len(ms)]
          /\ HandlesFit(ms, held) /\ held[h] # 0
      BY <1>1, <1>4, <2>1 DEF BufferOK
    <2>3. Abstract!InText(Shown(ms[held[h]]), text)
      BY <1>1, <2>2, HeldInText
    <2>4. MarkByHandle[h] = Shown(ms[held[h]])
      BY <1>4, <2>1 DEF MarkByHandle, MarkOf
    <2> QED
      BY <2>3, <2>4
  <1>8. Abstract!Follows(text, text', 0, Len(text), 0, MarkByHandle[h], MarkByHandle'[h])
    <2>1. PICK v : v = MarkByHandle'[h]
      OBVIOUS
    <2>2. v = [begin |-> 0, len |-> 0, dirty |-> TRUE]
      BY <1>2, <1>3, <1>5, <2>1
    <2> QED
      BY <1>1, <1>6, <1>7, <2>1, <2>2, EmptiedFollows
  <1>9. Abstract!Clear
    <2>1. Abstract!Follows(text, text', z, n, Len(new), MarkByHandle[h], MarkByHandle'[h])
      BY <1>2, <1>3, <1>8
    <2>2. Abstract!Replaced(Handles, z, n, new)
      BY <1>5, <2>1, OneMoreFollows
    <2> QED
      BY <1>3, <2>2 DEF Abstract!Clear
  <1> QED
    BY <1>9 DEF Abstract!Next

\* One block of a file
LEMMA ReadChunkAdds ==
    ASSUME IInv, NEW s \in Seq(Chars), ReadChunk(s)
    PROVE  Abstract!AddBlock(job.h, s) /\ Abstract!Next
  <1>1. BufferOK /\ CallOK /\ job.op = "read" /\ text \in Seq(Chars)
    BY DEF IInv, BufferOK, ReadChunk
  <1>2. PICK h \in Handles : h = job.h /\ slotOf[h] # 0
    BY <1>1, JobKinds
  <1>3. PICK end \in 0..Len(text) : end = EndOf(MarkOf(h))
    BY <1>1, <1>2, HeldMark DEF EndOf
  <1>4. /\ StrChange(Remarked(marks, slotOf[h], end, 0), end, 0, s)
        /\ slotOf' = slotOf /\ answer' = NoAnswer
    BY <1>1, <1>2, <1>3, JobKinds DEF ReadChunk
  <1>5. end \in Nat /\ 0 \in Nat /\ end + 0 <= Len(text)
    BY <1>1, <1>3
  <1>6. /\ Abstract!Replaced(Handles \ {h}, end, 0, s)
        /\ Abstract!Became(end, 0) = s
        /\ MarkByHandle'[h] = [begin |-> end, len |-> Len(s), dirty |-> TRUE]
    BY <1>1, <1>2, <1>4, <1>5, ChangeThroughMarkReplaces
  <1>7. MarkByHandle[h] # NoMark /\ Abstract!EndOf(MarkByHandle[h]) = end
    BY <1>1, <1>2, <1>3, MarkSeen
  <1>8. Abstract!AddBlock(h, s)
    BY <1>6, <1>7 DEF Abstract!AddBlock
  <1>9. Abstract!AddBlock(h, Abstract!Became(Abstract!EndOf(MarkByHandle[h]), 0))
    BY <1>6, <1>7, <1>8
  <1>10. Abstract!Next
    BY <1>7, <1>9, Zenon DEF Abstract!Next
  <1> QED
    BY <1>2, <1>8, <1>10

\* After a read error
LEMMA ReadErrorTakesBack ==
    ASSUME IInv, ReadError
    PROVE  Abstract!TakeBack(job.h, job.begin) /\ Abstract!Next
  <1>1. BufferOK /\ CallOK /\ job.op = "read" /\ text \in Seq(Chars)
    BY DEF IInv, BufferOK, ReadError
  <1>2. PICK h \in Handles, begin \in Nat :
            /\ h = job.h /\ begin = job.begin
            /\ slotOf[h] # 0 /\ begin <= EndOf(MarkOf(h))
    BY <1>1, JobKinds
  <1>3. PICK end \in 0..Len(text) : end = EndOf(MarkOf(h))
    BY <1>1, <1>2, HeldMark DEF EndOf
  <1>4. PICK gone \in Nat : gone = end - begin
    BY <1>2, <1>3
  <1>5. /\ StrChange(Remarked(marks, slotOf[h], begin, gone), begin, gone, <<>>)
        /\ slotOf' = slotOf /\ answer' = NoAnswer
    BY <1>1, <1>2, <1>3, <1>4, JobKinds DEF ReadError
  <1>6. <<>> \in Seq(Chars) /\ Len(<<>>) = 0 /\ begin + gone <= Len(text)
        /\ begin \in 0..Len(text)
    BY <1>1, <1>2, <1>3, <1>4
  <1>7. /\ Abstract!Replaced(Handles \ {h}, begin, gone, <<>>)
        /\ MarkByHandle'[h] = [begin |-> begin, len |-> 0, dirty |-> TRUE]
    BY <1>1, <1>2, <1>5, <1>6, ChangeThroughMarkReplaces
  <1>8. MarkByHandle[h] # NoMark /\ Abstract!EndOf(MarkByHandle[h]) = end
    BY <1>1, <1>2, <1>3, MarkSeen
  <1>9. Abstract!TakeBack(h, begin)
    BY <1>2, <1>3, <1>4, <1>7, <1>8 DEF Abstract!TakeBack
  <1>10. Abstract!Next
    BY <1>6, <1>9, Zenon DEF Abstract!Next
  <1> QED
    BY <1>2, <1>9, <1>10

-----------------------------------------------------------------------------
\* Columns: the caller's mark while its lines are removed and inserted.

\* The removal still has the line and the column at which the mark begins, and
\* what it takes next is not behind the mark; the insertion has the position at
\* which the mark begins.
ColumnsHold ==
    /\ job.op = "remove" =>
        /\ job.top = Boln(text, MarkOf(job.h).begin)
        /\ job.from = Colno(text, MarkOf(job.h).begin)
        /\ Colpos(text, job.p, job.to) <= EndOf(MarkOf(job.h))
    /\ job.op = "insert" => MarkOf(job.h).begin = job.begin

\* When there is no columnar change in progress nothing has to hold.
LEMMA NoColumns ==
    ASSUME job' = Idle \/ (job'.op # "remove" /\ job'.op # "insert")
    PROVE  ColumnsHold'
  BY DEF ColumnsHold, Idle

\* How marks are moved, touched or not.
MovedTo(b, l, c, k, begin, len, n) ==
    \E touched \in BOOLEAN : Moved(b, l, c, k, touched, begin, len, n)

LEMMA AdjustMarkMovesTo ==
    ASSUME NEW m \in Mark, NEW begin \in Nat, NEW len \in Nat, NEW n \in Nat,
           NEW a \in Mark, a = AdjustMark(m, begin, len, n)
    PROVE  MovedTo(m.begin, m.len, a.begin, a.len, begin, len, n)
  BY AdjustMarkMoves DEF MovedTo

\* A mark that begins no later than an edit stays where it is; and if what is
\* edited was in the mark, it still reaches at least to the edit.
LEMMA MovedBehind ==
    ASSUME NEW b \in Nat, NEW l \in Nat, NEW c \in Nat, NEW k \in Nat,
           NEW x \in Nat, NEW len \in Nat, NEW n \in Nat,
           MovedTo(b, l, c, k, x, len, n)
    PROVE  /\ b <= x => c = b
           /\ b < x /\ x + len <= b + l => c + k >= x
  BY DEF Moved, MovedTo

\* So it is with the mark m of a handle that is held, which becomes a.
HeldMoved(m, a, pos, len) ==
    \E b, l, c, k \in Nat :
        /\ m.begin = b /\ m.len = l /\ a.begin = c /\ a.len = k
        /\ b + l <= Len(text)
        /\ b <= pos => c = b
        /\ b < pos /\ pos + len <= b + l => c + k >= pos

LEMMA HeldMoves ==
    ASSUME BufferOK, NEW pos \in Nat, NEW len \in Nat, pos + len <= Len(text),
           NEW new \in Seq(Chars), Edit(marks, pos, len, new), slotOf' = slotOf,
           NEW h \in Handles, slotOf[h] # 0,
           NEW m, m = MarkOf(h), NEW a, a = MarkOf(h)'
    PROVE  HeldMoved(m, a, pos, len)
  <1>1. /\ slotOf[h] \in 1..Len(marks) /\ m \in Mark /\ m.inuse
        /\ m.begin \in Nat /\ m.len \in Nat /\ m.begin + m.len <= Len(text)
    BY HeldMark
  <1>2. PICK n \in Nat, z \in Nat : n = Len(new) /\ z = Len(text)
    BY DEF BufferOK
  <1>3. a = AdjustMark(m, pos, len, n)
    BY <1>1, <1>2 DEF MarkOf, Edit, AdjustMarks, BufferOK, MarksSound
  <1>4. pos + len <= z /\ Within(m, z)
    BY <1>1, <1>2 DEF Within
  <1>5. a \in Mark
    BY <1>1, <1>3, <1>4, AdjustMarkWithin
  <1>6. MovedTo(m.begin, m.len, a.begin, a.len, pos, len, n)
    BY <1>1, <1>3, <1>5, AdjustMarkMovesTo
  <1>7. PICK b \in Nat, l \in Nat, c \in Nat, k \in Nat :
            m.begin = b /\ m.len = l /\ a.begin = c /\ a.len = k
    BY <1>1, <1>5 DEF Mark
  <1>8. MovedTo(b, l, c, k, pos, len, n)
    BY <1>6, <1>7
  <1>9. /\ b <= pos => c = b
        /\ b < pos /\ pos + len <= b + l => c + k >= pos
    BY <1>8, MovedBehind
  <1> QED
    BY <1>1, <1>7, <1>9 DEF HeldMoved

\* One line of the removal: it is not before the mark, which begins at b; and
\* if there is a line above to go on with, b is still the place that it was.
LEMMA LineWithinMark ==
    ASSUME NEW t \in Seq(Chars), NEW u \in Seq(Chars), NEW top \in Nat,
           NEW p \in Nat, LineStart(t, top), LineStart(t, p), top <= p,
           NEW from \in Nat, NEW to \in Nat,
           NEW b \in 0..Len(t), top = Boln(t, b), from = Colno(t, b),
           NEW x \in Nat, x = Colpos(t, p, from),
           NEW y \in Nat, CutFromLine(u, t, p, x, y),
           NEW above, above = LineAbove(u, p)
    PROVE  /\ b <= x
           /\ above >= top => /\ b < x /\ Colpos(u, above, to) \in 0..x
                              /\ top = Boln(u, b) /\ from = Colno(u, b)
  <1>1. PICK n \in Nat : n = Len(t)
    OBVIOUS
  <1>2. /\ p \in 0..n /\ x \in p..n /\ y \in x..n /\ Len(u) = n - (y - x)
        /\ \A i \in 1..Len(u) : u[i] = IF i <= x THEN t[i] ELSE t[i + (y - x)]
    BY <1>1 DEF CutFromLine
  <1>3. above = IF p = 0 THEN -1 ELSE Boln(u, p - 1)
    BY DEF LineAbove
  <1>4. ASSUME p # 0
        PROVE  /\ above \in 0..p - 1 /\ LineStart(u, above)
               /\ u[p] = NL /\ SameLine(u, above, p - 1) /\ x <= Len(u)
    <2>1. above = Boln(u, p - 1)
      BY <1>3, <1>4
    <2>2. PICK q : q = above
      OBVIOUS
    <2>3. q = Boln(u, p - 1)
      BY <2>1, <2>2
    <2>4. /\ q \in 0..p - 1 /\ LineStart(u, q)
          /\ u[p] = NL /\ SameLine(u, q, p - 1) /\ x <= Len(u)
      BY <1>4, <2>3, LineAboveStays, SMTT(30)
    <2> QED
      BY <2>2, <2>4
  <1>5. CASE top = p
    <2>1. x = b
      BY <1>2, <1>5, ColposUndoesColno
    <2>2. ~(above >= top)
      BY <1>3, <1>4, <1>5
    <2> QED
      BY <2>1, <2>2
  <1>6. CASE top < p
    <2>1. b < p
      <3>1. t[p] = NL
        BY <1>6 DEF LineStart
      <3>2. \A q \in top + 1..b : t[q] # NL
        BY BolnStops
      <3>3. ASSUME b >= p PROVE FALSE
        <4>1. p \in top + 1..b
          BY <1>6, <3>3
        <4> QED
          BY <3>1, <3>2, <4>1
      <3> QED
        BY <3>3
    <2>2. b < x /\ p <= x
      BY <1>2, <2>1
    <2>3. p # 0 /\ above \in 0..p - 1 /\ LineStart(u, above) /\ u[p] = NL
      BY <1>4, <1>6
    <2>4. Boln(u, b) = top /\ Colno(u, b) = from
      <3>1. b <= Len(u) /\ b <= Len(t)
        BY <1>1, <1>2, <1>4, <1>6, <2>2
      <3>2. \A i \in 1..b : u[i] = t[i]
        <4> TAKE i \in 1..b
        <4>1. i \in 1..Len(u) /\ i <= x
          BY <2>2, <3>1
        <4> QED
          BY <1>2, <4>1
      <3>3. Boln(u, b) = Boln(t, b) /\ Colno(u, b) = Colno(t, b)
        BY <3>1, <3>2, SameColno
      <3> QED
        BY <3>3
    <2>5. Colpos(u, above, to) \in 0..x
      <3>1. PICK z : z = Colpos(u, above, to)
        OBVIOUS
      <3>2. above \in 0..Len(u)
        BY <2>3 DEF LineStart
      <3>3. z \in above..Len(u) /\ SameLine(u, above, z)
        BY <3>1, <3>2, ColposIsFirst
      <3>4. z < p
        <4>1. ASSUME z >= p PROVE FALSE
          <5>1. p \in above + 1..z
            BY <2>3, <3>3, <4>1
          <5> QED
            BY <2>3, <3>3, <5>1 DEF SameLine
        <4> QED
          BY <3>3, <4>1
      <3> QED
        BY <2>2, <2>3, <3>1, <3>3, <3>4
    <2> QED
      BY <2>2, <2>4, <2>5
  <1> QED
    BY <1>5, <1>6

\* A columnar change begins on the mark's last line and ends its first part on
\* the line that the mark begins on.
LEMMA ColumnsBegin ==
    ASSUME IInv, job = Idle, NEW h \in Handles, slotOf[h] # 0, NEW new,
           Change(h, new)
    PROVE  ColumnsHold'
  <1>1. BufferOK /\ text \in Seq(Chars)
    BY DEF IInv, BufferOK
  <1>2. PICK m : m = MarkOf(h)
    OBVIOUS
  <1>3. m.begin \in Nat /\ m.len \in Nat /\ m.begin + m.len <= Len(text)
    BY <1>1, <1>2, HeldMark
  <1>4. CASE m.columnar
    <2>1. StartColumns(h, new) /\ UNCHANGED <<text, marks, slotOf>>
      BY <1>2, <1>4 DEF Change, StartColumns
    <2>2. PICK b \in 0..Len(text), e \in 0..Len(text) : b = m.begin /\ e = EndOf(m)
      BY <1>1, <1>3 DEF EndOf
    <2>3. CASE job' = Idle
      BY <2>3, NoColumns
    <2>4. CASE job' # Idle
      <3>1. PICK want :
                job' = [op |-> "remove", h |-> h, new |-> new,
                        p |-> Boln(text, e), top |-> Boln(text, b),
                        from |-> Colno(text, b), to |-> Colno(text, e),
                        want |-> want]
        BY <1>2, <2>1, <2>2, <2>4 DEF StartColumns
      <3>2. /\ job'.op = "remove" /\ job'.h = h /\ job'.p = Boln(text, e)
            /\ job'.top = Boln(text, b) /\ job'.from = Colno(text, b)
            /\ job'.to = Colno(text, e)
        BY <3>1
      <3>3. Colpos(text, Boln(text, e), Colno(text, e)) = e
        BY <1>1, ColposUndoesColno
      <3>4. MarkOf(h)' = m
        BY <1>2, <2>1 DEF MarkOf
      <3>5. e <= EndOf(m)
        BY <2>2
      <3> QED
        BY <2>1, <2>2, <3>2, <3>3, <3>4, <3>5 DEF ColumnsHold
    <2> QED
      BY <2>3, <2>4
  <1>5. CASE ~m.columnar
    <2>1. job' = Idle
      BY <1>2, <1>5 DEF Change
    <2> QED
      BY <2>1, NoColumns
  <1> QED
    BY <1>4, <1>5

\* One line of a columnar mark is removed: what is cut out is part of the mark.
LEMMA RemoveLineCuts ==
    ASSUME IInv, RemovalHolds, ColumnsHold, RemoveLine
    PROVE  /\ Abstract!CutOut(job.h, PartBegin, PartEnd - PartBegin)
           /\ Abstract!Next
           /\ ColumnsHold'
  <1>1. BufferOK /\ text \in Seq(Chars) /\ CallOK /\ job.op = "remove"
    BY DEF IInv, BufferOK, RemoveLine
  <1>t. job \in [op : {"remove"}, h : Handles, new : Seq(Chars), p : Nat,
                 top : Nat, from : Nat, to : Nat, want : Seq(Chars)]
    BY <1>1, JobKinds
  <1>2. PICK h \in Handles : h = job.h /\ slotOf[h] # 0
    BY <1>1, JobKinds
  <1>3. PICK p \in Nat, top \in Nat, from \in Nat, to \in Nat :
            /\ p = job.p /\ top = job.top /\ from = job.from /\ to = job.to
            /\ p <= Len(text)
    BY <1>1, JobKinds
  <1>4. LineStart(text, top) /\ LineStart(text, p) /\ top <= p
    BY <1>1, <1>3 DEF RemovalHolds
  <1>5. PICK x, y, u : /\ x = Colpos(text, p, from) /\ y = Colpos(text, p, to)
                       /\ u = text'
    OBVIOUS
  <1>6. /\ x <= y /\ x = PartBegin /\ y = PartEnd
        /\ p \in 0..Len(text) /\ x \in p..Len(text) /\ y \in x..Len(text)
        /\ u \in Seq(Chars) /\ CutFromLine(u, text, p, x, y)
    BY <1>3, <1>4, <1>5, PartIsCut
  <1>7. PICK len \in Nat : len = y - x
    BY <1>5, <1>6
  <1>8. x \in Nat /\ y \in Nat /\ x + len <= Len(text) /\ <<>> \in Seq(Chars)
        /\ Len(<<>>) = 0
    BY <1>3, <1>5, <1>6, <1>7
  <1>9. Edit(marks, x, len, <<>>) /\ slotOf' = slotOf /\ answer' = NoAnswer
    BY <1>1, <1>6, <1>7, JobKinds DEF RemoveLine
  <1>10. Abstract!Replaced(Handles, x, len, <<>>)
    BY <1>1, <1>8, <1>9, EditReplaces
  <1>11. PICK m, a : m = MarkOf(h) /\ a = MarkOf(h)'
    OBVIOUS
  <1>12. PICK b \in Nat, l \in Nat, c \in Nat, k \in Nat :
             /\ m.begin = b /\ m.len = l /\ a.begin = c /\ a.len = k
             /\ b + l <= Len(text)
             /\ b <= x => c = b
             /\ b < x /\ x + len <= b + l => c + k >= x
    <2>1. HeldMoved(m, a, x, len)
      BY <1>1, <1>2, <1>8, <1>9, <1>11, HeldMoves
    <2> QED
      BY <2>1 DEF HeldMoved
  <1>13. top = Boln(text, b) /\ from = Colno(text, b) /\ y <= b + l
    BY <1>1, <1>2, <1>3, <1>5, <1>11, <1>12 DEF ColumnsHold, EndOf
  <1>14. PICK above : above = LineAbove(u, p)
    OBVIOUS
  <1>15. /\ LineStart(text, top) /\ LineStart(text, p) /\ top <= p
         /\ b \in 0..Len(text) /\ top = Boln(text, b) /\ from = Colno(text, b)
         /\ x \in Nat /\ x = Colpos(text, p, from) /\ y \in Nat
         /\ text \in Seq(Chars) /\ u \in Seq(Chars) /\ CutFromLine(u, text, p, x, y)
    BY <1>1, <1>4, <1>5, <1>6, <1>8, <1>12, <1>13
  <1>16. /\ b <= x
         /\ above >= top => /\ b < x /\ Colpos(u, above, to) \in 0..x
                            /\ top = Boln(u, b) /\ from = Colno(u, b)
    BY <1>14, <1>15, LineWithinMark
  <1>17. above >= top => /\ top = Boln(u, c) /\ from = Colno(u, c)
                         /\ Colpos(u, above, to) <= c + k
    <2>1. HAVE above >= top
    <2>2. c = b /\ c + k >= x
      BY <1>7, <1>8, <1>12, <1>13, <1>16, <2>1
    <2>3. PICK z \in 0..x : z = Colpos(u, above, to)
      BY <1>16, <2>1
    <2>4. z <= c + k
      BY <1>8, <2>2
    <2> QED
      BY <1>16, <2>1, <2>2, <2>3, <2>4
  <1>18. Abstract!CutOut(h, x, len)
    <2>1. /\ MarkByHandle[h] # NoMark /\ MarkByHandle[h].begin = b
          /\ Abstract!EndOf(MarkByHandle[h]) = b + l
      BY <1>1, <1>2, <1>11, <1>12, MarkSeen DEF EndOf
    <2>2. x + len <= b + l
      BY <1>7, <1>8, <1>13
    <2> QED
      BY <1>10, <1>16, <2>1, <2>2 DEF Abstract!CutOut
  <1>19. Abstract!Next
    <2>1. x \in 0..Len(text) /\ len \in 0..Len(text)
      BY <1>1, <1>8
    <2> QED
      BY <1>18, <2>1, Zenon DEF Abstract!Next
  <1>20. ColumnsHold'
    <2>1. CASE above >= top
      <3>1. job' = [job EXCEPT !.p = above]
        BY <1>3, <1>5, <1>14, <2>1 DEF RemoveLine
      <3>2. /\ job'.op = "remove" /\ job'.h = h /\ job'.p = above
            /\ job'.top = top /\ job'.from = from /\ job'.to = to
        BY <1>t, <1>2, <1>3, <3>1
      <3>3. EndOf(a) = c + k
        BY <1>12 DEF EndOf
      <3> QED
        BY <1>5, <1>11, <1>12, <1>17, <2>1, <3>2, <3>3 DEF ColumnsHold
    <2>2. CASE ~(above >= top)
      <3>1. job' = InsertJob(u, marks'[slotOf[h]], h, job.new)
        BY <1>2, <1>3, <1>5, <1>14, <2>2 DEF RemoveLine
      <3>2. marks'[slotOf[h]] = a
        BY <1>9, <1>11 DEF MarkOf
      <3>3. job'.op = "insert" /\ job'.h = h /\ job'.begin = a.begin
        BY <3>1, <3>2 DEF InsertJob
      <3> QED
        BY <1>11, <3>3 DEF ColumnsHold
    <2> QED
      BY <2>1, <2>2
  <1> QED
    BY <1>2, <1>6, <1>7, <1>18, <1>19, <1>20

\* One line of a columnar mark is inserted, not before the mark.
LEMMA InsertLinePutsIn ==
    ASSUME IInv, ColumnsHold, InsertLine
    PROVE  /\ Abstract!PutIn(job.h, job.pos, Pad(job.rest, LineLength(job.rest), job.w))
           /\ Abstract!Next
           /\ ColumnsHold'
  <1>1. BufferOK /\ text \in Seq(Chars) /\ CallOK /\ job.op = "insert"
    BY DEF IInv, BufferOK, InsertLine
  <1>t. job \in [op : {"insert"}, h : Handles, rest : Seq(Chars), pos : Nat,
                 begin : Nat, end : Nat, col : Nat, w : Nat]
    BY <1>1, JobKinds
  <1>h. PICK h \in Handles : h = job.h /\ slotOf[h] # 0
    BY <1>1, JobKinds
  <1>2. PICK rest \in Seq(Chars), begin \in Nat, end \in Nat, pos \in Nat, w \in Nat :
            /\ rest = job.rest /\ pos = job.pos /\ w = job.w /\ begin = job.begin
            /\ begin <= end /\ end <= pos /\ pos <= Len(text)
    BY <1>1, JobKinds
  <1>3. PICK n \in 0..Len(rest) : /\ n = LineLength(rest)
                                 /\ \A i \in 1..n : rest[i] # NL
    BY LineLengthStops
  <1>4. PICK line : line = Pad(rest, n, w)
    OBVIOUS
  <1>5. line \in Seq(Chars) /\ Len(line) = w
    BY <1>3, <1>4, PadIsLine
  <1>6. Edit(marks, pos, 0, line) /\ slotOf' = slotOf /\ answer' = NoAnswer
    BY <1>1, <1>2, <1>3, <1>4, JobKinds DEF InsertLine
  <1>7. 0 \in Nat /\ pos + 0 <= Len(text)
    BY <1>2
  <1>8. Abstract!Replaced(Handles, pos, 0, line) /\ Abstract!Became(pos, 0) = line
    BY <1>1, <1>5, <1>6, <1>7, EditReplaces
  <1>9. PICK m, a : m = MarkOf(h) /\ a = MarkOf(h)'
    OBVIOUS
  <1>10. m.begin \in Nat /\ (m.begin <= pos => a.begin = m.begin)
    <2>1. HeldMoved(m, a, pos, 0)
      BY <1>1, <1>h, <1>2, <1>5, <1>6, <1>7, <1>9, HeldMoves
    <2> QED
      BY <2>1 DEF HeldMoved
  <1>11. m.begin = begin /\ begin <= pos
    BY <1>1, <1>h, <1>2, <1>9 DEF ColumnsHold
  <1>12. a.begin = begin
    BY <1>10, <1>11
  <1>13. MarkByHandle[h] # NoMark /\ MarkByHandle[h].begin = begin
    BY <1>1, <1>h, <1>9, <1>11, MarkSeen
  <1>14. Abstract!PutIn(h, pos, line)
    BY <1>8, <1>11, <1>13 DEF Abstract!PutIn
  <1>15. Abstract!Next
    <2>1. pos \in 0..Len(text)
      BY <1>1, <1>2
    <2>2. Abstract!PutIn(h, pos, Abstract!Became(pos, 0))
      BY <1>8, <1>14
    <2> QED
      BY <2>1, <2>2, Zenon DEF Abstract!Next
  <1>16. ColumnsHold'
    <2>1. \E r, e, q : job' = [job EXCEPT !.rest = r, !.end = e, !.pos = q]
      BY DEF InsertLine
    <2>2. job'.op = "insert" /\ job'.h = h /\ job'.begin = begin
      BY <1>t, <1>h, <1>2, <2>1
    <2> QED
      BY <1>9, <1>12, <2>2 DEF ColumnsHold
  <1> QED
    BY <1>h, <1>2, <1>3, <1>4, <1>14, <1>15, <1>16

\* The calls keep what holds of columnar changes.
LEMMA ColumnsStay ==
    ASSUME IInv, RemovalHolds, ColumnsHold, [Next]_vars
    PROVE  ColumnsHold'
  <1>1. ASSUME ClientCall
        PROVE  ColumnsHold'
    <2>1. job = Idle
      BY <1>1, ClientCallRemoves
    <2>2. ASSUME NEW h \in Handles, SbufInsertFile(h)
          PROVE  ColumnsHold'
      BY <2>2, NoColumns DEF SbufInsertFile, ReadJob
    <2>3. ASSUME NEW opened, SbufLoad(opened)
          PROVE  ColumnsHold'
      <3>1. job' = Idle \/ job'.op = "read"
        BY <2>3 DEF SbufLoad, ReadJob
      <3> QED
        BY <3>1, NoColumns
    <2>4. CASE job' = job
      BY <2>1, <2>4, NoColumns
    <2>5. \/ job' = job
          \/ \E h \in Handles :
                \/ SbufInsertFile(h)
                \/ slotOf[h] # 0 /\ \E new : Change(h, new)
          \/ \E opened \in Loads \cap {"yes", "none", "error"} : SbufLoad(opened)
      BY <1>1 DEF ClientCall, SbufMark, SbufRemark, SbufUnmark, SetMark, SbufStrchange,
             SbufChange, SbufSearch, SbufMarkNoMemory, SbufLoadNoMemory,
             SbufLoadNoName, SbufSetDirty, SbufLock, SbufUnlock, ClientWrite,
             SbufLineno, Ready
    <2> QED
      BY <2>1, <2>2, <2>3, <2>4, <2>5, ColumnsBegin
  <1>2. ASSUME NEW s \in Chunks, ReadChunk(s)
        PROVE  ColumnsHold'
    <2>1. job.op = "read" /\ CallOK
      BY <1>2 DEF ReadChunk, IInv
    <2>2. job \in [op : {"read"}, h : Handles, begin : Nat, got : Seq(Chars),
                   load : BOOLEAN]
      BY <2>1, JobKinds
    <2>3. job' = [job EXCEPT !.got = job.got \o s]
      BY <1>2 DEF ReadChunk
    <2>4. job'.op = "read"
      BY <2>2, <2>3
    <2> QED
      BY <2>4, NoColumns
  <1>3. CASE InsertLineAborts \/ InsertEnd \/ ColumnsNoMemory \/ ReadEnd \/ ReadError
    <2>1. job' = Idle \/ job' = Aborted
      BY <1>3 DEF InsertLineAborts, InsertEnd, ColumnsNoMemory, ReadEnd, ReadError
    <2>2. job'.op # "remove" /\ job'.op # "insert"
      BY <2>1 DEF Idle, Aborted
    <2> QED
      BY <2>2, NoColumns
  <1>4. CASE CallStep
    BY <1>2, <1>3, <1>4, RemoveLineCuts, InsertLinePutsIn DEF CallStep
  <1>5. CASE UNCHANGED vars
    BY <1>5 DEF vars, ColumnsHold, MarkOf
  <1> QED
    BY <1>1, <1>4, <1>5 DEF Next, Dead

LEMMA ColumnsHoldAlways == Spec => []ColumnsHold
  <1>1. Init => ColumnsHold
    BY DEF Init, ColumnsHold, Idle
  <1>2. IInv /\ RemovalHolds /\ ColumnsHold /\ [Next]_vars => ColumnsHold'
    BY ColumnsStay
  <1> QED
    BY Invariant, RemovalGoesOn, <1>1, <1>2, PTL DEF Spec

-----------------------------------------------------------------------------
\* The other steps of calls in progress, and the other calls.

\* The mark gets what was inserted.
LEMMA InsertEndSets ==
    ASSUME IInv, InsertEnd
    PROVE  MarkIsSet
  <1>1. BufferOK /\ BufferOK' /\ CallOK /\ job.op = "insert"
    BY InsertEndKeeps DEF IInv, InsertEnd
  <1>2. PICK h \in Handles : h = job.h /\ slotOf[h] # 0
    BY <1>1, JobKinds
  <1>3. PICK pos, len : pos = job.begin /\ len = job.end - job.begin
    OBVIOUS
  <1>4. /\ marks' = Remarked(marks, slotOf[h], pos, len)
        /\ UNCHANGED <<text, slotOf>> /\ answer' = NoAnswer
    BY <1>1, <1>2, <1>3, JobKinds DEF InsertEnd
  <1> QED
    BY <1>1, <1>2, <1>4, RemarkSetsMark

\* sbuf_load without memory moves the buffer's own mark.
LEMMA SbufLoadNoMemorySets ==
    ASSUME IInv, SbufLoadNoMemory
    PROVE  MarkIsSet
  <1>1. BufferOK /\ BufferOK' /\ Aux \in Handles /\ slotOf[Aux] # 0
    BY SbufLoadNoMemoryKeeps, HandlesAssumption DEF IInv, BufferOK, HandlesFit
  <1>2. /\ marks' = Remarked(marks, slotOf[Aux], 0, 0)
        /\ UNCHANGED <<text, slotOf>> /\ answer' = NoAnswer
    BY DEF SbufLoadNoMemory
  <1> QED
    BY <1>1, <1>2, RemarkSetsMark

\* The holder of the lock writes a character.
LEMMA ClientWriteOverwrites ==
    ASSUME IInv, NEW pos \in 0..Len(text) - 1, NEW c \in WriteChars,
           ClientWrite(pos, c)
    PROVE  Abstract!Overwrite
  <1>1. text \in Seq(Chars) /\ c \in Chars
    BY WriteCharsAssumption DEF IInv, BufferOK
  <1>2. PICK k \in 1..Len(text) : k = pos + 1
    BY <1>1
  <1>3. text' = [text EXCEPT ![k] = c]
    BY <1>2 DEF ClientWrite
  <1>4. Len(text') = Len(text) /\ text'[k] = c /\ k \in DOMAIN text
    BY <1>1, <1>3
  <1>5. MarkByHandle' = MarkByHandle /\ answer' = Abstract!NoAnswer
    BY SameOperators DEF ClientWrite, MarkByHandle, MarkOf
  <1> QED
    BY <1>3, <1>4, <1>5 DEF Abstract!Overwrite

\* sbuf_lineno answers, and what it answers is right when the cache is.
LEMMA SbufLinenoAnswers ==
    ASSUME IInv, LinesRight(pc, text), NEW pos \in QueryPos, SbufLineno(pos)
    PROVE  Abstract!AskLine
  <1>1. pos \in 0..Len(text) /\ text \in Seq(Chars)
    BY QueryPosAssumption DEF IInv, BufferOK, SbufLineno
  <1>2. answer'.pos = pos /\ UNCHANGED <<text, marks, slotOf>>
    BY DEF SbufLineno
  <1>3. answer'.line = LineOf(text, answer'.pos)
    BY <1>2, SbufLinenoKeeps
  <1>4. MarkByHandle' = MarkByHandle
    BY <1>2 DEF MarkByHandle, MarkOf
  <1> QED
    BY <1>1, <1>2, <1>3, <1>4, SameOperators DEF Abstract!AskLine

-----------------------------------------------------------------------------
\* Every step.

LEMMA ClientCallImplements ==
    ASSUME IInv, LinesRight(pc, text), ClientCall
    PROVE  Abstract!Next
  <1>a. ASSUME MarkIsSet \/ Abstract!Forget \/ Abstract!Overwrite \/ Abstract!AskLine
        PROVE  Abstract!Next
    BY <1>a, Zenon DEF MarkIsSet, Abstract!Next
  <1>1. BufferOK
    BY DEF IInv
  <1>2. ASSUME NEW h \in Handles, NEW pos \in Positions, NEW len \in Positions,
               SbufMark(h, pos, len) \/ SbufRemark(h, pos, len)
        PROVE  Abstract!Next
    <2>1. pos \in Nat /\ len \in Nat
      BY MaxLenAssumption DEF Positions
    <2>2. CASE SbufMark(h, pos, len)
      BY <1>a, <2>1, <2>2, SbufMarkSets
    <2>3. CASE SbufRemark(h, pos, len)
      <3>1. /\ marks' = Remarked(marks, slotOf[h], pos, len) /\ slotOf[h] # 0
            /\ UNCHANGED <<text, slotOf, pc>> /\ answer' = NoAnswer
            /\ pos + len <= Len(text)
        BY <2>3 DEF SbufRemark, Ready
      <3>2. BufferOK'
        BY <2>1, <3>1, RemarkKeeps
      <3> QED
        BY <1>a, <1>1, <3>1, <3>2, RemarkSetsMark
    <2> QED
      BY <1>2, <2>2, <2>3
  <1>3. ASSUME NEW h \in Handles, SbufUnmark(h) \/ SetMark(h)
        PROVE  Abstract!Next
    BY <1>a, <1>3, SbufUnmarkSets, SetMarkSets
  <1>4. ASSUME NEW h \in Handles, NEW new \in Inserts, SbufStrchange(h, new)
        PROVE  Abstract!Next
    <2>1. new \in Seq(Chars) /\ slotOf[h] # 0 /\ Change(h, new)
      BY <1>4, StringsAssumption DEF SbufStrchange, Ready
    <2> QED
      BY <2>1, ChangeIsPromised
  <1>5. ASSUME NEW h \in Handles, NEW repl \in Handles, SbufChange(h, repl)
        PROVE  Abstract!Next
    <2>1. /\ slotOf[h] # 0 /\ slotOf[repl] # 0
          /\ Change(h, Strat(text, MarkOf(repl)))
      BY <1>5 DEF SbufChange, Ready
    <2>2. Strat(text, MarkOf(repl)) \in Seq(Chars)
      BY <1>1, <2>1, HeldMark, StratIsText DEF BufferOK
    <2> QED
      BY <2>1, <2>2, ChangeIsPromised
  <1>6. ASSUME NEW h \in Handles, NEW inside \in Handles, NEW pat \in Patterns,
               NEW backward \in BOOLEAN, SbufSearch(h, inside, pat, backward)
        PROVE  Abstract!Next
    BY <1>a, <1>6, SbufSearchSets
  <1>7. ASSUME \/ \E h \in Handles : SbufInsertFile(h)
               \/ SbufLoadNoName
               \/ \E dirty \in BOOLEAN : SbufSetDirty(dirty)
               \/ SbufLock
               \/ SbufUnlock
        PROVE  Abstract!Next
    <2>1. UNCHANGED <<text, marks, slotOf>> /\ answer' = NoAnswer
      BY <1>7 DEF SbufInsertFile, SbufLoadNoName, SbufSetDirty, SbufLock, SbufUnlock
    <2> QED
      BY <1>a, <2>1, Unnoticed
  <1>8. ASSUME NEW opened, SbufLoad(opened)
        PROVE  Abstract!Next
    BY <1>8, SbufLoadClears
  <1>9. CASE SbufMarkNoMemory \/ SbufLoadNoMemory
    BY <1>a, <1>9, SbufMarkNoMemoryIsUnnoticed, SbufLoadNoMemorySets
  <1>10. ASSUME NEW pos \in 0..Len(text) - 1, NEW c \in WriteChars,
                ClientWrite(pos, c)
         PROVE  Abstract!Next
    BY <1>a, <1>10, ClientWriteOverwrites
  <1>11. ASSUME NEW pos \in QueryPos, SbufLineno(pos)
         PROVE  Abstract!Next
    BY <1>a, <1>11, SbufLinenoAnswers
  <1> QED
    BY <1>2, <1>3, <1>4, <1>5, <1>6, <1>7, <1>8, <1>9, <1>10, <1>11, Zenon
       DEF ClientCall

LEMMA CallStepImplements ==
    ASSUME IInv, RemovalHolds, ColumnsHold, CallStep
    PROVE  Abstract!Next
  <1>a. ASSUME MarkIsSet \/ Abstract!Forget
        PROVE  Abstract!Next
    BY <1>a, Zenon DEF MarkIsSet, Abstract!Next
  <1>1. CallOK
    BY DEF IInv
  <1>2. CASE RemoveLine \/ InsertLine \/ ReadError
    BY <1>2, RemoveLineCuts, InsertLinePutsIn, ReadErrorTakesBack
  <1>3. CASE InsertEnd
    BY <1>a, <1>3, InsertEndSets
  <1>4. CASE InsertLineAborts \/ ColumnsNoMemory \/ ReadEnd
    <2>1. UNCHANGED <<text, marks, slotOf, answer>> /\ job.op # "idle"
      BY <1>4 DEF InsertLineAborts, ColumnsNoMemory, ReadEnd
    <2>2. answer' = NoAnswer
      BY <1>1, <2>1, JobKinds
    <2> QED
      BY <1>a, <2>1, <2>2, Unnoticed
  <1>5. ASSUME NEW s \in Chunks, ReadChunk(s)
        PROVE  Abstract!Next
    <2>1. s \in Seq(Chars)
      BY StringsAssumption
    <2> QED
      BY <1>5, <2>1, ReadChunkAdds
  <1> QED
    BY <1>2, <1>3, <1>4, <1>5 DEF CallStep

\* An edit is the one that the caller asked for.
LEMMA EditsStayAsCalled ==
    ASSUME IInv, RemovalHolds, ColumnsHold
    PROVE  EditsAsCalled
  <1>1. BufferOK
    BY DEF IInv
  <1>2. ASSUME NEW h \in Handles, NEW new \in Inserts, SbufStrchange(h, new)
        PROVE  Changed(h, new)
    <2>1. new \in Seq(Chars) /\ slotOf[h] # 0 /\ Change(h, new)
      BY <1>2, StringsAssumption DEF SbufStrchange, Ready
    <2> QED
      BY <2>1, ChangeIsPromised
  <1>3. ASSUME NEW h \in Handles, NEW repl \in Handles, SbufChange(h, repl)
        PROVE  Changed(h, Strat(text, MarkOf(repl)))
    <2>1. /\ slotOf[h] # 0 /\ slotOf[repl] # 0
          /\ Change(h, Strat(text, MarkOf(repl)))
      BY <1>3 DEF SbufChange, Ready
    <2>2. Strat(text, MarkOf(repl)) \in Seq(Chars)
      BY <1>1, <2>1, HeldMark, StratIsText DEF BufferOK
    <2> QED
      BY <2>1, <2>2, ChangeIsPromised
  <1>4. ASSUME NEW s \in Chunks, ReadChunk(s)
        PROVE  Abstract!AddBlock(job.h, s)
    <2>1. s \in Seq(Chars)
      BY StringsAssumption
    <2> QED
      BY <1>4, <2>1, ReadChunkAdds
  <1> QED
    BY <1>2, <1>3, <1>4, SbufLoadClears, ReadErrorTakesBack, RemoveLineCuts,
       InsertLinePutsIn DEF EditsAsCalled

LEMMA NextImplements ==
    ASSUME IInv, LinesRight(pc, text), RemovalHolds, ColumnsHold, [Next]_vars
    PROVE  [Abstract!Next]_(Abstract!vars) /\ [EditsAsCalled]_vars
  <1>1. ASSUME ClientCall PROVE [Abstract!Next]_(Abstract!vars)
    BY <1>1, ClientCallImplements
  <1>2. ASSUME CallStep PROVE [Abstract!Next]_(Abstract!vars)
    BY <1>2, CallStepImplements
  <1>3. ASSUME UNCHANGED vars PROVE [Abstract!Next]_(Abstract!vars)
    <2>1. UNCHANGED <<text, marks, slotOf, answer>>
      BY <1>3 DEF vars
    <2>2. MarkByHandle' = MarkByHandle
      BY <2>1 DEF MarkByHandle, MarkOf
    <2> QED
      BY <2>1, <2>2 DEF Abstract!vars
  <1>4. EditsAsCalled
    BY EditsStayAsCalled
  <1> QED
    BY <1>1, <1>2, <1>3, <1>4 DEF Next, Dead

\* sbuf_create
LEMMA InitImplements == Init => Abstract!Init
  <1>1. SUFFICES ASSUME Init PROVE Abstract!Init
    OBVIOUS
  <1>2. text = <<>> /\ answer = Abstract!NoAnswer
    BY <1>1, SameOperators DEF Init
  <1>3. BufferOK
    BY <1>1, InitEstablishes DEF IInv
  <1>4. ASSUME NEW h \in Handles
        PROVE  MarkByHandle[h] \in Abstract!Placed(text) \cup {NoMark}
    <2>1. PICK ms, held : ms = marks /\ held = slotOf
      OBVIOUS
    <2>2. /\ text \in Seq(Chars) /\ MarksSound(ms, Len(text))
          /\ held \in [Handles -> 0..Len(ms)] /\ HandlesFit(ms, held)
      BY <1>3, <2>1 DEF BufferOK
    <2>3. held[h] # 0 => Abstract!InText(Shown(ms[held[h]]), text)
      BY <2>2, HeldInText
    <2>4. MarkByHandle[h] = IF held[h] = 0 THEN NoMark ELSE Shown(ms[held[h]])
      BY <2>1 DEF MarkByHandle, MarkOf
    <2> QED
      BY <2>3, <2>4 DEF Abstract!InText
  <1>5. MarkByHandle \in [Handles -> Abstract!Placed(text) \cup {NoMark}]
    BY <1>4 DEF MarkByHandle, MarkOf
  <1> QED
    BY <1>2, <1>5 DEF Abstract!Init

\* The editing buffer keeps its promise: through every sequence of calls, the
\* steps of unfinished ones included, every text-changing call changes the range
\* it is given by its caller's mark, or has come to, and every mark moves with
\* that edit as clients are told, whatever slots the marks are kept in; only the
\* mark that a file is read through is, by design, what was read.  Line numbers
\* are answered right from the cache.  The holder of sbuf_lock may write into the
\* text, but no newlines.
THEOREM SbufKeepsPromise ==
    ASSUME NL \notin WriteChars
    PROVE  Spec => KeepsPromise
  <1>1. (/\ IInv /\ (LinesRight(pc, text) /\ AnswersAreRight)
         /\ RemovalHolds /\ ColumnsHold /\ [Next]_vars)
            => [Abstract!Next]_(Abstract!vars) /\ [EditsAsCalled]_vars
    <2> SUFFICES ASSUME IInv, LinesRight(pc, text), RemovalHolds, ColumnsHold,
                        [Next]_vars
                 PROVE  [Abstract!Next]_(Abstract!vars) /\ [EditsAsCalled]_vars
      OBVIOUS
    <2> QED
      BY NextImplements
  <1> QED
    BY Invariant, LinesStayRight, RemovalGoesOn, ColumnsHoldAlways, InitImplements,
       <1>1, PTL
       DEF Spec, KeepsPromise, Abstract!Spec

=============================================================================
