--------------------------------- MODULE Tbuf ---------------------------------
(***************************************************************************)
(* Text buffers that never change (tbuf/tbuf.c).  The text of a buffer is  *)
(* in the chunks at the leaves of a tree; copies and catenations of        *)
(* buffers share the parts of the trees that they have in common, and a    *)
(* garbage collection at each tbuf_destroy frees what no buffer has any    *)
(* longer.                                                                 *)
(***************************************************************************)
EXTENDS Integers, FiniteSets, SequencesExt

CONSTANTS
    Buffers,    \* the handles that clients keep a Tbuf in
    Ids,        \* the chunks and nodes that there is memory for
    ChunkMax,   \* CHUNK_MAX
    NodeMax,    \* NODE_MAX
    Texts,      \* what clients create buffers with
    Starts,     \* and the ranges that they copy
    Lengths,
    MaxLen,     \* bound: the longest text that is made by catenation
    Junk        \* a character from behind the end of a chunk

ASSUME IdsAssumption == Ids \subseteq Nat \ {0}
ASSUME MaxAssumption == ChunkMax \in Nat \ {0} /\ NodeMax \in Nat \ {0, 1}

VARIABLES
    heap,       \* chunk_chain, node_chain and free_nodes
    buf,        \* tbuf_chain
    crashed     \* an assertion failed, a null pointer was followed, or a chunk was
                \* taken for a node: what comes then is undefined

vars == <<heap, buf, crashed>>

NULL  == 0
Crash == -1     \* in place of a result

Unused == [kind |-> "unused"]
Spare  == [kind |-> "spare"]            \* a node in free_nodes
Chunk(chars) ==
    [kind |-> "chunk", height |-> 1, length |-> Len(chars), chars |-> chars]
NoTbuf == [height |-> -1, offset |-> 0, length |-> 0, root |-> NULL]

Kids(h, p) == IF p # NULL /\ h[p].kind = "node" THEN h[p].kids ELSE <<>>
SumOf(h, kids) == FoldLeft(LAMBDA n, k : n + h[k].length, 0, kids)

Live(bs) == {b \in Buffers : bs[b] # NoTbuf}

\* What a chunk or node is the root of.
RECURSIVE Below(_, _)
Below(h, p) == {p} \cup UNION {Below(h, k) : k \in Range(Kids(h, p))}

RECURSIVE TextBelow(_, _)
TextBelow(h, p) ==
    IF h[p].kind = "chunk" THEN h[p].chars
    ELSE FlattenSeq([i \in DOMAIN Kids(h, p) |-> TextBelow(h, Kids(h, p)[i])])

TextOf(b) ==
    IF buf[b].height = 0 THEN <<>>
    ELSE LET text == TextBelow(heap, buf[b].root)
         IN  SubSeq(text, buf[b].offset + 1,
                    Min({buf[b].offset + buf[b].length, Len(text)}))

Reachable(h, bs) ==
    UNION {Below(h, bs[b].root) : b \in {c \in Live(bs) : bs[c].height > 0}}

Init ==
    /\ heap = [i \in Ids |-> Unused]
    /\ buf = [b \in Buffers |-> NoTbuf]
    /\ crashed = FALSE

-----------------------------------------------------------------------------
\* Allocation.  What may fail returns the heap, h, and the new object or NULL, p.
\* malloc fails when all of Ids are taken.

Alloc(h, free, object) ==
    IF free = {} THEN [h |-> h, p |-> NULL]
    ELSE [h |-> [h EXCEPT ![Min(free)] = object], p |-> Min(free)]

NewChunk(h, chars) == Alloc(h, {i \in Ids : h[i] = Unused}, Chunk(chars))

Node(h, height, kids) ==
    [kind |-> "node", height |-> height, length |-> SumOf(h, kids), kids |-> kids]

\* new_empty_node, to which kids are given at once.  NULL is passed on.
NewNodeOver(h, height, kids) ==
    LET spare == {i \in Ids : h[i] = Spare}
    IN  Alloc(h, IF spare # {} THEN spare ELSE {i \in Ids : h[i] = Unused},
              Node(h, height, kids))

\* The tree for as many characters as fit (new_chunk or new_node); rest is what is
\* left of them.
RECURSIVE NewTree(_, _, _)

\* The loops of new_node: the kids of the new node e.p; when there is no memory for one,
\* the node is left with none.
FillNode(e, height, chars) ==
    LET all == FoldLeft(LAMBDA s, i :
                    IF s.p = NULL \/ s.rest = <<>> THEN s
                    ELSE LET k == NewTree(s.h, height - 1, s.rest)
                         IN  [k EXCEPT !.kids = Append(s.kids, k.p)],
                    [h |-> e.h, p |-> e.p, rest |-> chars, kids |-> <<>>],
                    [i \in 1..NodeMax |-> i])
    IN  IF all.p = NULL THEN all
        ELSE [all EXCEPT !.p = e.p, !.h[e.p] = Node(all.h, height, all.kids)]

NewTree(h, height, chars) ==
    IF height > 1 THEN FillNode(NewNodeOver(h, 0, <<>>), height, chars)
    ELSE LET n == Min({Len(chars), ChunkMax})
             c == NewChunk(h, SubSeq(chars, 1, n))
         IN  [h |-> c.h, p |-> c.p, kids |-> <<>>,
              rest |-> SubSeq(chars, n + 1, Len(chars))]

\* build_tree
HeightFor(n) ==
    CHOOSE height \in 1..n :
        /\ n <= ChunkMax * NodeMax ^ (height - 1)
        /\ height > 1 => ChunkMax * NodeMax ^ (height - 2) < n

-----------------------------------------------------------------------------
\* tbuf_create and tbuf_destroy

\* garbage_collect marks by the visited of the objects: set in all that are in
\* chunk_chain and node_chain, and cleared in what a buffer reaches.  What comes out of
\* the loops does not depend on the order of the chains, which are sets here.

\* Faulty variant of AllVisited: visited is set in the chunks only.
AllVisitedChunksOnly(h) == {i \in Ids : h[i].kind = "chunk"}

AllVisited(h) == {i \in Ids : h[i].kind = "chunk"} \cup {i \in Ids : h[i].kind = "node"}

\* Faulty variant of NodeZeroVisited: the chunks below a node of height 2 are left out.
RECURSIVE NodeZeroVisitedForgets(_, _, _)
NodeZeroVisitedForgets(h, visited, node) ==
    IF h[node].height = 2 THEN visited \ {node}
    ELSE FoldLeft(LAMBDA v, k : NodeZeroVisitedForgets(h, v, k),
                  visited \ {node}, h[node].kids)

\* node_zero_visited: a node of height 2 is over chunks, the others are over nodes
RECURSIVE NodeZeroVisited(_, _, _)
NodeZeroVisited(h, visited, node) ==
    IF h[node].height = 2 THEN (visited \ {node}) \ Range(h[node].kids)
    ELSE FoldLeft(LAMBDA v, k : NodeZeroVisited(h, v, k), visited \ {node}, h[node].kids)

\* The loop over tbuf_chain.
ZeroVisited(h, bs, visited) ==
    FoldSet(LAMBDA b, v : CASE bs[b].height = 0 -> v
                            [] bs[b].height = 1 -> v \ {bs[b].root}
                            [] OTHER            -> NodeZeroVisited(h, v, bs[b].root),
            visited, Live(bs))

\* The loops that give the chunks that are still visited to chunk_destroy and such
\* nodes to node_destroy, and link the others to the new chains.
Swept(h, visited) ==
    [i \in Ids |-> CASE h[i].kind = "chunk" /\ i \in visited -> Unused
                     [] h[i].kind = "node" /\ i \in visited  -> Spare
                     [] OTHER                                -> h[i]]

GarbageCollect(h, bs) == Swept(h, ZeroVisited(h, bs, AllVisited(h)))

SetTbuf(b, height, offset, length, root) ==
    buf' = [buf EXCEPT ![b] = [height |-> height, offset |-> offset,
                               length |-> length, root |-> root]]

Crashes == crashed' = TRUE /\ UNCHANGED <<heap, buf>>

\* It returns NULL when there is no memory for the tree.
TbufCreate(b, chars) ==
    /\ ~crashed /\ buf[b] = NoTbuf
    /\ IF chars = <<>>
       THEN SetTbuf(b, 0, 0, 0, NULL) /\ UNCHANGED heap
       ELSE \E height \in {HeightFor(Len(chars))} :
            \E t \in {NewTree(heap, height, chars)} :
                IF t.p = NULL
                THEN heap' = GarbageCollect(t.h, buf) /\ UNCHANGED buf
                ELSE SetTbuf(b, height, 0, Len(chars), t.p) /\ heap' = t.h
    /\ UNCHANGED crashed

\* There is none for the Tbuf itself: the NULL of new_tbuf is followed.
TbufCreateNoMemory(b) == ~crashed /\ buf[b] = NoTbuf /\ Crashes

TbufDestroy(b) ==
    /\ ~crashed /\ buf[b] # NoTbuf
    /\ buf' = [buf EXCEPT ![b] = NoTbuf]
    /\ heap' = GarbageCollect(heap, buf')
    /\ UNCHANGED crashed

-----------------------------------------------------------------------------
\* tbuf_chars

\* memcpy of n characters that begin off into a chunk
ChunkCollect(chars, off, n) ==
    [i \in 1..n |-> IF off + i <= Len(chars) THEN chars[off + i] ELSE Junk]

\* Faulty variant of NodeCollect: n is not counted down.
RECURSIVE NodeCollectForgets(_, _, _)
NodeCollectForgets(h, node, s) ==
    IF h[node].length <= s.off THEN [s EXCEPT !.off = @ - h[node].length]
    ELSE FoldLeft(LAMBDA t, k :
            IF t.n = 0 THEN t
            ELSE IF h[node].height > 2 THEN NodeCollectForgets(h, k, t)
            ELSE IF t.n <= h[k].length
            THEN [t EXCEPT !.out = @ \o ChunkCollect(h[k].chars, t.off, t.n), !.n = 0]
            ELSE [t EXCEPT !.out = @ \o h[k].chars],
            s, h[node].kids)

\* node_collect, from s.off on for s.n characters, to s.out
RECURSIVE NodeCollect(_, _, _)
NodeCollect(h, node, s) ==
    IF h[node].length <= s.off THEN [s EXCEPT !.off = @ - h[node].length]
    ELSE FoldLeft(LAMBDA t, k :
            IF t.n = 0 THEN t
            ELSE IF h[node].height > 2 THEN NodeCollect(h, k, t)
            ELSE IF h[k].length <= t.off THEN [t EXCEPT !.off = @ - h[k].length]
            ELSE LET n == Min({t.n, h[k].length})
                 IN  [out |-> t.out \o ChunkCollect(h[k].chars, t.off, n),
                      off |-> IF t.n <= h[k].length THEN t.off ELSE 0,
                      n   |-> t.n - n],
            s, h[node].kids)

TbufChars(b, start, length) ==
    LET t == buf[b]
        n == Min({length, t.length - start})
    IN  IF start >= t.length THEN <<>>
        ELSE IF t.height = 1
        THEN ChunkCollect(heap[t.root].chars, start + t.offset, n)
        ELSE NodeCollect(heap, t.root, [out |-> <<>>, off |-> start + t.offset,
                                        n |-> n]).out

-----------------------------------------------------------------------------
\* tbuf_copy.  (chop_before never has anything to do: offset is 0 in a buffer
\* whose tree has nodes.)

\* The length of the kids of root up to the i-th, and the kid that has the character
\* offset.
LengthTo(h, root, i) == SumOf(h, SubSeq(h[root].kids, 1, i))
KidAt(h, root, offset) ==
    CHOOSE i \in DOMAIN h[root].kids :
        LengthTo(h, root, i - 1) <= offset /\ offset < LengthTo(h, root, i)

KidsChopped(root, i, new) == Append(SubSeq(new.h[root].kids, 1, i - 1), new.p)

\* Faulty variant of CopyChopped: the node is changed, not copied.
CopyChoppedInPlace(root, i, new) ==
    IF new.p = NULL THEN new
    ELSE [h |-> [new.h EXCEPT ![root] = Node(new.h, @.height, KidsChopped(root, i, new))],
          p |-> root]

\* Faulty variant of CopyChopped: the kids before the new one are left out.
CopyChoppedShort(root, i, new) ==
    IF new.p = NULL THEN new
    ELSE NewNodeOver(new.h, new.h[root].height, <<new.p>>)

\* copy_node with the kids before the i-th, and new.p
CopyChopped(root, i, new) ==
    IF new.p = NULL THEN new
    ELSE NewNodeOver(new.h, new.h[root].height, KidsChopped(root, i, new))

\* chop_after: the tree for the first offset characters of root.
RECURSIVE ChopAfter(_, _, _)
ChopAfter(h, root, offset) ==
    IF offset >= h[root].length THEN [h |-> h, p |-> root]
    ELSE LET i   == KidAt(h, root, offset)
             kid == h[root].kids[i]
             off == offset - LengthTo(h, root, i - 1)
         IN  CopyChopped(root, i,
                IF h[kid].kind = "chunk" THEN NewChunk(h, SubSeq(h[kid].chars, 1, off))
                ELSE ChopAfter(h, kid, off))

\* A node above height 2 that has one kid is not needed.
RECURSIVE Lowest(_, _)
Lowest(h, p) ==
    IF h[p].height > 2 /\ Len(h[p].kids) = 1 THEN Lowest(h, h[p].kids[1]) ELSE p

\* (When there is no memory for the Tbuf, it returns NULL and changes nothing, or
\* crashes like TbufCreateNoMemory when the copy is of no text.)
TbufCopy(a, b, start, length) ==
    /\ ~crashed /\ buf[a] # NoTbuf /\ buf[b] = NoTbuf
    /\ LET t == buf[a]
           n == Min({length, t.length - start})
       IN  IF start >= t.length \/ length = 0
           THEN SetTbuf(b, 0, 0, 0, NULL) /\ UNCHANGED <<heap, crashed>>
           ELSE IF t.height = 1
           THEN /\ SetTbuf(b, 1, t.offset + start, n, t.root)
                /\ UNCHANGED <<heap, crashed>>
           ELSE \E c \in {ChopAfter(heap, t.root, t.length)} :
                IF c.p = NULL THEN Crashes
                ELSE /\ heap' = c.h
                     /\ \E root \in {Lowest(c.h, c.p)} :
                            SetTbuf(b, c.h[root].height, 0, n, root)
                     /\ UNCHANGED crashed

-----------------------------------------------------------------------------
\* tbuf_cat

\* trim_chunk_tree: a tree with a node as its root
Trim(h, t) ==
    IF t.height = 1 THEN NewNodeOver(h, 2, <<t.root>>)
    ELSE ChopAfter(h, t.root, t.offset + t.length)

\* The kid of p at its right or its left side.
SideKid(h, p, side) ==
    CASE Kids(h, p) = <<>> -> NULL
      [] side = "right" /\ Kids(h, p) # <<>> -> Last(Kids(h, p))
      [] side = "left" /\ Kids(h, p) # <<>>  -> Head(Kids(h, p))

\* collect_right_side and collect_left_side: the tab of a tree.  The node of
\* height 2 is not entered.
SideOf(h, root, side) ==
    LET height == h[root].height
        at[i \in 1..height] == IF i = height THEN root ELSE SideKid(h, at[i + 1], side)
    IN  [i \in 0..height |-> IF i \in {0, 2} THEN NULL ELSE at[i]]

Entry(tab, i) == IF i \in DOMAIN tab THEN tab[i] ELSE NULL
Entries(tab, first, n) ==
    IF n <= 0 THEN <<>> ELSE [j \in 1..n |-> Entry(tab, first + j - 1)]

\* The loop of smart_cat over the heights, p being what was made at the one below.
RECURSIVE Levels(_, _, _, _, _, _)
Levels(h, i, height, tab1, tab2, p) ==
    LET n1   == Len(Kids(h, Entry(tab1, i)))
        n2   == Len(Kids(h, Entry(tab2, i)))
        kids == Entries(tab1, 0, n1 - 1) \o p \o Entries(tab1, 1, n2 - 1)
        Up(node) == Levels(node.h, i + 1, height, tab1, tab2, <<node.p>>)
    IN  IF i > height THEN [h |-> h, p |-> Head(p)]
        ELSE IF n1 + n2 > NodeMax \/ \A j \in Ids : h[j] \notin {Unused, Spare}
        THEN [h |-> h, p |-> NULL]
        ELSE IF \E k \in Range(kids) : k = NULL \/ h[k].height # i - 1
        THEN [h |-> h, p |-> Crash]
        ELSE Up(NewNodeOver(h, i, kids))

\* combine_chunks and what follows: two chunks that fit into one become one.
Combine(h, height, tab1, tab2) ==
    LET Above(c) == IF c.p = NULL THEN [h |-> h, p |-> Crash]
                    ELSE Levels(c.h, 2, height, tab1, tab2, <<c.p>>)
    IN  IF \E k \in {tab1[1], tab2[1]} : k = NULL \/ h[k].kind # "chunk"
        THEN [h |-> h, p |-> Crash]
        ELSE IF h[tab1[1]].length + h[tab2[1]].length > ChunkMax
        THEN Levels(h, 2, height, tab1, tab2, <<tab1[1], tab2[1]>>)
        ELSE Above(NewChunk(h, h[tab1[1]].chars \o h[tab2[1]].chars))

SmartCat(h, root1, root2) ==
    Combine(h, Max({h[root1].height, h[root2].height}),
            SideOf(h, root1, "right"), SideOf(h, root2, "left"))

RECURSIVE MakeOfHeight(_, _, _)
MakeOfHeight(h, p, height) ==
    LET Above(e) == IF e.p = NULL THEN e ELSE MakeOfHeight(e.h, e.p, height)
    IN  IF h[p].height >= height THEN [h |-> h, p |-> p]
        ELSE Above(NewNodeOver(h, h[p].height + 1, <<p>>))

\* A node above the two trees.  Only the first of them is made as high as the
\* other one (h2 is compared with itself).
StupidCat(h, root1, root2) ==
    LET OrCrash(new) == IF new.p = NULL THEN [new EXCEPT !.p = Crash] ELSE new
        Above(one) == IF one.p = NULL THEN one
                      ELSE OrCrash(NewNodeOver(one.h, one.h[one.p].height + 1,
                                               <<one.p, root2>>))
    IN  Above(MakeOfHeight(h, root1, h[root2].height))

\* The tree for two texts, once they have been trimmed to t1 and then t2.
Join(t1, t2) ==
    LET OrStupid(smart) == IF smart.p # NULL THEN smart
                           ELSE StupidCat(smart.h, t1.p, t2.p)
    IN  IF t1.p = NULL \/ t2.p = NULL THEN [h |-> t2.h, p |-> NULL]
        ELSE OrStupid(SmartCat(t2.h, t1.p, t2.p))

Cat(a, c) ==
    LET Then(t1) == Join(t1, Trim(t1.h, buf[c]))
    IN  Then(Trim(heap, buf[a]))

TbufCat(a, c, b) ==
    /\ ~crashed /\ buf[a] # NoTbuf /\ buf[c] # NoTbuf /\ buf[b] = NoTbuf
    /\ buf[a].length + buf[c].length <= MaxLen
    /\ IF buf[a].length = 0 \/ buf[c].length = 0
       THEN /\ buf' = [buf EXCEPT ![b] = buf[IF buf[a].length = 0 THEN c ELSE a]]
            /\ UNCHANGED <<heap, crashed>>
       ELSE \E new \in {Cat(a, c)} :
            IF new.p = Crash THEN Crashes
            ELSE /\ heap' = new.h
                 /\ \/ UNCHANGED buf     \* no memory, be it for the Tbuf only
                    \/ /\ new.p # NULL
                       /\ SetTbuf(b, new.h[new.p].height, 0, new.h[new.p].length, new.p)
                 /\ UNCHANGED crashed

Next ==
    \E b \in Buffers :
        \/ \E chars \in Texts : TbufCreate(b, chars)
        \/ TbufCreateNoMemory(b)
        \/ TbufDestroy(b)
        \/ \E a \in Buffers :
            \/ \E start \in Starts, length \in Lengths : TbufCopy(a, b, start, length)
            \/ \E c \in Buffers : TbufCat(a, c, b)

Spec == Init /\ [][Next]_vars

-----------------------------------------------------------------------------
\* Properties.

\* No buffer reaches what was freed, the lengths in its tree are those of the
\* texts below, which the searches by offset rely on, and its text is there.  What
\* a node is over fits into it, and what is free looks so.
TreesAreSound ==
    /\ \A i \in Ids : CASE heap[i].kind = "chunk" -> heap[i].length <= ChunkMax
                        [] heap[i].kind = "node"  -> Len(heap[i].kids) <= NodeMax
                        [] OTHER -> heap[i] \in {Unused, Spare}
    /\ \A b \in Live(buf) : buf[b].height = 0 <=> buf[b].root = NULL
    /\ \A b \in {c \in Live(buf) : buf[c].height > 0} :
            /\ \A p \in Below(heap, buf[b].root) :
                /\ heap[p].kind \in {"chunk", "node"}
                /\ heap[p].length = Len(TextBelow(heap, p))
                /\ heap[p].kind = "node" => heap[p].kids # <<>>
            /\ heap[buf[b].root].height = buf[b].height
            /\ buf[b].height > 1 => buf[b].offset = 0
            /\ buf[b].offset + buf[b].length <= heap[buf[b].root].length

\* Immutability: whatever is created, copied, catenated and destroyed, with all
\* that buffers share and with the nodes that are used again, a buffer keeps its
\* text.  Undo relies on it.
BuffersNeverChange ==
    [][\A b \in Live(buf) : buf'[b] # NoTbuf => TextOf(b)' = TextOf(b)]_vars

\* After a tbuf_destroy nothing is left that no buffer has: not of the buffer,
\* nor of operations that failed or of the trees that they trimmed.  What garbage_collect
\* unmarks, going by the heights of the buffers and the nodes, is what is found from the
\* roots by following whatever is a node.
DestroyFreesGarbage ==
    [][\A b \in Live(buf) : buf'[b] = NoTbuf =>
            {i \in Ids : heap'[i].kind \in {"chunk", "node"}} = Reachable(heap', buf')]_vars

\* tbuf_chars gives the right characters to those who ask for the beginning of a
\* text, and for any part of one that is in one chunk.
CharsAreRight ==
    \A b \in Live(buf), start \in Starts, length \in Lengths :
        start = 0 \/ buf[b].height <= 1 =>
            TbufChars(b, start, length) = SubSeq(TextOf(b), start + 1,
                                                 Min({start + length, buf[b].length}))

\* All of the text of t is in the first chunk of its tree, or is made so by trim.
InOneChunk(t) ==
    \/ t.height = 0
    \/ t.height = 1 /\ t.length = heap[t.root].length
    \/ /\ t.height = 2
       /\ Len(heap[t.root].kids) = 1 \/ t.length < heap[heap[t.root].kids[1]].length

\* A new buffer has its text, although memory may run out at any time: that which
\* it was created with, the beginning of the one it is a copy of, or any part if
\* that is a chunk; or the texts of two chunks.
NewBuffersAreRight ==
    [][\A b \in Buffers : buf[b] = NoTbuf /\ buf'[b] # NoTbuf =>
        /\ \A chars \in Texts : TbufCreate(b, chars) => TextOf(b)' = chars
        /\ \A a \in Live(buf), start \in Starts, length \in Lengths :
            /\ start = 0 \/ buf[a].height <= 1
            /\ TbufCopy(a, b, start, length)
            => TextOf(b)' = SubSeq(TextOf(a), start + 1,
                                   Min({start + length, buf[a].length}))
        /\ \A a, c \in Live(buf) :
            /\ InOneChunk(buf[a]) /\ InOneChunk(buf[c])
            /\ TbufCat(a, c, b)
            => TextOf(b)' = TextOf(a) \o TextOf(c)]_vars

\* tbuf_cat gives the text of the one buffer followed by that of the other.
CatJoins ==
    [][\A a, c \in Live(buf), b \in Buffers :
            TbufCat(a, c, b) /\ buf'[b] # NoTbuf =>
                TextOf(b)' = TextOf(a) \o TextOf(c)]_vars
=============================================================================
