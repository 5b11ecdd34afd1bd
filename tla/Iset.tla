---------------------------------- MODULE Iset ----------------------------------
(***************************************************************************)
(* Sets of integers (iset/): a list of ranges, linked both ways, that is   *)
(* to be in order and without adjacent ranges.  Ranges are made, grown,    *)
(* joined, shrunk and split as numbers come and go.                        *)
(***************************************************************************)
EXTENDS Heap, Integers, SequencesExt

CONSTANTS
    Numbers,    \* the numbers that clients put into sets, an interval
    Added,      \* the ranges <<lo, hi>> that they add
    Removed,    \* and those that they remove
    NULL,
    MaxBlocks   \* how many ranges there is memory for

VARIABLES
    isets,      \* two sets: [lowest, highest], or NULL
    heap,       \* the ranges, [start, end, prev, next]
    assertions, \* whether the library was compiled without NDEBUG
    stopped,    \* an assertion has failed, or freed memory was used
    ret         \* what the last call returned

vars == <<isets, heap, assertions, stopped, ret>>

Init ==
    /\ isets = [i \in {1, 2} |-> NULL]
    /\ heap = NoBlocks
    /\ assertions \in BOOLEAN
    /\ stopped = FALSE
    /\ ret = 0

-----------------------------------------------------------------------------
\* The functions below work on one set and the heap, in a record
\* [is, heap, left, ret, stopped]: left more calls of malloc succeed.

\* The ranges from the lowest on.
List(is, h) ==
    LET r[i \in 1..Cardinality(DOMAIN h) + 1] ==
            IF i = 1 THEN is.lowest
            ELSE LET p == r[i - 1] IN IF p = NULL THEN NULL ELSE h[p].next
        end == CHOOSE i \in DOMAIN r : r[i] = NULL /\ \A j \in 1..i - 1 : r[j] # NULL
    IN  SubSeq(r, 1, end - 1)

\* The first range where n is not beyond limit, or NULL.
FirstUpTo(s, n, slack) ==
    LET list == List(s.is, s.heap)
        at   == {i \in DOMAIN list : n <= s.heap[list[i]].end + slack}
    IN  IF at = {} THEN NULL ELSE list[CHOOSE i \in at : \A j \in at : i <= j]

SetNext(h, r, next) == IF r = NULL THEN h ELSE [h EXCEPT ![r].next = next]
SetPrev(h, r, prev) == IF r = NULL THEN h ELSE [h EXCEPT ![r].prev = prev]

\* new_range at the end of the list; highest is trusted to be the last range.  (The
\* model does not follow what happens when it has been freed.)
AppendRange(s, n) ==
    LET r == FreeAddress(s.heap) IN
    IF s.is.highest \notin Range(List(s.is, s.heap)) \cup {NULL} THEN [s EXCEPT !.stopped = TRUE]
    ELSE [s EXCEPT
            !.heap = Stored(SetNext(@, s.is.highest, r), r,
                            [start |-> n, end |-> n, prev |-> s.is.highest, next |-> NULL]),
            !.is = [lowest |-> IF @.lowest = NULL THEN r ELSE @.lowest, highest |-> r],
            !.left = @ - 1]

\* new_range before another range
InsertBefore(s, n, before) ==
    LET r    == FreeAddress(s.heap)
        prev == s.heap[before].prev
    IN  [s EXCEPT
            !.heap = Stored(SetNext(SetPrev(@, before, r), prev, r), r,
                            [start |-> n, end |-> n, prev |-> prev, next |-> before]),
            !.is.lowest = IF prev = NULL THEN r ELSE @,
            !.left = @ - 1]

NewRange(s, n, before) ==
    IF before = NULL /\ assertions THEN [s EXCEPT !.stopped = TRUE]
    ELSE IF s.left = 0 THEN [s EXCEPT !.ret = -1]
    ELSE IF before = NULL THEN AppendRange(s, n) ELSE InsertBefore(s, n, before)

JoinPrev(s, r) ==
    LET x == s.heap[r] IN
    [s EXCEPT
        !.heap = Freed(SetPrev([@ EXCEPT ![x.prev].end = x.end, ![x.prev].next = x.next],
                               x.next, x.prev), r),
        !.is.highest = IF x.next = NULL THEN x.prev ELSE @]

\* Faulty variant of JoinNext: the next range keeps its start.
JoinNextKeepsStart(s, r) ==
    LET x == s.heap[r] IN
    [s EXCEPT
        !.heap = Freed(SetNext([@ EXCEPT ![x.next].prev = x.prev], x.prev, x.next), r),
        !.is.lowest = IF x.prev = NULL THEN x.next ELSE @]

JoinNext(s, r) ==
    LET x == s.heap[r] IN
    [s EXCEPT
        !.heap = Freed(SetNext([@ EXCEPT ![x.next].start = x.start, ![x.next].prev = x.prev],
                               x.prev, x.next), r),
        !.is.lowest = IF x.prev = NULL THEN x.next ELSE @]

JoinRanges(s, r) ==
    LET x      == s.heap[r]
        joins  == x.prev # NULL /\ s.heap[x.prev].end = x.start - 1
        t      == IF joins THEN JoinPrev(s, r) ELSE s
        q      == IF joins THEN x.prev ELSE r
        y      == t.heap[q]
    IN  IF y.next # NULL /\ t.heap[y.next].start = y.end + 1 THEN JoinNext(t, q) ELSE t

AddNumber(s, n) ==
    LET r == FirstUpTo(s, n, 1) IN
    IF r = NULL THEN NewRange(s, n, NULL)
    ELSE LET x == s.heap[r] IN
        IF x.start <= n /\ n <= x.end THEN s
        ELSE IF n = x.start - 1 THEN JoinRanges([s EXCEPT !.heap[r].start = n], r)
        ELSE IF n = x.end + 1 THEN JoinRanges([s EXCEPT !.heap[r].end = n], r)
        ELSE NewRange(s, n, r)

\* Faulty variant of RemoveRange: the next range still points back at it.
RemoveRangeKeepsPrev(s, r) ==
    LET x == s.heap[r] IN
    [s EXCEPT
        !.heap = Freed(SetNext(@, x.prev, x.next), r),
        !.is = [lowest  |-> IF x.prev = NULL THEN x.next ELSE @.lowest,
                highest |-> IF x.next = NULL THEN x.prev ELSE @.highest]]

\* The range r holds only the number that is removed.
RemoveRange(s, r) ==
    LET x == s.heap[r] IN
    [s EXCEPT
        !.heap = Freed(SetNext(SetPrev(@, x.next, x.prev), x.prev, x.next), r),
        !.is = [lowest  |-> IF x.prev = NULL THEN x.next ELSE @.lowest,
                highest |-> IF x.next = NULL THEN x.prev ELSE @.highest]]

\* highest still points at the first part.
Split(s, r, n) ==
    IF s.left = 0 THEN [s EXCEPT !.ret = -1]
    ELSE LET x   == s.heap[r]
             new == FreeAddress(s.heap)
         IN  [s EXCEPT !.heap =
                SetPrev(Stored([@ EXCEPT ![r].end = n - 1, ![r].next = new], new,
                               [start |-> n + 1, end |-> x.end, prev |-> r, next |-> x.next]),
                        x.next, new),
                       !.left = @ - 1]

RemoveNumber(s, n) ==
    LET r == FirstUpTo(s, n, 0) IN
    IF r = NULL THEN s
    ELSE LET x == s.heap[r] IN
        IF n < x.start THEN s
        ELSE IF x.start = n /\ x.end = n THEN RemoveRange(s, r)
        ELSE IF x.start = n THEN [s EXCEPT !.heap[r].start = n + 1]
        ELSE IF x.end = n THEN [s EXCEPT !.heap[r].end = n - 1]
        ELSE Split(s, r, n)

Goes(s) == s.ret = 0 /\ ~s.stopped

\* The loops that add or remove one number after the other and stop at a failure.
AddAll(s, numbers) ==
    LET done[k \in 0..Len(numbers)] ==
            IF k = 0 THEN s
            ELSE LET t == done[k - 1] IN IF Goes(t) THEN AddNumber(t, numbers[k]) ELSE t
    IN  done[Len(numbers)]

RemoveAll(s, numbers) ==
    LET done[k \in 0..Len(numbers)] ==
            IF k = 0 THEN s
            ELSE LET t == done[k - 1] IN IF Goes(t) THEN RemoveNumber(t, numbers[k]) ELSE t
    IN  done[Len(numbers)]

\* The numbers of a range, and of a set in the order of its ranges.
Interval(lo, hi) == [k \in 1..hi - lo + 1 |-> lo + k - 1]

InOrder(is, h) ==
    FlattenSeq([k \in DOMAIN List(is, h) |->
                    Interval(h[List(is, h)[k]].start, h[List(is, h)[k]].end)])

HasNumber(is, h, n) ==
    LET r == FirstUpTo([is |-> is, heap |-> h], n, 0)
    IN  r # NULL /\ h[r].start <= n /\ n <= h[r].end

\* One step of the loops of iset_isect, which are at the number i of the range r.
\* They go on using a range that iset_remove has freed.
IsectStep(x, others) ==
    IF ~Goes(x.s) \/ x.r = NULL THEN x
    ELSE IF x.r \notin DOMAIN x.s.heap THEN [x EXCEPT !.s.stopped = TRUE]
    ELSE LET range == x.s.heap[x.r] IN
        IF x.i > range.end
        THEN [x EXCEPT !.r = range.next,
                       !.i = IF range.next = NULL THEN x.i ELSE x.s.heap[range.next].start]
        ELSE IF x.i \in others THEN [x EXCEPT !.i = @ + 1]
        ELSE [x EXCEPT !.s = RemoveNumber(@, x.i), !.i = @ + 1]

Isect(s, others) ==
    LET steps == 2 * Cardinality(Numbers) + 1
        x[k \in 0..steps] ==
            IF k > 0 THEN IsectStep(x[k - 1], others)
            ELSE [s |-> s, r |-> s.is.lowest,
                  i |-> IF s.is.lowest = NULL THEN 0 ELSE s.heap[s.is.lowest].start]
    IN  x[steps].s

-----------------------------------------------------------------------------
Room == MaxBlocks - Cardinality(DOMAIN heap)

Start(i) == [is |-> isets[i], heap |-> heap, ret |-> 0, stopped |-> FALSE,
             left |-> Room]

\* A call has done its work on the set i, or stopped the program.
Finish(i, s) ==
    /\ isets' = IF s.stopped THEN [k \in {1, 2} |-> NULL] ELSE [isets EXCEPT ![i] = s.is]
    /\ heap' = IF s.stopped THEN NoBlocks ELSE s.heap
    /\ stopped' = s.stopped
    /\ ret' = s.ret
    /\ UNCHANGED assertions

IsSet(i) == ~stopped /\ isets[i] # NULL

IsetCreate(i) ==
    /\ ~stopped /\ isets[i] = NULL
    /\ isets' = [isets EXCEPT ![i] = [lowest |-> NULL, highest |-> NULL]]
    /\ ret' = 0
    /\ UNCHANGED <<heap, assertions, stopped>>

\* iset_clear; what is not in the list is not freed
Emptied(s) ==
    [s EXCEPT !.heap = [a \in DOMAIN @ \ Range(List(s.is, @)) |-> @[a]],
              !.is = [lowest |-> NULL, highest |-> NULL]]

IsetClear(i) == IsSet(i) /\ Finish(i, Emptied(Start(i)))

IsetDestroy(i) == IsSet(i) /\ Finish(i, [Emptied(Start(i)) EXCEPT !.is = NULL])

IsetAdd(i, n) == IsSet(i) /\ Finish(i, AddNumber(Start(i), n))

IsetRemove(i, n) == IsSet(i) /\ Finish(i, RemoveNumber(Start(i), n))

IsetAddRange(i, lo, hi) ==
    IsSet(i) /\ Finish(i, AddAll(Start(i), Interval(lo, hi)))

IsetRemoveRange(i, lo, hi) ==
    IsSet(i) /\ Finish(i, RemoveAll(Start(i), Interval(lo, hi)))

IsetUnion(i, j) ==
    IsSet(i) /\ IsSet(j) /\ Finish(i, AddAll(Start(i), InOrder(isets[j], heap)))

IsetDiff(i, j) ==
    IsSet(i) /\ IsSet(j) /\ Finish(i, RemoveAll(Start(i), InOrder(isets[j], heap)))

IsetIsect(i, j) ==
    /\ IsSet(i) /\ IsSet(j)
    /\ Finish(i, Isect(Start(i), {n \in Numbers : HasNumber(isets[j], heap, n)}))

\* The heap, the first and the last range when n ranges of a list have been
\* copied: they point back at each other, but not forward.
Copied(list, n) ==
    LET made[k \in 0..n] ==
            IF k = 0 THEN [heap |-> heap, first |-> NULL, last |-> NULL]
            ELSE LET m   == made[k - 1]
                     new == FreeAddress(m.heap)
                 IN  [heap  |-> Stored(m.heap, new,
                                    [heap[list[k]] EXCEPT !.prev = m.last, !.next = NULL]),
                      first |-> IF k = 1 THEN new ELSE m.first,
                      last  |-> new]
    IN  made[n]

IsetCopy(i, j) ==
    /\ IsSet(i) /\ isets[j] = NULL
    /\ LET list == List(isets[i], heap) IN
        /\ Len(list) <= Room
        /\ LET copy == Copied(list, Len(list)) IN
            /\ heap' = copy.heap
            /\ isets' = [isets EXCEPT ![j] = [lowest |-> copy.first, highest |-> copy.last]]
    /\ ret' = 0
    /\ UNCHANGED <<assertions, stopped>>

\* There is no memory for all of the ranges: the copy is destroyed, that is, its
\* first range is freed.
IsetCopyFails(i, j) ==
    /\ IsSet(i) /\ isets[j] = NULL
    /\ LET list == List(isets[i], heap) IN
        /\ Len(list) > Room
        /\ LET copy == Copied(list, Room) IN heap' = Freed(copy.heap, copy.first)
    /\ ret' = -1
    /\ UNCHANGED <<isets, assertions, stopped>>

\* Bound: clients work on the first set with single numbers, put a range of numbers, or a
\* copy of the first set, into the second one, and then combine the two.
Next ==
    \/ \E i \in {1, 2} : IsetCreate(i) \/ IsetClear(i) \/ IsetDestroy(i)
    \/ isets[2] = NULL /\ \E n \in Numbers : IsetAdd(1, n) \/ IsetRemove(1, n)
    \/ /\ isets[2] # NULL /\ isets[2].lowest = NULL
       /\ \E r \in Added : IsetAddRange(2, r[1], r[2])
    \/ \E r \in Removed : IsetRemoveRange(1, r[1], r[2])
    \/ IsetUnion(1, 2) \/ IsetDiff(1, 2) \/ IsetIsect(1, 2)
    \/ IsetCopy(1, 2) \/ IsetCopyFails(1, 2)

Spec == Init /\ [][Next]_vars

-----------------------------------------------------------------------------
\* Properties.

\* The set whose highest does not point at the last range: one that was split
\* there, or that was copied.
Stale(i) ==
    /\ isets[i] # NULL /\ isets[i].lowest # NULL
    /\ isets[i].highest # Last(List(isets[i], heap))

\* The numbers in a set, as iset_contains tells
NumbersIn(i) ==
    IF isets[i] = NULL THEN {} ELSE {n \in Numbers : HasNumber(isets[i], heap, n)}

\* What a call does that is to put numbers into a set, or to take them out of it.  A
\* call that fails has done so with some of them.
PutsIn(before, after, numbers) ==
    IF ret' = 0 THEN after = before \cup numbers
    ELSE before \subseteq after /\ after \subseteq before \cup numbers

TakesOut(before, after, numbers) ==
    IF ret' = 0 THEN after = before \ numbers
    ELSE before \ numbers \subseteq after /\ after \subseteq before

\* What the calls on a set i do to its numbers, also with another set j or a range.
CallsAreRight(i, j) ==
    LET before == NumbersIn(i)
        after  == NumbersIn(i)'
        others == NumbersIn(j)
    IN  /\ \A n \in Numbers :
            /\ IsetAdd(i, n) /\ ~Stale(i) => PutsIn(before, after, {n})
            /\ IsetRemove(i, n) => TakesOut(before, after, {n})
        /\ \A r \in Added : IsetAddRange(i, r[1], r[2]) /\ ~Stale(i)
                            => PutsIn(before, after, r[1]..r[2] \cap Numbers)
        /\ \A r \in Removed : IsetRemoveRange(i, r[1], r[2])
                            => TakesOut(before, after, r[1]..r[2] \cap Numbers)
        /\ IsetUnion(i, j) /\ ~Stale(i) => PutsIn(before, after, others)
        /\ IsetDiff(i, j) => TakesOut(before, after, others)
        /\ IsetIsect(i, j) => before \cap others \subseteq after /\ after \subseteq before
        /\ IsetCopy(i, j) => IF Len(List(isets[i], heap)) <= 1 THEN NumbersIn(j)' = before
                             ELSE NumbersIn(j)' \subseteq before
        /\ IsetCreate(i) \/ IsetClear(i) \/ IsetDestroy(i) => after = {}

\* The numbers in the other set stay.
OthersStay(i) == \A j \in {1, 2} \ {i} : NumbersIn(j)' = NumbersIn(j)

\* A call puts just the numbers that it is given into its set, or takes just them out of
\* it: iset_add, iset_add_range and iset_union (unless highest does not point at the last
\* range), iset_remove, iset_remove_range and iset_diff.  One that returns -1 has done so
\* with some of them.  iset_isect keeps what is in both sets and puts nothing in.  A copy
\* has the same numbers when there is one range of them, but no others ever.  And no call
\* changes the numbers of two sets.  So it is until an assertion fails or a freed range is
\* used.
KeepsPromise ==
    [][~stopped' => /\ \A i, j \in {1, 2} : i # j => CallsAreRight(i, j)
                    /\ \E i \in {1, 2} : OthersStay(i)]_vars

\* The loops of iset_isect go to the end: unless it returns -1 or uses a freed range, only
\* what is in both sets is left.
IsectIsWhole ==
    [][\A i, j \in {1, 2} : IsetIsect(i, j) /\ ~stopped' /\ ret' = 0
            => NumbersIn(i)' \subseteq NumbersIn(j)]_vars

\* The ranges of a set are in order, with a gap between any two of them, and can
\* be followed both ways; and the lists of two sets never meet.
ListsAreSound ==
    /\ \A i \in {1, 2} : isets[i] # NULL /\ ~stopped =>
        LET list == List(isets[i], heap) IN
        /\ \A k \in DOMAIN list :
            /\ heap[list[k]].start <= heap[list[k]].end
            /\ heap[list[k]].prev = IF k = 1 THEN NULL ELSE list[k - 1]
            /\ k > 1 => heap[list[k - 1]].end + 1 < heap[list[k]].start
    /\ isets[1] # NULL /\ isets[2] # NULL =>
        Range(List(isets[1], heap)) \cap Range(List(isets[2], heap)) = {}
===============================================================================
