--------------------------------- MODULE Priq ---------------------------------
(***************************************************************************)
(* Priority queues (priq/priq.c): a binary heap in a dynamic array.  The   *)
(* elements are pointers; of what they point at only the key matters that  *)
(* the comparison function compares.                                       *)
(***************************************************************************)
EXTENDS PriqOrder, SequencesExt

CONSTANTS
    Keys,       \* what the elements are compared by, integers
    NoKey,      \* no element, and not a key
    MaxUsed     \* how many elements the clients keep in the queue

VARIABLES
    arr,        \* the used elements of the array; arr[i + 1] is arr[i] in the code
    compare,    \* the comparison function
    answer      \* the element the last call returned, or NoKey

vars == <<arr, compare, answer>>

TypeOK ==
    /\ arr \in Seq(Keys) /\ Len(arr) <= MaxUsed
    /\ compare \in Orders
    /\ answer \in Keys \cup {NoKey}

\* priq_create
Init == arr = <<>> /\ compare \in Orders /\ answer = NoKey

-----------------------------------------------------------------------------
\* percolate_down: the hole at i moves down along the smaller children until it
\* is the place for the element that was there.
PercolateDown(a, cmp, i) ==
    LET Child(j) == IF 2 * j < Len(a) /\ Before(cmp, a[2 * j + 1], a[2 * j])
                    THEN 2 * j + 1 ELSE 2 * j
        down[j \in DOMAIN a] ==
            IF 2 * j > Len(a) \/ ~Before(cmp, a[Child(j)], a[i])
            THEN [a EXCEPT ![j] = a[i]]
            ELSE [down[Child(j)] EXCEPT ![j] = a[Child(j)]]
    IN  down[i]

\* The loop of priq_insert, in the code's indices, which begin at 0: the hole
\* moves up from the end of the array.
PercolateUp(a, cmp, x) ==
    LET up[i \in 0..Len(a)] ==
            IF i = 0 \/ ~Before(cmp, x, a[i \div 2 + 1])
            THEN [Append(a, x) EXCEPT ![i + 1] = x]
            ELSE [up[i \div 2] EXCEPT ![i + 1] = a[i \div 2 + 1]]
    IN  up[Len(a)]

PriqInsert(x) ==
    /\ Len(arr) < MaxUsed
    /\ arr' = PercolateUp(arr, compare, x)
    /\ answer' = NoKey
    /\ UNCHANGED compare

\* dynarr_resize or memdup fails before anything has changed.
PriqInsertNoMemory == answer' = NoKey /\ UNCHANGED <<arr, compare>>

\* The last element fills the place of the first, which is returned.
PriqRemove ==
    /\ arr # <<>>
    /\ answer' = arr[1]
    /\ LET last == Len(arr)
           rest == SubSeq([arr EXCEPT ![1] = arr[last]], 1, last - 1)
       IN  arr' = IF rest = <<>> THEN rest ELSE PercolateDown(rest, compare, 1)
    /\ UNCHANGED compare

\* Every inner node is percolated down, from the last to the root.
PriqSetCompare(cmp) ==
    /\ LET heap[i \in 0..Len(arr) \div 2] ==   \* the array before i, ..., 1 are done
            IF i = Len(arr) \div 2 THEN arr
                                   ELSE PercolateDown(heap[i + 1], cmp, i + 1)
       IN  arr' = heap[0]
    /\ compare' = cmp
    /\ answer' = NoKey

Next ==
    \/ \E x \in Keys : PriqInsert(x)
    \/ PriqInsertNoMemory
    \/ PriqRemove
    \/ \E cmp \in Orders : PriqSetCompare(cmp)

Spec == Init /\ [][Next]_vars

-----------------------------------------------------------------------------
\* Properties.

\* Every element is given back exactly once, whatever the comparison function
\* and however often it changes; and from a call of priq_set_compare to the
\* next insertion elements come out smallest first.
Promise == INSTANCE PriqSpec WITH
    elements <- ToBag(arr),
    inOrder  <- \A i \in 2..Len(arr) : ~Before(compare, arr[i], arr[i \div 2])

KeepsPromise == Promise!Spec

\* "Remove and return smallest element from priority queue", at any time.
RemovesSmallest ==
    [][PriqRemove => \A i \in DOMAIN arr : ~Before(compare, arr[i], answer')]_vars
=============================================================================
