--------------------------------- MODULE Stack ---------------------------------
(***************************************************************************)
(* Stacks (stack/): two arrays that grow together, of pointers to the data *)
(* and of their sizes.  A datum whose size is 0 is a pointer of the        *)
(* client's, any other a copy that the stack makes.                        *)
(***************************************************************************)
EXTENDS Heap, SequencesExt

CONSTANTS
    Data,       \* the data that clients push
    Copied,     \* those that they give with their size
    NULL,
    Junk,       \* what realloc leaves in the new part of a block
    Growth,     \* by how much the arrays grow, 64 in the code
    MaxLine     \* bound on the height of the stack

VARIABLES
    stack,      \* [data, size, allocated, used], or NULL
    heap,       \* the copies of data, [copyof]
    answer      \* what the last call returned

vars == <<stack, heap, answer>>

Init == stack = NULL /\ heap = NoBlocks /\ answer = NULL

Pointers == {stack.data[i] : i \in 1..stack.used}

Datum(p) == IF p \in Data THEN p ELSE heap[p].copyof

Lost == DOMAIN heap \ (IF stack = NULL THEN {} ELSE Pointers)

-----------------------------------------------------------------------------
\* (Bound: clients give up once a stack has been destroyed with copies in it.)
StackCreate ==
    /\ stack = NULL /\ heap = NoBlocks
    /\ stack' \in {NULL, [data |-> <<>>, size |-> <<>>, allocated |-> 0, used |-> 0]}
    /\ answer' = NULL
    /\ UNCHANGED heap

\* The data are popped, and copies of them forgotten.
StackDestroy ==
    /\ stack # NULL
    /\ stack' = NULL
    /\ answer' = NULL
    /\ UNCHANGED heap

\* realloc of both arrays, and the loop that clears their new part
Reallocated(st) ==
    LET Longer(array, fill) ==
            [i \in 1..st.allocated + Growth |-> IF i <= st.allocated THEN array[i] ELSE fill]
    IN  [data |-> Longer(st.data, NULL), size |-> Longer(st.size, 0),
         allocated |-> st.allocated + Growth, used |-> st.used]

\* When only the array of the data could be made larger.
HalfReallocated(st) ==
    [st EXCEPT !.data = [i \in 1..st.allocated + Growth |->
                            IF i <= st.allocated THEN st.data[i] ELSE Junk]]

WithRoom == IF stack.used = stack.allocated THEN Reallocated(stack) ELSE stack

Pushed(st, p, bytes) ==
    [st EXCEPT !.data[st.used + 1] = p, !.size[st.used + 1] = bytes, !.used = @ + 1]

StackPush(d) ==
    /\ stack # NULL /\ stack.used < MaxLine
    /\ LET p == FreeAddress(heap) IN
        /\ stack' = IF d \in Copied THEN Pushed(WithRoom, p, 1) ELSE Pushed(WithRoom, d, 0)
        /\ heap' = IF d \in Copied THEN Stored(heap, p, [copyof |-> d]) ELSE heap
    /\ answer' = "ok"

\* One of the arrays cannot grow, or there is no memory for the copy.
StackPushFails ==
    /\ stack # NULL
    /\ \/ stack.used = stack.allocated /\ stack' \in {stack, HalfReallocated(stack)}
       \/ stack' = WithRoom
    /\ answer' = "failed"
    /\ UNCHANGED heap

\* The datum that is returned is the client's, who frees it when it is a copy.
StackPop ==
    /\ stack # NULL /\ stack.used > 0
    /\ LET used == stack.used - 1
           p    == stack.data[used + 1]
       IN   /\ stack' = [stack EXCEPT !.used = used, !.data[used + 1] = NULL,
                                      !.size[used + 1] = 0]
            /\ answer' = Datum(p)
            /\ heap' = Freed(heap, p)

StackIsEmpty ==
    /\ stack # NULL
    /\ answer' = IF stack.used = 0 THEN "empty" ELSE "not empty"
    /\ UNCHANGED <<stack, heap>>

\* What stack_copy allocates, in this order: the Stack, its two arrays, and the copies of
\* data.
CopyBlocks ==
    LET whole == SelectSeq([i \in 1..stack.used |-> i], LAMBDA i : stack.size[i] # 0)
    IN  <<[part |-> "stack"], [part |-> "data"], [part |-> "size"]>>
            \o [k \in DOMAIN whole |-> heap[stack.data[whole[k]]]]

\* The heap when it has got the first n of them, and the addresses that they are at
CopyMade(n) ==
    LET made[k \in 0..n] ==
            IF k = 0 THEN [heap |-> heap, at |-> <<>>]
            ELSE LET p == FreeAddress(made[k - 1].heap)
                 IN  [heap |-> Stored(made[k - 1].heap, p, CopyBlocks[k]),
                      at   |-> Append(made[k - 1].at, p)]
    IN  made[n]

\* At the label error, the arrays and the Stack are freed, but not the copies.
CopyUndone(made) ==
    [a \in DOMAIN made.heap \ {made.at[k] : k \in DOMAIN made.at \cap 1..3} |-> made.heap[a]]

\* stack_copy of a stack that is not empty returns NULL, also when it succeeds.
\* (That of an empty stack makes one like stack_create.  Bound: clients do not go on
\* with it for ever.)
StackCopy ==
    /\ stack # NULL /\ stack.used > 0 /\ Lost = {}
    /\ \/ \E n \in 0..Len(CopyBlocks) - 1 : heap' = CopyUndone(CopyMade(n))
       \/ heap' = CopyMade(Len(CopyBlocks)).heap
    /\ answer' = "failed"
    /\ UNCHANGED stack

Next ==
    \/ StackCreate \/ StackDestroy \/ StackPushFails
    \/ StackPop \/ StackIsEmpty \/ StackCopy
    \/ \E d \in Data : StackPush(d)

Spec == Init /\ [][Next]_vars

-----------------------------------------------------------------------------
\* Properties.

\* A stack gives back what was pushed, the latest first, each datum once, and a
\* push that fails changes nothing, whichever allocation failed; nor does
\* stack_copy.
Promise == INSTANCE LineSpec WITH
    Nothing     <- NULL,
    TakesBehind <- TRUE,
    line        <- IF stack = NULL THEN NULL
                   ELSE [i \in 1..stack.used |-> Datum(stack.data[i])]

KeepsPromise == Promise!Spec

\* The blocks that stack_copy may lose: a whole copy that it does not return, or, when
\* memory runs out, the copies of data that it has made, but neither its Stack nor an
\* array.
LostByCopy(blocks) ==
    LET parts == {a \in blocks : "part" \in DOMAIN heap'[a]}
    IN  /\ blocks \cap DOMAIN heap = {}
        /\ parts = {} \/ Cardinality(blocks) = Len(CopyBlocks)

\* Calls lose no memory, whether they succeed or fail at any of their allocations, with
\* two exceptions: stack_destroy forgets the copies that are in the stack, and these
\* only; and stack_copy loses what it has itself allocated, but nothing of the stack.
NothingIsLost ==
    [][CASE StackCopy    -> LostByCopy(Lost' \ Lost)
         [] stack = NULL -> Lost' = Lost
         [] OTHER        -> Lost' = Lost \cup (IF stack' = NULL THEN DOMAIN heap \cap Pointers
                                               ELSE {})]_vars
===============================================================================
