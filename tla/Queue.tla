--------------------------------- MODULE Queue ---------------------------------
(***************************************************************************)
(* Queues (queue/queue.c): a linked list from the front to the behind.  A  *)
(* datum is a pointer of the client's, or a copy that the queue makes and  *)
(* that belongs to the client once it has been removed.                    *)
(***************************************************************************)
EXTENDS Heap, SequencesExt

CONSTANTS
    Data,       \* the data that clients put into the queue
    Copied,     \* those that they give with their size
    NULL,
    MaxLine     \* bound on the length of the queue

VARIABLES
    queue,      \* [front, behind], or NULL
    heap,       \* nodes [data, previous] and copies [copyof]
    answer      \* what the last call returned

vars == <<queue, heap, answer>>

Init == queue = NULL /\ heap = NoBlocks /\ answer = NULL

-----------------------------------------------------------------------------
\* The nodes from the front on.
Nodes ==
    LET node[i \in 1..Cardinality(DOMAIN heap) + 1] ==
            IF i = 1 THEN queue.front
            ELSE IF node[i - 1] = NULL THEN NULL ELSE heap[node[i - 1]].previous
        last == CHOOSE i \in DOMAIN node :
                    node[i] = NULL /\ \A j \in 1..i - 1 : node[j] # NULL
    IN  IF queue = NULL THEN <<>> ELSE SubSeq(node, 1, last - 1)

\* What a pointer to a datum points at.
Datum(p) == IF p \in Data THEN p ELSE heap[p].copyof

-----------------------------------------------------------------------------
\* (Bound: clients give up once a queue has been destroyed with copies in it.)
QueueCreate ==
    /\ queue = NULL /\ heap = NoBlocks
    /\ queue' \in {NULL, [front |-> NULL, behind |-> NULL]}
    /\ answer' = NULL
    /\ UNCHANGED heap

\* The node is freed; a copy in it is not, as queue_remove leaves it to its
\* caller.
QueueDestroy ==
    /\ queue # NULL
    /\ queue' = NULL
    /\ heap' = [a \in DOMAIN heap \ Range(Nodes) |-> heap[a]]
    /\ answer' = NULL

QueueFront ==
    /\ queue # NULL /\ queue.front # NULL
    /\ answer' = Datum(heap[queue.front].data)
    /\ UNCHANGED <<queue, heap>>

\* The datum that is returned is the client's.  When it is a copy the client frees
\* it when it is done with it.
QueueRemove ==
    /\ queue # NULL /\ queue.front # NULL
    /\ LET p     == queue.front
           front == heap[p].previous
       IN
        /\ queue' = [front |-> front,
                     behind |-> IF front = NULL THEN NULL ELSE queue.behind]
        /\ heap' = Freed(Freed(heap, p), heap[p].data)
        /\ answer' = Datum(heap[p].data)

QueueIsEmpty ==
    /\ queue # NULL
    /\ answer' = IF queue.front = NULL THEN "empty" ELSE "not empty"
    /\ UNCHANGED <<queue, heap>>

\* queue_add puts the new node p behind the others.
Linked(h, p) ==
    IF queue.behind = NULL THEN h ELSE [h EXCEPT ![queue.behind].previous = p]

QueueAdd(d) ==
    /\ queue # NULL /\ Len(Nodes) < MaxLine
    /\ LET p    == FreeAddress(heap)
           one  == Stored(heap, p, [data |-> d, previous |-> NULL])
           q    == FreeAddress(one)
           both == Stored(Stored(heap, p, [data |-> q, previous |-> NULL]), q, [copyof |-> d])
       IN   /\ heap' = Linked(IF d \in Copied THEN both ELSE one, p)
            /\ queue' = [front  |-> IF queue.behind = NULL THEN p ELSE queue.front,
                         behind |-> p]
    /\ answer' = "ok"

\* The heap with a node in the block that malloc returns, whatever was in it.
NodeMade == Stored(heap, FreeAddress(heap), [data |-> NULL, previous |-> NULL])

\* Faulty variant of QueueAddFails: the node is not freed.
QueueAddFailsKeepsNode(d) ==
    /\ queue # NULL
    /\ UNCHANGED heap \/ (d \in Copied /\ heap' = NodeMade)
    /\ answer' = "failed"
    /\ UNCHANGED queue

\* There is no memory for the node; or none for the copy, and the node is freed.
QueueAddFails(d) ==
    /\ queue # NULL
    /\ UNCHANGED heap \/ (d \in Copied /\ heap' = Freed(NodeMade, FreeAddress(heap)))
    /\ answer' = "failed"
    /\ UNCHANGED queue

Next ==
    \/ QueueCreate \/ QueueDestroy \/ QueueFront \/ QueueRemove \/ QueueIsEmpty
    \/ \E d \in Data : QueueAdd(d) \/ QueueAddFails(d)

Spec == Init /\ [][Next]_vars

-----------------------------------------------------------------------------
\* Properties.

\* A queue gives back what was added, the oldest first, each datum once, and an
\* addition that fails changes nothing.
Promise == INSTANCE LineSpec WITH
    Nothing     <- NULL,
    TakesBehind <- FALSE,
    line        <- IF queue = NULL THEN NULL
                   ELSE [i \in 1..Len(Nodes) |-> Datum(heap[Nodes[i]].data)]

KeepsPromise == Promise!Spec

\* The copies in the queue, and the blocks that nobody can reach any longer.
Copies == DOMAIN heap \cap {heap[p].data : p \in Range(Nodes)}
Lost   == DOMAIN heap \ (Range(Nodes) \cup Copies)

\* Calls lose no memory, whether they succeed or fail at their first or second
\* allocation, except that queue_destroy forgets the copies that are in the queue, and
\* these only.  (The comment at queue.c:70 says that it destroys the contents.)
NothingIsLost == [][Lost' = Lost \cup (IF queue' = NULL THEN Copies ELSE {})]_vars
===============================================================================
