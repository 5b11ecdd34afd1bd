---------------------------------- MODULE Hash ----------------------------------
(***************************************************************************)
(* Hash tables (hash/): a table of linked lists, one for each remainder of *)
(* the hash value.  A datum whose size is 0 is a pointer of the client's,  *)
(* any other a copy that the table makes.                                  *)
(***************************************************************************)
EXTENDS Heap, SequencesExt

CONSTANTS
    Data,       \* the data that clients install
    Copied,     \* those that they install with their size
    KeyOf,      \* what the client's cmp compares them by
    HashOf,     \* the client's hash function
    TableSize,  \* __HASHTAB_SIZE
    NULL

VARIABLES
    tab,        \* the first nodes of the lists, or NULL without a table
    heap,       \* nodes [data, size, val, next] and copies [copyof]
    answer      \* what the last call returned or showed, in a sequence

vars == <<tab, heap, answer>>

Init == tab = NULL /\ heap = NoBlocks /\ answer = <<>>

-----------------------------------------------------------------------------
\* The nodes of the list that begins at p.
List(p) ==
    LET node[i \in 1..Cardinality(DOMAIN heap) + 1] ==
            IF i = 1 THEN p
            ELSE IF node[i - 1] = NULL THEN NULL ELSE heap[node[i - 1]].next
        end == CHOOSE i \in DOMAIN node :
                    node[i] = NULL /\ \A j \in 1..i - 1 : node[j] # NULL
    IN  SubSeq(node, 1, end - 1)

\* The nodes of the table in the order of hash_iter.
Nodes == FlattenSeq([i \in 1..TableSize |-> List(tab[i - 1])])

Datum(p) == IF p \in Data THEN p ELSE heap[p].copyof

Index(d) == HashOf[d] % TableSize

\* val == p->val && cmp(data, p->data) == 0
SameDatum(d, p) == HashOf[d] = heap[p].val /\ KeyOf[d] = KeyOf[Datum(heap[p].data)]

\* The positions in its list of the nodes that hold a datum like d; the loops
\* stop at the first.
Matches(d) == {i \in DOMAIN List(tab[Index(d)]) : SameDatum(d, List(tab[Index(d)])[i])}

IsFirst(i, positions) == i \in positions /\ \A j \in positions : i <= j

-----------------------------------------------------------------------------
HashCreate ==
    /\ tab = NULL
    /\ tab' \in {NULL, [i \in 0..TableSize - 1 |-> NULL]}
    /\ answer' = <<>>
    /\ UNCHANGED heap

HashDestroy ==
    /\ tab # NULL
    /\ heap' = [a \in DOMAIN heap \
                        (Range(Nodes) \cup {heap[p].data : p \in Range(Nodes)}) |-> heap[a]]
    /\ tab' = NULL
    /\ answer' = <<>>

HashInstallFinds(d) ==
    /\ tab # NULL
    /\ \E i \in Matches(d) :
        /\ IsFirst(i, Matches(d))
        /\ answer' = <<Datum(heap[List(tab[Index(d)])[i]].data)>>
    /\ UNCHANGED <<tab, heap>>

HashInstall(d) ==
    /\ tab # NULL /\ Matches(d) = {}
    /\ LET p       == FreeAddress(heap)
           Node(x, bytes) == Stored(heap, p, [data |-> x, size |-> bytes, val |-> HashOf[d],
                                              next |-> tab[Index(d)]])
           q       == FreeAddress(Node(d, 0))
       IN   /\ heap' = IF d \in Copied THEN Stored(Node(q, 1), q, [copyof |-> d]) ELSE Node(d, 0)
            /\ tab' = [tab EXCEPT ![Index(d)] = p]
    /\ answer' = <<d>>

\* There is no memory for the node; or none for the copy, and the node is freed.
HashInstallFails(d) ==
    /\ tab # NULL /\ Matches(d) = {}
    /\ \/ UNCHANGED heap
       \/ /\ d \in Copied
          /\ LET p == FreeAddress(heap)
             IN  heap' = Freed(Stored(heap, p, [data |-> NULL]), p)
    /\ answer' = <<>>
    /\ UNCHANGED tab

HashLookup(d) ==
    /\ tab # NULL
    /\ \/ \E i \in Matches(d) :
            /\ IsFirst(i, Matches(d))
            /\ answer' = <<Datum(heap[List(tab[Index(d)])[i]].data)>>
       \/ Matches(d) = {} /\ answer' = <<>>
    /\ UNCHANGED <<tab, heap>>

HashUninstall(d) ==
    /\ tab # NULL
    /\ LET list == List(tab[Index(d)]) IN
        \/ \E i \in Matches(d) :
            /\ IsFirst(i, Matches(d))
            /\ LET next == heap[list[i]].next
                   kept == Freed(Freed(heap, list[i]), heap[list[i]].data)
               IN   IF i = 1
                    THEN tab' = [tab EXCEPT ![Index(d)] = next] /\ heap' = kept
                    ELSE tab' = tab /\ heap' = [kept EXCEPT ![list[i - 1]].next = next]
            /\ answer' = <<"found">>
        \/ Matches(d) = {} /\ answer' = <<"not found">> /\ UNCHANGED <<tab, heap>>

\* The function that hash_iter calls returns 0 or -1 for the nth datum, or never.
HashIter ==
    /\ tab # NULL
    /\ LET shown == [i \in 1..Len(Nodes) |-> Datum(heap[Nodes[i]].data)] IN
        \/ answer' = <<"all">> \o shown
        \/ \E n \in 1..Len(Nodes) : answer' = <<"stopped">> \o SubSeq(shown, 1, n)
    /\ UNCHANGED <<tab, heap>>

Next ==
    \/ HashCreate \/ HashDestroy \/ HashIter
    \/ \E d \in Data :
        \/ HashInstallFinds(d) \/ HashInstallFails(d) \/ HashInstall(d)
        \/ HashLookup(d) \/ HashUninstall(d)

Spec == Init /\ [][Next]_vars

-----------------------------------------------------------------------------
\* Properties.

\* Whatever was installed and not uninstalled since is found, and nothing else;
\* of equal data only the first is installed; and every datum is shown once.
Promise == INSTANCE TableSpec WITH
    Nothing   <- NULL,
    installed <- IF tab = NULL THEN NULL ELSE {Datum(heap[p].data) : p \in Range(Nodes)}

KeepsPromise == Promise!Spec

\* Every node and every copy can be reached from the table, after calls that failed,
\* too, and nothing is left of a table that was destroyed.
NothingIsLost ==
    DOMAIN heap \subseteq IF tab = NULL THEN {}
                          ELSE Range(Nodes) \cup {heap[p].data : p \in Range(Nodes)}
===============================================================================
