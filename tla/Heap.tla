--------------------------------- MODULE Heap ---------------------------------
(***************************************************************************)
(* The part of the C library's heap that linked structures need: a heap is *)
(* a function from the addresses of the allocated blocks to what they      *)
(* hold.  A new block gets the lowest free address: the addresses of freed *)
(* blocks are used again at once.                                          *)
(***************************************************************************)
EXTENDS Naturals, Sequences, FiniteSets

NoBlocks == [a \in {} |-> 0]

\* The block that malloc returns next.
FreeAddress(heap) ==
    CHOOSE a \in 1..Cardinality(DOMAIN heap) + 1 :
        /\ a \notin DOMAIN heap
        /\ \A b \in 1..a - 1 : b \in DOMAIN heap

\* heap with something in the block at a, which may be new
Stored(heap, a, block) ==
    [b \in DOMAIN heap \cup {a} |-> IF b = a THEN block ELSE heap[b]]

Freed(heap, a) == [b \in DOMAIN heap \ {a} |-> heap[b]]
===============================================================================
