-------------------------------- MODULE MCTbuf --------------------------------
(***************************************************************************)
(* Buffers with the beginnings of one text, so that each character tells   *)
(* where it comes from, in trees of up to three levels.                    *)
(***************************************************************************)
EXTENDS Tbuf, TLC

Alphabet == <<"a", "b", "c", "d", "e", "f", "g", "h">>
TextLengths == {1, 3, 5}

Beginnings == {SubSeq(Alphabet, 1, n) : n \in TextLengths}
Interchangeable == Permutations(Buffers)

\* Which memory an object has does not matter, nor what is in one that no buffer
\* reaches: the states are told apart by the objects in the order in which they are
\* first reached, and by how many there are of the others.
InOrder ==
    LET Visit[i \in Nat, seen \in Seq(Ids)] ==
            IF i > Len(seen) THEN seen
            ELSE Visit[i + 1,
                    FoldLeft(LAMBDA s, k : IF k \in Range(s) THEN s ELSE Append(s, k),
                             seen, Kids(heap, seen[i]))]
    IN  Visit[1, FoldLeft(LAMBDA s, b : IF buf[b].root \in Range(s) \cup {NULL} THEN s
                                       ELSE Append(s, buf[b].root),
                          <<>>, SetToSeq(Buffers))]

Reached ==
    LET order == InOrder
        Place(p) == IF p = NULL THEN 0 ELSE CHOOSE i \in DOMAIN order : order[i] = p
        kinds == {"chunk", "node", "spare"}
    IN  <<[b \in Buffers |-> [buf[b] EXCEPT !.root = Place(@)]],
          [i \in DOMAIN order |->
                LET o == heap[order[i]]
                IN  IF o.kind = "node"
                    THEN <<o.height, o.length, [j \in DOMAIN o.kids |-> Place(o.kids[j])]>>
                    ELSE o],
          [kind \in kinds |-> Cardinality({i \in Ids \ Range(order) : heap[i].kind = kind})],
          crashed>>
=============================================================================
