------------------------------- MODULE PriqSpec -------------------------------
(***************************************************************************)
(* What a priority queue promises: it gives back what was put in, each     *)
(* element once, and, as long as nothing has been inserted since the       *)
(* elements were last put in order, always one of the smallest.            *)
(***************************************************************************)
EXTENDS PriqOrder, Bags

CONSTANTS
    Keys,       \* what the elements are compared by
    NoKey       \* the answer of a call that returns no element

VARIABLES
    elements,   \* the bag of the elements
    compare,    \* the comparison function in use
    inOrder,    \* whether they are sure to come out in order
    answer      \* the element the last call returned

vars == <<elements, compare, inOrder, answer>>

Smallest(keys) == {k \in keys : \A other \in keys : ~Before(compare, other, k)}

Init ==
    /\ elements = EmptyBag /\ compare \in Orders
    /\ inOrder = TRUE /\ answer = NoKey

Insert(k) ==
    /\ elements' = elements (+) SetToBag({k})
    /\ inOrder' \in BOOLEAN
    /\ answer' = NoKey
    /\ UNCHANGED compare

Remove ==
    /\ answer' \in IF inOrder THEN Smallest(BagToSet(elements)) ELSE BagToSet(elements)
    /\ elements' = elements (-) SetToBag({answer'})
    /\ inOrder' \in IF inOrder THEN {TRUE} ELSE BOOLEAN
    /\ UNCHANGED compare

SetCompare ==
    /\ compare' \in Orders
    /\ inOrder' = TRUE
    /\ answer' = NoKey
    /\ UNCHANGED elements

\* An insertion fails.
Fail == answer' = NoKey /\ UNCHANGED <<elements, compare, inOrder>>

Next == (\E k \in Keys : Insert(k)) \/ Remove \/ SetCompare \/ Fail

Spec == Init /\ [][Next]_vars
=============================================================================
