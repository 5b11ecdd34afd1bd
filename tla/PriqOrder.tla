------------------------------ MODULE PriqOrder ------------------------------
(***************************************************************************)
(* The comparison functions of priority queues.                            *)
(***************************************************************************)
EXTENDS Integers

\* Those of the clients, as in test-priq.c, and the one that stands for NULL,
\* to which all elements are equal.
Orders == {"ascending", "descending", "always_same"}

\* compare(a, b) < 0
Before(cmp, a, b) ==
    \/ cmp = "ascending" /\ a < b
    \/ cmp = "descending" /\ a > b
=============================================================================
