------------------------------- MODULE TableSpec -------------------------------
(***************************************************************************)
(* What a hash table promises: it holds at most one of any data that are   *)
(* equal, finds it whatever it has gone through, and shows each once.      *)
(***************************************************************************)
EXTENDS SequencesExt

CONSTANTS
    Data,
    KeyOf,          \* what data are compared by
    Nothing         \* no table

VARIABLES
    installed,      \* the set of the data in the table, or Nothing
    answer          \* what the last call returned or showed, in a sequence

vars == <<installed, answer>>

EqualTo(d) == {e \in installed : KeyOf[e] = KeyOf[d]}

Init == installed = Nothing /\ answer = <<>>

Create  == installed = Nothing /\ installed' \in {{}, Nothing} /\ answer' = <<>>
Destroy == installed # Nothing /\ installed' = Nothing /\ answer' = <<>>

Install(d) ==
    /\ installed # Nothing
    /\ IF EqualTo(d) # {} THEN answer' \in {<<e>> : e \in EqualTo(d)} /\ UNCHANGED installed
       ELSE \/ answer' = <<d>> /\ installed' = installed \cup {d}
            \/ answer' = <<>> /\ UNCHANGED installed

Lookup(d) ==
    /\ installed # Nothing
    /\ IF EqualTo(d) # {} THEN answer' \in {<<e>> : e \in EqualTo(d)} ELSE answer' = <<>>
    /\ UNCHANGED installed

Uninstall(d) ==
    /\ installed # Nothing
    /\ answer' = <<IF EqualTo(d) # {} THEN "found" ELSE "not found">>
    /\ installed' = installed \ EqualTo(d)

\* Every datum is shown once, unless the client stops before the last.
Iter ==
    /\ installed # Nothing
    /\ \E order \in SetToAllKPermutations(installed) :
        \/ answer' = <<"stopped">> \o order
        \/ answer' = <<"all">> \o order /\ Range(order) = installed
    /\ UNCHANGED installed

Next ==
    \/ Create \/ Destroy \/ Iter
    \/ \E d \in Data : Install(d) \/ Lookup(d) \/ Uninstall(d)

Spec == Init /\ [][Next]_vars
===============================================================================
