------------------------------ MODULE MCLockfile ------------------------------
(***************************************************************************)
(* Processes that ask for the locks of a directory, in a world where system*)
(* calls fail for no reason of theirs and processes crash, or in a calm    *)
(* one where nothing does and all of them want the same lock.              *)
(***************************************************************************)
EXTENDS Lockfile

CONSTANT Wanted

VARIABLE calm

Calm == INSTANCE Lockfile WITH Failing <- {}, MayCrash <- FALSE

MCInit ==
    /\ Init
    /\ calm \in BOOLEAN
    /\ calm => lockname = [p \in Procs |-> Wanted]

MCNext ==
    /\ UNCHANGED calm
    /\ \/ ~calm /\ Next
       \/ calm /\ Calm!Next /\ lockname' = lockname

MCSpec == MCInit /\ [][MCNext]_<<vars, calm>> /\ Fairness

\* In the calm world three processes that race for one lock do not keep each
\* other from it for ever: lockfile_create by one of them returns 0.
SomebodyGetsIt == calm => SomebodyGets(Wanted)
=============================================================================
