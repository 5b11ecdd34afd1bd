------------------------------ MODULE MCFileSave ------------------------------
(***************************************************************************)
(* Some of the processes, a cast, save the file again and again.           *)
(***************************************************************************)
EXTENDS FileSave

VARIABLE cast

FileSaveCallers == [p \in Savers |-> "file_save"]

\* Two that keep the backup, or one that does not.
Casts == {Keeps} \cup {{p} : p \in Savers \ Keeps}

MCInit ==
    /\ Init
    /\ cast \in Casts
    /\ \A p \in Savers \ cast :
        /\ data[p] = CHOOSE d \in Data : TRUE
        /\ temp[p] = CHOOSE t \in Temps : TRUE

MCNext ==
    /\ Next
    /\ \A p \in Savers \ cast : pc'[p] = "idle"
    /\ UNCHANGED cast

MCSpec == MCInit /\ [][MCNext]_<<vars, cast>>
=============================================================================
