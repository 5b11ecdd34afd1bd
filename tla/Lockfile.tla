------------------------------- MODULE Lockfile -------------------------------
(***************************************************************************)
(* Lock files (lockfile.c).  Processes call lockfile_create and            *)
(* lockfile_remove for locks that lie in one directory.  Each system call  *)
(* is a step: other processes run between any two of them.                 *)
(*                                                                         *)
(* lockfile_create makes the file ".temp-lock" in the directory, links it  *)
(* to the name of the lock, checks that it now has two names, and unlinks  *)
(* the temporary name.  Every lock of the directory uses the same          *)
(* temporary name.                                                         *)
(***************************************************************************)
EXTENDS Integers, FiniteSets, Functions

CONSTANTS
    Procs,      \* the processes
    Locks,      \* the names of the locks
    Inodes,     \* the files the directory may have names for
    NoFile,     \* what a name stands for that does not exist
    Failing,    \* the system calls that may fail although nothing is in the way
    MayCrash    \* whether processes crash

ASSUME NamesAssumption == ".temp-lock" \notin Locks /\ NoFile \notin Inodes
ASSUME FailingAssumption == Failing \subseteq {"open", "link", "stat", "unlink"}

Temp  == ".temp-lock"
Names == Locks \cup {Temp}

VARIABLES
    dir,        \* the directory: the file each name stands for
    pc,         \* the system call a process makes next, "idle" outside a call
    lockname,   \* the argument of its lockfile_create
    made,       \* the file it opened in lockfile_create
    held        \* for each lock the file that lockfile_create returned 0 for

vars == <<dir, pc, lockname, made, held>>

TypeOK ==
    /\ dir \in [Names -> Inodes \cup {NoFile}]
    /\ pc \in [Procs -> {"idle", "open", "link", "stat", "unlink", "give up"}]
    /\ lockname \in [Procs -> Locks]
    /\ made \in [Procs -> Inodes \cup {NoFile}]
    /\ held \in [Procs -> [Locks -> Inodes \cup {NoFile}]]

Holds(p, l) == held[p][l] # NoFile

\* st_nlink
Links(i) == Cardinality({n \in Names : dir[n] = i})

\* A running process still counts on the file.
InUse(i) == \E p \in Procs : made[p] = i \/ \E l \in Locks : held[p][l] = i

Init ==
    /\ dir = [n \in Names |-> NoFile]
    /\ pc = [p \in Procs |-> "idle"]
    /\ lockname \in [Procs -> Locks]
    /\ made = [p \in Procs |-> NoFile]
    /\ held = [p \in Procs |-> [l \in Locks |-> NoFile]]

-----------------------------------------------------------------------------
\* lockfile_create

Goto(p, next) == pc' = [pc EXCEPT ![p] = next]

Call(p, l) ==
    /\ pc[p] = "idle"
    /\ Goto(p, "open")
    /\ lockname' = [lockname EXCEPT ![p] = l]
    /\ UNCHANGED <<dir, made, held>>

\* Faulty variant of Open: O_EXCL is missing.
OpenNotExclusive(p) ==
    /\ pc[p] = "open"
    /\ \E i \in Inodes :
        /\ IF dir[Temp] = NoFile THEN i \notin Range(dir) ELSE i = dir[Temp]
        /\ dir' = [dir EXCEPT ![Temp] = i]
        /\ made' = [made EXCEPT ![p] = i]
    /\ Goto(p, "link")
    /\ UNCHANGED <<lockname, held>>

\* open(tempname, O_CREAT | O_EXCL, 0600)
Open(p) ==
    /\ pc[p] = "open" /\ dir[Temp] = NoFile
    /\ \E i \in Inodes \ Range(dir) :
        /\ dir' = [dir EXCEPT ![Temp] = i]
        /\ made' = [made EXCEPT ![p] = i]
    /\ Goto(p, "link")
    /\ UNCHANGED <<lockname, held>>

OpenFails(p) ==
    /\ pc[p] = "open"
    /\ dir[Temp] # NoFile \/ "open" \in Failing
    /\ Goto(p, "idle")
    /\ UNCHANGED <<dir, lockname, made, held>>

\* Faulty variant of Link: the new name replaces an old one, as rename does.
LinkReplaces(p) ==
    /\ pc[p] = "link"
    /\ dir' = [dir EXCEPT ![lockname[p]] = dir[Temp]]
    /\ Goto(p, "stat")
    /\ UNCHANGED <<lockname, made, held>>

\* link(tempname, lockname)
Link(p) ==
    /\ pc[p] = "link" /\ dir[lockname[p]] = NoFile
    /\ dir' = [dir EXCEPT ![lockname[p]] = dir[Temp]]
    /\ Goto(p, "stat")
    /\ UNCHANGED <<lockname, made, held>>

LinkFails(p) ==
    /\ pc[p] = "link"
    /\ dir[lockname[p]] # NoFile \/ "link" \in Failing
    /\ Goto(p, "give up")
    /\ UNCHANGED <<dir, lockname, made, held>>

\* stat(lockname, &st), and st.st_nlink != 2
Stat(p) ==
    /\ pc[p] = "stat"
    /\ Goto(p, IF dir[lockname[p]] # NoFile /\ Links(dir[lockname[p]]) = 2
               THEN "unlink" ELSE "give up")
    /\ UNCHANGED <<dir, lockname, made, held>>

StatFails(p) ==
    /\ pc[p] = "stat" /\ "stat" \in Failing
    /\ Goto(p, "give up")
    /\ UNCHANGED <<dir, lockname, made, held>>

\* unlink(tempname), whose result is ignored
UnlinkTemp ==
    \/ dir' = [dir EXCEPT ![Temp] = NoFile]
    \/ "unlink" \in Failing /\ UNCHANGED dir

\* lockfile_create returns 0.
Unlink(p) ==
    /\ pc[p] = "unlink"
    /\ UnlinkTemp
    /\ Goto(p, "idle")
    /\ made' = [made EXCEPT ![p] = NoFile]
    /\ held' = [held EXCEPT ![p][lockname[p]] = made[p]]
    /\ UNCHANGED lockname

\* Faulty variants of GiveUp: the temporary file is forgotten; the lock file is
\* removed with it.
GiveUpLeavesTemp(p) ==
    /\ pc[p] = "give up"
    /\ Goto(p, "idle")
    /\ made' = [made EXCEPT ![p] = NoFile]
    /\ UNCHANGED <<dir, lockname, held>>

GiveUpRemovesLock(p) ==
    /\ pc[p] = "give up"
    /\ dir' = [dir EXCEPT ![Temp] = NoFile, ![lockname[p]] = NoFile]
    /\ Goto(p, "idle")
    /\ made' = [made EXCEPT ![p] = NoFile]
    /\ UNCHANGED <<lockname, held>>

\* lockfile_create returns -1 after link or stat.
GiveUp(p) ==
    /\ pc[p] = "give up"
    /\ UnlinkTemp
    /\ Goto(p, "idle")
    /\ made' = [made EXCEPT ![p] = NoFile]
    /\ UNCHANGED <<lockname, held>>

-----------------------------------------------------------------------------
\* lockfile_remove, which a process calls for a lock it holds
Remove(p, l) ==
    /\ pc[p] = "idle" /\ Holds(p, l)
    /\ dir' = [dir EXCEPT ![l] = NoFile]
    /\ held' = [held EXCEPT ![p][l] = NoFile]
    /\ UNCHANGED <<pc, lockname, made>>

\* A process crashes, and may be started again.
Crash(p) ==
    /\ MayCrash
    /\ Goto(p, "idle")
    /\ made' = [made EXCEPT ![p] = NoFile]
    /\ held' = [held EXCEPT ![p] = [l \in Locks |-> NoFile]]
    /\ UNCHANGED <<dir, lockname>>

\* Somebody removes by hand a file that a crashed process left behind.
CleanUp(n) ==
    /\ dir[n] # NoFile /\ ~InUse(dir[n])
    /\ dir' = [dir EXCEPT ![n] = NoFile]
    /\ UNCHANGED <<pc, lockname, made, held>>

-----------------------------------------------------------------------------
CreateStep(p) ==
    \/ Open(p) \/ OpenFails(p) \/ Link(p) \/ LinkFails(p)
    \/ Stat(p) \/ StatFails(p) \/ Unlink(p) \/ GiveUp(p)

Next ==
    \/ \E p \in Procs :
        \/ \E l \in Locks : Call(p, l) \/ Remove(p, l)
        \/ CreateStep(p)
        \/ Crash(p)
    \/ \E n \in Names : CleanUp(n)

Spec == Init /\ [][Next]_vars

\* A process that is in lockfile_create goes on until it returns, and clients
\* keep asking for locks.
Fairness ==
    \A p \in Procs :
        WF_vars(CreateStep(p)) /\ WF_vars(\E l \in Locks : Call(p, l))

-----------------------------------------------------------------------------
\* Properties.

\* At most one process holds a lock: lockfile_create returns 0 to no second one
\* before the first calls lockfile_remove or crashes.
MutualExclusion ==
    \A p, q \in Procs, l \in Locks : Holds(p, l) /\ Holds(q, l) => p = q

\* The lock file of a process that holds the lock is there, and is the file
\* that this process made: no failing lockfile_create of another process, for
\* this lock or another of the directory, takes it away.
HolderHasFile ==
    \A p \in Procs, l \in Locks : Holds(p, l) => dir[l] = held[p][l]

\* Between open and unlink a process is alone with the temporary file, so that
\* the unlink at the end of lockfile_create never takes that of another.
TempIsMine ==
    \A p, q \in Procs : made[p] # NoFile =>
        /\ dir[Temp] = made[p]
        /\ made[q] # NoFile => p = q

\* A lockfile_create that will return -1 leaves no lock file behind that it made:
\* the lock could never be had again.  It goes wrong only when stat itself fails.
FailureLeavesNoLock ==
    [][\A p \in Procs : pc'[p] = "give up" /\ (LinkFails(p) \/ Stat(p)) =>
            dir'[lockname[p]] # made[p]]_vars

\* A lock that is free, or becomes free, is got by somebody in the end, although
\* the processes that ask for it get in each other's way with the temporary
\* file.  (When they ask for no other lock of the directory, and nothing fails
\* or crashes.)
SomebodyGets(l) == dir[l] = NoFile ~> \E p \in Procs : Holds(p, l)
=============================================================================
