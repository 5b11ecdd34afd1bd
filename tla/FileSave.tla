------------------------------- MODULE FileSave -------------------------------
(***************************************************************************)
(* Saving a file: file_save (files/file_io.c) and sbuf_save                *)
(* (sbuf/sbuf_io.c).  The new contents go to a temporary file of the       *)
(* directory, the old file is renamed to its backup name, the temporary    *)
(* file to the name of the file, the permissions are copied, and the       *)
(* backup is removed unless the caller wants it.  Each system call is a    *)
(* step: other processes save the same file, or the process crashes,       *)
(* between any two of them.                                                *)
(***************************************************************************)
EXTENDS Integers

CONSTANTS
    Savers,     \* the processes that save the file
    Caller,     \* for each of them "file_save" or "sbuf_save"
    Keeps,      \* the savers that call with keep_backup
    Temps,      \* the names that create_save_temp_file may try
    Data,       \* the contents that are saved
    OldModes,   \* the permissions that the file may have
    Umasked,    \* 0666 & ~umask
    Failing,    \* the calls that may fail although nothing is in the way
    MayCrash    \* whether processes crash

ASSUME CallerAssumption == Caller \in [Savers -> {"file_save", "sbuf_save"}]
ASSUME NamesAssumption == "name" \notin Temps /\ "name~" \notin Temps
ASSUME DataAssumption == "part" \notin Data /\ "none" \notin Data

VARIABLES
    dir,        \* the files of the directory by name: [data, mode], or NoFile
    pc,         \* the call that a process makes next, "idle" outside a save
    data,       \* what it saves
    temp,       \* temp_name
    mode,       \* st_mode in copy_modes
    ret         \* what sbuf_save or file_save is about to return, or returned

vars == <<dir, pc, data, temp, mode, ret>>

NoFile   == [data |-> "none", mode |-> "none"]
TempMode == "0600"
Part     == "part"                  \* a file that is not completely written
Names    == Temps \cup {"name", "name~"}
Modes    == OldModes \cup {TempMode, Umasked}

Files    == [data : Data \cup {Part}, mode : Modes]

TypeOK ==
    /\ dir \in [Names -> Files \cup {NoFile}]
    /\ pc \in [Savers -> {"idle", "create", "fdopen", "write", "rename old",
                          "rename new", "stat", "chmod", "remove"}]
    /\ data \in [Savers -> Data]
    /\ temp \in [Savers -> Temps]
    /\ mode \in [Savers -> Modes]
    /\ ret \in [Savers -> {0, -1}]

Exists(n) == dir[n] # NoFile

\* A file, or none, and a backup of it or of what was there before, or none.
Init ==
    /\ \E old, older \in [data : Data, mode : OldModes] \cup {NoFile} :
            dir = [n \in Names |-> IF n = "name" THEN old
                                   ELSE IF n = "name~" THEN older ELSE NoFile]
    /\ pc = [p \in Savers |-> "idle"]
    /\ data \in [Savers -> Data]
    /\ temp \in [Savers -> Temps]
    /\ mode = [p \in Savers |-> TempMode]
    /\ ret = [p \in Savers |-> 0]

-----------------------------------------------------------------------------
Goto(p, next) == pc' = [pc EXCEPT ![p] = next]

Return(p, value) == Goto(p, "idle") /\ ret' = [ret EXCEPT ![p] = value]

\* A call fails, and with it the save.
Fails(p, call) ==
    /\ pc[p] = call /\ call \in Failing
    /\ Return(p, -1)
    /\ UNCHANGED <<dir, data, temp, mode>>

Call(p, d) ==
    /\ pc[p] = "idle"
    /\ Goto(p, "create")
    /\ data' = [data EXCEPT ![p] = d]
    /\ ret' = [ret EXCEPT ![p] = 0]
    /\ UNCHANGED <<dir, temp, mode>>

\* Faulty variant of CreateTemp: O_EXCL is missing.
CreateTempNotExclusive(p) ==
    /\ pc[p] = "create"
    /\ \E t \in Temps :
        /\ dir' = [dir EXCEPT ![t] = [data |-> Part, mode |-> TempMode]]
        /\ temp' = [temp EXCEPT ![p] = t]
    /\ Goto(p, "fdopen")
    /\ UNCHANGED <<data, mode, ret>>

\* create_save_temp_file
CreateTemp(p) ==
    /\ pc[p] = "create"
    /\ \E t \in Temps :
        /\ ~Exists(t)
        /\ dir' = [dir EXCEPT ![t] = [data |-> Part, mode |-> TempMode]]
        /\ temp' = [temp EXCEPT ![p] = t]
    /\ Goto(p, "fdopen")
    /\ UNCHANGED <<data, mode, ret>>

\* Each of the MAX_TRIES names is taken.
CreateTempGivesUp(p) ==
    /\ pc[p] = "create" /\ \A t \in Temps : Exists(t)
    /\ Return(p, -1)
    /\ UNCHANGED <<dir, data, temp, mode>>

Fdopen(p) ==
    /\ pc[p] = "fdopen"
    /\ Goto(p, "write")
    /\ UNCHANGED <<dir, data, temp, mode, ret>>

\* fwrite and fclose
Write(p) ==
    /\ pc[p] = "write"
    /\ dir' = [dir EXCEPT ![temp[p]] = [data |-> data[p], mode |-> dir[temp[p]].mode]]
    /\ Goto(p, "rename old")
    /\ UNCHANGED <<data, temp, mode, ret>>

\* Faulty variant of WriteFails: ferror and fclose are not heeded.
WriteFailsUnnoticed(p) ==
    /\ pc[p] = "write" /\ "write" \in Failing
    /\ Goto(p, "rename old")
    /\ UNCHANGED <<dir, data, temp, mode, ret>>

\* file_save gives up.  sbuf_save goes on, and will return -1.
WriteFails(p) ==
    /\ pc[p] = "write" /\ "write" \in Failing
    /\ Goto(p, IF Caller[p] = "file_save" THEN "idle" ELSE "rename old")
    /\ ret' = [ret EXCEPT ![p] = -1]
    /\ UNCHANGED <<dir, data, temp, mode>>

\* rename; the caller sees to it that the file is there
Renamed(from, to) == [dir EXCEPT ![to] = dir[from], ![from] = NoFile]

\* Faulty variant of RenameOld: the backup that may be there is removed first,
\* although there may be no file to take its place.
RenameOldRemovesBackup(p) ==
    /\ pc[p] = "rename old"
    /\ dir' = Renamed("name", "name~")
    /\ Goto(p, "rename new")
    /\ UNCHANGED <<data, temp, mode, ret>>

\* rename(name, back_name), where ENOENT is no failure
RenameOld(p) ==
    /\ pc[p] = "rename old"
    /\ dir' = IF Exists("name") THEN Renamed("name", "name~") ELSE dir
    /\ Goto(p, "rename new")
    /\ UNCHANGED <<data, temp, mode, ret>>

\* rename(temp_name, name)
RenameNew(p) ==
    /\ pc[p] = "rename new"
    /\ IF Exists(temp[p])
       THEN /\ dir' = Renamed(temp[p], "name")
            /\ Goto(p, "stat")
            /\ UNCHANGED ret
       ELSE Return(p, -1) /\ UNCHANGED dir
    /\ UNCHANGED <<data, temp, mode>>

\* After copy_modes.  In sbuf_save ret may be -1 already.
AfterModes(p) ==
    Goto(p, IF p \in Keeps THEN "idle" ELSE "remove") /\ UNCHANGED ret

\* stat(back_name, &st) in copy_modes.  Without a backup file_save leaves the
\* mode alone and sbuf_save invents one.
Stat(p) ==
    /\ pc[p] = "stat"
    /\ IF Exists("name~") \/ Caller[p] = "sbuf_save"
       THEN /\ mode' = [mode EXCEPT ![p] = IF Exists("name~") THEN dir["name~"].mode
                                                             ELSE Umasked]
            /\ Goto(p, "chmod")
            /\ UNCHANGED ret
       ELSE AfterModes(p) /\ UNCHANGED mode
    /\ UNCHANGED <<dir, data, temp>>

\* Faulty variant of Chmod: the modes of the temporary file's name are changed.
ChmodTemp(p) ==
    /\ pc[p] = "chmod"
    /\ AfterModes(p)
    /\ dir' = IF Exists(temp[p]) THEN [dir EXCEPT ![temp[p]].mode = mode[p]] ELSE dir
    /\ UNCHANGED <<data, temp, mode>>

\* chmod(name, mode)
Chmod(p) ==
    /\ pc[p] = "chmod"
    /\ IF Exists("name")
       THEN /\ dir' = [dir EXCEPT !["name"] = [data |-> dir["name"].data, mode |-> mode[p]]]
            /\ AfterModes(p)
       ELSE Return(p, -1) /\ UNCHANGED dir
    /\ UNCHANGED <<data, temp, mode>>

\* remove(back_name), where ENOENT is no failure
RemoveBackup(p) ==
    /\ pc[p] = "remove"
    /\ dir' = [dir EXCEPT !["name~"] = NoFile]
    /\ Goto(p, "idle")
    /\ UNCHANGED <<data, temp, mode, ret>>

\* A process crashes, and may be started again.  Its save returns nothing.
Crash(p) ==
    /\ MayCrash /\ pc[p] # "idle"
    /\ Return(p, -1)
    /\ UNCHANGED <<dir, data, temp, mode>>

Step(p) ==
    \/ CreateTemp(p) \/ CreateTempGivesUp(p) \/ Fdopen(p)
    \/ Write(p) \/ WriteFails(p)
    \/ RenameOld(p) \/ RenameNew(p) \/ Stat(p) \/ Chmod(p) \/ RemoveBackup(p)
    \/ \E call \in {"create", "fdopen", "rename old", "rename new", "stat",
                    "chmod", "remove"} : Fails(p, call)

Next ==
    \E p \in Savers : Step(p) \/ Crash(p) \/ \E d \in Data : Call(p, d)

Spec == Init /\ [][Next]_vars

-----------------------------------------------------------------------------
\* Properties.

\* Whoever opens the file finds all of what somebody saved, never a part of it:
\* also while saves go on, after a save that failed and after a crash.
NameIsWhole == Exists("name") => dir["name"].data # Part

\* What a user finds under the name or, if there is nothing, in the backup.
Latest == IF Exists("name") THEN dir["name"].data ELSE dir["name~"].data

\* No step of a save, and no crash between two of them, takes away the last
\* contents before the complete new ones are in their place; nor do saves that
\* follow one another when some of them fail.
LatestSurvives ==
    [][(Latest \in Data) =>
            \/ Latest' = Latest
            \/ \E p \in Savers : pc[p] = "rename new" /\ Latest' = data[p]]_vars

\* A save that returns 0 has stored what it was to save.  (If nobody else saves
\* the file at the same time.)  This is when sbuf_save says that the buffer is
\* no longer dirty.
SavedIsStored ==
    [][\A p \in Savers : pc[p] # "idle" /\ pc'[p] = "idle" /\ ret'[p] = 0 =>
            dir'["name"].data = data[p]]_vars

\* The file that a save returning 0 leaves has the permissions of the one it
\* replaced, which the backup still has.
ModesAreKept ==
    [][\A p \in Savers : pc[p] # "idle" /\ pc'[p] = "idle" /\ ret'[p] = 0
                               /\ dir'["name~"] # NoFile =>
            dir'["name"].mode = dir'["name~"].mode]_vars
=============================================================================
