--------------------------- MODULE Lockfile_proofs ---------------------------
(***************************************************************************)
(* Proofs about module Lockfile: mutual exclusion, for any number of       *)
(* processes and of locks in the directory, whichever system calls fail    *)
(* and whichever processes crash.                                          *)
(***************************************************************************)
EXTENDS Lockfile, FiniteSetTheorems, TLAPS

\* A process has made a file exactly between its open and its last unlink.
MadeInCall ==
    \A p \in Procs : made[p] # NoFile <=> pc[p] \notin {"idle", "open"}

\* The file that is being made is nobody's lock yet.
MadeIsNotHeld ==
    \A p, q \in Procs, l \in Locks : made[p] # NoFile => held[q][l] # made[p]

\* Its only other name can be that of the lock that is being made, and it has
\* that name from link on; after a failing stat, too.
MadeIsLinked ==
    \A p \in Procs : made[p] # NoFile =>
        /\ pc[p] \in {"stat", "unlink"} => dir[lockname[p]] = made[p]
        /\ \A l \in Locks : dir[l] = made[p] =>
              /\ l = lockname[p]
              /\ \/ pc[p] \in {"stat", "unlink"}
                 \/ pc[p] = "give up" /\ "stat" \in Failing

\* The inductive invariant.
Inv ==
    /\ TypeOK
    /\ TempIsMine
    /\ MadeInCall
    /\ HolderHasFile
    /\ MutualExclusion
    /\ MadeIsNotHeld
    /\ MadeIsLinked

\* The invariant holds at the start.
LEMMA InvInit == Init => Inv
  BY NamesAssumption
  DEF Init, Inv, TypeOK, TempIsMine, MadeInCall, HolderHasFile, MutualExclusion,
      MadeIsNotHeld, MadeIsLinked, Holds, Names, Temp

\* While stat finds the file under its two names, st_nlink is 2.
LEMMA TwoLinks ==
    ASSUME Inv, NEW p \in Procs, pc[p] = "stat"
    PROVE  dir[lockname[p]] # NoFile /\ Links(dir[lockname[p]]) = 2
  <1>1. /\ made[p] # NoFile /\ lockname[p] \in Locks
        /\ dir[lockname[p]] = made[p] /\ dir[Temp] = made[p]
        /\ \A l \in Locks : dir[l] = made[p] => l = lockname[p]
    BY DEF Inv, TypeOK, MadeInCall, MadeIsLinked, TempIsMine
  <1>2. Temp # lockname[p]
    BY <1>1, NamesAssumption DEF Temp
  <1>3. {n \in Names : dir[n] = made[p]} = {Temp} \cup {lockname[p]}
    BY <1>1 DEF Names
  <1>4. /\ IsFiniteSet({Temp}) /\ Cardinality({Temp}) = 1
    BY FS_Singleton
  <1>5. Cardinality({Temp} \cup {lockname[p]}) = 1 + 1
    BY <1>2, <1>4, FS_AddElement
  <1> QED
    BY <1>1, <1>3, <1>5 DEF Links

\* The action Open for one file.
OpenAs(p, i) ==
    /\ pc[p] = "open" /\ dir[Temp] = NoFile
    /\ dir' = [dir EXCEPT ![Temp] = i]
    /\ made' = [made EXCEPT ![p] = i]
    /\ Goto(p, "link")
    /\ UNCHANGED <<lockname, held>>

\* Every step preserves it.
LEMMA InvStep ==
    ASSUME Inv, [Next]_vars
    PROVE  Inv'
  <1>1. TypeOK
    BY DEF Inv
  <1>2. TempIsMine
    BY DEF Inv
  <1>3. MadeInCall
    BY DEF Inv
  <1>4. HolderHasFile
    BY DEF Inv
  <1>5. MutualExclusion
    BY DEF Inv
  <1>6. MadeIsNotHeld
    BY DEF Inv
  <1>7. MadeIsLinked
    BY DEF Inv
  <1>8. Temp \notin Locks /\ Temp \in Names /\ Locks \subseteq Names
    BY NamesAssumption DEF Names, Temp
  <1>9. ASSUME NEW p \in Procs, NEW l \in Locks, Call(p, l)
        PROVE  Inv'
    <2>1. TypeOK'
      BY <1>1, <1>8, <1>9, NamesAssumption DEF Call, Goto, TypeOK
    <2>2. /\ pc[p] = "idle"
          /\ UNCHANGED <<dir, made, held>>
      BY <1>1, <1>8, <1>9, NamesAssumption DEF Call, Goto, TypeOK, Holds
    <2>3. \A q \in Procs : pc'[q] = IF q = p THEN "open" ELSE pc[q]
      BY <1>1, <1>8, <1>9 DEF Call, Goto, TypeOK
    <2>4. \A q \in Procs : lockname'[q] = IF q = p THEN l ELSE lockname[q]
      BY <1>1, <1>8, <1>9 DEF Call, Goto, TypeOK
    <2>5. TempIsMine'
      BY <1>2, <1>8, <2>2 DEF TempIsMine
    <2>6. MadeInCall'
      BY <1>3, <1>8, <2>2, <2>3 DEF MadeInCall
    <2>7. HolderHasFile'
      BY <1>4, <1>8, <2>2 DEF HolderHasFile, Holds
    <2>8. MutualExclusion'
      BY <1>5, <1>8, <2>2 DEF MutualExclusion, Holds
    <2>9. MadeIsNotHeld'
      BY <1>6, <1>8, <2>2 DEF MadeIsNotHeld
    <2>10. MadeIsLinked'
      <3> SUFFICES ASSUME NEW q \in Procs, made'[q] # NoFile
                   PROVE  /\ pc'[q] \in {"stat", "unlink"} => dir'[lockname'[q]] = made'[q]
                          /\ \A m \in Locks : dir'[m] = made'[q] =>
                                /\ m = lockname'[q]
                                /\ \/ pc'[q] \in {"stat", "unlink"}
                                   \/ pc'[q] = "give up" /\ "stat" \in Failing
        BY DEF MadeIsLinked
      <3>1. /\ made[q] # NoFile /\ q # p
            /\ made'[q] = made[q] /\ pc'[q] = pc[q] /\ lockname'[q] = lockname[q]
        BY <1>3, <2>2, <2>3, <2>4 DEF MadeInCall
      <3>2. /\ pc[q] \in {"stat", "unlink"} => dir[lockname[q]] = made[q]
            /\ \A m \in Locks : dir[m] = made[q] =>
                  /\ m = lockname[q]
                  /\ \/ pc[q] \in {"stat", "unlink"}
                     \/ pc[q] = "give up" /\ "stat" \in Failing
        BY <1>7, <3>1 DEF MadeIsLinked
      <3> QED
        BY <2>2, <3>1, <3>2
    <2> QED
      BY <2>1, <2>5, <2>6, <2>7, <2>8, <2>9, <2>10 DEF Inv
  <1>10. ASSUME NEW p \in Procs, NEW l \in Locks, Remove(p, l)
        PROVE  Inv'
    <2>1. TypeOK'
      BY <1>1, <1>8, <1>10, NamesAssumption DEF Remove, TypeOK
    <2>2. /\ held[p][l] # NoFile
          /\ UNCHANGED <<pc, lockname, made>>
      BY <1>1, <1>8, <1>10, NamesAssumption DEF Remove, TypeOK, Holds
    <2>3. \A n \in Names : dir'[n] = IF n = l THEN NoFile ELSE dir[n]
      BY <1>1, <1>8, <1>10 DEF Remove, TypeOK
    <2>4. \A q \in Procs, m \in Locks : held'[q][m] = IF q = p /\ m = l THEN NoFile ELSE held[q][m]
      BY <1>1, <1>8, <1>10 DEF Remove, TypeOK
    <2>5. TempIsMine'
      BY <1>2, <1>8, <2>2, <2>3 DEF TempIsMine
    <2>6. MadeInCall'
      BY <1>3, <1>8, <2>2 DEF MadeInCall
    <2>7. HolderHasFile'
      BY <1>4, <1>5, <1>8, <2>2, <2>3, <2>4 DEF HolderHasFile, MutualExclusion, Holds
    <2>8. MutualExclusion'
      BY <1>5, <1>8, <2>2, <2>4 DEF MutualExclusion, Holds
    <2>9. MadeIsNotHeld'
      BY <1>6, <1>8, <2>2, <2>4 DEF MadeIsNotHeld
    <2>10. MadeIsLinked'
      <3> SUFFICES ASSUME NEW q \in Procs, made'[q] # NoFile
                   PROVE  /\ pc'[q] \in {"stat", "unlink"} => dir'[lockname'[q]] = made'[q]
                          /\ \A m \in Locks : dir'[m] = made'[q] =>
                                /\ m = lockname'[q]
                                /\ \/ pc'[q] \in {"stat", "unlink"}
                                   \/ pc'[q] = "give up" /\ "stat" \in Failing
        BY DEF MadeIsLinked
      <3>1. made[q] # NoFile /\ held[p][l] = dir[l] /\ held[p][l] # made[q]
        BY <1>4, <1>6, <2>2 DEF HolderHasFile, MadeIsNotHeld, Holds
      <3>2. /\ pc[q] \in {"stat", "unlink"} => dir[lockname[q]] = made[q]
            /\ \A m \in Locks : dir[m] = made[q] =>
                  /\ m = lockname[q]
                  /\ \/ pc[q] \in {"stat", "unlink"}
                     \/ pc[q] = "give up" /\ "stat" \in Failing
        BY <1>7, <3>1 DEF MadeIsLinked
      <3>3. lockname[q] \in Locks
        BY <1>1 DEF TypeOK
      <3> QED
        BY <1>8, <2>2, <2>3, <3>1, <3>2, <3>3
    <2> QED
      BY <2>1, <2>5, <2>6, <2>7, <2>8, <2>9, <2>10 DEF Inv
  <1>11. ASSUME NEW p \in Procs, NEW i \in Inodes \ Range(dir), OpenAs(p, i)
        PROVE  Inv'
    <2>1. TypeOK'
      BY <1>1, <1>8, <1>11, NamesAssumption DEF OpenAs, Goto, TypeOK
    <2>2. /\ pc[p] = "open" /\ dir[Temp] = NoFile /\ i # NoFile /\ \A n \in Names : dir[n] # i
          /\ UNCHANGED <<lockname, held>>
      BY <1>1, <1>8, <1>11, NamesAssumption DEF OpenAs, Goto, TypeOK, Holds, Range, Names
    <2>3. \A n \in Names : dir'[n] = IF n = Temp THEN i ELSE dir[n]
      BY <1>1, <1>8, <1>11 DEF OpenAs, Goto, TypeOK
    <2>4. \A q \in Procs : pc'[q] = IF q = p THEN "link" ELSE pc[q]
      BY <1>1, <1>8, <1>11 DEF OpenAs, Goto, TypeOK
    <2>5. \A q \in Procs : made'[q] = IF q = p THEN i ELSE made[q]
      BY <1>1, <1>8, <1>11 DEF OpenAs, Goto, TypeOK
    <2>6. TempIsMine'
      BY <1>2, <1>8, <2>2, <2>3, <2>5 DEF TempIsMine
    <2>7. MadeInCall'
      BY <1>3, <1>8, <2>2, <2>4, <2>5 DEF MadeInCall
    <2>8. HolderHasFile'
      BY <1>4, <1>8, <2>2, <2>3 DEF HolderHasFile, Holds
    <2>9. MutualExclusion'
      BY <1>5, <1>8, <2>2 DEF MutualExclusion, Holds
    <2>10. MadeIsNotHeld'
      BY <1>2, <1>4, <1>6, <1>8, <2>2, <2>5 DEF MadeIsNotHeld, HolderHasFile, TempIsMine, Holds
    <2>11. MadeIsLinked'
      <3> SUFFICES ASSUME NEW q \in Procs, made'[q] # NoFile
                   PROVE  /\ pc'[q] \in {"stat", "unlink"} => dir'[lockname'[q]] = made'[q]
                          /\ \A m \in Locks : dir'[m] = made'[q] =>
                                /\ m = lockname'[q]
                                /\ \/ pc'[q] \in {"stat", "unlink"}
                                   \/ pc'[q] = "give up" /\ "stat" \in Failing
        BY DEF MadeIsLinked
      <3>1. lockname[q] \in Locks /\ lockname'[q] = lockname[q] /\ \A m \in Locks : dir'[m] = dir[m]
        BY <1>1, <1>8, <2>2, <2>3 DEF TypeOK
      <3>2. CASE q = p
        <4>1. made'[q] = i /\ pc'[q] = "link" /\ \A m \in Locks : dir[m] # i
          BY <1>8, <2>2, <2>4, <2>5, <3>2
        <4> QED
          BY <3>1, <4>1
      <3>3. CASE q # p
        <4>1. made[q] # NoFile /\ made'[q] = made[q] /\ pc'[q] = pc[q]
          BY <2>4, <2>5, <3>3
        <4>2. /\ pc[q] \in {"stat", "unlink"} => dir[lockname[q]] = made[q]
              /\ \A m \in Locks : dir[m] = made[q] =>
                    /\ m = lockname[q]
                    /\ \/ pc[q] \in {"stat", "unlink"}
                       \/ pc[q] = "give up" /\ "stat" \in Failing
          BY <1>7, <4>1 DEF MadeIsLinked
        <4> QED
          BY <3>1, <4>1, <4>2
      <3> QED
        BY <3>2, <3>3
    <2> QED
      BY <2>1, <2>6, <2>7, <2>8, <2>9, <2>10, <2>11 DEF Inv
  <1>12. ASSUME NEW p \in Procs, OpenFails(p)
        PROVE  Inv'
    <2>1. TypeOK'
      BY <1>1, <1>8, <1>12, NamesAssumption DEF OpenFails, Goto, TypeOK
    <2>2. /\ pc[p] = "open"
          /\ UNCHANGED <<dir, lockname, made, held>>
      BY <1>1, <1>8, <1>12, NamesAssumption DEF OpenFails, Goto, TypeOK, Holds
    <2>3. \A q \in Procs : pc'[q] = IF q = p THEN "idle" ELSE pc[q]
      BY <1>1, <1>8, <1>12 DEF OpenFails, Goto, TypeOK
    <2>4. TempIsMine'
      BY <1>2, <1>8, <2>2 DEF TempIsMine
    <2>5. MadeInCall'
      BY <1>3, <1>8, <2>2, <2>3 DEF MadeInCall
    <2>6. HolderHasFile'
      BY <1>4, <1>8, <2>2 DEF HolderHasFile, Holds
    <2>7. MutualExclusion'
      BY <1>5, <1>8, <2>2 DEF MutualExclusion, Holds
    <2>8. MadeIsNotHeld'
      BY <1>6, <1>8, <2>2 DEF MadeIsNotHeld
    <2>9. MadeIsLinked'
      BY <1>3, <1>7, <1>8, <2>2, <2>3 DEF MadeIsLinked, MadeInCall
    <2> QED
      BY <2>1, <2>4, <2>5, <2>6, <2>7, <2>8, <2>9 DEF Inv
  <1>13. ASSUME NEW p \in Procs, Link(p)
        PROVE  Inv'
    <2>1. TypeOK'
      BY <1>1, <1>8, <1>13, NamesAssumption DEF Link, Goto, TypeOK
    <2>2. /\ pc[p] = "link" /\ dir[lockname[p]] = NoFile /\ lockname[p] \in Locks
          /\ UNCHANGED <<lockname, made, held>>
      BY <1>1, <1>8, <1>13, NamesAssumption DEF Link, Goto, TypeOK, Holds
    <2>3. \A n \in Names : dir'[n] = IF n = lockname[p] THEN dir[Temp] ELSE dir[n]
      BY <1>1, <1>8, <1>13 DEF Link, Goto, TypeOK
    <2>4. \A q \in Procs : pc'[q] = IF q = p THEN "stat" ELSE pc[q]
      BY <1>1, <1>8, <1>13 DEF Link, Goto, TypeOK
    <2>5. TempIsMine'
      BY <1>2, <1>8, <2>2, <2>3 DEF TempIsMine
    <2>6. MadeInCall'
      BY <1>3, <1>8, <2>2, <2>4 DEF MadeInCall
    <2>7. HolderHasFile'
      BY <1>4, <1>8, <2>2, <2>3 DEF HolderHasFile, Holds
    <2>8. MutualExclusion'
      BY <1>5, <1>8, <2>2 DEF MutualExclusion, Holds
    <2>9. MadeIsNotHeld'
      BY <1>6, <1>8, <2>2 DEF MadeIsNotHeld
    <2>10. MadeIsLinked'
      <3> SUFFICES ASSUME NEW q \in Procs, made'[q] # NoFile
                   PROVE  /\ pc'[q] \in {"stat", "unlink"} => dir'[lockname'[q]] = made'[q]
                          /\ \A m \in Locks : dir'[m] = made'[q] =>
                                /\ m = lockname'[q]
                                /\ \/ pc'[q] \in {"stat", "unlink"}
                                   \/ pc'[q] = "give up" /\ "stat" \in Failing
        BY DEF MadeIsLinked
      <3>1. /\ made[q] # NoFile /\ dir[Temp] = made[q] /\ q = p
        BY <1>2, <1>3, <2>2 DEF TempIsMine, MadeInCall
      <3>2. /\ pc[q] \in {"stat", "unlink"} => dir[lockname[q]] = made[q]
            /\ \A m \in Locks : dir[m] = made[q] =>
                  /\ m = lockname[q]
                  /\ \/ pc[q] \in {"stat", "unlink"}
                     \/ pc[q] = "give up" /\ "stat" \in Failing
        BY <1>7, <3>1 DEF MadeIsLinked
      <3>3. lockname[q] \in Locks
        BY <1>1 DEF TypeOK
      <3>4. \A m \in Locks : dir[m] # made[q]
        BY <2>2, <3>1, <3>2
      <3>5. /\ pc'[q] = "stat" /\ lockname'[q] = lockname[p] /\ made'[q] = made[q]
            /\ dir'[lockname[p]] = made[q]
        BY <1>8, <2>2, <2>3, <2>4, <3>1, <3>3
      <3>6. \A m \in Locks : m # lockname[p] => dir'[m] = dir[m]
        BY <1>8, <2>3
      <3> QED
        BY <3>4, <3>5, <3>6
    <2> QED
      BY <2>1, <2>5, <2>6, <2>7, <2>8, <2>9, <2>10 DEF Inv
  <1>14. ASSUME NEW p \in Procs, LinkFails(p)
        PROVE  Inv'
    <2>1. TypeOK'
      BY <1>1, <1>8, <1>14, NamesAssumption DEF LinkFails, Goto, TypeOK
    <2>2. /\ pc[p] = "link"
          /\ UNCHANGED <<dir, lockname, made, held>>
      BY <1>1, <1>8, <1>14, NamesAssumption DEF LinkFails, Goto, TypeOK, Holds
    <2>3. \A q \in Procs : pc'[q] = IF q = p THEN "give up" ELSE pc[q]
      BY <1>1, <1>8, <1>14 DEF LinkFails, Goto, TypeOK
    <2>4. TempIsMine'
      BY <1>2, <1>8, <2>2 DEF TempIsMine
    <2>5. MadeInCall'
      BY <1>3, <1>8, <2>2, <2>3 DEF MadeInCall
    <2>6. HolderHasFile'
      BY <1>4, <1>8, <2>2 DEF HolderHasFile, Holds
    <2>7. MutualExclusion'
      BY <1>5, <1>8, <2>2 DEF MutualExclusion, Holds
    <2>8. MadeIsNotHeld'
      BY <1>6, <1>8, <2>2 DEF MadeIsNotHeld
    <2>9. MadeIsLinked'
      BY <1>3, <1>7, <1>8, <2>2, <2>3 DEF MadeIsLinked, MadeInCall
    <2> QED
      BY <2>1, <2>4, <2>5, <2>6, <2>7, <2>8, <2>9 DEF Inv
  <1>15. ASSUME NEW p \in Procs, Stat(p)
        PROVE  Inv'
    <2>1. TypeOK'
      BY <1>1, <1>8, <1>15, NamesAssumption DEF Stat, Goto, TypeOK
    <2>2. pc' = [pc EXCEPT ![p] = "unlink"]
      BY <1>15, TwoLinks, Inv DEF Stat, Goto
    <2>3. /\ pc[p] = "stat"
          /\ UNCHANGED <<dir, lockname, made, held>>
      BY <1>1, <1>8, <1>15, NamesAssumption DEF Stat, Goto, TypeOK, Holds
    <2>4. \A q \in Procs : pc'[q] = IF q = p THEN "unlink" ELSE pc[q]
      BY <1>1, <1>8, <1>15, <2>2 DEF Stat, Goto, TypeOK
    <2>5. TempIsMine'
      BY <1>2, <1>8, <2>3 DEF TempIsMine
    <2>6. MadeInCall'
      BY <1>3, <1>8, <2>3, <2>4 DEF MadeInCall
    <2>7. HolderHasFile'
      BY <1>4, <1>8, <2>3 DEF HolderHasFile, Holds
    <2>8. MutualExclusion'
      BY <1>5, <1>8, <2>3 DEF MutualExclusion, Holds
    <2>9. MadeIsNotHeld'
      BY <1>6, <1>8, <2>3 DEF MadeIsNotHeld
    <2>10. MadeIsLinked'
      BY <1>7, <1>8, <2>3, <2>4 DEF MadeIsLinked
    <2> QED
      BY <2>1, <2>5, <2>6, <2>7, <2>8, <2>9, <2>10 DEF Inv
  <1>16. ASSUME NEW p \in Procs, StatFails(p)
        PROVE  Inv'
    <2>1. TypeOK'
      BY <1>1, <1>8, <1>16, NamesAssumption DEF StatFails, Goto, TypeOK
    <2>2. /\ pc[p] = "stat" /\ "stat" \in Failing
          /\ UNCHANGED <<dir, lockname, made, held>>
      BY <1>1, <1>8, <1>16, NamesAssumption DEF StatFails, Goto, TypeOK, Holds
    <2>3. \A q \in Procs : pc'[q] = IF q = p THEN "give up" ELSE pc[q]
      BY <1>1, <1>8, <1>16 DEF StatFails, Goto, TypeOK
    <2>4. TempIsMine'
      BY <1>2, <1>8, <2>2 DEF TempIsMine
    <2>5. MadeInCall'
      BY <1>3, <1>8, <2>2, <2>3 DEF MadeInCall
    <2>6. HolderHasFile'
      BY <1>4, <1>8, <2>2 DEF HolderHasFile, Holds
    <2>7. MutualExclusion'
      BY <1>5, <1>8, <2>2 DEF MutualExclusion, Holds
    <2>8. MadeIsNotHeld'
      BY <1>6, <1>8, <2>2 DEF MadeIsNotHeld
    <2>9. MadeIsLinked'
      BY <1>3, <1>7, <1>8, <2>2, <2>3 DEF MadeIsLinked, MadeInCall
    <2> QED
      BY <2>1, <2>4, <2>5, <2>6, <2>7, <2>8, <2>9 DEF Inv
  <1>17. ASSUME NEW p \in Procs, Unlink(p)
        PROVE  Inv'
    <2>1. TypeOK'
      BY <1>1, <1>8, <1>17, NamesAssumption DEF Unlink, UnlinkTemp, Goto, TypeOK
    <2>2. /\ pc[p] = "unlink" /\ lockname[p] \in Locks
          /\ UNCHANGED <<lockname>>
      BY <1>1, <1>8, <1>17, NamesAssumption DEF Unlink, UnlinkTemp, Goto, TypeOK, Holds
    <2>3. \A n \in Names : dir'[n] = dir[n] \/ (n = Temp /\ dir'[n] = NoFile)
      BY <1>1, <1>8, <1>17 DEF Unlink, UnlinkTemp, Goto, TypeOK
    <2>4. \A q \in Procs : pc'[q] = IF q = p THEN "idle" ELSE pc[q]
      BY <1>1, <1>8, <1>17 DEF Unlink, UnlinkTemp, Goto, TypeOK
    <2>5. \A q \in Procs : made'[q] = IF q = p THEN NoFile ELSE made[q]
      BY <1>1, <1>8, <1>17 DEF Unlink, UnlinkTemp, Goto, TypeOK
    <2>6. \A q \in Procs, m \in Locks : held'[q][m] = IF q = p /\ m = lockname[p] THEN made[p] ELSE held[q][m]
      BY <1>1, <1>8, <1>17 DEF Unlink, UnlinkTemp, Goto, TypeOK
    <2>7. TempIsMine'
      BY <1>2, <1>3, <1>8, <2>2, <2>3, <2>5 DEF TempIsMine, MadeInCall
    <2>8. MadeInCall'
      BY <1>3, <1>8, <2>2, <2>4, <2>5 DEF MadeInCall
    <2>9. HolderHasFile'
      <3> SUFFICES ASSUME NEW q \in Procs, NEW m \in Locks, held'[q][m] # NoFile
                   PROVE  dir'[m] = held'[q][m]
        BY DEF HolderHasFile, Holds
      <3>1. made[p] # NoFile /\ dir[lockname[p]] = made[p]
        BY <1>3, <1>7, <2>2 DEF MadeInCall, MadeIsLinked
      <3>2. dir'[m] = dir[m]
        BY <1>8, <2>3
      <3>3. CASE q = p /\ m = lockname[p]
        BY <2>6, <3>1, <3>2, <3>3
      <3>4. CASE ~(q = p /\ m = lockname[p])
        <4>1. held'[q][m] = held[q][m]
          BY <2>6, <3>4
        <4> QED
          BY <1>4, <3>2, <4>1 DEF HolderHasFile, Holds
      <3> QED
        BY <3>3, <3>4
    <2>10. MutualExclusion'
      <3> SUFFICES ASSUME NEW q1 \in Procs, NEW q2 \in Procs, NEW m \in Locks,
                          held'[q1][m] # NoFile, held'[q2][m] # NoFile
                   PROVE  q1 = q2
        BY DEF MutualExclusion, Holds
      <3>1. made[p] # NoFile /\ dir[lockname[p]] = made[p]
        BY <1>3, <1>7, <2>2 DEF MadeInCall, MadeIsLinked
      <3>2. CASE m = lockname[p]
        <4>1. \A q \in Procs : held[q][m] = NoFile
          BY <1>4, <1>6, <2>2, <3>1, <3>2 DEF HolderHasFile, MadeIsNotHeld, Holds
        <4> QED
          BY <2>6, <4>1
      <3>3. CASE m # lockname[p]
        BY <1>5, <2>6, <3>3 DEF MutualExclusion, Holds
      <3> QED
        BY <3>2, <3>3
    <2>11. MadeIsNotHeld'
      BY <1>2, <1>3, <1>6, <1>8, <2>2, <2>5, <2>6 DEF MadeIsNotHeld, TempIsMine, MadeInCall
    <2>12. MadeIsLinked'
      <3> SUFFICES ASSUME NEW q \in Procs, made'[q] # NoFile
                   PROVE  /\ pc'[q] \in {"stat", "unlink"} => dir'[lockname'[q]] = made'[q]
                          /\ \A m \in Locks : dir'[m] = made'[q] =>
                                /\ m = lockname'[q]
                                /\ \/ pc'[q] \in {"stat", "unlink"}
                                   \/ pc'[q] = "give up" /\ "stat" \in Failing
        BY DEF MadeIsLinked
      <3>1. made[p] # NoFile /\ made[q] # NoFile /\ q # p
        BY <1>3, <2>2, <2>5 DEF MadeInCall
      <3> QED
        BY <1>2, <3>1 DEF TempIsMine
    <2> QED
      BY <2>1, <2>7, <2>8, <2>9, <2>10, <2>11, <2>12 DEF Inv
  <1>18. ASSUME NEW p \in Procs, GiveUp(p)
        PROVE  Inv'
    <2>1. TypeOK'
      BY <1>1, <1>8, <1>18, NamesAssumption DEF GiveUp, UnlinkTemp, Goto, TypeOK
    <2>2. /\ pc[p] = "give up"
          /\ UNCHANGED <<lockname, held>>
      BY <1>1, <1>8, <1>18, NamesAssumption DEF GiveUp, UnlinkTemp, Goto, TypeOK, Holds
    <2>3. \A n \in Names : dir'[n] = dir[n] \/ (n = Temp /\ dir'[n] = NoFile)
      BY <1>1, <1>8, <1>18 DEF GiveUp, UnlinkTemp, Goto, TypeOK
    <2>4. \A q \in Procs : pc'[q] = IF q = p THEN "idle" ELSE pc[q]
      BY <1>1, <1>8, <1>18 DEF GiveUp, UnlinkTemp, Goto, TypeOK
    <2>5. \A q \in Procs : made'[q] = IF q = p THEN NoFile ELSE made[q]
      BY <1>1, <1>8, <1>18 DEF GiveUp, UnlinkTemp, Goto, TypeOK
    <2>6. TempIsMine'
      \* p alone had the temporary file
      <3>1. made[p] # NoFile
        BY <1>3, <2>2 DEF MadeInCall
      <3>2. \A q \in Procs : made[q] # NoFile => q = p
        BY <1>2, <3>1 DEF TempIsMine
      <3>3. \A q \in Procs : made'[q] = NoFile
        BY <2>5, <3>2
      <3> QED
        BY <3>3 DEF TempIsMine
    <2>7. MadeInCall'
      BY <1>3, <1>8, <2>2, <2>4, <2>5 DEF MadeInCall
    <2>8. HolderHasFile'
      BY <1>4, <1>8, <2>2, <2>3 DEF HolderHasFile, Holds
    <2>9. MutualExclusion'
      BY <1>5, <1>8, <2>2 DEF MutualExclusion, Holds
    <2>10. MadeIsNotHeld'
      BY <1>6, <1>8, <2>2, <2>5 DEF MadeIsNotHeld
    <2>11. MadeIsLinked'
      <3> SUFFICES ASSUME NEW q \in Procs, made'[q] # NoFile
                   PROVE  /\ pc'[q] \in {"stat", "unlink"} => dir'[lockname'[q]] = made'[q]
                          /\ \A m \in Locks : dir'[m] = made'[q] =>
                                /\ m = lockname'[q]
                                /\ \/ pc'[q] \in {"stat", "unlink"}
                                   \/ pc'[q] = "give up" /\ "stat" \in Failing
        BY DEF MadeIsLinked
      <3>1. made[p] # NoFile /\ made[q] # NoFile /\ q # p
        BY <1>3, <2>2, <2>5 DEF MadeInCall
      <3> QED
        BY <1>2, <3>1 DEF TempIsMine
    <2> QED
      BY <2>1, <2>6, <2>7, <2>8, <2>9, <2>10, <2>11 DEF Inv
  <1>19. ASSUME NEW p \in Procs, Crash(p)
        PROVE  Inv'
    <2>1. TypeOK'
      BY <1>1, <1>8, <1>19, NamesAssumption DEF Crash, Goto, TypeOK
    <2>2. UNCHANGED <<dir, lockname>>
      BY <1>1, <1>8, <1>19, NamesAssumption DEF Crash, Goto, TypeOK, Holds
    <2>3. \A q \in Procs : pc'[q] = IF q = p THEN "idle" ELSE pc[q]
      BY <1>1, <1>8, <1>19 DEF Crash, Goto, TypeOK
    <2>4. \A q \in Procs : made'[q] = IF q = p THEN NoFile ELSE made[q]
      BY <1>1, <1>8, <1>19 DEF Crash, Goto, TypeOK
    <2>5. \A q \in Procs, m \in Locks : held'[q][m] = IF q = p THEN NoFile ELSE held[q][m]
      BY <1>1, <1>8, <1>19 DEF Crash, Goto, TypeOK
    <2>6. TempIsMine'
      BY <1>2, <1>8, <2>2, <2>4 DEF TempIsMine
    <2>7. MadeInCall'
      BY <1>3, <1>8, <2>2, <2>3, <2>4 DEF MadeInCall
    <2>8. HolderHasFile'
      BY <1>4, <1>8, <2>2, <2>5 DEF HolderHasFile, Holds
    <2>9. MutualExclusion'
      BY <1>5, <1>8, <2>2, <2>5 DEF MutualExclusion, Holds
    <2>10. MadeIsNotHeld'
      BY <1>6, <1>8, <2>2, <2>4, <2>5 DEF MadeIsNotHeld
    <2>11. MadeIsLinked'
      <3> SUFFICES ASSUME NEW q \in Procs, made'[q] # NoFile
                   PROVE  /\ pc'[q] \in {"stat", "unlink"} => dir'[lockname'[q]] = made'[q]
                          /\ \A m \in Locks : dir'[m] = made'[q] =>
                                /\ m = lockname'[q]
                                /\ \/ pc'[q] \in {"stat", "unlink"}
                                   \/ pc'[q] = "give up" /\ "stat" \in Failing
        BY DEF MadeIsLinked
      <3>1. q # p /\ made[q] # NoFile /\ made'[q] = made[q] /\ pc'[q] = pc[q]
        BY <2>3, <2>4
      <3>2. /\ pc[q] \in {"stat", "unlink"} => dir[lockname[q]] = made[q]
            /\ \A m \in Locks : dir[m] = made[q] =>
                  /\ m = lockname[q]
                  /\ \/ pc[q] \in {"stat", "unlink"}
                     \/ pc[q] = "give up" /\ "stat" \in Failing
        BY <1>7, <3>1 DEF MadeIsLinked
      <3> QED
        BY <2>2, <3>1, <3>2
    <2> QED
      BY <2>1, <2>6, <2>7, <2>8, <2>9, <2>10, <2>11 DEF Inv
  <1>20. ASSUME NEW n0 \in Names, CleanUp(n0)
        PROVE  Inv'
    <2>1. TypeOK'
      BY <1>1, <1>8, <1>20, NamesAssumption DEF CleanUp, InUse, TypeOK
    <2>2. /\ dir[n0] # NoFile /\ \A q \in Procs : made[q] # dir[n0] /\ \A m \in Locks : held[q][m] # dir[n0]
          /\ UNCHANGED <<pc, lockname, made, held>>
      BY <1>1, <1>8, <1>20, NamesAssumption DEF CleanUp, InUse, TypeOK, Holds
    <2>3. \A n \in Names : dir'[n] = IF n = n0 THEN NoFile ELSE dir[n]
      BY <1>1, <1>8, <1>20 DEF CleanUp, InUse, TypeOK
    <2>4. TempIsMine'
      BY <1>2, <1>8, <2>2, <2>3 DEF TempIsMine
    <2>5. MadeInCall'
      BY <1>3, <1>8, <2>2 DEF MadeInCall
    <2>6. HolderHasFile'
      BY <1>4, <1>8, <2>2, <2>3 DEF HolderHasFile, Holds
    <2>7. MutualExclusion'
      BY <1>5, <1>8, <2>2 DEF MutualExclusion, Holds
    <2>8. MadeIsNotHeld'
      BY <1>6, <1>8, <2>2 DEF MadeIsNotHeld
    <2>9. MadeIsLinked'
      <3> SUFFICES ASSUME NEW q \in Procs, made'[q] # NoFile
                   PROVE  /\ pc'[q] \in {"stat", "unlink"} => dir'[lockname'[q]] = made'[q]
                          /\ \A m \in Locks : dir'[m] = made'[q] =>
                                /\ m = lockname'[q]
                                /\ \/ pc'[q] \in {"stat", "unlink"}
                                   \/ pc'[q] = "give up" /\ "stat" \in Failing
        BY DEF MadeIsLinked
      <3>1. made[q] # NoFile /\ dir[n0] # made[q]
        BY <2>2
      <3>2. /\ pc[q] \in {"stat", "unlink"} => dir[lockname[q]] = made[q]
            /\ \A m \in Locks : dir[m] = made[q] =>
                  /\ m = lockname[q]
                  /\ \/ pc[q] \in {"stat", "unlink"}
                     \/ pc[q] = "give up" /\ "stat" \in Failing
        BY <1>7, <3>1 DEF MadeIsLinked
      <3>3. lockname[q] \in Locks
        BY <1>1 DEF TypeOK
      <3> QED
        BY <1>8, <2>2, <2>3, <3>1, <3>2, <3>3
    <2> QED
      BY <2>1, <2>4, <2>5, <2>6, <2>7, <2>8, <2>9 DEF Inv
  <1>21. ASSUME UNCHANGED vars
        PROVE  Inv'
    <2>1. TypeOK'
      BY <1>1, <1>8, <1>21, NamesAssumption DEF vars, TypeOK
    <2>2. UNCHANGED <<dir, pc, lockname, made, held>>
      BY <1>1, <1>8, <1>21, NamesAssumption DEF vars, TypeOK, Holds
    <2>3. TempIsMine'
      BY <1>2, <1>8, <2>2 DEF TempIsMine
    <2>4. MadeInCall'
      BY <1>3, <1>8, <2>2 DEF MadeInCall
    <2>5. HolderHasFile'
      BY <1>4, <1>8, <2>2 DEF HolderHasFile, Holds
    <2>6. MutualExclusion'
      BY <1>5, <1>8, <2>2 DEF MutualExclusion, Holds
    <2>7. MadeIsNotHeld'
      BY <1>6, <1>8, <2>2 DEF MadeIsNotHeld
    <2>8. MadeIsLinked'
      BY <1>7, <1>8, <2>2 DEF MadeIsLinked
    <2> QED
      BY <2>1, <2>3, <2>4, <2>5, <2>6, <2>7, <2>8 DEF Inv
  <1>22. ASSUME NEW p \in Procs, Open(p)
         PROVE  Inv'
    BY <1>11, <1>22 DEF Open, OpenAs
  <1> QED
    BY <1>9, <1>10, <1>12, <1>13, <1>14, <1>15, <1>16, <1>17, <1>18, <1>19, <1>20, <1>21, <1>22 DEF Next, CreateStep

\* Whatever fails or crashes, the state of the directory and of the processes
\* stays of its type: a lock name is never taken for the temporary one.
THEOREM TypeCorrect == Spec => []TypeOK
  <1>1. Inv => TypeOK
    BY DEF Inv
  <1> QED
    BY InvInit, InvStep, <1>1, PTL DEF Spec

\* lockfile_create never gives a lock to two processes, for any number of
\* processes and of locks that share the temporary name.
THEOREM LocksExclude == Spec => []MutualExclusion
  <1>1. Inv => MutualExclusion
    BY DEF Inv
  <1> QED
    BY InvInit, InvStep, <1>1, PTL DEF Spec

\* No other process's lockfile_create or lockfile_remove, failing or not, takes
\* away the file of a lock that is held.
THEOREM HolderKeepsFile == Spec => []HolderHasFile
  <1>1. Inv => HolderHasFile
    BY DEF Inv
  <1> QED
    BY InvInit, InvStep, <1>1, PTL DEF Spec

\* The temporary file belongs to one process at a time, so that the unlink at
\* the end of lockfile_create takes only its own.
THEOREM TempIsOwned == Spec => []TempIsMine
  <1>1. Inv => TempIsMine
    BY DEF Inv
  <1> QED
    BY InvInit, InvStep, <1>1, PTL DEF Spec

\* A lockfile_create whose link fails, or whose stat finds a wrong number of
\* links, leaves no lock file of its own.
THEOREM FailureIsClean == Spec => FailureLeavesNoLock
  <1>1. ASSUME Inv, [Next]_vars
        PROVE  [\A p \in Procs :
                    pc'[p] = "give up" /\ (LinkFails(p) \/ Stat(p)) =>
                        dir'[lockname[p]] # made[p]]_vars
    <2> SUFFICES ASSUME NEW p \in Procs, pc'[p] = "give up"
                 PROVE  LinkFails(p) \/ Stat(p) => dir'[lockname[p]] # made[p]
      OBVIOUS
    <2>1. ASSUME LinkFails(p) PROVE dir'[lockname[p]] # made[p]
      <3>1. pc[p] = "link" /\ dir' = dir
        BY <2>1 DEF LinkFails
      <3>2. made[p] # NoFile /\ lockname[p] \in Locks
        BY <1>1, <3>1 DEF Inv, MadeInCall, TypeOK
      <3> QED
        BY <1>1, <3>1, <3>2 DEF Inv, MadeIsLinked
    <2>2. ~Stat(p)
      <3> SUFFICES ASSUME Stat(p) PROVE FALSE
        OBVIOUS
      <3>1. pc[p] = "stat" /\ pc \in [Procs -> {"idle", "open", "link", "stat",
                                                "unlink", "give up"}]
        BY <1>1 DEF Inv, TypeOK, Stat
      <3>2. dir[lockname[p]] # NoFile /\ Links(dir[lockname[p]]) = 2
        BY <1>1, <3>1, TwoLinks
      <3>3. pc' = [pc EXCEPT ![p] = "unlink"]
        BY <3>2 DEF Stat, Goto
      <3> QED
        BY <3>1, <3>3
    <2> QED
      BY <2>1, <2>2
  <1> QED
    BY InvInit, InvStep, <1>1, PTL DEF Spec, FailureLeavesNoLock
=============================================================================
