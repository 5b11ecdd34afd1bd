--------------------------- MODULE FileSave_proofs ---------------------------
(***************************************************************************)
(* Proofs about module FileSave: whoever opens a file that any number of   *)
(* processes save with file_save finds complete contents, whatever calls   *)
(* fail and whoever crashes; and while all of them keep backups the last   *)
(* complete contents are always there.                                     *)
(***************************************************************************)
EXTENDS FileSave, TLAPS

\* A process has a temporary file of its own from open to rename.
HasTemp(p) == pc[p] \in {"fdopen", "write", "rename old", "rename new"}

TempsAreThere == \A p \in Savers : HasTemp(p) => dir[temp[p]] # NoFile

TempsDiffer ==
    \A p, q \in Savers : HasTemp(p) /\ HasTemp(q) /\ temp[p] = temp[q] => p = q

\* It is complete before anything is renamed.
TempsAreComplete ==
    \A p \in Savers : pc[p] \in {"rename old", "rename new"} =>
        dir[temp[p]].data = data[p]

\* What has the name of the file, or of the backup, once was such a file.
NamesAreWhole == dir["name"].data # Part /\ dir["name~"].data # Part

\* The inductive invariant.
Inv ==
    /\ TypeOK
    /\ TempsAreThere
    /\ TempsDiffer
    /\ TempsAreComplete
    /\ NamesAreWhole

AllFileSave == \A p \in Savers : Caller[p] = "file_save"

\* The invariant holds at the start.
LEMMA InvInit == Init => Inv
  <1> SUFFICES ASSUME Init PROVE Inv
    OBVIOUS
  <1>1. PICK old \in [data : Data, mode : OldModes] \cup {NoFile},
             older \in [data : Data, mode : OldModes] \cup {NoFile} :
                dir = [n \in Names |-> IF n = "name" THEN old
                                       ELSE IF n = "name~" THEN older ELSE NoFile]
    BY DEF Init
  <1>2. [data : Data, mode : OldModes] \subseteq Files
    BY DEF Files, Modes
  <1>3. dir \in [Names -> Files \cup {NoFile}]
    BY <1>1, <1>2
  <1>4. TypeOK
    BY <1>3 DEF Init, TypeOK, Modes
  <1>5. dir["name"] = old /\ dir["name~"] = older
    BY <1>1 DEF Names
  <1>6. \A f \in [data : Data, mode : OldModes] \cup {NoFile} : f.data # Part
    BY DataAssumption DEF NoFile, Part
  <1>7. NamesAreWhole
    BY <1>5, <1>6 DEF NamesAreWhole
  <1>8. TempsAreThere /\ TempsDiffer /\ TempsAreComplete
    BY DEF Init, TempsAreThere, TempsDiffer, TempsAreComplete, HasTemp
  <1> QED
    BY <1>4, <1>7, <1>8 DEF Inv

\* The action CreateTemp for one of the names.
CreateAs(p, t) ==
    /\ pc[p] = "create" /\ ~Exists(t)
    /\ dir' = [dir EXCEPT ![t] = [data |-> Part, mode |-> TempMode]]
    /\ temp' = [temp EXCEPT ![p] = t]
    /\ Goto(p, "fdopen")
    /\ UNCHANGED <<data, mode, ret>>

\* Every step preserves it.
LEMMA InvStep ==
    ASSUME AllFileSave, Inv, [Next]_vars
    PROVE  Inv'
  <1>1. TypeOK
    BY DEF Inv
  <1>2. TempsAreThere
    BY DEF Inv
  <1>3. TempsDiffer
    BY DEF Inv
  <1>4. TempsAreComplete
    BY DEF Inv
  <1>5. NamesAreWhole
    BY DEF Inv
  <1>6. /\ "name" \in Names /\ "name~" \in Names /\ Temps \subseteq Names
        /\ "name" \notin Temps /\ "name~" \notin Temps
    BY NamesAssumption DEF Names
  <1>7. /\ NoFile \notin Files /\ NoFile.data # Part
        /\ \A f \in Files : f.data \in Data \cup {Part} /\ f.mode \in Modes
        /\ \A d \in Data \cup {Part}, m \in Modes : [data |-> d, mode |-> m] \in Files
    BY DataAssumption DEF Files, NoFile, Part
  <1>9. \A q \in Savers : temp[q] \in Names /\ temp[q] # "name" /\ temp[q] # "name~"
    BY <1>1, <1>6 DEF TypeOK
  <1>8. /\ TempMode \in Modes /\ Umasked \in Modes
        /\ \A d \in Data : d # Part
    BY DataAssumption DEF Modes, Part
  <1>10. ASSUME NEW p \in Savers, NEW call, Fails(p, call)
        PROVE  Inv'
    <2>1. UNCHANGED <<dir, data, temp>>
      BY <1>1, <1>10 DEF Fails, Return, Goto, TypeOK
    <2>2. \A q \in Savers : pc'[q] = IF q = p THEN "idle" ELSE pc[q]
      BY <1>1, <1>10 DEF Fails, Return, Goto, TypeOK
    <2>3. TypeOK'
      BY <1>1, <1>6, <1>7, <1>8, <1>10 DEF Fails, Return, Goto, TypeOK
    <2>4. TempsAreThere'
      BY <1>2, <2>1, <2>2 DEF TempsAreThere, HasTemp
    <2>5. TempsDiffer'
      BY <1>3, <2>1, <2>2 DEF TempsDiffer, HasTemp
    <2>6. TempsAreComplete'
      BY <1>4, <2>1, <2>2 DEF TempsAreComplete
    <2>7. NamesAreWhole'
      BY <1>5, <2>1 DEF NamesAreWhole
    <2> QED
      BY <2>3, <2>4, <2>5, <2>6, <2>7 DEF Inv
  <1>11. ASSUME NEW p \in Savers, Crash(p)
        PROVE  Inv'
    <2>1. UNCHANGED <<dir, data, temp>>
      BY <1>1, <1>11 DEF Crash, Return, Goto, TypeOK
    <2>2. \A q \in Savers : pc'[q] = IF q = p THEN "idle" ELSE pc[q]
      BY <1>1, <1>11 DEF Crash, Return, Goto, TypeOK
    <2>3. TypeOK'
      BY <1>1, <1>6, <1>7, <1>8, <1>11 DEF Crash, Return, Goto, TypeOK
    <2>4. TempsAreThere'
      BY <1>2, <2>1, <2>2 DEF TempsAreThere, HasTemp
    <2>5. TempsDiffer'
      BY <1>3, <2>1, <2>2 DEF TempsDiffer, HasTemp
    <2>6. TempsAreComplete'
      BY <1>4, <2>1, <2>2 DEF TempsAreComplete
    <2>7. NamesAreWhole'
      BY <1>5, <2>1 DEF NamesAreWhole
    <2> QED
      BY <2>3, <2>4, <2>5, <2>6, <2>7 DEF Inv
  <1>12. ASSUME NEW p \in Savers, NEW d \in Data, Call(p, d)
        PROVE  Inv'
    <2>1. /\ pc[p] = "idle"
          /\ UNCHANGED <<dir, temp>>
      BY <1>1, <1>12 DEF Call, Goto, TypeOK
    <2>2. \A q \in Savers : pc'[q] = IF q = p THEN "create" ELSE pc[q]
      BY <1>1, <1>12 DEF Call, Goto, TypeOK
    <2>3. \A q \in Savers : data'[q] = IF q = p THEN d ELSE data[q]
      BY <1>1, <1>12 DEF Call, Goto, TypeOK
    <2>4. TypeOK'
      BY <1>1, <1>6, <1>7, <1>8, <1>12 DEF Call, Goto, TypeOK
    <2>5. TempsAreThere'
      BY <1>2, <2>1, <2>2 DEF TempsAreThere, HasTemp
    <2>6. TempsDiffer'
      BY <1>3, <2>1, <2>2 DEF TempsDiffer, HasTemp
    <2>7. TempsAreComplete'
      BY <1>4, <2>1, <2>2, <2>3 DEF TempsAreComplete
    <2>8. NamesAreWhole'
      BY <1>5, <2>1 DEF NamesAreWhole
    <2> QED
      BY <2>4, <2>5, <2>6, <2>7, <2>8 DEF Inv
  <1>13. ASSUME NEW p \in Savers, NEW t \in Temps, CreateAs(p, t)
        PROVE  Inv'
    <2>1. /\ pc[p] = "create" /\ dir[t] = NoFile
          /\ UNCHANGED <<data>>
      BY <1>1, <1>13 DEF CreateAs, Goto, Exists, TypeOK
    <2>2. [data |-> Part, mode |-> TempMode] # NoFile
      BY DataAssumption DEF NoFile, Part
    <2>3. \A q \in Savers : pc'[q] = IF q = p THEN "fdopen" ELSE pc[q]
      BY <1>1, <1>13 DEF CreateAs, Goto, Exists, TypeOK
    <2>4. \A q \in Savers : temp'[q] = IF q = p THEN t ELSE temp[q]
      BY <1>1, <1>13 DEF CreateAs, Goto, Exists, TypeOK
    <2>5. \A n \in Names : dir'[n] = IF n = t THEN [data |-> Part, mode |-> TempMode] ELSE dir[n]
      BY <1>1, <1>6, <1>13 DEF CreateAs, Goto, Exists, TypeOK
    <2>6. TypeOK'
      BY <1>1, <1>6, <1>7, <1>8, <1>13 DEF CreateAs, Goto, Exists, TypeOK
    <2>7. TempsAreThere'
      <3> SUFFICES ASSUME NEW q \in Savers, pc'[q] \in {"fdopen", "write", "rename old", "rename new"}
                   PROVE  dir'[temp'[q]] # NoFile
        BY DEF TempsAreThere, HasTemp
      <3>1. CASE q = p
        BY <1>6, <2>2, <2>4, <2>5, <3>1
      <3>2. CASE q # p
        <4>1. temp'[q] = temp[q] /\ temp[q] \in Names /\ dir[temp[q]] # NoFile
          BY <1>2, <1>9, <2>3, <2>4, <3>2 DEF TempsAreThere, HasTemp
        <4> QED
          BY <2>2, <2>5, <4>1
      <3> QED
        BY <3>1, <3>2
    <2>8. TempsDiffer'
      <3> SUFFICES ASSUME NEW q \in Savers, NEW r \in Savers,
                          pc'[q] \in {"fdopen", "write", "rename old", "rename new"},
                          pc'[r] \in {"fdopen", "write", "rename old", "rename new"},
                          temp'[q] = temp'[r], q # r
                   PROVE  FALSE
        BY DEF TempsDiffer, HasTemp
      <3>1. ASSUME NEW o \in Savers, o # p,
                   pc'[o] \in {"fdopen", "write", "rename old", "rename new"}
            PROVE  HasTemp(o) /\ temp'[o] = temp[o] /\ temp[o] # t
        <4>1. HasTemp(o) /\ temp'[o] = temp[o]
          BY <2>3, <2>4, <3>1 DEF HasTemp
        <4> QED
          BY <1>2, <2>1, <4>1 DEF TempsAreThere
      <3>2. CASE q = p
        BY <2>4, <3>1, <3>2
      <3>3. CASE r = p
        BY <2>4, <3>1, <3>3
      <3>4. CASE q # p /\ r # p
        <4>1. HasTemp(q) /\ HasTemp(r) /\ temp[q] = temp[r]
          BY <3>1, <3>4
        <4> QED
          BY <1>3, <4>1 DEF TempsDiffer
      <3> QED
        BY <3>2, <3>3, <3>4
    <2>9. TempsAreComplete'
      <3> SUFFICES ASSUME NEW q \in Savers, pc'[q] \in {"rename old", "rename new"}
                   PROVE  dir'[temp'[q]].data = data'[q]
        BY DEF TempsAreComplete
      <3>1. pc[q] = pc'[q] /\ q # p /\ HasTemp(q)
        BY <2>3 DEF HasTemp
      <3>2. temp'[q] = temp[q] /\ data'[q] = data[q] /\ temp[q] \in Names
        BY <1>9, <2>1, <2>4, <3>1
      <3>3. temp[q] # t
        BY <1>2, <2>1, <3>1 DEF TempsAreThere
      <3>4. dir'[temp[q]] = dir[temp[q]]
        BY <1>9, <2>5, <3>2, <3>3
      <3> QED
        BY <1>4, <3>1, <3>2, <3>4 DEF TempsAreComplete
    <2>10. NamesAreWhole'
      BY <1>5, <1>6, <1>7, <1>9, <2>1, <2>2, <2>5 DEF NamesAreWhole
    <2> QED
      BY <2>6, <2>7, <2>8, <2>9, <2>10 DEF Inv
  <1>14. ASSUME NEW p \in Savers, CreateTempGivesUp(p)
        PROVE  Inv'
    <2>1. UNCHANGED <<dir, data, temp>>
      BY <1>1, <1>14 DEF CreateTempGivesUp, Return, Goto, TypeOK
    <2>2. \A q \in Savers : pc'[q] = IF q = p THEN "idle" ELSE pc[q]
      BY <1>1, <1>14 DEF CreateTempGivesUp, Return, Goto, TypeOK
    <2>3. TypeOK'
      BY <1>1, <1>6, <1>7, <1>8, <1>14 DEF CreateTempGivesUp, Return, Goto, TypeOK
    <2>4. TempsAreThere'
      BY <1>2, <2>1, <2>2 DEF TempsAreThere, HasTemp
    <2>5. TempsDiffer'
      BY <1>3, <2>1, <2>2 DEF TempsDiffer, HasTemp
    <2>6. TempsAreComplete'
      BY <1>4, <2>1, <2>2 DEF TempsAreComplete
    <2>7. NamesAreWhole'
      BY <1>5, <2>1 DEF NamesAreWhole
    <2> QED
      BY <2>3, <2>4, <2>5, <2>6, <2>7 DEF Inv
  <1>15. ASSUME NEW p \in Savers, Fdopen(p)
        PROVE  Inv'
    <2>1. /\ pc[p] = "fdopen"
          /\ UNCHANGED <<dir, data, temp>>
      BY <1>1, <1>15 DEF Fdopen, Goto, TypeOK
    <2>2. \A q \in Savers : pc'[q] = IF q = p THEN "write" ELSE pc[q]
      BY <1>1, <1>15 DEF Fdopen, Goto, TypeOK
    <2>3. TypeOK'
      BY <1>1, <1>6, <1>7, <1>8, <1>15 DEF Fdopen, Goto, TypeOK
    <2>4. TempsAreThere'
      BY <1>2, <2>1, <2>2 DEF TempsAreThere, HasTemp
    <2>5. TempsDiffer'
      <3>1. \A q \in Savers : HasTemp(q)' <=> HasTemp(q)
        BY <2>1, <2>2 DEF HasTemp
      <3> QED
        BY <1>3, <2>1, <3>1 DEF TempsDiffer
    <2>6. TempsAreComplete'
      BY <1>4, <2>1, <2>2 DEF TempsAreComplete
    <2>7. NamesAreWhole'
      BY <1>5, <2>1 DEF NamesAreWhole
    <2> QED
      BY <2>3, <2>4, <2>5, <2>6, <2>7 DEF Inv
  <1>16. ASSUME NEW p \in Savers, Write(p)
        PROVE  Inv'
    <2>1. /\ pc[p] = "write"
          /\ temp[p] \in Temps
          /\ UNCHANGED <<data, temp>>
      BY <1>1, <1>16 DEF Write, Goto, TypeOK
    <2>2. /\ data[p] \in Data /\ dir[temp[p]] \in Files /\ dir[temp[p]].mode \in Modes
          /\ [data |-> data[p], mode |-> dir[temp[p]].mode] \in Files
          /\ [data |-> data[p], mode |-> dir[temp[p]].mode] # NoFile
          /\ [data |-> data[p], mode |-> dir[temp[p]].mode].data = data[p]
      <3>1. dir[temp[p]] # NoFile
        BY <1>2, <2>1 DEF TempsAreThere, HasTemp
      <3>2. data[p] \in Data /\ dir[temp[p]] \in Files
        BY <1>1, <1>9, <3>1 DEF TypeOK
      <3>3. dir[temp[p]].mode \in Modes
        BY <1>7, <3>2
      <3>4. [data |-> data[p], mode |-> dir[temp[p]].mode] \in Files
        BY <1>7, <3>2, <3>3
      <3> QED
        BY <1>7, <3>2, <3>3, <3>4
    <2>3. \A q \in Savers : pc'[q] = IF q = p THEN "rename old" ELSE pc[q]
      BY <1>1, <1>16 DEF Write, Goto, TypeOK
    <2>4. \A n \in Names : dir'[n] = IF n = temp[p] THEN [data |-> data[p], mode |-> dir[temp[p]].mode] ELSE dir[n]
      BY <1>1, <1>6, <1>16 DEF Write, Goto, TypeOK
    <2>5. TypeOK'
      <3>1. dir' \in [Names -> Files \cup {NoFile}]
        BY <1>1, <1>6, <1>16, <2>2 DEF Write, Goto, TypeOK
      <3> QED
        BY <1>1, <1>16, <3>1 DEF Write, Goto, TypeOK
    <2>6. TempsAreThere'
      BY <1>2, <1>3, <1>9, <2>1, <2>2, <2>3, <2>4 DEF TempsAreThere, TempsDiffer, HasTemp
    <2>7. TempsDiffer'
      <3>1. \A q \in Savers : HasTemp(q)' <=> HasTemp(q)
        BY <2>1, <2>3 DEF HasTemp
      <3> QED
        BY <1>3, <2>1, <3>1 DEF TempsDiffer
    <2>8. TempsAreComplete'
      <3> SUFFICES ASSUME NEW q \in Savers, pc'[q] \in {"rename old", "rename new"}
                   PROVE  dir'[temp'[q]].data = data'[q]
        BY DEF TempsAreComplete
      <3>5. CASE q = p
        BY <1>9, <2>1, <2>2, <2>4, <3>5
      <3>6. CASE q # p
        <4>1. pc[q] = pc'[q] /\ q # p /\ HasTemp(q)
          BY <2>3, <3>6 DEF HasTemp
        <4>2. temp'[q] = temp[q] /\ data'[q] = data[q] /\ temp[q] \in Names
          BY <1>9, <2>1, <4>1
        <4>3. temp[q] # temp[p]
          BY <1>3, <2>1, <4>1 DEF TempsDiffer, HasTemp
        <4>4. dir'[temp[q]] = dir[temp[q]]
          BY <1>9, <2>4, <4>2, <4>3
        <4> QED
          BY <1>4, <4>1, <4>2, <4>4 DEF TempsAreComplete
      <3> QED
        BY <3>5, <3>6
    <2>9. NamesAreWhole'
      BY <1>5, <1>6, <1>7, <1>9, <2>1, <2>2, <2>4 DEF NamesAreWhole
    <2> QED
      BY <2>5, <2>6, <2>7, <2>8, <2>9 DEF Inv
  <1>17. ASSUME NEW p \in Savers, WriteFails(p)
        PROVE  Inv'
    <2>1. UNCHANGED <<dir, data, temp>>
      BY <1>1, <1>17 DEF WriteFails, Goto, AllFileSave, TypeOK
    <2>2. \A q \in Savers : pc'[q] = IF q = p THEN "idle" ELSE pc[q]
      BY <1>1, <1>17 DEF WriteFails, Goto, AllFileSave, TypeOK
    <2>3. TypeOK'
      BY <1>1, <1>6, <1>7, <1>8, <1>17 DEF WriteFails, Goto, AllFileSave, TypeOK
    <2>4. TempsAreThere'
      BY <1>2, <2>1, <2>2 DEF TempsAreThere, HasTemp
    <2>5. TempsDiffer'
      BY <1>3, <2>1, <2>2 DEF TempsDiffer, HasTemp
    <2>6. TempsAreComplete'
      BY <1>4, <2>1, <2>2 DEF TempsAreComplete
    <2>7. NamesAreWhole'
      BY <1>5, <2>1 DEF NamesAreWhole
    <2> QED
      BY <2>3, <2>4, <2>5, <2>6, <2>7 DEF Inv
  <1>18. ASSUME NEW p \in Savers, RenameOld(p), Exists("name")
        PROVE  Inv'
    <2>1. /\ pc[p] = "rename old"
          /\ UNCHANGED <<data, temp>>
      BY <1>1, <1>18 DEF RenameOld, Renamed, Goto, Exists, TypeOK
    <2>2. \A q \in Savers : pc'[q] = IF q = p THEN "rename new" ELSE pc[q]
      BY <1>1, <1>18 DEF RenameOld, Renamed, Goto, TypeOK
    <2>3. \A n \in Names : dir'[n] = IF n = "name" THEN NoFile ELSE IF n = "name~" THEN dir["name"] ELSE dir[n]
      BY <1>1, <1>6, <1>18 DEF RenameOld, Renamed, Goto, Exists, TypeOK
    <2>4. TypeOK'
      BY <1>1, <1>6, <1>7, <1>8, <1>18 DEF RenameOld, Renamed, Goto, Exists, TypeOK
    <2>5. TempsAreThere'
      BY <1>2, <1>9, <2>1, <2>2, <2>3 DEF TempsAreThere, HasTemp
    <2>6. TempsDiffer'
      BY <1>3, <2>1, <2>2 DEF TempsDiffer, HasTemp
    <2>7. TempsAreComplete'
      BY <1>4, <1>9, <2>1, <2>2, <2>3 DEF TempsAreComplete
    <2>8. NamesAreWhole'
      BY <1>5, <1>6, <1>7, <1>9, <2>1, <2>3 DEF NamesAreWhole
    <2> QED
      BY <2>4, <2>5, <2>6, <2>7, <2>8 DEF Inv
  <1>19. ASSUME NEW p \in Savers, RenameOld(p), ~Exists("name")
        PROVE  Inv'
    <2>1. /\ pc[p] = "rename old"
          /\ UNCHANGED <<dir, data, temp>>
      BY <1>1, <1>19 DEF RenameOld, Goto, Exists, TypeOK
    <2>2. \A q \in Savers : pc'[q] = IF q = p THEN "rename new" ELSE pc[q]
      BY <1>1, <1>19 DEF RenameOld, Goto, TypeOK
    <2>3. TypeOK'
      BY <1>1, <1>6, <1>7, <1>8, <1>19 DEF RenameOld, Goto, Exists, TypeOK
    <2>4. TempsAreThere'
      BY <1>2, <2>1, <2>2 DEF TempsAreThere, HasTemp
    <2>5. TempsDiffer'
      BY <1>3, <2>1, <2>2 DEF TempsDiffer, HasTemp
    <2>6. TempsAreComplete'
      BY <1>4, <2>1, <2>2 DEF TempsAreComplete
    <2>7. NamesAreWhole'
      BY <1>5, <2>1 DEF NamesAreWhole
    <2> QED
      BY <2>3, <2>4, <2>5, <2>6, <2>7 DEF Inv
  <1>20. ASSUME NEW p \in Savers, RenameNew(p), Exists(temp[p])
        PROVE  Inv'
    <2>1. /\ pc[p] = "rename new"
          /\ temp[p] \in Temps
          /\ UNCHANGED <<data, temp>>
      BY <1>1, <1>20 DEF RenameNew, Renamed, Goto, Exists, TypeOK
    <2>2. dir[temp[p]].data = data[p] /\ data[p] # Part
      BY <1>1, <1>4, <1>8, <2>1 DEF TempsAreComplete, TypeOK
    <2>3. \A q \in Savers : pc'[q] = IF q = p THEN "stat" ELSE pc[q]
      BY <1>1, <1>20 DEF RenameNew, Renamed, Goto, TypeOK
    <2>4. \A n \in Names : dir'[n] = IF n = temp[p] THEN NoFile ELSE IF n = "name" THEN dir[temp[p]] ELSE dir[n]
      BY <1>1, <1>6, <1>20 DEF RenameNew, Renamed, Goto, Exists, TypeOK
    <2>5. TypeOK'
      BY <1>1, <1>6, <1>7, <1>8, <1>20 DEF RenameNew, Renamed, Goto, Exists, TypeOK
    <2>6. TempsAreThere'
      BY <1>2, <1>3, <1>9, <2>1, <2>2, <2>3, <2>4 DEF TempsAreThere, TempsDiffer, HasTemp
    <2>7. TempsDiffer'
      BY <1>3, <2>1, <2>3 DEF TempsDiffer, HasTemp
    <2>8. TempsAreComplete'
      <3> SUFFICES ASSUME NEW q \in Savers, pc'[q] \in {"rename old", "rename new"}
                   PROVE  dir'[temp'[q]].data = data'[q]
        BY DEF TempsAreComplete
      <3>1. pc[q] = pc'[q] /\ q # p /\ HasTemp(q)
        BY <2>3 DEF HasTemp
      <3>2. temp'[q] = temp[q] /\ data'[q] = data[q] /\ temp[q] \in Names
        BY <1>9, <2>1, <3>1
      <3>3. temp[q] # temp[p]
        BY <1>3, <2>1, <3>1 DEF TempsDiffer, HasTemp
      <3>4. dir'[temp[q]] = dir[temp[q]]
        BY <1>9, <2>4, <3>2, <3>3
      <3> QED
        BY <1>4, <3>1, <3>2, <3>4 DEF TempsAreComplete
    <2>9. NamesAreWhole'
      BY <1>5, <1>6, <1>7, <1>9, <2>1, <2>2, <2>4 DEF NamesAreWhole
    <2> QED
      BY <2>5, <2>6, <2>7, <2>8, <2>9 DEF Inv
  <1>21. ASSUME NEW p \in Savers, RenameNew(p), ~Exists(temp[p])
        PROVE  Inv'
    <2>1. UNCHANGED <<dir, data, temp>>
      BY <1>1, <1>21 DEF RenameNew, Return, Goto, Exists, TypeOK
    <2>2. \A q \in Savers : pc'[q] = IF q = p THEN "idle" ELSE pc[q]
      BY <1>1, <1>21 DEF RenameNew, Return, Goto, TypeOK
    <2>3. TypeOK'
      BY <1>1, <1>6, <1>7, <1>8, <1>21 DEF RenameNew, Return, Goto, Exists, TypeOK
    <2>4. TempsAreThere'
      BY <1>2, <2>1, <2>2 DEF TempsAreThere, HasTemp
    <2>5. TempsDiffer'
      BY <1>3, <2>1, <2>2 DEF TempsDiffer, HasTemp
    <2>6. TempsAreComplete'
      BY <1>4, <2>1, <2>2 DEF TempsAreComplete
    <2>7. NamesAreWhole'
      BY <1>5, <2>1 DEF NamesAreWhole
    <2> QED
      BY <2>3, <2>4, <2>5, <2>6, <2>7 DEF Inv
  <1>22. ASSUME NEW p \in Savers, NEW next \in {"chmod", "idle", "remove"}, Stat(p), Goto(p, next)
        PROVE  Inv'
    <2>1. UNCHANGED <<dir, data, temp>>
      BY <1>1, <1>22 DEF Stat, Goto, Exists, AfterModes, TypeOK
    <2>2. \A q \in Savers : pc'[q] = IF q = p THEN next ELSE pc[q]
      BY <1>1, <1>22 DEF Stat, Goto, TypeOK
    <2>3. TypeOK'
      <3>1. mode' \in [Savers -> Modes]
        <4>1. Exists("name~") => dir["name~"].mode \in Modes
          BY <1>1, <1>6, <1>7 DEF Exists, TypeOK
        <4>2. mode \in [Savers -> Modes] /\ Umasked \in Modes
          BY <1>1, <1>8 DEF TypeOK
        <4> QED
          BY <1>22, <4>1, <4>2 DEF Stat
      <3> QED
        BY <1>1, <1>22, <3>1 DEF Stat, AfterModes, Goto, TypeOK
    <2>4. TempsAreThere'
      BY <1>2, <2>1, <2>2 DEF TempsAreThere, HasTemp
    <2>5. TempsDiffer'
      BY <1>3, <2>1, <2>2 DEF TempsDiffer, HasTemp
    <2>6. TempsAreComplete'
      BY <1>4, <2>1, <2>2 DEF TempsAreComplete
    <2>7. NamesAreWhole'
      BY <1>5, <2>1 DEF NamesAreWhole
    <2> QED
      BY <2>3, <2>4, <2>5, <2>6, <2>7 DEF Inv
  <1>23. ASSUME NEW p \in Savers, NEW next \in {"idle", "remove"}, Chmod(p), Goto(p, next), Exists("name")
        PROVE  Inv'
    <2>1. UNCHANGED <<data, temp>>
      BY <1>1, <1>23 DEF Chmod, Goto, Exists, AfterModes, TypeOK
    <2>2. /\ mode[p] \in Modes /\ dir["name"].data \in Data \cup {Part}
          /\ [data |-> dir["name"].data, mode |-> mode[p]] \in Files
          /\ [data |-> dir["name"].data, mode |-> mode[p]].data = dir["name"].data
      <3>1. mode[p] \in Modes /\ dir["name"] \in Files
        BY <1>1, <1>6, <1>23 DEF TypeOK, Exists
      <3>2. dir["name"].data \in Data \cup {Part}
        BY <1>7, <3>1
      <3>3. [data |-> dir["name"].data, mode |-> mode[p]] \in Files
        BY <1>7, <3>1, <3>2
      <3> QED
        BY <3>1, <3>2, <3>3
    <2>3. \A q \in Savers : pc'[q] = IF q = p THEN next ELSE pc[q]
      BY <1>1, <1>23 DEF Chmod, Goto, TypeOK
    <2>4. \A n \in Names : dir'[n] = IF n = "name" THEN [data |-> dir["name"].data, mode |-> mode[p]] ELSE dir[n]
      BY <1>1, <1>6, <1>23 DEF Chmod, Goto, Exists, TypeOK
    <2>5. TypeOK'
      <3>1. dir' \in [Names -> Files \cup {NoFile}]
        BY <1>1, <1>6, <1>23, <2>2 DEF Chmod, Goto, Exists, TypeOK
      <3> QED
        BY <1>1, <1>23, <3>1 DEF Chmod, Goto, Exists, AfterModes, TypeOK
    <2>6. TempsAreThere'
      BY <1>2, <1>9, <2>1, <2>2, <2>3, <2>4 DEF TempsAreThere, HasTemp
    <2>7. TempsDiffer'
      BY <1>3, <2>1, <2>3 DEF TempsDiffer, HasTemp
    <2>8. TempsAreComplete'
      BY <1>4, <1>9, <2>1, <2>2, <2>3, <2>4 DEF TempsAreComplete
    <2>9. NamesAreWhole'
      BY <1>5, <1>6, <1>7, <1>9, <2>1, <2>2, <2>4 DEF NamesAreWhole
    <2> QED
      BY <2>5, <2>6, <2>7, <2>8, <2>9 DEF Inv
  <1>24. ASSUME NEW p \in Savers, Chmod(p), ~Exists("name")
        PROVE  Inv'
    <2>1. UNCHANGED <<dir, data, temp>>
      BY <1>1, <1>24 DEF Chmod, Return, Goto, Exists, TypeOK
    <2>2. \A q \in Savers : pc'[q] = IF q = p THEN "idle" ELSE pc[q]
      BY <1>1, <1>24 DEF Chmod, Return, Goto, TypeOK
    <2>3. TypeOK'
      BY <1>1, <1>6, <1>7, <1>8, <1>24 DEF Chmod, Return, Goto, Exists, TypeOK
    <2>4. TempsAreThere'
      BY <1>2, <2>1, <2>2 DEF TempsAreThere, HasTemp
    <2>5. TempsDiffer'
      BY <1>3, <2>1, <2>2 DEF TempsDiffer, HasTemp
    <2>6. TempsAreComplete'
      BY <1>4, <2>1, <2>2 DEF TempsAreComplete
    <2>7. NamesAreWhole'
      BY <1>5, <2>1 DEF NamesAreWhole
    <2> QED
      BY <2>3, <2>4, <2>5, <2>6, <2>7 DEF Inv
  <1>25. ASSUME NEW p \in Savers, RemoveBackup(p)
        PROVE  Inv'
    <2>1. UNCHANGED <<data, temp>>
      BY <1>1, <1>25 DEF RemoveBackup, Goto, TypeOK
    <2>2. \A q \in Savers : pc'[q] = IF q = p THEN "idle" ELSE pc[q]
      BY <1>1, <1>25 DEF RemoveBackup, Goto, TypeOK
    <2>3. \A n \in Names : dir'[n] = IF n = "name~" THEN NoFile ELSE dir[n]
      BY <1>1, <1>6, <1>25 DEF RemoveBackup, Goto, TypeOK
    <2>4. TypeOK'
      BY <1>1, <1>6, <1>7, <1>8, <1>25 DEF RemoveBackup, Goto, TypeOK
    <2>5. TempsAreThere'
      BY <1>2, <1>9, <2>1, <2>2, <2>3 DEF TempsAreThere, HasTemp
    <2>6. TempsDiffer'
      BY <1>3, <2>1, <2>2 DEF TempsDiffer, HasTemp
    <2>7. TempsAreComplete'
      BY <1>4, <1>9, <2>1, <2>2, <2>3 DEF TempsAreComplete
    <2>8. NamesAreWhole'
      BY <1>5, <1>6, <1>7, <1>9, <2>1, <2>3 DEF NamesAreWhole
    <2> QED
      BY <2>4, <2>5, <2>6, <2>7, <2>8 DEF Inv
  <1>26. ASSUME UNCHANGED vars
        PROVE  Inv'
    BY <1>1, <1>2, <1>3, <1>4, <1>5, <1>26
    DEF Inv, vars, TypeOK, TempsAreThere, TempsDiffer, TempsAreComplete, NamesAreWhole, HasTemp, Exists
  <1>27. ASSUME NEW p \in Savers, Step(p)
        PROVE  Inv'
    <2>1. CASE CreateTemp(p)
      BY <2>1, <1>13 DEF CreateTemp, CreateAs
    <2>2. CASE Stat(p)
      BY <2>2, <1>22 DEF Stat, AfterModes
    <2>3. CASE Chmod(p)
      BY <2>3, <1>23, <1>24 DEF Chmod, AfterModes
    <2>4. CASE RenameOld(p)
      BY <2>4, <1>18, <1>19
    <2>5. CASE RenameNew(p)
      BY <2>5, <1>20, <1>21
    <2>6. CASE \E call \in {"create", "fdopen", "rename old", "rename new", "stat",
                           "chmod", "remove"} : Fails(p, call)
      BY <2>6, <1>10
    <2> QED
      BY <1>27, <2>1, <2>2, <2>3, <2>4, <2>5, <2>6, <1>14, <1>15, <1>16,
         <1>17, <1>25 DEF Step
  <1> QED
    BY <1>11, <1>12, <1>26, <1>27 DEF Next

\* The state of the directory and of the savers stays of its type, whatever
\* fails and whoever crashes: permissions are never made up.
THEOREM TypeCorrect == ASSUME AllFileSave PROVE Spec => []TypeOK
  <1>1. Inv => TypeOK
    BY DEF Inv
  <1>2. Inv /\ [Next]_vars => Inv'
    BY InvStep
  <1> QED
    BY InvInit, <1>1, <1>2, PTL DEF Spec

\* Nobody who opens a file that is saved with file_save finds a part of it.
THEOREM FilesAreWhole == ASSUME AllFileSave PROVE Spec => []NameIsWhole
  <1>1. Inv => NameIsWhole
    BY DEF Inv, NamesAreWhole, NameIsWhole
  <1>2. Inv /\ [Next]_vars => Inv'
    BY InvStep
  <1> QED
    BY InvInit, <1>1, <1>2, PTL DEF Spec

-----------------------------------------------------------------------------
\* A saver that keeps backups never comes to the point where it would remove one.
KeepersKeep == \A p \in Savers : p \in Keeps => pc[p] # "remove"

\* It stays so in every step.
LEMMA KeepersGoOnKeeping ==
    ASSUME TypeOK, KeepersKeep, [Next]_vars
    PROVE  KeepersKeep'
  <1>1. CASE UNCHANGED vars
    BY <1>1 DEF KeepersKeep, vars
  <1>2. ASSUME NEW p \in Savers, NEW next, Goto(p, next), p \in Keeps => next # "remove"
        PROVE  KeepersKeep'
    BY <1>2 DEF KeepersKeep, Goto, TypeOK
  <1>3. ASSUME NEW p \in Savers, Step(p)
        PROVE  KeepersKeep'
    <2>1. CASE CreateTemp(p)
      BY <2>1, <1>2 DEF CreateTemp
    <2>2. CASE CreateTempGivesUp(p)
      BY <2>2, <1>2 DEF CreateTempGivesUp, Return
    <2>3. CASE Fdopen(p)
      BY <2>3, <1>2 DEF Fdopen
    <2>4. CASE Write(p)
      BY <2>4, <1>2 DEF Write
    <2>5. CASE WriteFails(p)
      BY <2>5, <1>2 DEF WriteFails
    <2>6. CASE RenameOld(p)
      BY <2>6, <1>2 DEF RenameOld
    <2>7. CASE RenameNew(p)
      BY <2>7, <1>2 DEF RenameNew, Return
    <2>8. CASE Stat(p)
      BY <2>8, <1>2 DEF Stat, AfterModes
    <2>9. CASE Chmod(p)
      BY <2>9, <1>2 DEF Chmod, AfterModes, Return
    <2>10. CASE RemoveBackup(p)
      BY <2>10, <1>2 DEF RemoveBackup
    <2>11. ASSUME NEW call, Fails(p, call)
           PROVE  KeepersKeep'
      BY <2>11, <1>2 DEF Fails, Return
    <2> QED
      BY <1>3, <2>1, <2>2, <2>3, <2>4, <2>5, <2>6, <2>7, <2>8, <2>9, <2>10, <2>11 DEF Step
  <1>4. ASSUME NEW p \in Savers, Crash(p)
        PROVE  KeepersKeep'
    BY <1>4, <1>2 DEF Crash, Return
  <1>5. ASSUME NEW p \in Savers, NEW d \in Data, Call(p, d)
        PROVE  KeepersKeep'
    BY <1>5, <1>2 DEF Call
  <1> QED
    BY <1>1, <1>3, <1>4, <1>5 DEF Next

\* The steps that change the directory.
LEMMA WhatChangesDir ==
    ASSUME [Next]_vars
    PROVE  \/ UNCHANGED dir
           \/ \E p \in Savers : \/ CreateTemp(p) \/ Write(p) \/ RenameOld(p)
                                \/ RenameNew(p) \/ Chmod(p) \/ RemoveBackup(p)
  <1>1. CASE UNCHANGED vars
    BY <1>1 DEF vars
  <1>2. ASSUME NEW p \in Savers, Step(p)
        PROVE  UNCHANGED dir \/ CreateTemp(p) \/ Write(p) \/ RenameOld(p)
                             \/ RenameNew(p) \/ Chmod(p) \/ RemoveBackup(p)
    BY <1>2 DEF Step, CreateTempGivesUp, Fdopen, WriteFails, Stat, Fails
  <1>3. ASSUME NEW p \in Savers, Crash(p) \/ \E d \in Data : Call(p, d)
        PROVE  UNCHANGED dir
    BY <1>3 DEF Crash, Call
  <1> QED
    BY <1>1, <1>2, <1>3 DEF Next

\* A step replaces the last contents only by the complete ones of a rename.
LEMMA LatestStep ==
    ASSUME Inv, KeepersKeep, Savers \subseteq Keeps, [Next]_vars, Latest \in Data
    PROVE  \/ Latest' = Latest
           \/ \E p \in Savers : pc[p] = "rename new" /\ Latest' = data[p]
  <1>1. TypeOK /\ TempsAreThere /\ TempsAreComplete
    BY DEF Inv
  <1>2. /\ "name" \in Names /\ "name~" \in Names /\ Temps \subseteq Names
        /\ "name" \notin Temps /\ "name~" \notin Temps
    BY NamesAssumption DEF Names
  <1>3. CASE dir'["name"] = dir["name"] /\ dir'["name~"] = dir["name~"]
    BY <1>3 DEF Latest, Exists
  <1>4. ASSUME NEW p \in Savers, CreateTemp(p)
        PROVE  Latest' = Latest
    BY <1>1, <1>2, <1>3, <1>4 DEF CreateTemp, TypeOK, Latest, Exists
  <1>5. ASSUME NEW p \in Savers, Write(p)
        PROVE  Latest' = Latest
    <2>1. temp[p] \in Temps
      BY <1>1 DEF TypeOK
    <2> QED
      BY <1>1, <1>2, <1>5, <2>1 DEF Write, TypeOK, Latest, Exists
  <1>6. ASSUME NEW p \in Savers, RenameOld(p)
        PROVE  Latest' = Latest
    <2>1. CASE ~Exists("name")
      BY <1>6, <2>1 DEF RenameOld, Latest, Exists
    <2>2. CASE Exists("name")
      <3>1. dir'["name"] = NoFile /\ dir'["name~"] = dir["name"]
        BY <1>1, <1>2, <1>6, <2>2 DEF RenameOld, Renamed, TypeOK
      <3> QED
        BY <2>2, <3>1 DEF Latest, Exists
    <2> QED
      BY <2>1, <2>2
  <1>7. ASSUME NEW p \in Savers, RenameNew(p)
        PROVE  Latest' = Latest \/ (pc[p] = "rename new" /\ Latest' = data[p])
    <2>1. CASE ~Exists(temp[p])
      <3>1. UNCHANGED dir
        BY <1>7, <2>1 DEF RenameNew
      <3>2. Latest' = Latest
        BY <3>1 DEF Latest, Exists
      <3> QED
        BY <3>2
    <2>2. CASE Exists(temp[p])
      <3>1. temp[p] \in Temps
        BY <1>1 DEF TypeOK
      <3>2. dir'["name"] = dir[temp[p]]
        BY <1>1, <1>2, <1>7, <2>2, <3>1 DEF RenameNew, Renamed, TypeOK
      <3>3. pc[p] = "rename new" /\ dir[temp[p]].data = data[p]
        BY <1>1, <1>7 DEF RenameNew, TempsAreComplete
      <3>4. dir'["name"] # NoFile /\ dir'["name"].data = data[p]
        BY <2>2, <3>2, <3>3 DEF Exists
      <3> QED
        BY <3>3, <3>4 DEF Latest, Exists
    <2> QED
      BY <2>1, <2>2
  <1>8. ASSUME NEW p \in Savers, Chmod(p)
        PROVE  Latest' = Latest
    <2>1. CASE ~Exists("name")
      BY <1>8, <2>1 DEF Chmod, Latest, Exists
    <2>2. CASE Exists("name")
      <3> DEFINE new == [data |-> dir["name"].data, mode |-> mode[p]]
      <3>1. dir'["name"] = new
        BY <1>1, <1>2, <1>8, <2>2 DEF Chmod, TypeOK
      <3>2. dir["name"].data \in Data
        BY <2>2 DEF Latest
      <3>3. new.data = dir["name"].data /\ NoFile.data = "none"
        BY DEF NoFile
      <3>4. new # NoFile
        BY <3>2, <3>3, DataAssumption
      <3> QED
        BY <2>2, <3>1, <3>3, <3>4 DEF Latest, Exists
    <2> QED
      BY <2>1, <2>2
  <1>9. ASSUME NEW p \in Savers, RemoveBackup(p)
        PROVE  FALSE
    BY <1>9 DEF RemoveBackup, KeepersKeep
  <1> QED
    BY <1>3, <1>4, <1>5, <1>6, <1>7, <1>8, <1>9, WhatChangesDir

\* When all savers keep backups, then through any interleaving of their saves,
\* with any failures and crashes, the last complete contents remain, under the
\* name or in the backup.
THEOREM LatestIsKept ==
    ASSUME AllFileSave, Savers \subseteq Keeps
    PROVE  Spec => LatestSurvives
  <1>1. Inv /\ [Next]_vars => Inv'
    BY InvStep
  <1>2. Init => KeepersKeep
    BY DEF Init, KeepersKeep
  <1>3. Inv /\ KeepersKeep /\ [Next]_vars => KeepersKeep'
    BY KeepersGoOnKeeping DEF Inv
  <1>4. Inv /\ KeepersKeep /\ [Next]_vars =>
            [(Latest \in Data) =>
                \/ Latest' = Latest
                \/ \E p \in Savers : pc[p] = "rename new" /\ Latest' = data[p]]_vars
    BY LatestStep
  <1> QED
    BY InvInit, <1>1, <1>2, <1>3, <1>4, PTL DEF Spec, LatestSurvives


-----------------------------------------------------------------------------
\* What a save that nobody disturbs knows at the call it makes next.  When ret is
\* -1 already, as it may be in sbuf_save, the file is not what was to be saved.
Undisturbed(p) ==
    /\ HasTemp(p) => Exists(temp[p])
    /\ pc[p] \in {"rename old", "rename new"} /\ ret[p] = 0 =>
            dir[temp[p]].data = data[p]
    /\ pc[p] \in {"stat", "chmod", "remove"} /\ ret[p] = 0 =>
            dir["name"].data = data[p]
    /\ pc[p] = "chmod" /\ Exists("name~") => mode[p] = dir["name~"].mode

\* What a save that returns 0 in this step has done.
Saves(p) ==
    pc[p] # "idle" /\ pc'[p] = "idle" /\ ret'[p] = 0 =>
        /\ dir'["name"].data = data[p]
        /\ dir'["name~"] # NoFile => dir'["name"].mode = dir'["name~"].mode

OneSaver == \A p, q \in Savers : p = q

\* The inductive invariant for one saver, which calls either function.
OneInv == TypeOK /\ \A p \in Savers : Undisturbed(p)

\* A step of the saver, whichever function it calls and whether it keeps the backup.
LEMMA SaverStep ==
    ASSUME TypeOK, NEW p \in Savers, Undisturbed(p),
           Step(p) \/ Crash(p) \/ \E d \in Data : Call(p, d)
    PROVE  TypeOK' /\ Undisturbed(p)' /\ Saves(p)
  <1>1. /\ "name" \in Names /\ "name~" \in Names /\ Temps \subseteq Names
        /\ "name" \notin Temps /\ "name~" \notin Temps
    BY NamesAssumption DEF Names
  <1>2. /\ NoFile \notin Files
        /\ \A f \in Files : f.data \in Data \cup {Part} /\ f.mode \in Modes
        /\ \A d \in Data \cup {Part}, m \in Modes :
                /\ [data |-> d, mode |-> m] \in Files
                /\ [data |-> d, mode |-> m].data = d /\ [data |-> d, mode |-> m].mode = m
    BY DataAssumption DEF Files, NoFile, Part
  <1>3. TempMode \in Modes /\ Umasked \in Modes
    BY DEF Modes
  <1>4. temp[p] \in Temps /\ data[p] \in Data /\ mode[p] \in Modes /\ dir \in [Names -> Files \cup {NoFile}]
    BY DEF TypeOK
  <1>5. ASSUME Return(p, -1), UNCHANGED <<dir, data, temp, mode>>
        PROVE  TypeOK' /\ Undisturbed(p)' /\ Saves(p)
    <2>1. pc'[p] = "idle" /\ ret'[p] = -1
      BY <1>5 DEF Return, Goto, TypeOK
    <2>2. TypeOK'
      BY <1>5 DEF Return, Goto, TypeOK
    <2>3. ret'[p] # 0
      BY <2>1
    <2> QED
      BY <2>1, <2>2, <2>3, Zenon DEF Undisturbed, HasTemp, Saves
  <1>6. ASSUME NEW d \in Data, Call(p, d)
        PROVE  TypeOK' /\ Undisturbed(p)' /\ Saves(p)
    <2>1. pc'[p] = "create"
      BY <1>6 DEF Call, Goto, TypeOK
    <2>2. TypeOK'
      BY <1>6 DEF Call, Goto, TypeOK
    <2> QED
      BY <2>1, <2>2 DEF Undisturbed, HasTemp, Saves
  <1>7. CASE CreateTemp(p)
    <2>1. PICK t \in Temps : CreateAs(p, t)
      BY <1>7 DEF CreateTemp, CreateAs
    <2>2. pc'[p] = "fdopen" /\ temp'[p] = t
      BY <2>1 DEF CreateAs, Goto, TypeOK
    <2>3. [data |-> Part, mode |-> TempMode] \in Files
      BY <1>2, <1>3
    <2>4. dir'[t] \in Files /\ dir' \in [Names -> Files \cup {NoFile}]
      BY <1>1, <1>4, <2>1, <2>3 DEF CreateAs
    <2>5. TypeOK'
      BY <2>1, <2>4 DEF CreateAs, Goto, TypeOK
    <2>6. Undisturbed(p)'
      BY <1>2, <2>2, <2>4 DEF Undisturbed, HasTemp, Exists
    <2> QED
      BY <2>2, <2>5, <2>6 DEF Saves
  <1>8. CASE Fdopen(p)
    <2>1. pc[p] = "fdopen" /\ pc'[p] = "write" /\ UNCHANGED <<dir, data, temp, mode, ret>>
      BY <1>8 DEF Fdopen, Goto, TypeOK
    <2>2. TypeOK'
      BY <1>8 DEF Fdopen, Goto, TypeOK
    <2> QED
      BY <2>1, <2>2 DEF Undisturbed, HasTemp, Saves, Exists
  <1>9. CASE Write(p)
    <2> DEFINE new == [data |-> data[p], mode |-> dir[temp[p]].mode]
    <2>1. pc[p] = "write" /\ pc'[p] = "rename old" /\ UNCHANGED <<data, temp, mode, ret>>
      BY <1>9 DEF Write, Goto, TypeOK
    <2>2. dir[temp[p]] \in Files
      BY <1>1, <1>4, <2>1 DEF Undisturbed, HasTemp, Exists
    <2>3. new \in Files /\ new.data = data[p]
      BY <1>2, <1>4, <2>2
    <2>4. dir'[temp[p]] = new /\ dir' \in [Names -> Files \cup {NoFile}]
      BY <1>1, <1>4, <1>9, <2>3 DEF Write
    <2>5. TypeOK'
      BY <1>9, <2>4 DEF Write, Goto, TypeOK
    <2>6. Undisturbed(p)'
      BY <1>2, <2>1, <2>3, <2>4 DEF Undisturbed, HasTemp, Exists
    <2> QED
      BY <2>1, <2>5, <2>6 DEF Saves
  <1>10. CASE WriteFails(p)
    <2>1. pc[p] = "write" /\ ret'[p] = -1 /\ UNCHANGED <<dir, data, temp, mode>>
      BY <1>10 DEF WriteFails, TypeOK
    <2>2. pc'[p] \in {"idle", "rename old"}
      BY <1>10 DEF WriteFails, Goto, TypeOK
    <2>3. TypeOK'
      BY <1>10 DEF WriteFails, Goto, TypeOK
    <2>4. ret'[p] # 0
      BY <2>1
    <2>5. Saves(p)
      BY <2>4 DEF Saves
    <2>6. Undisturbed(p)'
      BY <2>1, <2>2, <2>4 DEF Undisturbed, HasTemp, Exists
    <2> QED
      BY <2>3, <2>5, <2>6
  <1>11. CASE RenameOld(p)
    <2>1. pc[p] = "rename old" /\ pc'[p] = "rename new" /\ UNCHANGED <<data, temp, mode, ret>>
      BY <1>11 DEF RenameOld, Goto, TypeOK
    <2>2. dir' \in [Names -> Files \cup {NoFile}] /\ dir'[temp[p]] = dir[temp[p]]
      BY <1>1, <1>4, <1>11 DEF RenameOld, Renamed
    <2>3. TypeOK'
      BY <1>11, <2>2 DEF RenameOld, Goto, TypeOK
    <2> QED
      BY <2>1, <2>2, <2>3 DEF Undisturbed, HasTemp, Saves, Exists
  <1>12. CASE RenameNew(p)
    <2>1. Exists(temp[p])
      BY <1>12 DEF RenameNew, Undisturbed, HasTemp
    <2>2. pc[p] = "rename new" /\ pc'[p] = "stat" /\ UNCHANGED <<data, temp, mode, ret>>
      BY <1>12, <2>1 DEF RenameNew, Goto, TypeOK
    <2>3. dir' \in [Names -> Files \cup {NoFile}] /\ dir'["name"] = dir[temp[p]]
      BY <1>1, <1>4, <1>12, <2>1 DEF RenameNew, Renamed
    <2>4. TypeOK'
      BY <1>12, <2>1, <2>3 DEF RenameNew, Goto, TypeOK
    <2> QED
      BY <2>2, <2>3, <2>4 DEF Undisturbed, HasTemp, Saves
  <1>13. CASE Stat(p) /\ (Exists("name~") \/ Caller[p] = "sbuf_save")
    <2>1. pc[p] = "stat" /\ pc'[p] = "chmod" /\ UNCHANGED <<dir, data, temp, ret>>
      BY <1>13 DEF Stat, Goto, TypeOK
    <2>2. Exists("name~") => dir["name~"].mode \in Modes
      BY <1>1, <1>2, <1>4 DEF Exists
    <2>3. /\ mode' \in [Savers -> Modes]
          /\ Exists("name~") => mode'[p] = dir["name~"].mode
      BY <1>3, <1>13, <2>2 DEF Stat, TypeOK
    <2>4. TypeOK'
      BY <1>13, <2>3 DEF Stat, Goto, TypeOK
    <2> QED
      BY <2>1, <2>3, <2>4 DEF Undisturbed, HasTemp, Saves, Exists
  <1>14. CASE Stat(p) /\ ~(Exists("name~") \/ Caller[p] = "sbuf_save")
    <2>1. pc[p] = "stat" /\ UNCHANGED <<dir, data, temp, mode, ret>>
      BY <1>14 DEF Stat, AfterModes
    <2>2. pc'[p] \in {"idle", "remove"}
      BY <1>14 DEF Stat, AfterModes, Goto, TypeOK
    <2>3. TypeOK'
      BY <1>14 DEF Stat, AfterModes, Goto, TypeOK
    <2> QED
      BY <1>14, <2>1, <2>2, <2>3 DEF Undisturbed, HasTemp, Saves, Exists
  <1>15. CASE Chmod(p) /\ Exists("name")
    <2> DEFINE new == [data |-> dir["name"].data, mode |-> mode[p]]
    <2>1. pc[p] = "chmod" /\ UNCHANGED <<data, temp, mode, ret>>
      BY <1>15 DEF Chmod, AfterModes
    <2>2. pc'[p] \in {"idle", "remove"}
      BY <1>15 DEF Chmod, AfterModes, Goto, TypeOK
    <2>3. new \in Files /\ new.data = dir["name"].data /\ new.mode = mode[p]
      BY <1>1, <1>2, <1>4, <1>15 DEF Exists
    <2>4. /\ dir' \in [Names -> Files \cup {NoFile}]
          /\ dir'["name"] = new /\ dir'["name~"] = dir["name~"]
      BY <1>1, <1>4, <1>15, <2>3 DEF Chmod
    <2>5. TypeOK'
      BY <1>15, <2>4 DEF Chmod, AfterModes, Goto, TypeOK
    <2> QED
      BY <2>1, <2>2, <2>3, <2>4, <2>5 DEF Undisturbed, HasTemp, Saves, Exists
  <1>16. CASE RemoveBackup(p)
    <2>1. pc[p] = "remove" /\ pc'[p] = "idle" /\ UNCHANGED <<data, temp, mode, ret>>
      BY <1>16 DEF RemoveBackup, Goto, TypeOK
    <2>2. /\ dir' \in [Names -> Files \cup {NoFile}]
          /\ dir'["name"] = dir["name"] /\ dir'["name~"] = NoFile
      BY <1>1, <1>4, <1>16 DEF RemoveBackup
    <2>3. TypeOK'
      BY <1>16, <2>2 DEF RemoveBackup, Goto, TypeOK
    <2> QED
      BY <2>1, <2>2, <2>3 DEF Undisturbed, HasTemp, Saves
  <1>17. CASE Crash(p) \/ CreateTempGivesUp(p) \/ (\E call : Fails(p, call))
                        \/ (Chmod(p) /\ ~Exists("name"))
    BY <1>5, <1>17 DEF Crash, CreateTempGivesUp, Fails, Chmod
  <1> QED
    BY <1>6, <1>7, <1>8, <1>9, <1>10, <1>11, <1>12, <1>13, <1>14, <1>15, <1>16, <1>17
    DEF Step

\* With one saver every step is one of its, or none.
LEMMA OneSaverStep ==
    ASSUME OneSaver, OneInv, [Next]_vars
    PROVE  OneInv' /\ \A p \in Savers : Saves(p)
  <1>1. CASE UNCHANGED vars
    BY <1>1 DEF vars, OneInv, TypeOK, Undisturbed, HasTemp, Exists, Saves
  <1>2. CASE Next
    <2>1. PICK p \in Savers : Step(p) \/ Crash(p) \/ \E d \in Data : Call(p, d)
      BY <1>2 DEF Next
    <2>2. TypeOK' /\ Undisturbed(p)' /\ Saves(p)
      BY <2>1, SaverStep DEF OneInv
    <2>3. \A q \in Savers : q = p
      BY DEF OneSaver
    <2> QED
      BY <2>2, <2>3 DEF OneInv
  <1> QED
    BY <1>1, <1>2

\* It holds at the start.
LEMMA OneSaverInit == Init => OneInv
  <1> SUFFICES ASSUME Init PROVE OneInv
    OBVIOUS
  <1>1. TypeOK
    BY InvInit DEF Inv
  <1> QED
    BY <1>1 DEF Init, OneInv, Undisturbed, HasTemp

\* A save that nobody disturbs and that returns 0, of file_save or of sbuf_save, has
\* stored what it was to save: after a write error sbuf_save goes on but says so,
\* and no other call fails unnoticed.
THEOREM SaveIsStored == ASSUME OneSaver PROVE Spec => SavedIsStored
  <1>1. OneInv /\ [Next]_vars => OneInv'
    BY OneSaverStep
  <1>2. OneInv /\ [Next]_vars =>
            [\A p \in Savers : pc[p] # "idle" /\ pc'[p] = "idle" /\ ret'[p] = 0 =>
                dir'["name"].data = data[p]]_vars
    BY OneSaverStep DEF Saves
  <1> QED
    BY OneSaverInit, <1>1, <1>2, PTL DEF Spec, SavedIsStored

\* It has also given the file the permissions of the one it replaced, or of an older
\* backup if there was none.
THEOREM SaveKeepsModes == ASSUME OneSaver PROVE Spec => ModesAreKept
  <1>1. OneInv /\ [Next]_vars => OneInv'
    BY OneSaverStep
  <1>2. OneInv /\ [Next]_vars =>
            [\A p \in Savers : pc[p] # "idle" /\ pc'[p] = "idle" /\ ret'[p] = 0
                                        /\ dir'["name~"] # NoFile =>
                dir'["name"].mode = dir'["name~"].mode]_vars
    BY OneSaverStep DEF Saves
  <1> QED
    BY OneSaverInit, <1>1, <1>2, PTL DEF Spec, ModesAreKept
=============================================================================
