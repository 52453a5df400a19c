---------------------------- MODULE InstallProofs ----------------------------
(***************************************************************************)
(* Theorems about the installation of packages, for all packages, licences  *)
(* and task folders, however many calls fail and programs are restarted.    *)
(***************************************************************************)
EXTENDS InstallInv, TLAPS

-----------------------------------------------------------------------------
(* Types.                                                                   *)

Flags == cross \in BOOLEAN /\ stop \in BOOLEAN

Folders == tasks \in [Tasks -> SUBSET Things]

Downloads ==
  /\ account \in {"none", "inactive", "active"}
  /\ temp \in [Contents -> [pkg : Packages \cup {"none", Part},
                            rap : {"none", Part, "whole"}, rif : {"none", Part, "whole"}]]
  /\ exdata \in [Contents -> {"none", Part, "whole"}]

Values ==
  /\ next_id \in [Kinds -> Ids]
  /\ pc \in {"idle", "ask", "next", "get", "licence", "task", "stub", "move", "rif", "pdb"}
  /\ mode \in Kinds /\ files \subseteq Marked /\ it \in Packages /\ id \in Ids
  /\ result \in [Marked -> {"none", "success", "failed", "skipped"}]
  /\ starts \in Nat /\ fails \in Nat
  /\ before \subseteq Tasks /\ untasked \subseteq Packages
  /\ unlicensed \subseteq Packages /\ broken \subseteq Contents

LEMMA TypeParts == TypeOK <=> Flags /\ Folders /\ Downloads /\ Values
BY DEF TypeOK, Flags, Folders, Downloads, Values

LEMMA TypePartsPrimed == TypeOK' <=> Flags' /\ Folders' /\ Downloads' /\ Values'
BY DEF TypeOK, Flags, Folders, Downloads, Values

LEMMA SomeType == Some \in Packages /\ First \in Ids
BY InstallAssumption DEF Some

LEMMA FlagsStep == Flags /\ [Next]_vars => Flags'
<1> SUFFICES ASSUME Flags, [Next]_vars PROVE Flags'
  OBVIOUS
<1> USE DEF Flags, settings, disk, list, ghosts, vars
<1>1. CASE \E marked \in SUBSET Marked, bd, can \in BOOLEAN : Start(marked, bd, can)
  BY <1>1, Zenon DEF Start
<1>2. CASE \E yes \in BOOLEAN : Answer(yes)
  BY <1>2, Zenon DEF Answer
<1>3. CASE Finish
  BY <1>3, Zenon DEF Finish
<1>4. CASE \E p \in Marked : Pass(p)
  BY <1>4, Zenon DEF Pass, Counted, Fails, Foremost
<1>5. CASE \E p \in Marked : Begin(p)
  BY <1>5, Zenon DEF Begin, Foremost
<1>6. CASE Get
  BY <1>6, Zenon DEF Get, InTemp
<1>7. CASE GetShort
  BY <1>7, Zenon DEF GetShort, InTemp, Fails
<1>8. CASE GetFails
  BY <1>8, Zenon DEF GetFails, InTemp, Fails, Counted
<1>9. CASE DownloadRapOrRif
  BY <1>9, Zenon DEF DownloadRapOrRif, InTemp, Preferred
<1>10. CASE \E found \in Licences, got \in {"none", Part, "whole"} : LicenceFails(found, got)
  BY <1>10, Zenon DEF LicenceFails, InTemp, Fails
<1>11. CASE \E i \in Ids, made \in BOOLEAN : NewTask(i, made)
  BY <1>11, Zenon DEF NewTask, NextTaskId, Fails
<1>12. CASE Stub
  BY <1>12, Zenon DEF Stub, Put
<1>13. CASE StubFails
  BY <1>13, Zenon DEF StubFails, Fails
<1>14. CASE Move
  BY <1>14, Zenon DEF Move, InTemp
<1>15. CASE MoveFails
  BY <1>15, Zenon DEF MoveFails, Fails
<1>16. CASE Rif
  BY <1>16, Zenon DEF Rif, InTemp, UsesRap, UsesRif, Wanted
<1>17. CASE RifFails
  BY <1>17, Zenon DEF RifFails, Fails, UsesRap, UsesRif, Wanted
<1>18. CASE CreatePDBFiles
  BY <1>18, Zenon DEF CreatePDBFiles, Put, Files, Counted
<1>19. CASE PDBCut
  BY <1>19, Zenon DEF PDBCut, Counted, Fails
<1>20. CASE \E made \in {{}, {"d0"}, {"d1"}} : PDBFails(made)
  BY <1>20, Zenon DEF PDBFails, Put, Files, Counted, Fails
<1>21. CASE Cancel
  BY <1>21, Zenon DEF Cancel
<1>22. CASE \E cut \in BOOLEAN : Restart(cut)
  BY <1>22, Zenon DEF Restart, InTemp
<1>23. CASE UNCHANGED vars
  BY <1>23, Zenon DEF vars
<1>24. CASE \E i \in Ids : TaskTaken(i)
  BY <1>24, Zenon DEF TaskTaken, Fails
<1> QED
  BY <1>1, <1>2, <1>3, <1>4, <1>5, <1>6, <1>7, <1>8, <1>9, <1>10,
     <1>11, <1>12, <1>13, <1>14, <1>15, <1>16, <1>17, <1>18, <1>19, <1>20,
     <1>21, <1>22, <1>23, <1>24, Zenon DEF Next, Thread

LEMMA ValuesStep == Values /\ [Next]_vars => Values'
<1> SUFFICES ASSUME Values, [Next]_vars PROVE Values'
  OBVIOUS
<1> USE InstallAssumption, SomeType DEF Values, Marked, c, Kinds, settings, disk, list,
    ghosts, vars
<1>1. CASE \E marked \in SUBSET Marked, bd, can \in BOOLEAN : Start(marked, bd, can)
  BY <1>1 DEF Start
<1>2. CASE \E yes \in BOOLEAN : Answer(yes)
  BY <1>2 DEF Answer
<1>3. CASE Finish
  BY <1>3 DEF Finish
<1>4. CASE \E p \in Marked : Pass(p)
  <2>1. PICK p \in Marked : Pass(p)
    BY <1>4
  <2>2. /\ fails' \in Nat
        /\ \/ result' = [result EXCEPT ![p] = "skipped"]
           \/ result' = [result EXCEPT ![p] = "failed"]
    BY <2>1 DEF Pass, Counted, Fails
  <2>3. result' \in [Marked -> {"none", "success", "failed", "skipped"}]
    BY <2>2
  <2>4. pc' = "next" /\ files' \subseteq Marked
    BY <2>1 DEF Pass, Counted
  <2>5. UNCHANGED <<next_id, mode, it, id, starts, before, untasked, unlicensed, broken>>
    BY <2>1, Zenon DEF Pass
  <2> QED
    BY <2>2, <2>3, <2>4, <2>5
<1>5. CASE \E p \in Marked : Begin(p)
  BY <1>5 DEF Begin, Foremost
<1>6. CASE Get
  BY <1>6 DEF Get, InTemp
<1>7. CASE GetShort
  BY <1>7 DEF GetShort, InTemp, Fails
<1>8. CASE GetFails
  BY <1>8 DEF GetFails, InTemp, Fails, Counted
<1>9. CASE DownloadRapOrRif
  BY <1>9 DEF DownloadRapOrRif, InTemp, Preferred
<1>10. CASE \E found \in Licences, got \in {"none", Part, "whole"} : LicenceFails(found, got)
  BY <1>10 DEF LicenceFails, InTemp, Fails
<1>11. CASE \E i \in Ids, made \in BOOLEAN : NewTask(i, made)
  BY <1>11 DEF NewTask, NextTaskId, Fails
<1>12. CASE Stub
  BY <1>12 DEF Stub, Put
<1>13. CASE StubFails
  BY <1>13 DEF StubFails, Fails
<1>14. CASE Move
  BY <1>14 DEF Move, InTemp
<1>15. CASE MoveFails
  BY <1>15 DEF MoveFails, Fails
<1>16. CASE Rif
  BY <1>16 DEF Rif, InTemp, UsesRap, UsesRif, Wanted
<1>17. CASE RifFails
  BY <1>17 DEF RifFails, Fails, UsesRap, UsesRif, Wanted
<1>18. CASE CreatePDBFiles
  BY <1>18 DEF CreatePDBFiles, Put, Files, Counted
<1>19. CASE PDBCut
  BY <1>19 DEF PDBCut, Counted, Fails
<1>20. CASE \E made \in {{}, {"d0"}, {"d1"}} : PDBFails(made)
  BY <1>20 DEF PDBFails, Put, Files, Counted, Fails
<1>21. CASE Cancel
  BY <1>21 DEF Cancel
<1>22. CASE \E cut \in BOOLEAN : Restart(cut)
  BY <1>22 DEF Restart, InTemp
<1>23. CASE UNCHANGED vars
  BY <1>23 DEF vars
<1>24. CASE \E i \in Ids : TaskTaken(i)
  BY <1>24 DEF TaskTaken, Fails
<1> QED
  BY <1>1, <1>2, <1>3, <1>4, <1>5, <1>6, <1>7, <1>8, <1>9, <1>10,
     <1>11, <1>12, <1>13, <1>14, <1>15, <1>16, <1>17, <1>18, <1>19, <1>20,
     <1>21, <1>22, <1>23, <1>24, Zenon DEF Next, Thread

LEMMA FoldersStep == Folders /\ Downloads /\ Values /\ [Next]_vars => Folders'
<1> SUFFICES ASSUME Folders, Downloads, Values, [Next]_vars PROVE Folders'
  OBVIOUS
<1> USE InstallAssumption DEF Folders, Values, settings, disk, list, ghosts, vars
<1>t. task \in Tasks /\ tasks[task] \subseteq Things /\ it \in Packages
  BY DEF Tasks, task
<1>1. CASE \E marked \in SUBSET Marked, bd, can \in BOOLEAN : Start(marked, bd, can)
  BY <1>1 DEF Start
<1>2. CASE \E yes \in BOOLEAN : Answer(yes)
  BY <1>2 DEF Answer
<1>3. CASE Finish
  BY <1>3 DEF Finish
<1>4. CASE \E p \in Marked : Pass(p)
  BY <1>4 DEF Pass, Counted, Fails, Foremost
<1>5. CASE \E p \in Marked : Begin(p)
  BY <1>5 DEF Begin, Foremost
<1>6. CASE Get
  BY <1>6 DEF Get, InTemp
<1>7. CASE GetShort
  BY <1>7 DEF GetShort, InTemp, Fails
<1>8. CASE GetFails
  BY <1>8 DEF GetFails, InTemp, Fails, Counted
<1>9. CASE DownloadRapOrRif
  BY <1>9 DEF DownloadRapOrRif, InTemp, Preferred
<1>10. CASE \E found \in Licences, got \in {"none", Part, "whole"} : LicenceFails(found, got)
  BY <1>10 DEF LicenceFails, InTemp, Fails
<1>11. CASE \E i \in Ids, made \in BOOLEAN : NewTask(i, made)
  BY <1>11 DEF NewTask, NextTaskId, Fails
<1>12. CASE Stub
  <2>1. \E ts \in SUBSET Things : tasks' = tasks \/ tasks' = [tasks EXCEPT ![task] = ts]
    BY <1>12, <1>t DEF Stub, Put, Things
  <2> QED
    BY <2>1, <1>t
<1>13. CASE StubFails
  BY <1>13 DEF StubFails, Fails
<1>14. CASE Move
  <2>1. c \in Contents
    BY <1>t DEF c
  <2>2. temp[c].pkg \in Things
    BY <2>1 DEF Downloads, Things
  <2>3. tasks' = [tasks EXCEPT ![task] = (@ \ (Packages \cup {Part})) \cup {temp[c].pkg}]
    BY <1>14 DEF Move
  <2> QED
    BY <2>2, <2>3, <1>t
<1>15. CASE MoveFails
  BY <1>15 DEF MoveFails, Fails
<1>16. CASE Rif
  BY <1>16 DEF Rif, InTemp, UsesRap, UsesRif, Wanted
<1>17. CASE RifFails
  BY <1>17 DEF RifFails, Fails, UsesRap, UsesRif, Wanted
<1>18. CASE CreatePDBFiles
  <2>1. \E ts \in SUBSET Things : tasks' = tasks \/ tasks' = [tasks EXCEPT ![task] = ts]
    BY <1>18, <1>t DEF CreatePDBFiles, Put, Files, Things
  <2> QED
    BY <2>1, <1>t
<1>19. CASE PDBCut
  BY <1>19 DEF PDBCut, Counted, Fails
<1>20. CASE \E made \in {{}, {"d0"}, {"d1"}} : PDBFails(made)
  <2>1. \E ts \in SUBSET Things : tasks' = tasks \/ tasks' = [tasks EXCEPT ![task] = ts]
    BY <1>20, <1>t DEF PDBFails, Put, Files, Things
  <2> QED
    BY <2>1, <1>t
<1>21. CASE Cancel
  BY <1>21 DEF Cancel
<1>22. CASE \E cut \in BOOLEAN : Restart(cut)
  <2>1. PICK t \in Tasks : tasks' = tasks \/ tasks' = [tasks EXCEPT ![t] = Absent]
    BY <1>22, <1>t, Zenon DEF Restart
  <2> QED
    BY <2>1 DEF Absent, Things
<1>23. CASE UNCHANGED vars
  BY <1>23 DEF vars
<1>24. CASE \E i \in Ids : TaskTaken(i)
  BY <1>24 DEF TaskTaken, Fails
<1> QED
  BY <1>1, <1>2, <1>3, <1>4, <1>5, <1>6, <1>7, <1>8, <1>9, <1>10,
     <1>11, <1>12, <1>13, <1>14, <1>15, <1>16, <1>17, <1>18, <1>19, <1>20,
     <1>21, <1>22, <1>23, <1>24, Zenon DEF Next, Thread

LEMMA DownloadsStep == Downloads /\ Values /\ [Next]_vars => Downloads'
<1> SUFFICES ASSUME Downloads, Values, [Next]_vars PROVE Downloads'
  OBVIOUS
<1> USE InstallAssumption DEF Downloads, Values, c, Part, Licences, settings, disk, list,
    ghosts, vars
<1>1. CASE \E marked \in SUBSET Marked, bd, can \in BOOLEAN : Start(marked, bd, can)
  BY <1>1 DEF Start
<1>2. CASE \E yes \in BOOLEAN : Answer(yes)
  BY <1>2 DEF Answer
<1>3. CASE Finish
  BY <1>3 DEF Finish
<1>4. CASE \E p \in Marked : Pass(p)
  BY <1>4 DEF Pass, Counted, Fails, Foremost
<1>5. CASE \E p \in Marked : Begin(p)
  BY <1>5 DEF Begin, Foremost
<1>6. CASE Get
  BY <1>6 DEF Get, InTemp
<1>7. CASE GetShort
  BY <1>7 DEF GetShort, InTemp, Fails
<1>8. CASE GetFails
  BY <1>8 DEF GetFails, InTemp, Fails, Counted
<1>9. CASE DownloadRapOrRif
  BY <1>9 DEF DownloadRapOrRif, InTemp, Preferred
<1>10. CASE \E found \in Licences, got \in {"none", Part, "whole"} : LicenceFails(found, got)
  BY <1>10 DEF LicenceFails, InTemp, Fails
<1>11. CASE \E i \in Ids, made \in BOOLEAN : NewTask(i, made)
  BY <1>11 DEF NewTask, NextTaskId, Fails
<1>12. CASE Stub
  BY <1>12 DEF Stub, Put
<1>13. CASE StubFails
  BY <1>13 DEF StubFails, Fails
<1>14. CASE Move
  BY <1>14 DEF Move, InTemp
<1>15. CASE MoveFails
  BY <1>15 DEF MoveFails, Fails
<1>16. CASE Rif
  BY <1>16 DEF Rif, InTemp, UsesRap, UsesRif, Wanted
<1>17. CASE RifFails
  BY <1>17 DEF RifFails, Fails, UsesRap, UsesRif, Wanted
<1>18. CASE CreatePDBFiles
  BY <1>18 DEF CreatePDBFiles, Put, Files, Counted
<1>19. CASE PDBCut
  BY <1>19 DEF PDBCut, Counted, Fails
<1>20. CASE \E made \in {{}, {"d0"}, {"d1"}} : PDBFails(made)
  BY <1>20 DEF PDBFails, Put, Files, Counted, Fails
<1>21. CASE Cancel
  BY <1>21 DEF Cancel
<1>22. CASE \E cut \in BOOLEAN : Restart(cut)
  <2>1. PICK cut \in BOOLEAN : Restart(cut)
    BY <1>22
  <2>2. account' = account
    BY <2>1 DEF Restart, settings
  <2>3. exdata' \in [Contents -> {"none", Part, "whole"}]
    <3>1. exdata' = exdata \/ exdata' = [exdata EXCEPT ![c] = Part]
      BY <2>1, Zenon DEF Restart
    <3> QED
      BY <3>1
  <2>4. temp' = temp \/ InTemp("pkg", Part) \/ InTemp("rap", Part) \/ InTemp("rif", Part)
    <3>1. Beside[c] \subseteq Licences
      OBVIOUS
    <3> QED
      BY <2>1, <3>1 DEF Restart
  <2>5. CASE temp' = temp
    BY <2>2, <2>3, <2>5
  <2>6. CASE InTemp("pkg", Part)
    BY <2>2, <2>3, <2>6 DEF InTemp
  <2>7. CASE InTemp("rap", Part)
    BY <2>2, <2>3, <2>7 DEF InTemp
  <2>8. CASE InTemp("rif", Part)
    BY <2>2, <2>3, <2>8 DEF InTemp
  <2> QED
    BY <2>4, <2>5, <2>6, <2>7, <2>8
<1>23. CASE UNCHANGED vars
  BY <1>23 DEF vars
<1>24. CASE \E i \in Ids : TaskTaken(i)
  BY <1>24 DEF TaskTaken, Fails
<1> QED
  BY <1>1, <1>2, <1>3, <1>4, <1>5, <1>6, <1>7, <1>8, <1>9, <1>10,
     <1>11, <1>12, <1>13, <1>14, <1>15, <1>16, <1>17, <1>18, <1>19, <1>20,
     <1>21, <1>22, <1>23, <1>24, Zenon DEF Next, Thread

LEMMA TypeStep == TypeOK /\ [Next]_vars => TypeOK'
BY FlagsStep, FoldersStep, DownloadsStep, ValuesStep, TypeParts, TypePartsPrimed, Zenon

-----------------------------------------------------------------------------
(* Tasks.                                                                   *)

Kept == pc' # "idle" => \A t \in before : tasks'[t] = tasks[t]

LEMMA KeptStep == Inv /\ Fresh /\ [Next]_vars => Kept
<1> SUFFICES ASSUME Inv, Fresh, [Next]_vars PROVE Kept
  OBVIOUS
<1> USE DEF Kept, settings, disk, vars
<1>t. tasks \in [Tasks -> SUBSET Things] /\ before \subseteq Tasks
  BY DEF Inv, TypeOK
<1>1. CASE \E marked \in SUBSET Marked, bd, can \in BOOLEAN : Start(marked, bd, can)
  BY <1>1, Zenon DEF Start
<1>2. CASE \E yes \in BOOLEAN : Answer(yes)
  BY <1>2, Zenon DEF Answer
<1>3. CASE Finish
  BY <1>3 DEF Finish
<1>4. CASE \E p \in Marked : Pass(p)
  BY <1>4, Zenon DEF Pass, Counted, Fails, Foremost
<1>5. CASE \E p \in Marked : Begin(p)
  BY <1>5, Zenon DEF Begin, Foremost
<1>6. CASE Get
  BY <1>6, Zenon DEF Get, InTemp
<1>7. CASE GetShort
  BY <1>7, Zenon DEF GetShort, InTemp, Fails
<1>8. CASE GetFails
  BY <1>8, Zenon DEF GetFails, InTemp, Fails, Counted
<1>9. CASE DownloadRapOrRif
  BY <1>9, Zenon DEF DownloadRapOrRif, InTemp, Preferred
<1>10. CASE \E found \in Licences, got \in {"none", Part, "whole"} : LicenceFails(found, got)
  BY <1>10, Zenon DEF LicenceFails, InTemp, Fails
<1>11. CASE \E i \in Ids, made \in BOOLEAN : NewTask(i, made)
  <2>1. PICK i \in Ids, made \in BOOLEAN : NewTask(i, made)
    BY <1>11
  <2>2. tasks' = tasks \/ tasks' = [tasks EXCEPT ![<<mode, i>>] = {}]
    BY <2>1 DEF NewTask
  <2>3. <<mode, i>> \notin before
    BY <2>1 DEF NewTask, NextTaskId, Fresh
  <2> QED
    BY <2>2, <2>3, <1>t DEF Kept
<1>12. CASE Stub
  <2>1. \E ts : tasks' = tasks \/ tasks' = [tasks EXCEPT ![task] = ts]
    BY <1>12 DEF Stub, Put
  <2>2. task \notin before
    BY <1>12 DEF Stub, Fresh, Busy
  <2> QED
    BY <2>1, <2>2, <1>t DEF Kept
<1>13. CASE StubFails
  BY <1>13, Zenon DEF StubFails, Fails
<1>14. CASE Move
  <2>1. \E ts : tasks' = tasks \/ tasks' = [tasks EXCEPT ![task] = ts]
    BY <1>14 DEF Move
  <2>2. task \notin before
    BY <1>14 DEF Move, Fresh, Busy
  <2> QED
    BY <2>1, <2>2, <1>t DEF Kept
<1>15. CASE MoveFails
  BY <1>15, Zenon DEF MoveFails, Fails
<1>16. CASE Rif
  BY <1>16, Zenon DEF Rif, InTemp, UsesRap, UsesRif, Wanted
<1>17. CASE RifFails
  BY <1>17, Zenon DEF RifFails, Fails, UsesRap, UsesRif, Wanted
<1>18. CASE CreatePDBFiles
  <2>1. \E ts : tasks' = tasks \/ tasks' = [tasks EXCEPT ![task] = ts]
    BY <1>18 DEF CreatePDBFiles, Put
  <2>2. task \notin before
    BY <1>18 DEF CreatePDBFiles, Fresh, Busy
  <2> QED
    BY <2>1, <2>2, <1>t DEF Kept
<1>19. CASE PDBCut
  BY <1>19, Zenon DEF PDBCut, Counted, Fails
<1>20. CASE \E made \in {{}, {"d0"}, {"d1"}} : PDBFails(made)
  <2>1. \E ts : tasks' = tasks \/ tasks' = [tasks EXCEPT ![task] = ts]
    BY <1>20 DEF PDBFails, Put
  <2>2. task \notin before
    BY <1>20 DEF PDBFails, Fresh, Busy
  <2> QED
    BY <2>1, <2>2, <1>t DEF Kept
<1>21. CASE Cancel
  BY <1>21, Zenon DEF Cancel
<1>22. CASE \E cut \in BOOLEAN : Restart(cut)
  BY <1>22, Zenon DEF Restart
<1>23. CASE UNCHANGED vars
  BY <1>23, Zenon DEF vars
<1>24. CASE \E i \in Ids : TaskTaken(i)
  BY <1>24, Zenon DEF TaskTaken, Fails
<1> QED
  BY <1>1, <1>2, <1>3, <1>4, <1>5, <1>6, <1>7, <1>8, <1>9, <1>10,
     <1>11, <1>12, <1>13, <1>14, <1>15, <1>16, <1>17, <1>18, <1>19, <1>20,
     <1>21, <1>22, <1>23, <1>24, Zenon DEF Next, Thread

LEMMA FreshStep == Inv /\ Fresh /\ [Next]_vars => Fresh'
<1> SUFFICES ASSUME Inv, Fresh, [Next]_vars PROVE Fresh'
  OBVIOUS
<1> USE DEF Busy, task, settings, disk, list, ghosts, vars
<1>k. pc' # "idle" => \A t \in before : tasks'[t] = tasks[t]
  BY KeptStep DEF Kept
<1>1. CASE \E marked \in SUBSET Marked, bd, can \in BOOLEAN : Start(marked, bd, can)
  BY <1>1, <1>k DEF Fresh, Start
<1>2. CASE \E yes \in BOOLEAN : Answer(yes)
  BY <1>2, <1>k DEF Fresh, Answer
<1>3. CASE Finish
  BY <1>3, <1>k DEF Fresh, Finish
<1>4. CASE \E p \in Marked : Pass(p)
  BY <1>4, <1>k DEF Fresh, Pass, Counted, Fails, Foremost
<1>5. CASE \E p \in Marked : Begin(p)
  BY <1>5, <1>k DEF Fresh, Begin, Foremost
<1>6. CASE Get
  BY <1>6, <1>k DEF Fresh, Get, InTemp
<1>7. CASE GetShort
  BY <1>7, <1>k DEF Fresh, GetShort, InTemp, Fails
<1>8. CASE GetFails
  BY <1>8, <1>k DEF Fresh, GetFails, InTemp, Fails, Counted
<1>9. CASE DownloadRapOrRif
  BY <1>9, <1>k DEF Fresh, DownloadRapOrRif, InTemp, Preferred
<1>10. CASE \E found \in Licences, got \in {"none", Part, "whole"} : LicenceFails(found, got)
  BY <1>10, <1>k DEF Fresh, LicenceFails, InTemp, Fails
<1>11. CASE \E i \in Ids, made \in BOOLEAN : NewTask(i, made)
  <2>1. PICK i \in Ids, made \in BOOLEAN : NewTask(i, made)
    BY <1>11
  <2>2. id' = i /\ mode' = mode /\ before' = before /\ pc' # "idle"
    BY <2>1 DEF NewTask
  <2>3. <<mode, i>> \notin before
    BY <2>1 DEF NewTask, NextTaskId, Fresh
  <2> QED
    BY <2>2, <2>3, <1>k DEF Fresh
<1>12. CASE Stub
  BY <1>12, <1>k DEF Fresh, Stub, Put
<1>13. CASE StubFails
  BY <1>13, <1>k DEF Fresh, StubFails, Fails
<1>14. CASE Move
  BY <1>14, <1>k DEF Fresh, Move, InTemp
<1>15. CASE MoveFails
  BY <1>15, <1>k DEF Fresh, MoveFails, Fails
<1>16. CASE Rif
  BY <1>16, <1>k DEF Fresh, Rif, InTemp, UsesRap, UsesRif, Wanted
<1>17. CASE RifFails
  BY <1>17, <1>k DEF Fresh, RifFails, Fails, UsesRap, UsesRif, Wanted
<1>18. CASE CreatePDBFiles
  BY <1>18, <1>k DEF Fresh, CreatePDBFiles, Put, Files, Counted
<1>19. CASE PDBCut
  BY <1>19, <1>k DEF Fresh, PDBCut, Counted, Fails
<1>20. CASE \E made \in {{}, {"d0"}, {"d1"}} : PDBFails(made)
  BY <1>20, <1>k DEF Fresh, PDBFails, Put, Files, Counted, Fails
<1>21. CASE Cancel
  BY <1>21, <1>k DEF Fresh, Cancel
<1>22. CASE \E cut \in BOOLEAN : Restart(cut)
  BY <1>22, <1>k DEF Fresh, Restart, InTemp
<1>23. CASE UNCHANGED vars
  BY <1>23, <1>k DEF Fresh, vars
<1>24. CASE \E i \in Ids : TaskTaken(i)
  BY <1>24, <1>k DEF TaskTaken, Fails, Fresh
<1> QED
  BY <1>1, <1>2, <1>3, <1>4, <1>5, <1>6, <1>7, <1>8, <1>9, <1>10,
     <1>11, <1>12, <1>13, <1>14, <1>15, <1>16, <1>17, <1>18, <1>19, <1>20,
     <1>21, <1>22, <1>23, <1>24, Zenon DEF Next, Thread

LEMMA StepsStep == Inv /\ [Next]_vars => Steps'
<1> SUFFICES ASSUME Inv, [Next]_vars PROVE Steps'
  OBVIOUS
<1> USE InstallAssumption DEF Inv, TypeOK, Steps, Marked, Kinds, settings, disk, list,
    ghosts, vars
<1>1. CASE \E marked \in SUBSET Marked, bd, can \in BOOLEAN : Start(marked, bd, can)
  BY <1>1 DEF Start
<1>2. CASE \E yes \in BOOLEAN : Answer(yes)
  BY <1>2 DEF Answer
<1>3. CASE Finish
  BY <1>3 DEF Finish
<1>4. CASE \E p \in Marked : Pass(p)
  BY <1>4 DEF Pass, Counted, Fails, Foremost
<1>5. CASE \E p \in Marked : Begin(p)
  BY <1>5 DEF Begin, Foremost
<1>6. CASE Get
  BY <1>6 DEF Get, InTemp
<1>7. CASE GetShort
  BY <1>7 DEF GetShort, InTemp, Fails
<1>8. CASE GetFails
  BY <1>8 DEF GetFails, InTemp, Fails, Counted
<1>9. CASE DownloadRapOrRif
  BY <1>9 DEF DownloadRapOrRif, InTemp, Preferred
<1>10. CASE \E found \in Licences, got \in {"none", Part, "whole"} : LicenceFails(found, got)
  BY <1>10 DEF LicenceFails, InTemp, Fails
<1>11. CASE \E i \in Ids, made \in BOOLEAN : NewTask(i, made)
  BY <1>11 DEF NewTask, NextTaskId, Fails
<1>12. CASE Stub
  BY <1>12 DEF Stub, Put
<1>13. CASE StubFails
  BY <1>13 DEF StubFails, Fails
<1>14. CASE Move
  BY <1>14 DEF Move, InTemp
<1>15. CASE MoveFails
  BY <1>15 DEF MoveFails, Fails
<1>16. CASE Rif
  BY <1>16 DEF Rif, InTemp, UsesRap, UsesRif, Wanted
<1>17. CASE RifFails
  BY <1>17 DEF RifFails, Fails, UsesRap, UsesRif, Wanted
<1>18. CASE CreatePDBFiles
  BY <1>18 DEF CreatePDBFiles, Put, Files, Counted
<1>19. CASE PDBCut
  BY <1>19 DEF PDBCut, Counted, Fails
<1>20. CASE \E made \in {{}, {"d0"}, {"d1"}} : PDBFails(made)
  BY <1>20 DEF PDBFails, Put, Files, Counted, Fails
<1>21. CASE Cancel
  BY <1>21 DEF Cancel
<1>22. CASE \E cut \in BOOLEAN : Restart(cut)
  BY <1>22 DEF Restart, InTemp
<1>23. CASE UNCHANGED vars
  BY <1>23 DEF vars
<1>24. CASE \E i \in Ids : TaskTaken(i)
  BY <1>24 DEF TaskTaken, Fails
<1> QED
  BY <1>1, <1>2, <1>3, <1>4, <1>5, <1>6, <1>7, <1>8, <1>9, <1>10,
     <1>11, <1>12, <1>13, <1>14, <1>15, <1>16, <1>17, <1>18, <1>19, <1>20,
     <1>21, <1>22, <1>23, <1>24, Zenon DEF Next, Thread

LEMMA FilledStep == Inv /\ Filled /\ [Next]_vars => Filled'
<1> SUFFICES ASSUME Inv, Filled, [Next]_vars PROVE Filled'
  OBVIOUS
<1> USE DEF Inv, Steps, Filled, settings, disk, list, ghosts, vars
<1>t. tasks \in [Tasks -> SUBSET Things] /\ task \in Tasks /\ it \in Packages
     /\ c \in Contents /\ mode \in Kinds
  BY InstallAssumption DEF Inv, TypeOK, task, Tasks, c
<1>u. temp \in [Contents -> [pkg : Packages \cup {"none", Part},
          rap : {"none", Part, "whole"}, rif : {"none", Part, "whole"}]]
  BY DEF Inv, TypeOK
<1>1. CASE \E marked \in SUBSET Marked, bd, can \in BOOLEAN : Start(marked, bd, can)
  BY <1>1 DEF Start, task, c
<1>2. CASE \E yes \in BOOLEAN : Answer(yes)
  BY <1>2 DEF Answer, task, c
<1>3. CASE Finish
  BY <1>3 DEF Finish, task, c
<1>4. CASE \E p \in Marked : Pass(p)
  BY <1>4 DEF Pass, Counted, Fails, Foremost, task, c
<1>5. CASE \E p \in Marked : Begin(p)
  BY <1>5 DEF Begin, Foremost, task, c
<1>6. CASE Get
  <2>1. temp' = [temp EXCEPT ![c] = [@ EXCEPT !["pkg"] = it]] /\ it' = it /\ c' = c
        /\ pc' = "licence" /\ mode = "install" /\ mode' = mode
    BY <1>6 DEF Get, InTemp, c, task, c
  <2>2. temp'[c].pkg = it
    BY <2>1, <1>t, <1>u
  <2> QED
    BY <2>1, <2>2
<1>7. CASE GetShort
  BY <1>7 DEF GetShort, InTemp, Fails, task, c
<1>8. CASE GetFails
  BY <1>8 DEF GetFails, InTemp, Fails, Counted, task, c
<1>9. CASE DownloadRapOrRif
  <2>1. temp' = temp \/ \E l \in Licences : temp' = [temp EXCEPT ![c] = [@ EXCEPT ![l] = "whole"]]
    BY <1>9 DEF DownloadRapOrRif, InTemp, Preferred, Licences, task, c
  <2>2. temp'[c].pkg = temp[c].pkg
    BY <2>1, <1>t, <1>u DEF Licences
  <2>3. it' = it /\ c' = c /\ pc = "licence" /\ pc' = "task" /\ mode = "install"
        /\ mode' = mode /\ untasked' = untasked
    BY <1>9 DEF DownloadRapOrRif, c, task, c
  <2> QED
    BY <2>2, <2>3
<1>10. CASE \E found \in Licences, got \in {"none", Part, "whole"} : LicenceFails(found, got)
  <2>1. PICK found \in Licences, got \in {"none", Part, "whole"} : LicenceFails(found, got)
    BY <1>10
  <2>2. temp' = temp \/ temp' = [temp EXCEPT ![c] = [@ EXCEPT ![found] = got]]
    BY <2>1 DEF LicenceFails, InTemp
  <2>3. temp'[c].pkg = temp[c].pkg
    BY <2>2, <1>t, <1>u DEF Licences
  <2>4. it' = it /\ c' = c /\ pc = "licence" /\ pc' = "task" /\ mode = "install"
        /\ mode' = mode /\ untasked' = untasked
    BY <2>1 DEF LicenceFails, c
  <2> QED
    BY <2>3, <2>4
<1>11. CASE \E i \in Ids, made \in BOOLEAN : NewTask(i, made)
  BY <1>11 DEF NewTask, NextTaskId, Fails, task, c
<1>12. CASE Stub
  <2>1. tasks[task] # Absent => tasks' = [tasks EXCEPT ![task] = @ \cup {"stub"}]
    BY <1>12 DEF Stub, Put, task, c
  <2>2. tasks[task] = Absent => tasks' = tasks
    BY <1>12 DEF Stub, task, c
  <2>3. tasks'[task] # Absent => "stub" \in tasks'[task]
    BY <2>1, <2>2, <1>t
  <2>4. pc' = "pdb" /\ mode = "queue" /\ mode' = mode /\ task' = task
    BY <1>12 DEF Stub, task, task, c
  <2> QED
    BY <2>3, <2>4
<1>13. CASE StubFails
  BY <1>13 DEF StubFails, Fails, task, c
<1>14. CASE Move
  <2>1. tasks' = [tasks EXCEPT ![task] = (@ \ (Packages \cup {Part})) \cup {temp[c].pkg}]
    BY <1>14 DEF Move, task, c
  <2>2. temp[c].pkg \in tasks'[task]
    BY <2>1, <1>t, <1>u
  <2>3. it' = it /\ pc = "move" /\ pc' = "rif" /\ mode = "install" /\ mode' = mode
        /\ task' = task /\ untasked' = untasked
    BY <1>14 DEF Move, task, task, c
  <2> QED
    BY <2>2, <2>3
<1>15. CASE MoveFails
  BY <1>15 DEF MoveFails, Fails, task, c
<1>16. CASE Rif
  BY <1>16 DEF Rif, InTemp, UsesRap, UsesRif, Wanted, task, c
<1>17. CASE RifFails
  BY <1>17 DEF RifFails, Fails, UsesRap, UsesRif, Wanted, task, c
<1>18. CASE CreatePDBFiles
  BY <1>18 DEF CreatePDBFiles, Put, Files, Counted, task, c
<1>19. CASE PDBCut
  BY <1>19 DEF PDBCut, Counted, Fails, task, c
<1>20. CASE \E made \in {{}, {"d0"}, {"d1"}} : PDBFails(made)
  BY <1>20 DEF PDBFails, Put, Files, Counted, Fails, task, c
<1>21. CASE Cancel
  BY <1>21 DEF Cancel, task, c
<1>22. CASE \E cut \in BOOLEAN : Restart(cut)
  BY <1>22 DEF Restart, InTemp, task, c
<1>23. CASE UNCHANGED vars
  BY <1>23 DEF vars, task, c
<1>24. CASE \E i \in Ids : TaskTaken(i)
  BY <1>24 DEF TaskTaken, Fails, task, c
<1> QED
  BY <1>1, <1>2, <1>3, <1>4, <1>5, <1>6, <1>7, <1>8, <1>9, <1>10,
     <1>11, <1>12, <1>13, <1>14, <1>15, <1>16, <1>17, <1>18, <1>19, <1>20,
     <1>21, <1>22, <1>23, <1>24, Zenon DEF Next, Thread

\* What is done to a package leaves the tasks of those before it as they are.
LEMMA Carried ==
  ASSUME Inv, Fresh, Queued, [Next]_vars, pc \notin {"idle", "next"}, pc' # "idle",
         mode' = mode, before' = before, untasked \subseteq untasked',
         NEW p \in Packages, result[p] = "success", p \notin untasked
  PROVE  \E i \in Ids : Made(p, <<mode, i>>)' /\ <<mode', i>> \in before'
<1>1. PICK i \in Ids : Made(p, <<mode, i>>) /\ <<mode, i>> \in before
  BY DEF Queued
<1>2. tasks'[<<mode, i>>] = tasks[<<mode, i>>]
  BY <1>1, KeptStep, Zenon DEF Kept
<1> QED
  BY <1>1, <1>2 DEF Made, Needed

LEMMA Uncounted ==
  ASSUME Inv, Fresh, Queued, [Next]_vars, pc \notin {"idle", "next"}, pc' # "idle",
         mode' = mode, before' = before, untasked \subseteq untasked',
         \A p \in Packages : result'[p] = "success" => result[p] = "success"
  PROVE  Queued'
BY Carried, Zenon DEF Queued

\* The steps that count no package as a success.
Uncounting ==
  \/ Get \/ GetShort \/ GetFails \/ DownloadRapOrRif
  \/ \E found \in Licences, got \in {"none", Part, "whole"} : LicenceFails(found, got)
  \/ \E i \in Ids, made \in BOOLEAN : NewTask(i, made)
  \/ Stub \/ StubFails \/ Move \/ MoveFails \/ Rif \/ RifFails
  \/ \E made \in {{}, {"d0"}, {"d1"}} : PDBFails(made)

LEMMA QueuedStep == Inv /\ Fresh /\ Filled /\ Queued /\ [Next]_vars => Queued'
<1> SUFFICES ASSUME Inv, Fresh, Filled, Queued, [Next]_vars PROVE Queued'
  OBVIOUS
<1> USE DEF settings, disk, list, ghosts, vars
<1>t. /\ tasks \in [Tasks -> SUBSET Things] /\ task \in Tasks /\ it \in Packages /\ mode \in Kinds
      /\ result \in [Marked -> {"none", "success", "failed", "skipped"}] /\ id \in Ids
      /\ Packages \subseteq Marked
  BY InstallAssumption DEF Inv, TypeOK, task, Tasks, Marked
<1>m. Packages \subseteq Marked
  BY DEF Marked
<1>1. CASE \E marked \in SUBSET Marked, bd, can \in BOOLEAN : Start(marked, bd, can)
  BY <1>1, <1>m DEF Start, Queued
<1>2. CASE \E yes \in BOOLEAN : Answer(yes)
  BY <1>2, <1>m DEF Answer, Queued, Inv, Steps
<1>3. CASE Finish
  BY <1>3 DEF Finish, Queued, Made, Needed
<1>4. CASE \E p \in Marked : Pass(p)
  <2>1. PICK p \in Marked : Pass(p)
    BY <1>4
  <2>2. /\ \/ result' = [result EXCEPT ![p] = "skipped"]
           \/ result' = [result EXCEPT ![p] = "failed"]
        /\ pc' = "next" /\ tasks' = tasks /\ mode' = mode /\ untasked' = untasked
    BY <2>1 DEF Pass, Counted, disk, ghosts
  <2>3. \A q \in Packages : result'[q] = "success" => result[q] = "success"
    BY <2>2, <1>t
  <2> QED
    BY <2>2, <2>3 DEF Queued, Made, Needed
<1>5. CASE \E p \in Marked : Begin(p)
  <2>1. /\ tasks' = tasks /\ mode' = mode /\ untasked' = untasked /\ result' = result
        /\ before' = {t \in Tasks : tasks[t] # Absent}
    BY <1>5 DEF Begin, disk
  <2> SUFFICES ASSUME NEW p \in Packages, result[p] = "success", p \notin untasked
               PROVE  \E i \in Ids : Made(p, <<mode, i>>)' /\ <<mode', i>> \in before'
    BY <2>1 DEF Queued
  <2>2. PICK i \in Ids : Made(p, <<mode, i>>)
    BY DEF Queued
  <2>3. tasks[<<mode, i>>] # Absent /\ <<mode, i>> \in Tasks
    BY <2>2, <1>t, InstallAssumption DEF Made, Absent, Tasks
  <2> QED
    BY <2>1, <2>2, <2>3 DEF Made, Needed
<1>6. CASE CreatePDBFiles
  <2>1. /\ pc = "pdb" /\ pc' = "next" /\ mode' = mode /\ before' = before /\ untasked' = untasked
        /\ it' = it /\ id' = id /\ tasks[task] # Absent
        /\ result' = [result EXCEPT ![it] = "success"]
        /\ tasks' = [tasks EXCEPT ![task] = @ \cup Files]
    BY <1>6 DEF CreatePDBFiles, Put, Counted, list, ghosts
  <2>2. it \notin untasked => Made(it, <<mode, id>>)'
    BY <2>1, <1>t DEF Filled, Made, Needed, Files, Kinds, task
  <2>3. \A p \in Packages : p # it /\ result'[p] = "success" => result[p] = "success"
    BY <2>1, <1>t
  <2>4. \A p \in Packages : p # it /\ result'[p] = "success" /\ p \notin untasked =>
           \E i \in Ids : Made(p, <<mode, i>>)'
    BY <2>1, <2>3, Carried
  <2> QED
    BY <2>1, <2>2, <2>4, <1>t DEF Queued
<1>7. CASE PDBCut
  <2>1. /\ pc = "pdb" /\ pc' = "next" /\ mode' = mode /\ before' = before
        /\ untasked' = untasked \cup {it} /\ result' = [result EXCEPT ![it] = "success"]
    BY <1>7 DEF PDBCut, Counted, list
  <2>2. \A p \in Packages : p # it /\ result'[p] = "success" => result[p] = "success"
    BY <2>1, <1>t
  <2>3. \A p \in Packages : result'[p] = "success" /\ p \notin untasked' =>
           \E i \in Ids : Made(p, <<mode, i>>)'
    BY <2>1, <2>2, Carried
  <2> QED
    BY <2>1, <2>3 DEF Queued
<1>8. CASE Cancel
  BY <1>8 DEF Cancel, Queued, Made, Needed
<1>9. CASE \E cut \in BOOLEAN : Restart(cut)
  BY <1>9, <1>m DEF Restart, Queued
<1>10. CASE UNCHANGED vars
  BY <1>10 DEF Queued, Made, Needed
<1>11. CASE Uncounting
  <2>1. /\ pc \notin {"idle", "next"} /\ pc' # "idle" /\ mode' = mode /\ before' = before
        /\ untasked \subseteq untasked'
        /\ \A p \in Packages : result'[p] = "success" => result[p] = "success"
    BY <1>11, <1>t DEF Uncounting, Get, GetShort, GetFails, DownloadRapOrRif, LicenceFails,
        NewTask, Stub, StubFails, Counted,
                       Move, MoveFails, Rif, RifFails, PDBFails
  <2> QED
    BY <2>1, Uncounted, Zenon
<1>12. CASE \E i \in Ids : TaskTaken(i)
  <2>1. PICK j \in Ids : TaskTaken(j)
    BY <1>12
  <2>2. /\ pc = "task" /\ mode' = mode /\ tasks' = tasks /\ result' = result
        /\ before' = before \ {<<mode, j>>}
        /\ untasked' =
             untasked \cup {p \in Packages : result[p] = "success" /\ p \in tasks[<<mode, j>>]}
    BY <2>1 DEF TaskTaken
  <2> SUFFICES ASSUME NEW p \in Packages, result[p] = "success", p \notin untasked'
               PROVE  \E i \in Ids : Made(p, <<mode, i>>)' /\ <<mode', i>> \in before'
    BY <2>2 DEF Queued
  <2>3. PICK i \in Ids : Made(p, <<mode, i>>) /\ <<mode, i>> \in before
    BY <2>2 DEF Queued
  <2>4. p \in tasks[<<mode, i>>] /\ p \notin tasks[<<mode, j>>]
    BY <2>2, <2>3 DEF Made
  <2> QED
    BY <2>2, <2>3, <2>4 DEF Made, Needed
<1> QED
  BY <1>1, <1>2, <1>3, <1>4, <1>5, <1>6, <1>7, <1>8, <1>9, <1>10, <1>11, <1>12, Zenon
     DEF Next, Thread, Uncounting

-----------------------------------------------------------------------------
(* Licences.                                                                *)

LEMMA PartsStep == Inv /\ Parts /\ [Next]_vars => Parts'
<1> SUFFICES ASSUME Inv, Parts, [Next]_vars PROVE Parts'
  OBVIOUS
<1> USE DEF Parts, Part, Licences, settings, disk, list, ghosts, vars
<1>t. /\ temp \in [Contents -> [pkg : Packages \cup {"none", Part},
                rap : {"none", Part, "whole"}, rif : {"none", Part, "whole"}]]
      /\ exdata \in [Contents -> {"none", Part, "whole"}]
      /\ it \in Packages /\ c \in Contents /\ Beside[c] \subseteq Licences /\ mode \in Kinds
      /\ result \in [Marked -> {"none", "success", "failed", "skipped"}]
         /\ Packages \subseteq Marked
  BY InstallAssumption DEF Inv, TypeOK, c, Marked
<1>1. CASE \E marked \in SUBSET Marked, bd, can \in BOOLEAN : Start(marked, bd, can)
  BY <1>1, <1>t DEF Start
<1>2. CASE \E yes \in BOOLEAN : Answer(yes)
  BY <1>2, <1>t DEF Answer
<1>3. CASE Finish
  BY <1>3, <1>t DEF Finish
<1>4. CASE \E p \in Marked : Pass(p)
  BY <1>4, <1>t DEF Pass, Counted, Fails, Foremost
<1>5. CASE \E p \in Marked : Begin(p)
  BY <1>5, <1>t DEF Begin, Foremost
<1>6. CASE Get
  BY <1>6, <1>t DEF Get, InTemp
<1>7. CASE GetShort
  BY <1>7, <1>t DEF GetShort, InTemp, Fails
<1>8. CASE GetFails
  BY <1>8, <1>t DEF GetFails, InTemp, Fails, Counted
<1>9. CASE DownloadRapOrRif
  BY <1>9, <1>t DEF DownloadRapOrRif, InTemp, Preferred
<1>10. CASE \E found \in Licences, got \in {"none", Part, "whole"} : LicenceFails(found, got)
  BY <1>10, <1>t DEF LicenceFails, InTemp, Fails
<1>11. CASE \E i \in Ids, made \in BOOLEAN : NewTask(i, made)
  BY <1>11, <1>t DEF NewTask, NextTaskId, Fails
<1>12. CASE Stub
  BY <1>12, <1>t DEF Stub, Put
<1>13. CASE StubFails
  BY <1>13, <1>t DEF StubFails, Fails
<1>14. CASE Move
  BY <1>14, <1>t DEF Move, InTemp
<1>15. CASE MoveFails
  BY <1>15, <1>t DEF MoveFails, Fails
<1>16. CASE Rif
  BY <1>16, <1>t DEF Rif, InTemp, UsesRap, UsesRif, Wanted
<1>17. CASE RifFails
  BY <1>17, <1>t DEF RifFails, Fails, UsesRap, UsesRif, Wanted
<1>18. CASE CreatePDBFiles
  BY <1>18, <1>t DEF CreatePDBFiles, Put, Files, Counted
<1>19. CASE PDBCut
  BY <1>19, <1>t DEF PDBCut, Counted, Fails
<1>20. CASE \E made \in {{}, {"d0"}, {"d1"}} : PDBFails(made)
  BY <1>20, <1>t DEF PDBFails, Put, Files, Counted, Fails
<1>21. CASE Cancel
  BY <1>21, <1>t DEF Cancel
<1>22. CASE \E cut \in BOOLEAN : Restart(cut)
  BY <1>22, <1>t DEF Restart, InTemp
<1>23. CASE UNCHANGED vars
  BY <1>23, <1>t DEF vars
<1>24. CASE \E i \in Ids : TaskTaken(i)
  BY <1>24, <1>t DEF TaskTaken, Fails
<1> QED
  BY <1>1, <1>2, <1>3, <1>4, <1>5, <1>6, <1>7, <1>8, <1>9, <1>10,
     <1>11, <1>12, <1>13, <1>14, <1>15, <1>16, <1>17, <1>18, <1>19, <1>20,
     <1>21, <1>22, <1>23, <1>24, Zenon DEF Next, Thread

LEMMA InHandStep == Inv /\ Parts /\ InHand /\ [Next]_vars => InHand'
<1> SUFFICES ASSUME Inv, Parts, InHand, [Next]_vars PROVE InHand'
  OBVIOUS
<1> USE DEF Inv, Steps, Parts, InHand, Part, Licences, Kinds, c, Preferred, settings, disk,
    list, ghosts, vars
<1>t. /\ temp \in [Contents -> [pkg : Packages \cup {"none", Part},
                rap : {"none", Part, "whole"}, rif : {"none", Part, "whole"}]]
      /\ exdata \in [Contents -> {"none", Part, "whole"}]
      /\ it \in Packages /\ c \in Contents /\ Beside[c] \subseteq Licences /\ mode \in Kinds
      /\ result \in [Marked -> {"none", "success", "failed", "skipped"}]
         /\ Packages \subseteq Marked
  BY InstallAssumption DEF Inv, TypeOK, c, Marked
<1>1. CASE \E marked \in SUBSET Marked, bd, can \in BOOLEAN : Start(marked, bd, can)
  BY <1>1, <1>t DEF Start
<1>2. CASE \E yes \in BOOLEAN : Answer(yes)
  BY <1>2, <1>t DEF Answer
<1>3. CASE Finish
  BY <1>3, <1>t DEF Finish
<1>4. CASE \E p \in Marked : Pass(p)
  BY <1>4, <1>t DEF Pass, Counted, Fails, Foremost
<1>5. CASE \E p \in Marked : Begin(p)
  BY <1>5, <1>t DEF Begin, Foremost
<1>6. CASE Get
  BY <1>6, <1>t DEF Get, InTemp
<1>7. CASE GetShort
  BY <1>7, <1>t DEF GetShort, InTemp, Fails
<1>8. CASE GetFails
  BY <1>8, <1>t DEF GetFails, InTemp, Fails, Counted
<1>9. CASE DownloadRapOrRif
  BY <1>9, <1>t DEF DownloadRapOrRif, InTemp, Preferred
<1>10. CASE \E found \in Licences, got \in {"none", Part, "whole"} : LicenceFails(found, got)
  BY <1>10, <1>t DEF LicenceFails, InTemp, Fails
<1>11. CASE \E i \in Ids, made \in BOOLEAN : NewTask(i, made)
  BY <1>11, <1>t DEF NewTask, NextTaskId, Fails
<1>12. CASE Stub
  BY <1>12, <1>t DEF Stub, Put
<1>13. CASE StubFails
  BY <1>13, <1>t DEF StubFails, Fails
<1>14. CASE Move
  BY <1>14, <1>t DEF Move, InTemp
<1>15. CASE MoveFails
  BY <1>15, <1>t DEF MoveFails, Fails
<1>16. CASE Rif
  BY <1>16, <1>t DEF Rif, InTemp, UsesRap, UsesRif, Wanted
<1>17. CASE RifFails
  BY <1>17, <1>t DEF RifFails, Fails, UsesRap, UsesRif, Wanted
<1>18. CASE CreatePDBFiles
  BY <1>18, <1>t DEF CreatePDBFiles, Put, Files, Counted
<1>19. CASE PDBCut
  BY <1>19, <1>t DEF PDBCut, Counted, Fails
<1>20. CASE \E made \in {{}, {"d0"}, {"d1"}} : PDBFails(made)
  BY <1>20, <1>t DEF PDBFails, Put, Files, Counted, Fails
<1>21. CASE Cancel
  BY <1>21, <1>t DEF Cancel
<1>22. CASE \E cut \in BOOLEAN : Restart(cut)
  BY <1>22, <1>t DEF Restart, InTemp
<1>23. CASE UNCHANGED vars
  BY <1>23, <1>t DEF vars
<1>24. CASE \E i \in Ids : TaskTaken(i)
  BY <1>24, <1>t DEF TaskTaken, Fails
<1> QED
  BY <1>1, <1>2, <1>3, <1>4, <1>5, <1>6, <1>7, <1>8, <1>9, <1>10,
     <1>11, <1>12, <1>13, <1>14, <1>15, <1>16, <1>17, <1>18, <1>19, <1>20,
     <1>21, <1>22, <1>23, <1>24, Zenon DEF Next, Thread

LEMMA LicensedStep == Inv /\ InHand /\ Licensed /\ [Next]_vars => Licensed'
<1> SUFFICES ASSUME Inv, InHand, Licensed, [Next]_vars PROVE Licensed'
  OBVIOUS
<1> USE DEF Licensed, settings, disk, list, ghosts, vars
<1>t. /\ temp \in [Contents -> [pkg : Packages \cup {"none", Part},
                rap : {"none", Part, "whole"}, rif : {"none", Part, "whole"}]]
      /\ exdata \in [Contents -> {"none", Part, "whole"}]
      /\ it \in Packages /\ c \in Contents /\ Beside[c] \subseteq Licences /\ mode \in Kinds
      /\ result \in [Marked -> {"none", "success", "failed", "skipped"}]
         /\ Packages \subseteq Marked
  BY InstallAssumption DEF Inv, TypeOK, c, Marked
<1>m. Packages \subseteq Marked
  BY DEF Marked
<1>1. CASE \E marked \in SUBSET Marked, bd, can \in BOOLEAN : Start(marked, bd, can)
  BY <1>1, <1>t DEF Start
<1>2. CASE \E yes \in BOOLEAN : Answer(yes)
  BY <1>2, <1>m DEF Answer, Inv, Steps
<1>3. CASE Finish
  BY <1>3, <1>t DEF Finish
<1>4. CASE \E p \in Marked : Pass(p)
  BY <1>4, <1>t DEF Pass, Counted, Fails, Foremost
<1>5. CASE \E p \in Marked : Begin(p)
  BY <1>5, <1>t DEF Begin, Foremost
<1>6. CASE Get
  BY <1>6, <1>t DEF Get, InTemp
<1>7. CASE GetShort
  BY <1>7, <1>t DEF GetShort, InTemp, Fails
<1>8. CASE GetFails
  BY <1>8, <1>t DEF GetFails, InTemp, Fails, Counted
<1>9. CASE DownloadRapOrRif
  BY <1>9, <1>t DEF DownloadRapOrRif, InTemp, Preferred
<1>10. CASE \E found \in Licences, got \in {"none", Part, "whole"} : LicenceFails(found, got)
  BY <1>10, <1>t DEF LicenceFails, InTemp, Fails
<1>11. CASE \E i \in Ids, made \in BOOLEAN : NewTask(i, made)
  BY <1>11, <1>t DEF NewTask, NextTaskId, Fails
<1>12. CASE Stub
  BY <1>12, <1>t DEF Stub, Put
<1>13. CASE StubFails
  BY <1>13, <1>t DEF StubFails, Fails
<1>14. CASE Move
  BY <1>14, <1>t DEF Move, InTemp
<1>15. CASE MoveFails
  BY <1>15, <1>t DEF MoveFails, Fails
<1>16. CASE Rif
  <2>1. \A x \in Contents : exdata[x] = "whole" => exdata'[x] = "whole"
    BY <1>16, <1>t DEF Rif, Wanted
  <2>2. UNCHANGED <<account, mode>> /\ pc' = "pdb" /\ result' = result
        /\ unlicensed \subseteq unlicensed'
        /\ broken \subseteq broken'
    BY <1>16, <1>t DEF Rif
  <2> QED
    BY <2>1, <2>2, InstallAssumption
<1>17. CASE RifFails
  <2>1. \A x \in Contents : exdata[x] = "whole" => exdata'[x] = "whole"
    BY <1>17, <1>t DEF RifFails, Wanted
  <2>2. UNCHANGED <<account, mode>> /\ pc' = "pdb" /\ result' = result
        /\ unlicensed \subseteq unlicensed'
        /\ broken \subseteq broken'
    BY <1>17, <1>t DEF RifFails
  <2> QED
    BY <2>1, <2>2, InstallAssumption
<1>18. CASE CreatePDBFiles
  <2>1. /\ pc = "pdb" /\ UNCHANGED <<account, exdata, mode, unlicensed, broken>>
        /\ result' = [result EXCEPT ![it] = "success"]
    BY <1>18, <1>t DEF CreatePDBFiles, Counted
  <2>2. \A p \in Packages : p # it /\ result'[p] = "success" => result[p] = "success"
    BY <2>1, <1>t
  <2> QED
    BY <2>1, <2>2, <1>t DEF InHand, c
<1>19. CASE PDBCut
  <2>1. /\ pc = "pdb" /\ UNCHANGED <<account, exdata, mode, unlicensed, broken>>
        /\ result' = [result EXCEPT ![it] = "success"]
    BY <1>19, <1>t DEF PDBCut, Counted
  <2>2. \A p \in Packages : p # it /\ result'[p] = "success" => result[p] = "success"
    BY <2>1, <1>t
  <2> QED
    BY <2>1, <2>2, <1>t DEF InHand, c
<1>20. CASE \E made \in {{}, {"d0"}, {"d1"}} : PDBFails(made)
  BY <1>20, <1>t DEF PDBFails, Put, Files, Counted, Fails
<1>21. CASE Cancel
  BY <1>21, <1>t DEF Cancel
<1>22. CASE \E cut \in BOOLEAN : Restart(cut)
  BY <1>22, <1>t DEF Restart, InTemp
<1>23. CASE UNCHANGED vars
  BY <1>23, <1>t DEF vars
<1>24. CASE \E i \in Ids : TaskTaken(i)
  BY <1>24, <1>t DEF TaskTaken, Fails
<1> QED
  BY <1>1, <1>2, <1>3, <1>4, <1>5, <1>6, <1>7, <1>8, <1>9, <1>10,
     <1>11, <1>12, <1>13, <1>14, <1>15, <1>16, <1>17, <1>18, <1>19, <1>20,
     <1>21, <1>22, <1>23, <1>24, Zenon DEF Next, Thread

-----------------------------------------------------------------------------
(* The theorems.                                                            *)

LEMMA InitIInv == Init => IInv
<1> SUFFICES ASSUME Init PROVE IInv
  OBVIOUS
<1> USE InstallAssumption, SomeType DEF Init
<1>1. TypeOK
  <2>1. PICK taken \in SUBSET Kinds :
          tasks = [t \in Tasks |-> IF t[1] \in taken /\ t[2] = First THEN {"foreign"} ELSE Absent]
    OBVIOUS
  <2>2. tasks \in [Tasks -> SUBSET Things]
    BY <2>1 DEF Absent, Things
  <2>3. /\ temp \in [Contents -> [pkg : Packages \cup {"none", Part},
                rap : {"none", Part, "whole"}, rif : {"none", Part, "whole"}]]
        /\ next_id \in [Kinds -> Ids] /\ mode \in Kinds
        /\ exdata \in [Contents -> {"none", Part, "whole"}]
        /\ result \in [Marked -> {"none", "success", "failed", "skipped"}]
    BY DEF Kinds
  <2> QED
    BY <2>2, <2>3 DEF TypeOK
<1>2. \A p \in Packages : result[p] # "success"
  BY DEF Marked
<1>3. \A x \in Contents : temp[x].rap = "none" /\ temp[x].rif = "none" /\ exdata[x] = "none"
  OBVIOUS
<1>4. Part # "none"
  BY DEF Part
<1> QED
  BY <1>1, <1>2, <1>3, <1>4
  DEF IInv, Inv, TaskInv, LicenceInv, Steps, Fresh, Filled, Queued, Parts, InHand, Licensed, Busy

LEMMA IInvStep == IInv /\ [Next]_vars => IInv'
BY TypeStep, StepsStep, FreshStep, FilledStep, QueuedStep, PartsStep, InHandStep,
    LicensedStep, Zenon
   DEF IInv, Inv, TaskInv, LicenceInv

\* The invariant holds in every state.
THEOREM Invariance == Spec => []IInv
<1>1. IInv /\ [Next]_vars => IInv'
  BY IInvStep, Zenon
<1> QED
  BY <1>1, InitIInv, PTL DEF Spec

\* The variables keep their types.
THEOREM TypeCorrect == Spec => []TypeOK
<1>1. IInv => TypeOK
  BY Zenon DEF IInv, Inv
<1> QED
  BY <1>1, Invariance, PTL

\* GetNextQueueTaskId and GetNextInstallTaskId give the number of no folder there is, so
\* that a package leaves every task but its own as it is.
THEOREM TasksKeptHolds == Spec => TasksKept
<1>1. IInv /\ [Next]_vars => [Kept]_vars
  <2>1. IInv /\ [Next]_vars => Kept
    BY KeptStep, Zenon DEF IInv, TaskInv
  <2> QED
    BY <2>1
<1> QED
  BY <1>1, Invariance, PTL DEF Spec, TasksKept, Kept

\* InstallRemotePkgsThread: what is counted as a success has its task, but for the calls
\* nobody looks at.
THEOREM SuccessQueuedHolds == Spec => []SuccessQueued
<1>1. IInv => SuccessQueued
  BY Zenon DEF IInv, TaskInv, Queued, SuccessQueued
<1> QED
  BY <1>1, Invariance, PTL

\* InstallLocalPkg: a downloaded package has its licence, but for calls that failed, and for
\* a part of one that was kept.
THEOREM LicensedHolds == Spec => []Licensed
<1>1. IInv => Licensed
  BY Zenon DEF IInv, LicenceInv
<1> QED
  BY <1>1, Invariance, PTL
=============================================================================
