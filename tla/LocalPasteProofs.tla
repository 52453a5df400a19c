-------------------------- MODULE LocalPasteProofs --------------------------
(***************************************************************************)
(* Theorems about pasting local files, for every clipboard, every state of  *)
(* source and destination and every sequence of failing calls.              *)
(***************************************************************************)
EXTENDS LocalPasteInv, TLAPS

-----------------------------------------------------------------------------
(* The step of the invariant, conjunct by conjunct.                         *)

Flags == stop \in BOOLEAN /\ trouble \in BOOLEAN /\ passed \in BOOLEAN

Values ==
  /\ mode \in {"cut", "copy"} /\ rule \in {"skip", "ask", "replace"}
  /\ refused \subseteq Tops
  /\ src \in [Nodes -> {"none", "dir", "data"}]
  /\ dst \in [Nodes -> {"none", "dir", "old", "data", "partial"}]
  /\ pc \in {"next", "enter", "file", "move", "copy", "copying", "reading", "remove",
             "done"}
  /\ dir \in Dirs \cup {top} /\ cur \in Nodes \cup {top}
  /\ seen \subseteq Nodes /\ had \subseteq Nodes /\ agreed \subseteq Files

LEMMA TypeParts == TypeOK <=> Flags /\ Values
BY DEF TypeOK, Flags, Values

LEMMA TypePartsPrimed == TypeOK' <=> Flags' /\ Values'
BY DEF TypeOK, Flags, Values

LEMMA FlagsStep == Flags /\ [Next]_vars => Flags'
<1> SUFFICES ASSUME Flags, [Next]_vars PROVE Flags'
  OBVIOUS
<1> USE DEF Flags, request, tree, ghosts, vars
<1>1. CASE Pick BY <1>1, Zenon DEF Pick
<1>2. CASE Refuse BY <1>2, Zenon DEF Refuse, Done
<1>3. CASE Break BY <1>3, Zenon DEF Break
<1>4. CASE LeaveStopped BY <1>4, Zenon DEF LeaveStopped, Done
<1>5. CASE Leave BY <1>5, Zenon DEF Leave, Done
<1>6. CASE RenameFolder BY <1>6, Zenon DEF RenameFolder, Done
<1>7. CASE RenameFolderFails BY <1>7, Zenon DEF RenameFolderFails, GiveUp
<1>8. CASE Walk BY <1>8, Zenon DEF Walk
<1>9. CASE \E yes \in BOOLEAN : Decide(yes) BY <1>9, Zenon DEF Decide, Done
<1>10. CASE RenameFile BY <1>10, Zenon DEF RenameFile, Done
<1>11. CASE RenameFileFails BY <1>11, Zenon DEF RenameFileFails, Done
<1>12. CASE OpenCopy BY <1>12, Zenon DEF OpenCopy
<1>13. CASE OpenFails BY <1>13, Zenon DEF OpenFails, GiveUp
<1>14. CASE CopyDone BY <1>14, Zenon DEF CopyDone, Done
<1>15. CASE FlushFails BY <1>15, Zenon DEF FlushFails, Done
<1>16. CASE WriteFails BY <1>16, Zenon DEF WriteFails, GiveUp
<1>17. CASE ReadFails BY <1>17, Zenon DEF ReadFails
<1>18. CASE Remove BY <1>18, Zenon DEF Remove, Done
<1>19. CASE Cancel BY <1>19, Zenon DEF Cancel
<1>20. CASE UNCHANGED vars BY <1>20, Zenon
<1>21. CASE ListFails BY <1>21, Zenon DEF ListFails, Done
<1> QED
  BY <1>1, <1>2, <1>3, <1>4, <1>5, <1>6, <1>7, <1>8, <1>9, <1>10, <1>11, <1>12, <1>13,
     <1>14, <1>15, <1>16, <1>17, <1>18, <1>19, <1>20, <1>21, Zenon DEF Next, Thread

LEMMA ValuesStep == Values /\ Moving /\ [Next]_vars => Values'
<1> SUFFICES ASSUME Values, Moving, [Next]_vars PROVE Values'
  OBVIOUS
<1> USE TreeAssumption DEF Values, Moving, request, tree, ghosts, vars, Files
<1>1. CASE Pick BY <1>1 DEF Pick, Todo
<1>2. CASE Refuse BY <1>2 DEF Refuse, Done, Under, Todo
<1>3. CASE Break BY <1>3 DEF Break
<1>4. CASE LeaveStopped BY <1>4 DEF LeaveStopped, Done
<1>5. CASE Leave BY <1>5 DEF Leave, Done
<1>6. CASE RenameFolder BY <1>6 DEF RenameFolder, Done, Under
<1>7. CASE RenameFolderFails BY <1>7 DEF RenameFolderFails, GiveUp, Under, Tops
<1>8. CASE Walk BY <1>8 DEF Walk, MkDirs, Above
<1>9. CASE \E yes \in BOOLEAN : Decide(yes) BY <1>9 DEF Decide, Done
<1>10. CASE RenameFile BY <1>10 DEF RenameFile, Done
<1>11. CASE RenameFileFails BY <1>11 DEF RenameFileFails, Done
<1>12. CASE OpenCopy BY <1>12 DEF OpenCopy, Above
<1>13. CASE OpenFails BY <1>13 DEF OpenFails, GiveUp, Under, Tops, MkDirs, Above
<1>14. CASE CopyDone BY <1>14 DEF CopyDone, Done
<1>15. CASE FlushFails BY <1>15 DEF FlushFails, Done
<1>16. CASE WriteFails BY <1>16 DEF WriteFails, GiveUp, Under, Tops
<1>17. CASE ReadFails BY <1>17 DEF ReadFails
<1>18. CASE Remove BY <1>18 DEF Remove, Done
<1>19. CASE Cancel BY <1>19 DEF Cancel
<1>20. CASE UNCHANGED vars BY <1>20
<1>21. CASE ListFails BY <1>21 DEF ListFails, Done, Todo, Under
<1> QED
  BY <1>1, <1>2, <1>3, <1>4, <1>5, <1>6, <1>7, <1>8, <1>9, <1>10, <1>11, <1>12, <1>13,
     <1>14, <1>15, <1>16, <1>17, <1>18, <1>19, <1>20, <1>21, Zenon DEF Next, Thread
LEMMA KindsStep == Inv /\ [Next]_vars => Kinds'
<1> SUFFICES ASSUME Inv, [Next]_vars PROVE Kinds'
  OBVIOUS
<1> USE TreeAssumption
    DEF Inv, TypeOK, Kinds, Moving, request, tree, ghosts, vars, Files
<1>1. CASE Pick BY <1>1 DEF Pick
<1>2. CASE Refuse BY <1>2 DEF Refuse, Done
<1>3. CASE Break BY <1>3 DEF Break
<1>4. CASE LeaveStopped BY <1>4 DEF LeaveStopped, Done
<1>5. CASE Leave BY <1>5 DEF Leave, Done
<1>6. CASE RenameFolder BY <1>6 DEF RenameFolder, Done, Under
<1>7. CASE RenameFolderFails BY <1>7 DEF RenameFolderFails, GiveUp
<1>8. CASE Walk BY <1>8 DEF Walk, MkDirs, Above
<1>9. CASE \E yes \in BOOLEAN : Decide(yes) BY <1>9 DEF Decide, Done
<1>10. CASE RenameFile BY <1>10 DEF RenameFile, Done
<1>11. CASE RenameFileFails BY <1>11 DEF RenameFileFails, Done
<1>12. CASE OpenCopy BY <1>12 DEF OpenCopy, Above
<1>13. CASE OpenFails BY <1>13 DEF OpenFails, GiveUp, MkDirs, Above
<1>14. CASE CopyDone BY <1>14 DEF CopyDone, Done
<1>15. CASE FlushFails BY <1>15 DEF FlushFails, Done
<1>16. CASE WriteFails BY <1>16 DEF WriteFails, GiveUp
<1>17. CASE ReadFails BY <1>17 DEF ReadFails
<1>18. CASE Remove BY <1>18 DEF Remove, Done
<1>19. CASE Cancel BY <1>19 DEF Cancel
<1>20. CASE UNCHANGED vars BY <1>20
<1>21. CASE ListFails BY <1>21 DEF ListFails, Done, Todo, Under
<1> QED
  BY <1>1, <1>2, <1>3, <1>4, <1>5, <1>6, <1>7, <1>8, <1>9, <1>10, <1>11, <1>12, <1>13,
     <1>14, <1>15, <1>16, <1>17, <1>18, <1>19, <1>20, <1>21, Zenon DEF Next, Thread

LEMMA MovingStep == Inv /\ [Next]_vars => Moving'
<1> SUFFICES ASSUME Inv, [Next]_vars PROVE Moving'
  OBVIOUS
<1> USE TreeAssumption
    DEF Inv, TypeOK, Kinds, Moving, request, tree, ghosts, vars, Files
<1>1. CASE Pick BY <1>1 DEF Pick, Todo
<1>2. CASE Refuse BY <1>2 DEF Refuse, Done, Todo
<1>3. CASE Break BY <1>3 DEF Break
<1>4. CASE LeaveStopped BY <1>4 DEF LeaveStopped, Done
<1>5. CASE Leave BY <1>5 DEF Leave, Done
<1>6. CASE RenameFolder BY <1>6 DEF RenameFolder, Done, Under, Renames
<1>7. CASE RenameFolderFails BY <1>7 DEF RenameFolderFails, GiveUp
<1>8. CASE Walk BY <1>8 DEF Walk, MkDirs, Above, Renames
<1>9. CASE \E yes \in BOOLEAN : Decide(yes) BY <1>9 DEF Decide, Done
<1>10. CASE RenameFile BY <1>10 DEF RenameFile, Done
<1>11. CASE RenameFileFails BY <1>11 DEF RenameFileFails, Done
<1>12. CASE OpenCopy BY <1>12 DEF OpenCopy, Above
<1>13. CASE OpenFails BY <1>13 DEF OpenFails, GiveUp, MkDirs, Above
<1>14. CASE CopyDone BY <1>14 DEF CopyDone, Done
<1>15. CASE FlushFails BY <1>15 DEF FlushFails, Done
<1>16. CASE WriteFails BY <1>16 DEF WriteFails, GiveUp
<1>17. CASE ReadFails BY <1>17 DEF ReadFails
<1>18. CASE Remove BY <1>18 DEF Remove, Done
<1>19. CASE Cancel BY <1>19 DEF Cancel
<1>20. CASE UNCHANGED vars BY <1>20
<1>21. CASE ListFails BY <1>21 DEF ListFails, Done, Todo, Under
<1> QED
  BY <1>1, <1>2, <1>3, <1>4, <1>5, <1>6, <1>7, <1>8, <1>9, <1>10, <1>11, <1>12, <1>13,
     <1>14, <1>15, <1>16, <1>17, <1>18, <1>19, <1>20, <1>21, Zenon DEF Next, Thread

LEMMA FoldersStep == Inv /\ [Next]_vars => Folders'
<1> SUFFICES ASSUME Inv, [Next]_vars PROVE Folders'
  OBVIOUS
<1> USE TreeAssumption
    DEF Inv, TypeOK, Kinds, Moving, Folders, WellFormed,
           request, tree, ghosts, vars, Files
<1>1. CASE Pick BY <1>1 DEF Pick
<1>2. CASE Refuse BY <1>2 DEF Refuse, Done
<1>3. CASE Break BY <1>3 DEF Break
<1>4. CASE LeaveStopped BY <1>4 DEF LeaveStopped, Done
<1>5. CASE Leave BY <1>5 DEF Leave, Done
<1>6. CASE RenameFolder BY <1>6 DEF RenameFolder, Done, Under, Renames, Stands
<1>7. CASE RenameFolderFails BY <1>7 DEF RenameFolderFails, GiveUp
<1>8. CASE Walk BY <1>8 DEF Walk, MkDirs, Above
<1>9. CASE \E yes \in BOOLEAN : Decide(yes) BY <1>9 DEF Decide, Done
<1>10. CASE RenameFile BY <1>10 DEF RenameFile, Done, Stands
<1>11. CASE RenameFileFails BY <1>11 DEF RenameFileFails, Done
<1>12. CASE OpenCopy BY <1>12 DEF OpenCopy, Above
<1>13. CASE OpenFails BY <1>13 DEF OpenFails, GiveUp, MkDirs, Above
<1>14. CASE CopyDone BY <1>14 DEF CopyDone, Done
<1>15. CASE FlushFails BY <1>15 DEF FlushFails, Done
<1>16. CASE WriteFails BY <1>16 DEF WriteFails, GiveUp
<1>17. CASE ReadFails BY <1>17 DEF ReadFails
<1>18. CASE Remove BY <1>18 DEF Remove, Done
<1>19. CASE Cancel BY <1>19 DEF Cancel
<1>20. CASE UNCHANGED vars BY <1>20
<1>21. CASE ListFails BY <1>21 DEF ListFails, Done, Todo, Under
<1> QED
  BY <1>1, <1>2, <1>3, <1>4, <1>5, <1>6, <1>7, <1>8, <1>9, <1>10, <1>11, <1>12, <1>13,
     <1>14, <1>15, <1>16, <1>17, <1>18, <1>19, <1>20, <1>21, Zenon DEF Next, Thread

LEMMA ConsentedStep == Inv /\ Consented /\ [Next]_vars => Consented'
<1> SUFFICES ASSUME Inv, Consented, [Next]_vars PROVE Consented'
  OBVIOUS
<1> USE TreeAssumption
    DEF Consented, Inv, TypeOK, Kinds, Moving, Folders, WellFormed,
           request, tree, ghosts, vars, Files
<1>1. CASE Pick BY <1>1 DEF Pick, Todo
<1>2. CASE Refuse BY <1>2 DEF Refuse, Done
<1>3. CASE Break BY <1>3 DEF Break
<1>4. CASE LeaveStopped BY <1>4 DEF LeaveStopped, Done
<1>5. CASE Leave BY <1>5 DEF Leave, Done
<1>6. CASE RenameFolder BY <1>6 DEF RenameFolder, Done, Under, Renames, Stands
<1>7. CASE RenameFolderFails BY <1>7 DEF RenameFolderFails, GiveUp
<1>8. CASE Walk BY <1>8 DEF Walk, MkDirs, Above
<1>9. CASE \E yes \in BOOLEAN : Decide(yes) BY <1>9 DEF Decide, Done, FileExists
<1>10. CASE RenameFile BY <1>10 DEF RenameFile, Done, Stands
<1>11. CASE RenameFileFails BY <1>11 DEF RenameFileFails, Done
<1>12. CASE OpenCopy BY <1>12 DEF OpenCopy, Above
<1>13. CASE OpenFails BY <1>13 DEF OpenFails, GiveUp, MkDirs, Above
<1>14. CASE CopyDone BY <1>14 DEF CopyDone, Done
<1>15. CASE FlushFails BY <1>15 DEF FlushFails, Done
<1>16. CASE WriteFails BY <1>16 DEF WriteFails, GiveUp
<1>17. CASE ReadFails BY <1>17 DEF ReadFails
<1>18. CASE Remove BY <1>18 DEF Remove, Done
<1>19. CASE Cancel BY <1>19 DEF Cancel
<1>20. CASE UNCHANGED vars BY <1>20
<1>21. CASE ListFails BY <1>21 DEF ListFails, Done, Todo, Under
<1> QED
  BY <1>1, <1>2, <1>3, <1>4, <1>5, <1>6, <1>7, <1>8, <1>9, <1>10, <1>11, <1>12, <1>13,
     <1>14, <1>15, <1>16, <1>17, <1>18, <1>19, <1>20, <1>21, Zenon DEF Next, Thread

LEMMA AgreedStep == Inv /\ Consented /\ [Next]_vars => \A n \in Nodes : Agreed(n)
<1> SUFFICES ASSUME Inv, Consented, [Next]_vars, NEW n \in Nodes PROVE Agreed(n)
  OBVIOUS
<1> USE TreeAssumption
    DEF Agreed, Consented, Inv, TypeOK, Kinds, Moving, Folders, WellFormed,
           request, tree, ghosts, vars, Files
<1>1. CASE Pick BY <1>1 DEF Pick, Todo
<1>2. CASE Refuse BY <1>2 DEF Refuse, Done
<1>3. CASE Break BY <1>3 DEF Break
<1>4. CASE LeaveStopped BY <1>4 DEF LeaveStopped, Done
<1>5. CASE Leave BY <1>5 DEF Leave, Done
<1>6. CASE RenameFolder BY <1>6 DEF RenameFolder, Done, Under, Renames, Stands
<1>7. CASE RenameFolderFails BY <1>7 DEF RenameFolderFails, GiveUp
<1>8. CASE Walk BY <1>8 DEF Walk, MkDirs, Above
<1>9. CASE \E yes \in BOOLEAN : Decide(yes) BY <1>9 DEF Decide, Done, FileExists
<1>10. CASE RenameFile BY <1>10 DEF RenameFile, Done, Stands
<1>11. CASE RenameFileFails BY <1>11 DEF RenameFileFails, Done
<1>12. CASE OpenCopy BY <1>12 DEF OpenCopy, Above
<1>13. CASE OpenFails BY <1>13 DEF OpenFails, GiveUp, MkDirs, Above
<1>14. CASE CopyDone BY <1>14 DEF CopyDone, Done
<1>15. CASE FlushFails BY <1>15 DEF FlushFails, Done
<1>16. CASE WriteFails BY <1>16 DEF WriteFails, GiveUp
<1>17. CASE ReadFails BY <1>17 DEF ReadFails
<1>18. CASE Remove BY <1>18 DEF Remove, Done
<1>19. CASE Cancel BY <1>19 DEF Cancel
<1>20. CASE UNCHANGED vars BY <1>20
<1>21. CASE ListFails BY <1>21 DEF ListFails, Done, Todo, Under
<1> QED
  BY <1>1, <1>2, <1>3, <1>4, <1>5, <1>6, <1>7, <1>8, <1>9, <1>10, <1>11, <1>12, <1>13,
     <1>14, <1>15, <1>16, <1>17, <1>18, <1>19, <1>20, <1>21, Zenon DEF Next, Thread

LEMMA KeptFiles == NoFileLost <=> Kept
BY DEF NoFileLost, Kept, Held

LEMMA OnceFiles == Inv => (ExactlyOnce <=> Once)
BY DEF ExactlyOnce, Once, Held, Inv, TypeOK, Kinds

LEMMA WholeStep == "cut" \notin FlushErrors /\ Inv /\ Whole /\ [Next]_vars => Whole'
<1> SUFFICES ASSUME "cut" \notin FlushErrors, Inv, Whole, [Next]_vars PROVE Whole'
  OBVIOUS
<1> USE TreeAssumption
    DEF Whole, Kept, Inv, TypeOK, Kinds, Moving, Folders, WellFormed,
           request, tree, ghosts, vars, Files
<1>1. CASE Pick BY <1>1 DEF Pick, Todo
<1>2. CASE Refuse BY <1>2 DEF Refuse, Done
<1>3. CASE Break BY <1>3 DEF Break
<1>4. CASE LeaveStopped BY <1>4 DEF LeaveStopped, Done
<1>5. CASE Leave BY <1>5 DEF Leave, Done
<1>6. CASE RenameFolder BY <1>6 DEF RenameFolder, Done, Under, Renames, Stands
<1>7. CASE RenameFolderFails BY <1>7 DEF RenameFolderFails, GiveUp
<1>8. CASE Walk BY <1>8 DEF Walk, MkDirs, Above
<1>9. CASE \E yes \in BOOLEAN : Decide(yes) BY <1>9 DEF Decide, Done, FileExists
<1>10. CASE RenameFile BY <1>10 DEF RenameFile, Done, Stands
<1>11. CASE RenameFileFails BY <1>11 DEF RenameFileFails, Done
<1>12. CASE OpenCopy BY <1>12 DEF OpenCopy, Above
<1>13. CASE OpenFails BY <1>13 DEF OpenFails, GiveUp, MkDirs, Above
<1>14. CASE CopyDone BY <1>14 DEF CopyDone, Done
<1>15. CASE FlushFails BY <1>15 DEF FlushFails, Done
<1>16. CASE WriteFails BY <1>16 DEF WriteFails, GiveUp
<1>17. CASE ReadFails BY <1>17 DEF ReadFails
<1>18. CASE Remove BY <1>18 DEF Remove, Done
<1>19. CASE Cancel BY <1>19 DEF Cancel
<1>20. CASE UNCHANGED vars BY <1>20
<1>21. CASE ListFails BY <1>21 DEF ListFails, Done, Todo, Under
<1> QED
  BY <1>1, <1>2, <1>3, <1>4, <1>5, <1>6, <1>7, <1>8, <1>9, <1>10, <1>11, <1>12, <1>13,
     <1>14, <1>15, <1>16, <1>17, <1>18, <1>19, <1>20, <1>21, Zenon DEF Next, Thread

LEMMA OnceStep == Inv /\ Once /\ [Next]_vars => Once'
<1> SUFFICES ASSUME Inv, Once, [Next]_vars PROVE Once'
  OBVIOUS
<1> USE TreeAssumption
    DEF Once, Inv, TypeOK, Kinds, Moving, Folders, WellFormed,
           request, tree, ghosts, vars, Files
<1>1. CASE Pick BY <1>1 DEF Pick, Todo
<1>2. CASE Refuse BY <1>2 DEF Refuse, Done
<1>3. CASE Break BY <1>3 DEF Break
<1>4. CASE LeaveStopped BY <1>4 DEF LeaveStopped, Done
<1>5. CASE Leave BY <1>5 DEF Leave, Done
<1>6. CASE RenameFolder BY <1>6 DEF RenameFolder, Done, Under, Renames, Stands
<1>7. CASE RenameFolderFails BY <1>7 DEF RenameFolderFails, GiveUp
<1>8. CASE Walk BY <1>8 DEF Walk, MkDirs, Above
<1>9. CASE \E yes \in BOOLEAN : Decide(yes) BY <1>9 DEF Decide, Done, FileExists
<1>10. CASE RenameFile BY <1>10 DEF RenameFile, Done, Stands
<1>11. CASE RenameFileFails BY <1>11 DEF RenameFileFails, Done
<1>12. CASE OpenCopy BY <1>12 DEF OpenCopy, Above
<1>13. CASE OpenFails BY <1>13 DEF OpenFails, GiveUp, MkDirs, Above
<1>14. CASE CopyDone BY <1>14 DEF CopyDone, Done
<1>15. CASE FlushFails BY <1>15 DEF FlushFails, Done
<1>16. CASE WriteFails BY <1>16 DEF WriteFails, GiveUp
<1>17. CASE ReadFails BY <1>17 DEF ReadFails
<1>18. CASE Remove BY <1>18 DEF Remove, Done
<1>19. CASE Cancel BY <1>19 DEF Cancel
<1>20. CASE UNCHANGED vars BY <1>20
<1>21. CASE ListFails BY <1>21 DEF ListFails, Done, Todo, Under
<1> QED
  BY <1>1, <1>2, <1>3, <1>4, <1>5, <1>6, <1>7, <1>8, <1>9, <1>10, <1>11, <1>12, <1>13,
     <1>14, <1>15, <1>16, <1>17, <1>18, <1>19, <1>20, <1>21, Zenon DEF Next, Thread

LEMMA OnCourseStep == Inv /\ OnCourse /\ [Next]_vars => OnCourse'
<1> SUFFICES ASSUME Inv, OnCourse, [Next]_vars PROVE OnCourse'
  OBVIOUS
<1> USE TreeAssumption
    DEF OnCourse, Inv, TypeOK, Kinds, Moving, Folders, WellFormed,
           request, tree, ghosts, vars, Files
<1>1. CASE Pick BY <1>1 DEF Pick, Todo
<1>2. CASE Refuse BY <1>2 DEF Refuse, Done, Under
<1>3. CASE Break BY <1>3 DEF Break, Todo, Tops, Under
<1>4. CASE LeaveStopped BY <1>4 DEF LeaveStopped, Done, Under
<1>5. CASE Leave BY <1>5 DEF Leave, Done, Todo, Under
<1>6. CASE RenameFolder BY <1>6 DEF RenameFolder, Done, Under, Renames, Stands
<1>7. CASE RenameFolderFails BY <1>7 DEF RenameFolderFails, GiveUp
<1>8. CASE Walk
  <2> SUFFICES ASSUME ~trouble', ~passed' PROVE OnCourse'
    BY DEF OnCourse
  <2>1. ~trouble /\ ~passed /\ pc = "enter" /\ pc' = "next" /\ dir' = cur /\ seen' = seen
        /\ src' = src /\ had' = had /\ dst'[cur] = "dir"
    BY <1>8 DEF Walk
  <2>2. cur \in Nodes /\ Parent[cur] = dir
    BY <2>1
  <2>3. ASSUME NEW n \in seen, NEW d \in Nodes, n \in Below[d], d \notin seen
        PROVE cur \in Under(d)
    BY <2>1, <2>2, <2>3 DEF Under
  <2> QED
    BY <2>1, <2>2, <2>3
<1>9. CASE \E yes \in BOOLEAN : Decide(yes) BY <1>9 DEF Decide, Done, FileExists, Under
<1>10. CASE RenameFile BY <1>10 DEF RenameFile, Done, Stands, Under
<1>11. CASE RenameFileFails BY <1>11 DEF RenameFileFails, Done, Under
<1>12. CASE OpenCopy BY <1>12 DEF OpenCopy, Above
<1>13. CASE OpenFails BY <1>13 DEF OpenFails, GiveUp, MkDirs, Above
<1>14. CASE CopyDone BY <1>14 DEF CopyDone, Done, Under
<1>15. CASE FlushFails BY <1>15 DEF FlushFails, Done, Under
<1>16. CASE WriteFails BY <1>16 DEF WriteFails, GiveUp
<1>17. CASE ReadFails BY <1>17 DEF ReadFails
<1>18. CASE Remove BY <1>18 DEF Remove, Done, Under
<1>19. CASE Cancel BY <1>19 DEF Cancel
<1>20. CASE UNCHANGED vars BY <1>20
<1>21. CASE ListFails BY <1>21 DEF ListFails, Done, Todo, Under
<1> QED
  BY <1>1, <1>2, <1>3, <1>4, <1>5, <1>6, <1>7, <1>8, <1>9, <1>10, <1>11, <1>12, <1>13,
     <1>14, <1>15, <1>16, <1>17, <1>18, <1>19, <1>20, <1>21, Zenon DEF Next, Thread

LEMMA TransferredStep == Inv /\ OnCourse /\ Transferred /\ [Next]_vars => Transferred'
<1> SUFFICES ASSUME Inv, OnCourse, Transferred, [Next]_vars PROVE Transferred'
  OBVIOUS
<1> USE TreeAssumption
    DEF Transferred, OnCourse, Inv, TypeOK, Kinds, Moving, Folders, WellFormed,
           request, tree, ghosts, vars, Files
<1>1. CASE Pick BY <1>1 DEF Pick, Todo
<1>2. CASE Refuse BY <1>2 DEF Refuse, Done, Under
<1>3. CASE Break BY <1>3 DEF Break, Todo, Tops, Under
<1>4. CASE LeaveStopped BY <1>4 DEF LeaveStopped, Done, Under
<1>5. CASE Leave
  <2> SUFFICES ASSUME ~trouble', ~passed' PROVE Transferred'
    BY DEF Transferred
  <2>1. ~trouble /\ ~passed /\ dir \in Dirs /\ Todo = {} /\ dst' = dst /\ had' = had
        /\ mode' = mode /\ pc' = "next" /\ seen' = seen \cup {dir}
    BY <1>5 DEF Leave, Done
  <2>2. ASSUME mode = "cut", NEW n \in Below[dir] PROVE src[n] = "none"
    <3>1. n \in seen => src[n] = "none"
      BY <2>1, <2>2 DEF Transferred
    <3>2. n \notin seen => src[n] = "none"
      <4>1. PICK e \in Nodes : Parent[e] = dir /\ (n = e \/ n \in Below[e])
        BY <2>1
      <4>2. e \in seen \/ src[e] = "none"
        BY <2>1, <4>1 DEF Todo
      <4> QED
        BY <2>1, <4>1, <4>2
    <3> QED
      BY <3>1, <3>2
  <2>3. mode = "cut" => src'[dir] = "none"
    BY <1>5, <2>1, <2>2 DEF Leave
  <2>4. \A n \in Nodes : src'[n] = src[n] \/ src'[n] = "none"
    BY <1>5 DEF Leave
  <2> QED
    BY <2>1, <2>3, <2>4
<1>6. CASE RenameFolder BY <1>6 DEF RenameFolder, Done, Under, Renames, Stands
<1>7. CASE RenameFolderFails BY <1>7 DEF RenameFolderFails, GiveUp
<1>8. CASE Walk BY <1>8 DEF Walk, MkDirs, Above, Under
<1>9. CASE \E yes \in BOOLEAN : Decide(yes) BY <1>9 DEF Decide, Done, FileExists, Under
<1>10. CASE RenameFile BY <1>10 DEF RenameFile, Done, Stands, Under
<1>11. CASE RenameFileFails BY <1>11 DEF RenameFileFails, Done, Under
<1>12. CASE OpenCopy BY <1>12 DEF OpenCopy, Above
<1>13. CASE OpenFails BY <1>13 DEF OpenFails, GiveUp, MkDirs, Above
<1>14. CASE CopyDone BY <1>14 DEF CopyDone, Done, Under
<1>15. CASE FlushFails BY <1>15 DEF FlushFails, Done, Under
<1>16. CASE WriteFails BY <1>16 DEF WriteFails, GiveUp
<1>17. CASE ReadFails BY <1>17 DEF ReadFails
<1>18. CASE Remove BY <1>18 DEF Remove, Done, Under
<1>19. CASE Cancel BY <1>19 DEF Cancel
<1>20. CASE UNCHANGED vars BY <1>20
<1>21. CASE ListFails BY <1>21 DEF ListFails, Done, Todo, Under
<1> QED
  BY <1>1, <1>2, <1>3, <1>4, <1>5, <1>6, <1>7, <1>8, <1>9, <1>10, <1>11, <1>12, <1>13,
     <1>14, <1>15, <1>16, <1>17, <1>18, <1>19, <1>20, <1>21, Zenon DEF Next, Thread


-----------------------------------------------------------------------------
(* The paste implements Relocation.                                         *)

Same(f) == (src'[f] = "data" <=> src[f] = "data") /\ (dst'[f] = "data" <=> dst[f] = "data")

\* Only the data that stands whole shows in Relocation.
LEMMA SameHeld == (\A f \in Files : Same(f)) => UNCHANGED Held
BY DEF Same, Held

\* Every step is a stutter, a rename, the end of a copy or the removal of an original.
LEMMA RelocationStep ==
  "cut" \notin FlushErrors /\ Inv /\ Whole /\ [Next]_vars => [Abstract!Next]_Held
<1> SUFFICES ASSUME "cut" \notin FlushErrors, Inv, Whole, [Next]_vars PROVE [Abstract!Next]_Held
  OBVIOUS
<1> USE TreeAssumption DEF request, tree, ghosts, vars
<1>1. CASE UNCHANGED src /\ \A n \in Nodes : dst'[n] = dst[n]
                            \/ (dst[n] # "data" /\ dst'[n] # "data")
  BY <1>1, SameHeld DEF Same, Files
<1>2. CASE RenameFolder
  <2> DEFINE S == {f \in Files \cap Under(cur) : src[f] = "data"}
  <2>1. \A f \in Files \cap Under(cur) : dst[f] = "none"
    BY <1>2 DEF RenameFolder, Renames, Inv, Folders, WellFormed, Moving, TypeOK, Under,
                Files
  <2>2. \A f \in S : Held[f] = {"src"}
    BY <2>1 DEF Held, Files
  <2>3. Held' = [f \in Files |-> IF f \in S THEN {"dst"} ELSE Held[f]]
    BY <1>2, <2>1 DEF RenameFolder, Held, Inv, TypeOK, Files
  <2>4. S \in SUBSET Files /\ Abstract!Carry(S)
    BY <2>2, <2>3 DEF Abstract!Carry
  <2> QED
    BY <2>4 DEF Abstract!Next
<1>3. CASE RenameFile
  <2>1. cur \in Files /\ src[cur] = "data" /\ dst[cur] # "data"
    BY <1>3 DEF RenameFile, Inv, Moving, Whole, Files
  <2>2. Held[cur] = {"src"}
    BY <2>1 DEF Held
  <2>3. Held' = [f \in Files |-> IF f \in {cur} THEN {"dst"} ELSE Held[f]]
    BY <1>3, <2>1 DEF RenameFile, Held, Inv, TypeOK, Files
  <2>4. {cur} \in SUBSET Files /\ Abstract!Carry({cur})
    BY <2>1, <2>2, <2>3 DEF Abstract!Carry
  <2> QED
    BY <2>4 DEF Abstract!Next
<1>4. CASE CopyDone
  <2>1. cur \in Files /\ src[cur] = "data" /\ dst[cur] = "partial"
    BY <1>4 DEF CopyDone, Inv, Moving, Files
  <2>2. Held[cur] = {"src"}
    BY <2>1 DEF Held
  <2>3. Held' = [f \in Files |-> IF f = cur THEN {"src", "dst"} ELSE Held[f]]
    BY <1>4, <2>1 DEF CopyDone, Held, Inv, TypeOK, Files
  <2>4. Abstract!Arrive(cur)
    BY <2>2, <2>3 DEF Abstract!Arrive, Held
  <2> QED
    BY <2>1, <2>4 DEF Abstract!Next
<1>5. CASE Remove /\ src' # src
  <2>1. cur \in Files /\ src[cur] = "data" /\ dst[cur] = "data"
    BY <1>5 DEF Remove, Inv, Moving, Whole, Files
  <2>2. Held[cur] = {"src", "dst"}
    BY <2>1 DEF Held
  <2>3. Held' = [f \in Files |-> IF f = cur THEN {"dst"} ELSE Held[f]]
    <3>1. src' = [src EXCEPT ![cur] = "none"] /\ dst' = dst
      BY <1>5 DEF Remove
    <3> QED
      BY <2>1, <3>1 DEF Held, Inv, TypeOK, Files
  <2>4. Abstract!Depart(cur)
    BY <2>2, <2>3 DEF Abstract!Depart, Held
  <2> QED
    BY <2>1, <2>4 DEF Abstract!Next
<1>6. CASE Leave
  <2>1. \A f \in Files : Same(f)
    BY <1>6 DEF Leave, Same, Inv, TypeOK, Files
  <2> QED
    BY <2>1, SameHeld
<1>7. CASE Walk \/ OpenFails BY <1>1, <1>7 DEF Walk, OpenFails, MkDirs, Inv, TypeOK
<1>8. CASE OpenCopy
  <2>1. dst[cur] # "data"
    BY <1>8 DEF OpenCopy, Inv, Moving, Whole, Files
  <2> QED
    BY <1>1, <1>8, <2>1 DEF OpenCopy, Inv, TypeOK
<1>9. CASE UNCHANGED tree BY <1>1, <1>9
<1> QED
  BY <1>2, <1>3, <1>4, <1>5, <1>6, <1>7, <1>8, <1>9
  DEF Next, Thread, Pick, Refuse, Break, LeaveStopped, ListFails, RenameFolderFails, Decide,
      RenameFileFails, FlushFails, WriteFails, ReadFails, Remove, Cancel

-----------------------------------------------------------------------------
(* The theorems.                                                            *)

LEMMA InvInit == Init => Inv
<1> SUFFICES ASSUME Init PROVE Inv
  OBVIOUS
<1>1. Flags BY Zenon DEF Init, Flags
<1>2. Values
  <2>1. /\ src \in [Nodes -> {"none", "dir", "data"}]
        /\ dst \in [Nodes -> {"none", "dir", "old"}]
    BY DEF Init
  <2>2. refused \subseteq Tops
    BY DEF Init
  <2>3. dst \in [Nodes -> {"none", "dir", "old", "data", "partial"}]
    BY <2>1
  <2> QED
    BY <2>1, <2>2, <2>3 DEF Init, Values
<1>3. Kinds /\ Folders BY DEF Init, Kinds, Folders, WellFormed
<1>4. Moving BY DEF Init, Moving
<1> QED BY <1>1, <1>2, <1>3, <1>4, TypeParts DEF Inv

LEMMA InvStep == Inv /\ [Next]_vars => Inv'
BY TypeParts, TypePartsPrimed, FlagsStep, ValuesStep, KindsStep, MovingStep, FoldersStep
DEF Inv

\* The invariant that the rest is relative to.
LEMMA Invariant == Spec => []Inv
<1>1. Init => Inv BY InvInit
<1>2. Inv /\ [Next]_vars => Inv' BY InvStep
<1> QED BY <1>1, <1>2, PTL DEF Spec

\* Every variable of a paste keeps its type: the walk over the tree (CopyOrMove) is at
\* a folder, the file in hand (CopyOrMoveLocalFile) is a file.
THEOREM TypeCorrect == Spec => []TypeOK
<1>1. Inv => TypeOK BY DEF Inv
<1> QED BY <1>1, Invariant, PTL

\* MoveLocalFilesThread and CopyLocalFilesThread replace an existing file only with
\* consent, whatever fails and wherever they are cancelled.
THEOREM ConsentHolds == Spec => ReplacedWithConsent
<1>1. Init => Consented BY DEF Init, Consented
<1>2. Inv /\ Consented /\ [Next]_vars => Consented' BY ConsentedStep
<1>3. Inv /\ Consented /\ [Next]_vars => [\A n \in Nodes : Agreed(n)]_vars BY AgreedStep
<1> QED BY <1>1, <1>2, <1>3, Invariant, PTL DEF Spec, ReplacedWithConsent

\* As long as no call has failed, nothing is doubled, halved or taken from a copy's
\* source.
THEOREM ExactlyOnceHolds == Spec => []ExactlyOnce
<1>1. Init => Once BY TreeAssumption DEF Init, Once, Files
<1>2. Inv /\ Once /\ [Next]_vars => Once' BY OnceStep
<1>3. Inv /\ Once => ExactlyOnce BY OnceFiles
<1> QED BY <1>1, <1>2, <1>3, Invariant, PTL DEF Spec

\* At the end of an untroubled paste, everything has come through.
LEMMA CompleteEnd == Inv /\ OnCourse /\ Transferred => Complete
<1> SUFFICES ASSUME Inv, OnCourse, Transferred, pc = "done", ~trouble, ~passed
             PROVE /\ \A n \in had : dst[n] = IF n \in Dirs THEN "dir" ELSE "data"
                   /\ mode = "cut" => \A n \in Nodes : src[n] = "none"
  BY DEF Complete
<1>1. had \subseteq Nodes
  BY DEF Inv, TypeOK
<1>2. had \subseteq seen
  BY <1>1, TreeAssumption DEF OnCourse
<1> QED
  BY <1>1, <1>2 DEF Transferred, Inv, Kinds

\* A paste that nothing failed, refused, skipped or cancelled is complete at its end.
THEOREM CompleteHolds == Spec => []Complete
<1>1. Init => OnCourse /\ Transferred BY DEF Init, OnCourse, Transferred
<1>2. Inv /\ OnCourse /\ [Next]_vars => OnCourse' BY OnCourseStep
<1>3. Inv /\ OnCourse /\ Transferred /\ [Next]_vars => Transferred' BY TransferredStep
<1>4. Inv /\ OnCourse /\ Transferred => Complete BY CompleteEnd
<1> QED BY <1>1, <1>2, <1>3, <1>4, Invariant, PTL DEF Spec

LEMMA WholeInit == Init => Whole
BY TreeAssumption DEF Init, Whole, Kept, Files

\* Where what fwrite took in a move reaches the device, no file is ever lost, whatever
\* else fails.
THEOREM NoFileLostHolds == ASSUME "cut" \notin FlushErrors PROVE Spec => []NoFileLost
<1>1. Init => Whole BY WholeInit
<1>2. Inv /\ Whole /\ [Next]_vars => Whole' BY WholeStep
<1>3. Whole => NoFileLost BY KeptFiles DEF Whole
<1> QED BY <1>1, <1>2, <1>3, Invariant, PTL DEF Spec

\* There a paste implements Relocation.
THEOREM RelocatesHolds == ASSUME "cut" \notin FlushErrors PROVE Spec => Relocates
<1>1. Init => Whole BY WholeInit
<1>2. Inv /\ Whole /\ [Next]_vars => Whole' BY WholeStep
<1>3. Init => Abstract!Init
  BY TreeAssumption DEF Init, Abstract!Init, Held, Files
<1>4. Inv /\ Whole /\ [Next]_vars => [Abstract!Next]_Held BY RelocationStep
<1> QED BY <1>1, <1>2, <1>3, <1>4, Invariant, PTL DEF Spec, Relocates, Abstract!Spec
=============================================================================
