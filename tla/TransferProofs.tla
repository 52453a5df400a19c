-------------------------- MODULE TransferProofs --------------------------
(***************************************************************************)
(* Theorems about transfers, for every tree of marked entries, every state  *)
(* of source and destination and every sequence of failing calls.           *)
(***************************************************************************)
EXTENDS TransferInv, TLAPS

-----------------------------------------------------------------------------
(* The step of the invariant, conjunct by conjunct.                         *)

Flags ==
  /\ hiding \in BOOLEAN /\ stop \in BOOLEAN /\ linked \in BOOLEAN /\ told \in BOOLEAN
  /\ trouble \in BOOLEAN /\ passed \in BOOLEAN

Values ==
  /\ job \in Jobs /\ server \in Servers /\ rule \in {"skip", "ask", "replace"}
  /\ refused \subseteq Tops
  /\ src \in [Nodes -> {"none", "dir", "data"}]
  /\ dst \in [Nodes -> {"none", "dir", "old", "data", "partial"}]
  /\ pc \in {"next", "folder", "file", "transfer", "copying", "done", "fault"}
  /\ dir \in Dirs \cup {top} /\ cur \in Nodes \cup {top}
  /\ seen \subseteq Nodes /\ had \subseteq Nodes /\ was \subseteq Nodes
  /\ leaked \subseteq Files /\ agreed \subseteq Nodes /\ unseen \subseteq Nodes
  /\ muffled \subseteq Nodes

LEMMA TypeParts == TypeOK <=> Flags /\ Values
BY DEF TypeOK, Flags, Values

LEMMA TypePartsPrimed == TypeOK' <=> Flags' /\ Values'
BY DEF TypeOK, Flags, Values

LEMMA FlagsStep == Flags /\ [Next]_vars => Flags'
<1> SUFFICES ASSUME Flags, [Next]_vars PROVE Flags'
  OBVIOUS
<1> USE DEF Flags, request, tree, walk, report, consent, vars
<1>1. CASE Pick BY <1>1, Zenon DEF Pick
<1>2. CASE Refuse BY <1>2, Zenon DEF Refuse, Done
<1>3. CASE Break BY <1>3, Zenon DEF Break
<1>4. CASE Leave BY <1>4, Zenon DEF Leave
<1>5. CASE Enter BY <1>5, Zenon DEF Enter
<1>6. CASE Lost BY <1>6, Zenon DEF Lost, GiveUp, Failed
<1>7. CASE Fault BY <1>7, Zenon DEF Fault
<1>8. CASE \E seesIt, yes \in BOOLEAN : Decide(seesIt, yes) BY <1>8, Zenon DEF Decide, Done
<1>9. CASE Open BY <1>9, Zenon DEF Open, Arrives
<1>10. CASE \E second \in BOOLEAN : OpenFails(second) BY <1>10, Zenon DEF OpenFails, GiveUp, Failed
<1>11. CASE CopyDone BY <1>11, Zenon DEF CopyDone, Arrives, Done
<1>12. CASE CopyShort BY <1>12, Zenon DEF CopyShort, Done, Muffled
<1>13. CASE WriteFails BY <1>13, Zenon DEF WriteFails, GiveUp, Failed
<1>14. CASE Call BY <1>14, Zenon DEF Call, Arrives, Done
<1>15. CASE CallWrong BY <1>15, Zenon DEF CallWrong, Arrives, Done, Muffled
<1>16. CASE CallFails BY <1>16, Zenon DEF CallFails, Arrives, GiveUp, Failed
<1>17. CASE Move BY <1>17, Zenon DEF Move, Done
<1>21. CASE MovePart BY <1>21, Zenon DEF MovePart, Muffled, Done
<1>18. CASE MoveFails BY <1>18, Zenon DEF MoveFails, Done, Failed
<1>19. CASE Cancel BY <1>19, Zenon DEF Cancel
<1>20. CASE UNCHANGED vars BY <1>20, Zenon
<1> QED
  BY <1>1, <1>2, <1>3, <1>4, <1>5, <1>6, <1>7, <1>8, <1>9, <1>10, <1>11, <1>12, <1>13,
     <1>14, <1>15, <1>16, <1>17, <1>18, <1>19, <1>20, <1>21, Zenon DEF Next, Thread

LEMMA ValuesStep == Values /\ Moving /\ [Next]_vars => Values'
<1> SUFFICES ASSUME Values, Moving, [Next]_vars PROVE Values'
  OBVIOUS
<1> USE TreeAssumption DEF Values, Moving, Files, request, tree, walk, report, consent, vars
<1>1. CASE Pick BY <1>1 DEF Pick, Todo
<1>2. CASE Refuse BY <1>2 DEF Refuse, Done, Todo, Under
<1>3. CASE Break BY <1>3 DEF Break
<1>4. CASE Leave BY <1>4 DEF Leave
<1>5. CASE Enter BY <1>5 DEF Enter, Made
<1>6. CASE Lost BY <1>6 DEF Lost, GiveUp, Failed, Under, Tops
<1>7. CASE Fault BY <1>7 DEF Fault
<1>8. CASE \E seesIt, yes \in BOOLEAN : Decide(seesIt, yes) BY <1>8 DEF Decide, Done
<1>9. CASE Open BY <1>9 DEF Open, Arrives
<1>10. CASE \E second \in BOOLEAN : OpenFails(second) BY <1>10 DEF OpenFails, GiveUp, Failed, Under, Tops, Streams
<1>11. CASE CopyDone BY <1>11 DEF CopyDone, Arrives, Done
<1>12. CASE CopyShort BY <1>12 DEF CopyShort, Done, Muffled
<1>13. CASE WriteFails BY <1>13 DEF WriteFails, GiveUp, Failed, Under, Tops
<1>14. CASE Call BY <1>14 DEF Call, Arrives, Done
<1>15. CASE CallWrong BY <1>15 DEF CallWrong, Arrives, Done, Muffled
<1>16. CASE CallFails BY <1>16 DEF CallFails, Arrives, GiveUp, Failed, Under, Tops
<1>17. CASE Move BY <1>17 DEF Move, Done, Under
<1>21. CASE MovePart BY <1>21 DEF MovePart, Muffled, Done, Under
<1>18. CASE MoveFails BY <1>18 DEF MoveFails, Done, Failed, Under
<1>19. CASE Cancel BY <1>19 DEF Cancel
<1>20. CASE UNCHANGED vars BY <1>20
<1> QED
  BY <1>1, <1>2, <1>3, <1>4, <1>5, <1>6, <1>7, <1>8, <1>9, <1>10, <1>11, <1>12, <1>13,
     <1>14, <1>15, <1>16, <1>17, <1>18, <1>19, <1>20, <1>21, Zenon DEF Next, Thread

LEMMA KindsStep == Inv /\ [Next]_vars => Kinds'
<1> SUFFICES ASSUME Inv, [Next]_vars PROVE Kinds'
  OBVIOUS
<1> USE TreeAssumption DEF Inv, TypeOK, Moving, Files, Kinds, request, tree, walk, report, consent, vars
<1>1. CASE Pick BY <1>1 DEF Pick
<1>2. CASE Refuse BY <1>2 DEF Refuse, Done
<1>3. CASE Break BY <1>3 DEF Break
<1>4. CASE Leave BY <1>4 DEF Leave
<1>5. CASE Enter BY <1>5 DEF Enter
<1>6. CASE Lost BY <1>6 DEF Lost, GiveUp, Failed
<1>7. CASE Fault BY <1>7 DEF Fault
<1>8. CASE \E seesIt, yes \in BOOLEAN : Decide(seesIt, yes) BY <1>8 DEF Decide, Done
<1>9. CASE Open BY <1>9 DEF Open, Arrives
<1>10. CASE \E second \in BOOLEAN : OpenFails(second) BY <1>10 DEF OpenFails, GiveUp, Failed
<1>11. CASE CopyDone BY <1>11 DEF CopyDone, Arrives, Done
<1>12. CASE CopyShort BY <1>12 DEF CopyShort, Done, Muffled
<1>13. CASE WriteFails BY <1>13 DEF WriteFails, GiveUp, Failed
<1>14. CASE Call BY <1>14 DEF Call, Arrives, Done
<1>15. CASE CallWrong BY <1>15 DEF CallWrong, Arrives, Done, Muffled
<1>16. CASE CallFails BY <1>16 DEF CallFails, Arrives, GiveUp, Failed
<1>17. CASE Move BY <1>17 DEF Move, Done
<1>21. CASE MovePart BY <1>21 DEF MovePart, Muffled, Done, Under
<1>18. CASE MoveFails BY <1>18 DEF MoveFails, Done, Failed
<1>19. CASE Cancel BY <1>19 DEF Cancel
<1>20. CASE UNCHANGED vars BY <1>20
<1> QED
  BY <1>1, <1>2, <1>3, <1>4, <1>5, <1>6, <1>7, <1>8, <1>9, <1>10, <1>11, <1>12, <1>13,
     <1>14, <1>15, <1>16, <1>17, <1>18, <1>19, <1>20, <1>21, Zenon DEF Next, Thread

LEMMA MovingStep == Inv /\ [Next]_vars => Moving'
<1> SUFFICES ASSUME Inv, [Next]_vars PROVE Moving'
  OBVIOUS
<1> USE TreeAssumption DEF Inv, TypeOK, Moving, Files, Kinds, request, tree, walk, report, consent, vars
<1>1. CASE Pick BY <1>1 DEF Pick, Todo
<1>2. CASE Refuse BY <1>2 DEF Refuse, Done, Todo, Under, Tops
<1>3. CASE Break BY <1>3 DEF Break
<1>4. CASE Leave BY <1>4 DEF Leave, Under
<1>5. CASE Enter BY <1>5 DEF Enter, Made, Under
<1>6. CASE Lost BY <1>6 DEF Lost, GiveUp, Failed, Under, Tops
<1>7. CASE Fault BY <1>7 DEF Fault
<1>8. CASE \E seesIt, yes \in BOOLEAN : Decide(seesIt, yes) BY <1>8 DEF Decide, Done, Under
<1>9. CASE Open BY <1>9 DEF Open, Arrives, Streams
<1>10. CASE \E second \in BOOLEAN : OpenFails(second) BY <1>10 DEF OpenFails, GiveUp, Failed, Under, Tops, Streams
<1>11. CASE CopyDone BY <1>11 DEF CopyDone, Arrives, Done, Under
<1>12. CASE CopyShort BY <1>12 DEF CopyShort, Done, Muffled, Under
<1>13. CASE WriteFails BY <1>13 DEF WriteFails, GiveUp, Failed, Under, Tops
<1>14. CASE Call BY <1>14 DEF Call, Arrives, Done, Under
<1>15. CASE CallWrong BY <1>15 DEF CallWrong, Arrives, Done, Muffled, Under
<1>16. CASE CallFails BY <1>16 DEF CallFails, Arrives, GiveUp, Failed, Under, Tops
<1>17. CASE Move BY <1>17 DEF Move, Done, Under
<1>21. CASE MovePart BY <1>21 DEF MovePart, Muffled, Done, Under
<1>18. CASE MoveFails BY <1>18 DEF MoveFails, Done, Failed, Under
<1>19. CASE Cancel BY <1>19 DEF Cancel
<1>20. CASE UNCHANGED vars BY <1>20
<1> QED
  BY <1>1, <1>2, <1>3, <1>4, <1>5, <1>6, <1>7, <1>8, <1>9, <1>10, <1>11, <1>12, <1>13,
     <1>14, <1>15, <1>16, <1>17, <1>18, <1>19, <1>20, <1>21, Zenon DEF Next, Thread

LEMMA FoldersStep == Inv /\ [Next]_vars => Folders'
<1> SUFFICES ASSUME Inv, [Next]_vars PROVE Folders'
  OBVIOUS
<1> USE TreeAssumption DEF Inv, TypeOK, Moving, Files, Kinds, Folders, WellFormed, request, tree, walk, report, consent, vars
<1>1. CASE Pick BY <1>1 DEF Pick
<1>2. CASE Refuse BY <1>2 DEF Refuse, Done
<1>3. CASE Break BY <1>3 DEF Break
<1>4. CASE Leave BY <1>4 DEF Leave
<1>5. CASE Enter BY <1>5 DEF Enter, Made
<1>6. CASE Lost BY <1>6 DEF Lost, GiveUp, Failed
<1>7. CASE Fault BY <1>7 DEF Fault
<1>8. CASE \E seesIt, yes \in BOOLEAN : Decide(seesIt, yes) BY <1>8 DEF Decide, Done
<1>9. CASE Open BY <1>9 DEF Open, Arrives, Writable
<1>10. CASE \E second \in BOOLEAN : OpenFails(second) BY <1>10 DEF OpenFails, GiveUp, Failed
<1>11. CASE CopyDone BY <1>11 DEF CopyDone, Arrives, Done
<1>12. CASE CopyShort BY <1>12 DEF CopyShort, Done, Muffled
<1>13. CASE WriteFails BY <1>13 DEF WriteFails, GiveUp, Failed
<1>14. CASE Call BY <1>14 DEF Call, Arrives, Done, Writable
<1>15. CASE CallWrong BY <1>15 DEF CallWrong, Arrives, Done, Muffled, Writable
<1>16. CASE CallFails BY <1>16 DEF CallFails, Arrives, GiveUp, Failed, Writable
<1>17. CASE Move BY <1>17 DEF Move, Done, Under
<1>21. CASE MovePart BY <1>21 DEF MovePart, Muffled, Done, Under
<1>18. CASE MoveFails BY <1>18 DEF MoveFails, Done, Failed
<1>19. CASE Cancel BY <1>19 DEF Cancel
<1>20. CASE UNCHANGED vars BY <1>20
<1> QED
  BY <1>1, <1>2, <1>3, <1>4, <1>5, <1>6, <1>7, <1>8, <1>9, <1>10, <1>11, <1>12, <1>13,
     <1>14, <1>15, <1>16, <1>17, <1>18, <1>19, <1>20, <1>21, Zenon DEF Next, Thread

LEMMA ConsentedStep == Inv /\ Consented /\ [Next]_vars => Consented'
<1> SUFFICES ASSUME Inv, Consented, [Next]_vars PROVE Consented'
  OBVIOUS
<1> USE TreeAssumption DEF Inv, TypeOK, Moving, Files, Kinds, Folders, WellFormed, Consented, request, tree, walk, report, consent, vars
<1>1. CASE Pick BY <1>1 DEF Pick
<1>2. CASE Refuse BY <1>2 DEF Refuse, Done
<1>3. CASE Break BY <1>3 DEF Break
<1>4. CASE Leave BY <1>4 DEF Leave
<1>5. CASE Enter BY <1>5 DEF Enter, Made
<1>6. CASE Lost BY <1>6 DEF Lost, GiveUp, Failed
<1>7. CASE Fault BY <1>7 DEF Fault
<1>8. CASE \E seesIt, yes \in BOOLEAN : Decide(seesIt, yes) BY <1>8 DEF Decide, Done, Under, FileExists
<1>9. CASE Open BY <1>9 DEF Open, Arrives, Writable
<1>10. CASE \E second \in BOOLEAN : OpenFails(second) BY <1>10 DEF OpenFails, GiveUp, Failed
<1>11. CASE CopyDone BY <1>11 DEF CopyDone, Arrives, Done
<1>12. CASE CopyShort BY <1>12 DEF CopyShort, Done, Muffled
<1>13. CASE WriteFails BY <1>13 DEF WriteFails, GiveUp, Failed
<1>14. CASE Call BY <1>14 DEF Call, Arrives, Done, Writable
<1>15. CASE CallWrong BY <1>15 DEF CallWrong, Arrives, Done, Muffled, Writable
<1>16. CASE CallFails BY <1>16 DEF CallFails, Arrives, GiveUp, Failed, Writable
<1>17. CASE Move BY <1>17 DEF Move, Done, Under
<1>21. CASE MovePart BY <1>21 DEF MovePart, Muffled, Done, Under
<1>18. CASE MoveFails BY <1>18 DEF MoveFails, Done, Failed
<1>19. CASE Cancel BY <1>19 DEF Cancel
<1>20. CASE UNCHANGED vars BY <1>20
<1> QED
  BY <1>1, <1>2, <1>3, <1>4, <1>5, <1>6, <1>7, <1>8, <1>9, <1>10, <1>11, <1>12, <1>13,
     <1>14, <1>15, <1>16, <1>17, <1>18, <1>19, <1>20, <1>21, Zenon DEF Next, Thread

LEMMA AgreedStep == Inv /\ Consented /\ [Next]_vars => \A n \in Nodes : Agreed(n)
<1> SUFFICES ASSUME Inv, Consented, [Next]_vars PROVE \A n \in Nodes : Agreed(n)
  OBVIOUS
<1> USE TreeAssumption DEF Agreed, Consented, Inv, TypeOK, Moving, Files, request, tree, walk, report, consent, vars
<1>1. CASE Pick BY <1>1 DEF Pick
<1>2. CASE Refuse BY <1>2 DEF Refuse, Done
<1>3. CASE Break BY <1>3 DEF Break
<1>4. CASE Leave BY <1>4 DEF Leave
<1>5. CASE Enter BY <1>5 DEF Enter, Made
<1>6. CASE Lost BY <1>6 DEF Lost, GiveUp, Failed
<1>7. CASE Fault BY <1>7 DEF Fault
<1>8. CASE \E seesIt, yes \in BOOLEAN : Decide(seesIt, yes) BY <1>8 DEF Decide, Done
<1>9. CASE Open BY <1>9 DEF Open, Arrives, Writable, Under
<1>10. CASE \E second \in BOOLEAN : OpenFails(second) BY <1>10 DEF OpenFails, GiveUp, Failed
<1>11. CASE CopyDone BY <1>11 DEF CopyDone, Arrives, Done
<1>12. CASE CopyShort BY <1>12 DEF CopyShort, Done, Muffled
<1>13. CASE WriteFails BY <1>13 DEF WriteFails, GiveUp, Failed
<1>14. CASE Call BY <1>14 DEF Call, Arrives, Done, Writable, Under
<1>15. CASE CallWrong BY <1>15 DEF CallWrong, Arrives, Done, Muffled, Writable, Under
<1>16. CASE CallFails BY <1>16 DEF CallFails, Arrives, GiveUp, Failed, Writable, Under
<1>17. CASE Move BY <1>17 DEF Move, Done, Under
<1>21. CASE MovePart BY <1>21 DEF MovePart, Muffled, Done, Under
<1>18. CASE MoveFails BY <1>18 DEF MoveFails, Done, Failed
<1>19. CASE Cancel BY <1>19 DEF Cancel
<1>20. CASE UNCHANGED vars BY <1>20
<1> QED
  BY <1>1, <1>2, <1>3, <1>4, <1>5, <1>6, <1>7, <1>8, <1>9, <1>10, <1>11, <1>12, <1>13,
     <1>14, <1>15, <1>16, <1>17, <1>18, <1>19, <1>20, <1>21, Zenon DEF Next, Thread

LEMMA ReachedStep == Inv /\ Reached /\ [Next]_vars => Reached'
<1> SUFFICES ASSUME Inv, Reached, [Next]_vars PROVE Reached'
  OBVIOUS
<1> USE TreeAssumption DEF Reached, Kinds, Inv, TypeOK, Moving, Files, request, tree, walk, report, consent, vars
<1>1. CASE Pick BY <1>1 DEF Pick
<1>2. CASE Refuse BY <1>2 DEF Refuse, Done, Todo, Under, Tops
<1>3. CASE Break BY <1>3 DEF Break
<1>4. CASE Leave BY <1>4 DEF Leave, Under, Tops
<1>5. CASE Enter BY <1>5 DEF Enter, Made, Under
<1>6. CASE Lost BY <1>6 DEF Lost, AsksServer, GiveUp, Failed
<1>7. CASE Fault BY <1>7 DEF Fault
<1>8. CASE \E seesIt, yes \in BOOLEAN : Decide(seesIt, yes) BY <1>8 DEF Decide, Done, Under, Tops
<1>9. CASE Open BY <1>9 DEF Open, Arrives
<1>10. CASE \E second \in BOOLEAN : OpenFails(second) BY <1>10 DEF OpenFails, GiveUp, Failed, Streams
<1>11. CASE CopyDone BY <1>11 DEF CopyDone, Arrives, Done
<1>12. CASE CopyShort BY <1>12 DEF CopyShort, Done, Muffled
<1>13. CASE WriteFails BY <1>13 DEF WriteFails, GiveUp, Failed
<1>14. CASE Call BY <1>14 DEF Call, Arrives, Done
<1>15. CASE CallWrong BY <1>15 DEF CallWrong, Arrives, Done, Muffled
<1>16. CASE CallFails BY <1>16 DEF CallFails, Arrives, GiveUp, Failed
<1>17. CASE Move BY <1>17 DEF Move, Done, Under, Tops
<1>21. CASE MovePart BY <1>21 DEF MovePart, Muffled, Done, Under, Tops
<1>18. CASE MoveFails BY <1>18 DEF MoveFails, Done, Failed, Under, Tops
<1>19. CASE Cancel BY <1>19 DEF Cancel
<1>20. CASE UNCHANGED vars BY <1>20
<1> QED
  BY <1>1, <1>2, <1>3, <1>4, <1>5, <1>6, <1>7, <1>8, <1>9, <1>10, <1>11, <1>12, <1>13,
     <1>14, <1>15, <1>16, <1>17, <1>18, <1>19, <1>20, <1>21, Zenon DEF Next, Thread

LEMMA LeaksStep == Inv /\ Leaks /\ [Next]_vars => Leaks'
<1> SUFFICES ASSUME Inv, Leaks, [Next]_vars PROVE Leaks'
  OBVIOUS
<1> USE TreeAssumption DEF Leaks, LeakEndsEntry, Inv, TypeOK, Moving, Files, request, tree, walk, report, consent, vars
<1>1. CASE Pick BY <1>1 DEF Pick
<1>2. CASE Refuse BY <1>2 DEF Refuse, Done
<1>3. CASE Break BY <1>3 DEF Break
<1>4. CASE Leave BY <1>4 DEF Leave
<1>5. CASE Enter BY <1>5 DEF Enter
<1>6. CASE Lost BY <1>6 DEF Lost, GiveUp, Failed
<1>7. CASE Fault BY <1>7 DEF Fault
<1>8. CASE \E seesIt, yes \in BOOLEAN : Decide(seesIt, yes) BY <1>8 DEF Decide, Done
<1>9. CASE Open BY <1>9 DEF Open, Arrives
<1>10. CASE \E second \in BOOLEAN : OpenFails(second)
  <2>1. PICK second \in BOOLEAN : OpenFails(second)
    BY <1>10
  <2>2. cur \in Nodes /\ cur \notin seen /\ trouble' /\ told'
    BY <2>1, Zenon DEF OpenFails, Failed
  <2>3. leaked' \subseteq leaked \cup {cur}
    BY <2>1 DEF OpenFails
  <2>4. seen \subseteq seen' /\ \A e \in Tops : cur \in Under(e) => Under(e) \subseteq seen'
    BY <2>1, <2>2 DEF OpenFails, GiveUp
  <2>5. \A e \in Tops, f \in leaked : f \in Under(e) => cur \notin Under(e)
    BY <2>2
  <2> QED
    BY <2>2, <2>3, <2>4, <2>5
<1>11. CASE CopyDone BY <1>11 DEF CopyDone, Arrives, Done
<1>12. CASE CopyShort BY <1>12 DEF CopyShort, Done, Muffled
<1>13. CASE WriteFails BY <1>13 DEF WriteFails, GiveUp, Failed
<1>14. CASE Call BY <1>14 DEF Call, Arrives, Done
<1>15. CASE CallWrong BY <1>15 DEF CallWrong, Arrives, Done, Muffled
<1>16. CASE CallFails BY <1>16 DEF CallFails, Arrives, GiveUp, Failed
<1>17. CASE Move BY <1>17 DEF Move, Done
<1>21. CASE MovePart BY <1>21 DEF MovePart, Muffled, Done, Under
<1>18. CASE MoveFails BY <1>18 DEF MoveFails, Done, Failed
<1>19. CASE Cancel BY <1>19 DEF Cancel
<1>20. CASE UNCHANGED vars BY <1>20
<1> QED
  BY <1>1, <1>2, <1>3, <1>4, <1>5, <1>6, <1>7, <1>8, <1>9, <1>10, <1>11, <1>12, <1>13,
     <1>14, <1>15, <1>16, <1>17, <1>18, <1>19, <1>20, <1>21, Zenon DEF Next, Thread

LEMMA ToldStep == Inv /\ Told /\ [Next]_vars => Told'
<1> SUFFICES ASSUME Inv, Told, [Next]_vars PROVE Told'
  OBVIOUS
<1> USE TreeAssumption DEF Told, Inv, TypeOK, Moving, Files, request, tree, walk, report, consent, vars
<1>1. CASE Pick BY <1>1 DEF Pick
<1>2. CASE Refuse BY <1>2 DEF Refuse, Done
<1>3. CASE Break BY <1>3 DEF Break
<1>4. CASE Leave BY <1>4 DEF Leave
<1>5. CASE Enter BY <1>5 DEF Enter
<1>6. CASE Lost BY <1>6 DEF Lost, GiveUp, Failed
<1>7. CASE Fault BY <1>7 DEF Fault
<1>8. CASE \E seesIt, yes \in BOOLEAN : Decide(seesIt, yes) BY <1>8 DEF Decide, Done
<1>9. CASE Open BY <1>9 DEF Open, Arrives
<1>10. CASE \E second \in BOOLEAN : OpenFails(second) BY <1>10 DEF OpenFails, GiveUp, Failed
<1>11. CASE CopyDone BY <1>11 DEF CopyDone, Arrives, Done
<1>12. CASE CopyShort BY <1>12 DEF CopyShort, Done, Muffled
<1>13. CASE WriteFails BY <1>13 DEF WriteFails, GiveUp, Failed
<1>14. CASE Call BY <1>14 DEF Call, Arrives, Done
<1>15. CASE CallWrong BY <1>15 DEF CallWrong, Arrives, Done, Muffled
<1>16. CASE CallFails BY <1>16 DEF CallFails, Arrives, GiveUp, Failed
<1>17. CASE Move BY <1>17 DEF Move, Done
<1>21. CASE MovePart BY <1>21 DEF MovePart, Muffled, Done, Under
<1>18. CASE MoveFails BY <1>18 DEF MoveFails, Done, Failed
<1>19. CASE Cancel BY <1>19 DEF Cancel
<1>20. CASE UNCHANGED vars BY <1>20
<1> QED
  BY <1>1, <1>2, <1>3, <1>4, <1>5, <1>6, <1>7, <1>8, <1>9, <1>10, <1>11, <1>12, <1>13,
     <1>14, <1>15, <1>16, <1>17, <1>18, <1>19, <1>20, <1>21, Zenon DEF Next, Thread

LEMMA OnCourseStep == Inv /\ Told /\ OnCourse /\ [Next]_vars => OnCourse'
<1> SUFFICES ASSUME Inv, Told, OnCourse, [Next]_vars PROVE OnCourse'
  OBVIOUS
<1> USE TreeAssumption DEF OnCourse, Quiet, Told, Shown, Kinds, Inv, TypeOK, Moving, Files, request, tree, walk, report, consent, vars
<1>1. CASE Pick BY <1>1 DEF Pick, Todo
<1>2. CASE Refuse BY <1>2 DEF Refuse, Done, Under
<1>3. CASE Break BY <1>3 DEF Break, Todo, Tops
<1>4. CASE Leave
  <2> SUFFICES ASSUME Quiet' PROVE OnCourse'
    BY Zenon DEF OnCourse
  <2>1. /\ Quiet /\ Todo = {} /\ dir \in Dirs /\ pc' = "next" /\ seen' = seen \cup {dir}
        /\ dir' = Parent[dir] /\ UNCHANGED <<src, had, hiding>>
    BY <1>4 DEF Leave
  <2>2. ASSUME NEW n \in Below[dir] PROVE n \in seen \/ n \notin had \/ ~Shown(n)
    <3>1. PICK e \in Nodes : Parent[e] = dir /\ (n = e \/ n \in Below[e])
      BY <2>1
    <3>2. CASE e \in seen
      BY <2>1, <3>1, <3>2
    <3>3. CASE e \notin seen /\ src[e] = "none"
      BY <2>1, <3>1, <3>3 DEF Folders, WellFormed
    <3>4. CASE hiding /\ e \in Dotted
      BY <2>1, <3>1, <3>4 DEF Under, Tops
    <3> QED
      BY <2>1, <3>1, <3>2, <3>3, <3>4 DEF Todo, Listed
  <2>3. \A n \in seen', d \in Nodes : n \in Below[d] => d \in seen' \/ dir' \in Under(d)
    BY <2>1 DEF Under
  <2> QED
    BY <2>1, <2>2, <2>3
<1>5. CASE Enter BY <1>5 DEF Enter, Made, Under
<1>6. CASE Lost BY <1>6 DEF Lost, GiveUp, Failed
<1>7. CASE Fault BY <1>7 DEF Fault
<1>8. CASE \E seesIt, yes \in BOOLEAN : Decide(seesIt, yes) BY <1>8 DEF Decide, Done, Under
<1>9. CASE Open BY <1>9 DEF Open, Arrives
<1>10. CASE \E second \in BOOLEAN : OpenFails(second) BY <1>10 DEF OpenFails, GiveUp, Failed
<1>11. CASE CopyDone BY <1>11 DEF CopyDone, Arrives, Done, Under
<1>12. CASE CopyShort BY <1>12 DEF CopyShort, Done, Muffled, Under
<1>13. CASE WriteFails BY <1>13 DEF WriteFails, GiveUp, Failed
<1>14. CASE Call BY <1>14 DEF Call, Arrives, Done, Under
<1>15. CASE CallWrong BY <1>15 DEF CallWrong, Arrives, Done, Muffled, Under
<1>16. CASE CallFails BY <1>16 DEF CallFails, Arrives, GiveUp, Failed
<1>17. CASE Move BY <1>17 DEF Move, Done, Under
<1>21. CASE MovePart BY <1>21 DEF MovePart, Muffled, Done, Under
<1>18. CASE MoveFails BY <1>18 DEF MoveFails, Done, Failed
<1>19. CASE Cancel BY <1>19 DEF Cancel
<1>20. CASE UNCHANGED vars BY <1>20
<1> QED
  BY <1>1, <1>2, <1>3, <1>4, <1>5, <1>6, <1>7, <1>8, <1>9, <1>10, <1>11, <1>12, <1>13,
     <1>14, <1>15, <1>16, <1>17, <1>18, <1>19, <1>20, <1>21, Zenon DEF Next, Thread

LEMMA ArrivedStep == Inv /\ Told /\ OnCourse /\ Arrived /\ [Next]_vars => Arrived'
<1> SUFFICES ASSUME Inv, Told, OnCourse, Arrived, [Next]_vars PROVE Arrived'
  OBVIOUS
<1> USE TreeAssumption DEF Arrived, OnCourse, Quiet, Told, KeepsTail, Kinds, Inv, TypeOK, Moving, Files, request, tree, walk, report, consent, vars
<1>1. CASE Pick BY <1>1 DEF Pick
<1>2. CASE Refuse BY <1>2 DEF Refuse, Done
<1>3. CASE Break BY <1>3 DEF Break
<1>4. CASE Leave BY <1>4 DEF Leave
<1>5. CASE Enter
  <2> SUFFICES ASSUME Quiet', NEW f \in seen' \cap had' \cap Files
               PROVE dst'[f] = "data" \/ KeepsTail(f)' \/ \E m \in muffled' : f \in Under(m)
    BY Zenon DEF Arrived
  <2>1. PICK listed \in BOOLEAN, made \in SUBSET Wanted :
          /\ Made(made)
          /\ seen' = IF listed THEN seen ELSE seen \cup Below[cur]
          /\ IF server = "smb" /\ job # "upload"
               THEN told' = (told \/ ~listed) /\ UNCHANGED muffled
               ELSE muffled' = (IF listed THEN muffled ELSE muffled \cup {cur}) /\ UNCHANGED told
          /\ UNCHANGED <<request, passed>>
    BY <1>5, Zenon DEF Enter
  <2>2. ~told /\ ~passed
    BY <2>1, Zenon
  <2>3. \A g \in Nodes : dst[g] = "data" => dst'[g] = "data"
    BY <2>1 DEF Made
  <2>4. CASE f \in seen
    <3>1. dst[f] = "data" \/ KeepsTail(f) \/ \E m \in muffled : f \in Under(m)
      BY <2>1, <2>2, <2>4
    <3>2. muffled \subseteq muffled'
      BY <2>1
    <3> QED BY <2>1, <2>3, <3>1, <3>2 DEF Under
  <2>5. CASE f \notin seen
    <3>1. ~listed /\ f \in Below[cur]
      BY <2>1, <2>5
    <3>2. cur \in muffled'
      <4>1. ~(server = "smb" /\ job # "upload")
        BY <2>1, <3>1, Zenon DEF Quiet
      <4> QED BY <2>1, <3>1, <4>1
    <3> QED BY <3>1, <3>2 DEF Under
  <2> QED
    BY <2>4, <2>5
<1>6. CASE Lost BY <1>6 DEF Lost, GiveUp, Failed
<1>7. CASE Fault BY <1>7 DEF Fault
<1>8. CASE \E seesIt, yes \in BOOLEAN : Decide(seesIt, yes) BY <1>8 DEF Decide, Done
<1>9. CASE Open BY <1>9 DEF Open, Arrives
<1>10. CASE \E second \in BOOLEAN : OpenFails(second) BY <1>10 DEF OpenFails, GiveUp, Failed
<1>11. CASE CopyDone BY <1>11 DEF CopyDone, Arrives, Done
<1>12. CASE CopyShort BY <1>12 DEF CopyShort, Done, Muffled, Under
<1>13. CASE WriteFails BY <1>13 DEF WriteFails, GiveUp, Failed
<1>14. CASE Call BY <1>14 DEF Call, Arrives, Done
<1>15. CASE CallWrong BY <1>15 DEF CallWrong, Arrives, Done, Muffled, Under
<1>16. CASE CallFails BY <1>16 DEF CallFails, Arrives, GiveUp, Failed
<1>17. CASE Move BY <1>17 DEF Move, Done, Under
<1>21. CASE MovePart BY <1>21 DEF MovePart, Muffled, Done, Under
<1>18. CASE MoveFails BY <1>18 DEF MoveFails, Done, Failed
<1>19. CASE Cancel BY <1>19 DEF Cancel
<1>20. CASE UNCHANGED vars BY <1>20
<1> QED
  BY <1>1, <1>2, <1>3, <1>4, <1>5, <1>6, <1>7, <1>8, <1>9, <1>10, <1>11, <1>12, <1>13,
     <1>14, <1>15, <1>16, <1>17, <1>18, <1>19, <1>20, <1>21, Zenon DEF Next, Thread

LEMMA FoldersMadeStep == Inv /\ Told /\ OnCourse /\ FoldersMade /\ [Next]_vars => FoldersMade'
<1> SUFFICES ASSUME Inv, Told, OnCourse, FoldersMade, [Next]_vars PROVE FoldersMade'
  OBVIOUS
<1> USE TreeAssumption DEF FoldersMade, OnCourse, Quiet, Told, Kinds, Folders, WellFormed, Inv, TypeOK, Moving, Files, request, tree, walk, report, consent, vars
<1>1. CASE Pick BY <1>1 DEF Pick
<1>2. CASE Refuse BY <1>2 DEF Refuse, Done
<1>3. CASE Break BY <1>3 DEF Break
<1>4. CASE Leave BY <1>4 DEF Leave
<1>5. CASE Enter
  <2> SUFFICES ASSUME ~trouble', ~passed'
               PROVE /\ dir' # top => dst'[dir'] = "dir"
                     /\ \A d \in seen' \cap had' \cap Dirs : dst'[d] = "dir"
    BY DEF FoldersMade
  <2>1. PICK listed \in BOOLEAN, made \in SUBSET Wanted :
          /\ Made(made)
          /\ seen' = IF listed THEN seen ELSE seen \cup Below[cur]
          /\ trouble' = (trouble \/ ~listed \/ dst'[cur] # "dir")
    BY <1>5, Zenon DEF Enter
  <2>2. ~trouble /\ listed /\ dst'[cur] = "dir"
    BY <2>1
  <2>3. dir' = cur /\ UNCHANGED <<had, passed>>
    BY <1>5 DEF Enter
  <2>4. \A d \in Nodes : dst[d] = "dir" => dst'[d] = "dir"
    BY <2>1 DEF Made
  <2> QED
    BY <2>1, <2>2, <2>3, <2>4
<1>6. CASE Lost BY <1>6 DEF Lost, GiveUp, Failed
<1>7. CASE Fault BY <1>7 DEF Fault
<1>8. CASE \E seesIt, yes \in BOOLEAN : Decide(seesIt, yes) BY <1>8 DEF Decide, Done
<1>9. CASE Open BY <1>9 DEF Open, Arrives, Writable
<1>10. CASE \E second \in BOOLEAN : OpenFails(second) BY <1>10 DEF OpenFails, GiveUp, Failed
<1>11. CASE CopyDone BY <1>11 DEF CopyDone, Arrives, Done
<1>12. CASE CopyShort BY <1>12 DEF CopyShort, Done, Muffled
<1>13. CASE WriteFails BY <1>13 DEF WriteFails, GiveUp, Failed
<1>14. CASE Call BY <1>14 DEF Call, Arrives, Done, Writable
<1>15. CASE CallWrong BY <1>15 DEF CallWrong, Arrives, Done, Muffled, Writable
<1>16. CASE CallFails BY <1>16 DEF CallFails, Arrives, GiveUp, Failed, Writable
<1>17. CASE Move BY <1>17 DEF Move, Done, Under
<1>21. CASE MovePart BY <1>21 DEF MovePart, Muffled, Done, Under
<1>18. CASE MoveFails BY <1>18 DEF MoveFails, Done, Failed
<1>19. CASE Cancel BY <1>19 DEF Cancel
<1>20. CASE UNCHANGED vars BY <1>20
<1> QED
  BY <1>1, <1>2, <1>3, <1>4, <1>5, <1>6, <1>7, <1>8, <1>9, <1>10, <1>11, <1>12, <1>13,
     <1>14, <1>15, <1>16, <1>17, <1>18, <1>19, <1>20, <1>21, Zenon DEF Next, Thread

-----------------------------------------------------------------------------
(* A transfer implements Relocation.                                        *)

Same(f) == (src'[f] = "data" <=> src[f] = "data") /\ (dst'[f] = "data" <=> dst[f] = "data")

\* Only the data that stands whole shows in Relocation.
LEMMA SameHeld == (\A f \in Files : Same(f)) => UNCHANGED Held
BY DEF Same, Held

\* The file in hand arrives whole.
LEMMA Arrival ==
  ASSUME Inv, cur \in Files, src[cur] = "data", dst[cur] # "data", Arrives("data"),
         UNCHANGED src
  PROVE  [Abstract!Next]_Held
<1>1. Held[cur] = {"src"}
  BY DEF Held
<1>2. Held' = [f \in Files |-> IF f = cur THEN {"src", "dst"} ELSE Held[f]]
  BY DEF Held, Arrives, Inv, TypeOK, Files
<1>3. Abstract!Arrive(cur)
  BY <1>1, <1>2 DEF Abstract!Arrive, Held
<1> QED
  BY <1>3 DEF Abstract!Next

\* Every step is a stutter, the arrival of a file or the move of an entry.
LEMMA RelocationStep == Inv /\ Reached /\ [Next]_vars => [Abstract!Next]_Held
<1> SUFFICES ASSUME Inv, Reached, [Next]_vars PROVE [Abstract!Next]_Held
  OBVIOUS
<1> USE TreeAssumption DEF request, tree, walk, report, consent, vars
<1>1. CASE UNCHANGED src /\ \A n \in Nodes : dst'[n] = dst[n]
                            \/ (dst[n] # "data" /\ dst'[n] # "data")
  BY <1>1, SameHeld DEF Same, Files
<1>2. CASE Open \/ CallWrong \/ CallFails
  <2>1. UNCHANGED src /\ cur \in Nodes \ seen
        /\ (UNCHANGED dst \/ Arrives("partial"))
    BY <1>2 DEF Open, CallWrong, CallFails, Inv, Moving
  <2>2. UNCHANGED dst \/ (cur \in Files /\ dst[cur] # "data")
    BY <1>2, <2>1 DEF Open, Streams, CallWrong, CallFails, Inv, Moving, Reached
  <2> QED
    BY <1>1, <2>1, <2>2 DEF Arrives, Inv, TypeOK
<1>3. CASE Call
  <2>1. cur \in Files /\ src[cur] = "data" /\ dst[cur] # "data"
    BY <1>3 DEF Call, Inv, Moving, Reached
  <2> QED
    BY <1>3, <2>1, Arrival DEF Call
<1>4. CASE CopyDone
  <2>1. cur \in Files /\ src[cur] = "data" /\ dst[cur] = "partial"
    BY <1>4 DEF CopyDone, Inv, Moving
  <2>2. CASE Arrives("data")
    BY <1>4, <2>1, <2>2, Arrival DEF CopyDone
  <2>3. CASE Arrives("partial")
    BY <1>1, <1>4, <2>1, <2>3 DEF CopyDone, Arrives, Inv, TypeOK
  <2> QED
    BY <1>4, <2>2, <2>3 DEF CopyDone
<1>5. CASE Move
  <2> DEFINE S == {f \in Files \cap Under(cur) : src[f] = "data"}
  <2>1. cur \in Tops /\ cur \notin seen /\ job = "move"
    BY <1>5 DEF Move, Inv, Moving, Tops
  <2>2. \A f \in Files \cap Under(cur) : dst[f] # "data"
    BY <2>1 DEF Reached
  <2>3. \A f \in S : Held[f] = {"src"}
    BY <2>2 DEF Held
  <2>4. Held' = [f \in Files |-> IF f \in S THEN {"dst"} ELSE Held[f]]
    BY <1>5, <2>2 DEF Move, Held, Inv, TypeOK, Files
  <2>5. S \in SUBSET Files /\ Abstract!Carry(S)
    BY <2>3, <2>4 DEF Abstract!Carry
  <2> QED
    BY <2>5 DEF Abstract!Next
<1>8. CASE MovePart
  <2>1. cur \in Tops /\ cur \notin seen /\ job = "move"
    BY <1>8 DEF MovePart, Inv, Moving, Tops
  <2>2. \A f \in Files \cap Under(cur) : dst[f] # "data"
    BY <2>1 DEF Reached
  <2>3. PICK stuck \in SUBSET {n \in Below[cur] : src[n] # "none"} :
          /\ dst' = [n \in Nodes |-> IF n \notin Under(cur) THEN dst[n]
                                    ELSE IF n \in stuck THEN "none" ELSE src[n]]
          /\ src' = [n \in Nodes |-> IF n \in Under(cur) /\ Under(n) \cap stuck = {}
                                    THEN "none" ELSE src[n]]
    BY <1>8 DEF MovePart
  <2> DEFINE S == {f \in (Files \cap Under(cur)) \ stuck : src[f] = "data"}
  <2>4. \A f \in S : Held[f] = {"src"}
    BY <2>2 DEF Held
  <2>5. \A f \in Files : Under(f) = {f}
    BY DEF Under, Files
  <2>6. Held' = [f \in Files |-> IF f \in S THEN {"dst"} ELSE Held[f]]
    BY <2>2, <2>3, <2>5 DEF Held, Inv, TypeOK, Files
  <2>7. S \in SUBSET Files /\ Abstract!Carry(S)
    BY <2>4, <2>6 DEF Abstract!Carry
  <2> QED
    BY <2>7 DEF Abstract!Next
<1>6. CASE Enter
  BY <1>1, <1>6 DEF Enter, Made, Inv, TypeOK
<1>7. CASE UNCHANGED tree
  BY <1>1, <1>7
<1> QED
  BY <1>2, <1>3, <1>4, <1>5, <1>6, <1>7, <1>8
  DEF Next, Thread, Pick, Refuse, Break, Leave, Lost, Fault, Decide, OpenFails, CopyShort,
      WriteFails, MoveFails, Cancel

-----------------------------------------------------------------------------
(* The theorems.                                                            *)

LEMMA InvInit == Init => Inv
<1> SUFFICES ASSUME Init PROVE Inv
  OBVIOUS
<1>1. Flags BY Zenon DEF Init, Flags
<1>2. Values
  <2>1. /\ src \in [Nodes -> {"none", "dir", "data"}]
        /\ dst \in [Nodes -> {"none", "dir", "old"}]
    BY DEF Init
  <2>2. dst \in [Nodes -> {"none", "dir", "old", "data", "partial"}]
    BY <2>1
  <2>3. refused \subseteq Tops
    BY DEF Init
  <2> QED
    BY <2>1, <2>2, <2>3 DEF Init, Values
<1>3. Kinds /\ Folders BY DEF Init, Kinds, Folders
<1>4. Moving BY DEF Init, Moving
<1> QED BY <1>1, <1>2, <1>3, <1>4, TypeParts DEF Inv

LEMMA InvStep == Inv /\ [Next]_vars => Inv'
BY TypeParts, TypePartsPrimed, FlagsStep, ValuesStep, KindsStep, MovingStep, FoldersStep
DEF Inv

\* The invariant that the rest is relative to.
LEMMA Invariant == Spec => []Inv
<1>1. Init => Inv BY InvInit
<1>2. Inv /\ [Next]_vars => Inv' BY InvStep
<1> QED BY <1>1, <1>2, PTL DEF Spec

\* Every variable of a transfer keeps its type: only files are opened, and leak.
THEOREM TypeCorrect == Spec => []TypeOK
<1>1. Inv => TypeOK BY DEF Inv
<1> QED BY <1>1, Invariant, PTL

\* UploadFile, DownloadFile and CopyOrMoveRemoteFile replace what is at the destination
\* only with consent or after a probe that the server did not answer.
THEOREM ConsentHolds == Spec => ReplacedWithConsent
<1>1. Init => Consented BY DEF Init, Consented
<1>2. Inv /\ Consented /\ [Next]_vars => Consented' BY ConsentedStep
<1>3. Inv /\ Consented /\ [Next]_vars => [\A n \in Nodes : Agreed(n)]_vars BY AgreedStep
<1> QED BY <1>1, <1>2, <1>3, Invariant, PTL DEF Spec, ReplacedWithConsent

\* The clients' Get and Put leave at most one handle open per marked entry.
THEOREM LeakEndsEntryHolds == Spec => []LeakEndsEntry
<1>1. Init => Leaks BY DEF Init, Leaks, LeakEndsEntry
<1>2. Inv /\ Leaks /\ [Next]_vars => Leaks' BY LeaksStep
<1>3. Leaks => LeakEndsEntry BY DEF Leaks
<1> QED BY <1>1, <1>2, <1>3, Invariant, PTL DEF Spec

\* How far a transfer with nothing to tell has come.
Course == Told /\ OnCourse /\ Arrived

LEMMA CourseInvariant == Spec => []Course
<1>1. Init => Course
  BY Zenon DEF Init, Course, Told, OnCourse, Arrived, Quiet
<1>2. Inv /\ Course /\ [Next]_vars => Course'
  BY ToldStep, OnCourseStep, ArrivedStep DEF Course
<1> QED BY <1>1, <1>2, Invariant, PTL DEF Spec

\* At the end of such a transfer, what the client shows has been walked over.
LEMMA AllSeen ==
  ASSUME Inv, OnCourse, Quiet, pc = "done", NEW n \in had, Shown(n)
  PROVE  n \in seen
<1>1. n \in Nodes
  BY DEF Inv, TypeOK
<1>2. CASE n \in Tops
  BY <1>2 DEF OnCourse
<1>3. CASE \E e \in Tops : n \in Below[e]
  BY <1>3 DEF OnCourse
<1> QED
  BY <1>1, <1>2, <1>3, TreeAssumption

\* A failed transfer over any of the clients shows in the status line, but for a file
\* in which, or in whose folder, a failure was muffled.
THEOREM FailureToldHolds == Spec => []FailureTold
<1>1. Inv /\ Course => FailureTold
  BY AllSeen DEF Course, Arrived, Quiet, FailureTold
<1> QED BY <1>1, Invariant, CourseInvariant, PTL

\* A transfer that no call failed in, and that nothing was left out of on purpose, is
\* complete at its end.
THEOREM CompleteHolds == Spec => []Complete
<1>1. Init => FoldersMade BY DEF Init, FoldersMade
<1>2. Inv /\ Course /\ FoldersMade /\ [Next]_vars => FoldersMade'
  BY FoldersMadeStep DEF Course
<1>3. Inv /\ Course /\ FoldersMade => Complete
  <2> SUFFICES ASSUME Inv, Course, FoldersMade, pc = "done", ~trouble, ~passed,
                      NEW n \in had, Shown(n)
               PROVE  dst[n] = (IF n \in Dirs THEN "dir" ELSE "data") \/ KeepsTail(n)
    BY DEF Complete
  <2>1. Quiet
    BY DEF Course, Told, Quiet
  <2>5. muffled = {}
    BY DEF Course, Told
  <2>2. n \in seen /\ n \in Nodes
    BY <2>1, AllSeen DEF Course, Inv, TypeOK
  <2>3. CASE n \in Dirs
    BY <2>2, <2>3 DEF FoldersMade
  <2>4. CASE n \notin Dirs
    BY <2>1, <2>2, <2>4, <2>5 DEF Course, Arrived, Files
  <2> QED
    BY <2>3, <2>4
<1> QED BY <1>1, <1>2, <1>3, Invariant, CourseInvariant, PTL DEF Spec

\* No transfer loses a file, nor writes again what has arrived: it implements
\* Relocation, whatever fails.
THEOREM RelocatesHolds == Spec => Relocates
<1>1. Init => Reached BY DEF Init, Reached, Files
<1>2. Inv /\ Reached /\ [Next]_vars => Reached' BY ReachedStep
<1>3. Init => Abstract!Init
  BY TreeAssumption DEF Init, Abstract!Init, Held, Files
<1>4. Inv /\ Reached /\ [Next]_vars => [Abstract!Next]_Held BY RelocationStep
<1> QED BY <1>1, <1>2, <1>3, <1>4, Invariant, PTL DEF Spec, Relocates, Abstract!Spec
=============================================================================
