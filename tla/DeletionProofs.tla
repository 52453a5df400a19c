--------------------------- MODULE DeletionProofs ---------------------------
(***************************************************************************)
(* Theorems about deleting marked entries, for every tree of files, every   *)
(* kind of server and every sequence of failing calls.                      *)
(***************************************************************************)
EXTENDS DeletionInv, TLAPS

-----------------------------------------------------------------------------
(* The tree.                                                                *)

\* The folder being walked is not below what is in it.
LEMMA NotAbove == ASSUME NEW n \in Nodes, NEW d \in Dirs, Parent[n] = d, NEW m \in Under(n)
                  PROVE d \notin Under(m)
BY TreeAssumption DEF Under

\* A marked entry is below no other.
LEMMA MarkedApart == ASSUME NEW e \in Tops, NEW t \in Tops, e \in Under(t) PROVE e = t
<1>1. e \in Nodes /\ t \in Nodes /\ Parent[e] = top BY DEF Tops
<1>2. e \notin Below[t] BY <1>1, TreeAssumption
<1> QED BY <1>2 DEF Under

\* A folder is in a marked entry, with all that is below it.
LEMMA InEntry == ASSUME NEW d \in Dirs
                 PROVE Under(d) \subseteq UNION {Under(e) : e \in {t \in Tops : d \in Under(t)}}
BY TreeAssumption DEF Under, Tops

-----------------------------------------------------------------------------
(* The step of the invariant, conjunct by conjunct.                         *)

Flags == hiding \in BOOLEAN /\ stop \in BOOLEAN /\ trouble \in BOOLEAN

Values ==
  /\ server \in Servers
  /\ left \subseteq Nodes
  /\ pc \in {"ping", "next", "folder", "rmdir", "remove", "done", "lost"}
  /\ dir \in Dirs \cup {top} /\ cur \in Nodes \cup {top}
  /\ seen \subseteq Nodes /\ late \subseteq Nodes
  /\ message \in {"none", "old", "new"}

LEMMA TypeParts == TypeOK <=> Flags /\ Values
BY DEF TypeOK, Flags, Values

LEMMA TypePartsPrimed == TypeOK' <=> Flags' /\ Values'
BY DEF TypeOK, Flags, Values

LEMMA FlagsStep == Flags /\ [Next]_vars => Flags'
<1> SUFFICES ASSUME Flags, [Next]_vars PROVE Flags'
  OBVIOUS
<1> USE DEF Flags, vars
<1>1. CASE \E answer \in BOOLEAN : Ping(answer) BY <1>1, Zenon DEF Ping
<1>2. CASE Pick BY <1>2, Zenon DEF Pick
<1>3. CASE Pass BY <1>3, Zenon DEF Pass, Done
<1>4. CASE Finish BY <1>4, Zenon DEF Finish
<1>5. CASE \E listed \in BOOLEAN : Enter(listed) BY <1>5, Zenon DEF Enter
<1>6. CASE Leave BY <1>6, Zenon DEF Leave
<1>7. CASE LeaveStopped BY <1>7, Zenon DEF LeaveStopped, Done
<1>8. CASE GiveUpStopped BY <1>8, Zenon DEF GiveUpStopped, GiveUp
<1>9. CASE \E gone \in BOOLEAN : Rmdir(gone) BY <1>9, Zenon DEF Rmdir, Done, GiveUp
<1>10. CASE Delete BY <1>10, Zenon DEF Delete, Done
<1>11. CASE DeleteFails BY <1>11, Zenon DEF DeleteFails, GiveUp
<1>12. CASE Cancel BY <1>12, Zenon DEF Cancel
<1>13. CASE UNCHANGED vars BY <1>13, Zenon DEF vars
<1> QED
  BY <1>1, <1>2, <1>3, <1>4, <1>5, <1>6, <1>7, <1>8, <1>9, <1>10, <1>11, <1>12, <1>13,
     Zenon DEF Next, Thread

LEMMA ValuesStep == Values /\ Moving /\ [Next]_vars => Values'
<1> SUFFICES ASSUME Values, Moving, [Next]_vars PROVE Values'
  OBVIOUS
<1> USE TreeAssumption DEF Values, Moving, Tell, vars
<1>1. CASE \E answer \in BOOLEAN : Ping(answer) BY <1>1 DEF Ping
<1>2. CASE Pick BY <1>2 DEF Pick, Todo
<1>3. CASE Pass BY <1>3 DEF Pass, Done, Under, Todo
<1>4. CASE Finish BY <1>4 DEF Finish
<1>5. CASE \E listed \in BOOLEAN : Enter(listed) BY <1>5 DEF Enter
<1>6. CASE Leave BY <1>6 DEF Leave
<1>7. CASE LeaveStopped BY <1>7 DEF LeaveStopped, Done, Under
<1>8. CASE GiveUpStopped BY <1>8 DEF GiveUpStopped, GiveUp, Under, Tops
<1>9. CASE \E gone \in BOOLEAN : Rmdir(gone)
  <2>1. UNCHANGED <<server, cur, late>> /\ pc' = "next" /\ message' \in {message, "new"}
    BY <1>9 DEF Rmdir, Done, GiveUp
  <2>2. left' \subseteq Nodes
    BY <1>9 DEF Rmdir
  <2>3. dir' \in Dirs \cup {top} /\ seen' \subseteq Nodes
    BY <1>9 DEF Rmdir, Done, GiveUp, Under, Tops
  <2> QED
    BY <2>1, <2>2, <2>3
<1>10. CASE Delete BY <1>10 DEF Delete, Done
<1>11. CASE DeleteFails BY <1>11 DEF DeleteFails, GiveUp, Under, Tops
<1>12. CASE Cancel BY <1>12 DEF Cancel
<1>13. CASE UNCHANGED vars BY <1>13 DEF vars
<1> QED
  BY <1>1, <1>2, <1>3, <1>4, <1>5, <1>6, <1>7, <1>8, <1>9, <1>10, <1>11, <1>12, <1>13,
     Zenon DEF Next, Thread

LEMMA MovingStep == Inv /\ [Next]_vars => Moving'
<1> SUFFICES ASSUME Inv, [Next]_vars PROVE Moving'
  OBVIOUS
<1> USE TreeAssumption DEF Inv, TypeOK, Moving, Told, Tell, vars
<1>1. CASE \E answer \in BOOLEAN : Ping(answer) BY <1>1 DEF Ping
<1>2. CASE Pick BY <1>2 DEF Pick, Todo
<1>3. CASE Pass BY <1>3 DEF Pass, Done, Under, Todo
<1>4. CASE Finish BY <1>4 DEF Finish
<1>5. CASE \E listed \in BOOLEAN : Enter(listed)
  <2>1. cur \in Nodes \ seen /\ Parent[cur] = dir /\ seen' = seen /\ dir' = cur
    BY <1>5 DEF Enter
  <2>2. \A d \in seen : cur \notin Under(d)
    BY <2>1 DEF Under
  <2>3. pc' \in {"next", "rmdir"} /\ dir' # top /\ server' # "dav"
    BY <1>5 DEF Enter
  <2>4. hiding' = hiding /\ server' = server
    BY <1>5 DEF Enter
  <2> QED
    BY <2>1, <2>2, <2>3, <2>4
<1>6. CASE Leave BY <1>6 DEF Leave
<1>7. CASE LeaveStopped BY <1>7 DEF LeaveStopped, Done, Under
<1>8. CASE GiveUpStopped BY <1>8 DEF GiveUpStopped, GiveUp, Under, Tops
<1>9. CASE \E gone \in BOOLEAN : Rmdir(gone)
  BY <1>9 DEF Rmdir, Done, GiveUp, Under, Tops
<1>10. CASE Delete
  <2>1. cur \in Nodes /\ Parent[cur] = dir /\ seen' = seen \cup {cur} /\ dir' = dir
    BY <1>10 DEF Delete, Done
  <2>2. dir \notin Under(cur)
    BY <2>1 DEF Under
  <2> QED
    BY <1>10, <2>1, <2>2 DEF Delete, Done
<1>11. CASE DeleteFails BY <1>11 DEF DeleteFails, GiveUp, Under, Tops
<1>12. CASE Cancel BY <1>12 DEF Cancel
<1>13. CASE UNCHANGED vars BY <1>13 DEF vars
<1> QED
  BY <1>1, <1>2, <1>3, <1>4, <1>5, <1>6, <1>7, <1>8, <1>9, <1>10, <1>11, <1>12, <1>13,
     Zenon DEF Next, Thread

LEMMA WholeStep == Inv /\ [Next]_vars => Whole(left)'
<1> SUFFICES ASSUME Inv, [Next]_vars PROVE Whole(left)'
  OBVIOUS
<1> USE TreeAssumption DEF Inv, TypeOK, Moving, Whole, vars
<1>1. CASE \E answer \in BOOLEAN : Ping(answer) BY <1>1 DEF Ping
<1>2. CASE Pick BY <1>2 DEF Pick
<1>3. CASE Pass BY <1>3 DEF Pass, Done
<1>4. CASE Finish BY <1>4 DEF Finish
<1>5. CASE \E listed \in BOOLEAN : Enter(listed) BY <1>5 DEF Enter
<1>6. CASE Leave BY <1>6 DEF Leave
<1>7. CASE LeaveStopped BY <1>7 DEF LeaveStopped, Done
<1>8. CASE GiveUpStopped BY <1>8 DEF GiveUpStopped, GiveUp
<1>9. CASE \E gone \in BOOLEAN : Rmdir(gone)
  <2>1. left' = left \/ (dir \in left /\ Below[dir] \cap left = {} /\ left' = left \ {dir})
    BY <1>9 DEF Rmdir
  <2> QED
    BY <2>1
<1>10. CASE Delete BY <1>10 DEF Delete, Done, Under
<1>11. CASE DeleteFails BY <1>11 DEF DeleteFails, GiveUp
<1>12. CASE Cancel BY <1>12 DEF Cancel
<1>13. CASE UNCHANGED vars BY <1>13 DEF vars
<1> QED
  BY <1>1, <1>2, <1>3, <1>4, <1>5, <1>6, <1>7, <1>8, <1>9, <1>10, <1>11, <1>12, <1>13,
     Zenon DEF Next, Thread

LEMMA HandledStep == Inv /\ Handled /\ [Next]_vars => Handled'
<1> SUFFICES ASSUME Inv, Handled, [Next]_vars PROVE Handled'
  OBVIOUS
<1> USE TreeAssumption DEF Inv, TypeOK, Moving, Handled, Told, Tell, vars
<1>1. CASE \E answer \in BOOLEAN : Ping(answer)
  <2>1. UNCHANGED <<seen, left, server, stop>> /\ pc = "ping"
    BY <1>1 DEF Ping
  <2>2. pc' \in {"next", "lost"}
    BY <1>1 DEF Ping
  <2>3. ~Told' => ~Told \/ pc' = "lost"
    BY <1>1 DEF Ping
  <2> QED
    BY <2>1, <2>2, <2>3
<1>2. CASE Pick BY <1>2 DEF Pick, Todo
<1>3. CASE Pass BY <1>3 DEF Pass, Done, Todo
<1>4. CASE Finish BY <1>4 DEF Finish, Todo, Tops
<1>5. CASE \E listed \in BOOLEAN : Enter(listed) BY <1>5 DEF Enter
<1>6. CASE Leave BY <1>6 DEF Leave
<1>7. CASE LeaveStopped BY <1>7 DEF LeaveStopped, Done
<1>8. CASE GiveUpStopped BY <1>8 DEF GiveUpStopped, GiveUp
<1>9. CASE \E gone \in BOOLEAN : Rmdir(gone) BY <1>9 DEF Rmdir, Done, GiveUp, Under
<1>10. CASE Delete BY <1>10 DEF Delete, Done, Under
<1>11. CASE DeleteFails
  <2>1. CASE cur \notin Dirs
    BY <1>11, <2>1 DEF DeleteFails
  <2>2. CASE cur \in Dirs
    <3>1. server = "dav" /\ dir = top /\ cur \in Tops /\ dir \notin Nodes
      BY <1>11, <2>2 DEF DeleteFails, Tops
    <3>2. \A t \in Tops : {cur, dir} \cap Under(t) # {} => t = cur
      BY <3>1, MarkedApart DEF Under, Tops
    <3>3. \A n \in seen' \ seen : n \in Under(cur)
      BY <1>11, <3>2 DEF DeleteFails, GiveUp
    <3>4. left' \subseteq left /\ pc' = "next" /\ server' = server /\ stop' = stop
      BY <1>11 DEF DeleteFails, GiveUp
    <3>5. ~Told' => ~Told
      BY <1>11 DEF DeleteFails
    <3> QED
      BY <2>2, <3>1, <3>3, <3>4, <3>5
  <2> QED
    BY <2>1, <2>2
<1>12. CASE Cancel BY <1>12 DEF Cancel
<1>13. CASE UNCHANGED vars BY <1>13 DEF vars
<1> QED
  BY <1>1, <1>2, <1>3, <1>4, <1>5, <1>6, <1>7, <1>8, <1>9, <1>10, <1>11, <1>12, <1>13,
     Zenon DEF Next, Thread

LEMMA ClearStep == Inv /\ Clear /\ [Next]_vars => Clear'
<1> SUFFICES ASSUME Inv, Clear, [Next]_vars PROVE Clear'
  OBVIOUS
<1> USE TreeAssumption DEF Inv, TypeOK, Moving, Clear, Hidden, Told, Tell, vars
<1>1. CASE \E answer \in BOOLEAN : Ping(answer)
  <2>1. UNCHANGED <<seen, left, dir, hiding, stop>> /\ pc = "ping" /\ pc' # "rmdir"
    BY <1>1 DEF Ping
  <2>2. ~Told' /\ seen = {}
    BY <1>1 DEF Ping
  <2> QED
    BY <2>1, <2>2
<1>2. CASE Pick BY <1>2 DEF Pick, Todo
<1>3. CASE Pass BY <1>3 DEF Pass, Done, Todo
<1>4. CASE Finish BY <1>4 DEF Finish, Todo
<1>5. CASE \E listed \in BOOLEAN : Enter(listed)
  <2> SUFFICES ASSUME ~trouble', ~stop'
               PROVE /\ Told' => Hidden(seen)'
                     /\ seen' \cap left' # {} => Hidden(seen)'
                     /\ pc' = "rmdir" => FALSE
    BY Zenon DEF Clear
  <2>1. PICK listed \in BOOLEAN : Enter(listed)
    BY <1>5
  <2>2. listed /\ ~trouble
    BY <2>1, Zenon DEF Enter
  <2>3. pc' = "next" /\ UNCHANGED <<seen, left, hiding, stop>>
    BY <2>1, <2>2 DEF Enter
  <2>4. Told' => Told
    BY <2>1, <2>2, Zenon DEF Enter
  <2> QED
    BY <2>2, <2>3, <2>4
<1>6. CASE Leave BY <1>6 DEF Leave, Todo, Whole
<1>7. CASE LeaveStopped BY <1>7 DEF LeaveStopped, Done
<1>8. CASE GiveUpStopped BY <1>8 DEF GiveUpStopped, GiveUp
<1>9. CASE \E gone \in BOOLEAN : Rmdir(gone)
  <2>1. CASE Rmdir(TRUE)
    <3>1. dir \in Nodes /\ dir \notin seen /\ Below[dir] \cap left = {}
      BY <2>1 DEF Rmdir, Under
    <3>2. /\ left' = left \ {dir} /\ seen' = seen \cup Under(dir) /\ pc' = "next"
          /\ UNCHANGED <<hiding, stop>>
      BY <2>1 DEF Rmdir, Done
    <3>3. Told' = Told /\ trouble' = trouble
      BY <2>1, Zenon DEF Rmdir
    <3> QED
      BY <3>1, <3>2, <3>3 DEF Under
  <2>2. CASE Rmdir(FALSE)
    <3>1. /\ UNCHANGED <<left, hiding, stop>> /\ pc' = "next" /\ pc = "rmdir"
          /\ Under(dir) \subseteq seen' /\ seen \subseteq seen'
      BY <2>2, InEntry DEF Rmdir, GiveUp
    <3>2. ~trouble' => ~trouble /\ Below[dir] \cap left # {}
      BY <2>2, Zenon DEF Rmdir
    <3> QED
      BY <3>1, <3>2 DEF Under
  <2> QED
    BY <1>9, <2>1, <2>2
<1>10. CASE Delete BY <1>10 DEF Delete, Done, Under, Files
<1>11. CASE DeleteFails BY <1>11 DEF DeleteFails, GiveUp
<1>12. CASE Cancel BY <1>12 DEF Cancel
<1>13. CASE UNCHANGED vars BY <1>13 DEF vars
<1> QED
  BY <1>1, <1>2, <1>3, <1>4, <1>5, <1>6, <1>7, <1>8, <1>9, <1>10, <1>11, <1>12, <1>13,
     Zenon DEF Next, Thread

LEMMA InHandStep == Inv /\ InHand /\ CancelHolds /\ [Next]_vars => InHand' /\ CancelHolds'
<1> SUFFICES ASSUME Inv, InHand, CancelHolds, [Next]_vars PROVE InHand' /\ CancelHolds'
  OBVIOUS
<1> USE TreeAssumption DEF Inv, TypeOK, Moving, InHand, CancelHolds, Begun, Remote,
   vars
<1>1. CASE \E answer \in BOOLEAN : Ping(answer) BY <1>1 DEF Ping
<1>2. CASE Pick BY <1>2 DEF Pick, Todo, Heeds, Tops
<1>3. CASE Pass BY <1>3 DEF Pass, Done, Todo, Under
<1>4. CASE Finish BY <1>4 DEF Finish
<1>5. CASE \E listed \in BOOLEAN : Enter(listed) BY <1>5 DEF Enter
<1>6. CASE Leave BY <1>6 DEF Leave
<1>7. CASE LeaveStopped BY <1>7 DEF LeaveStopped, Done, Under
<1>8. CASE GiveUpStopped BY <1>8 DEF GiveUpStopped, GiveUp
<1>9. CASE \E gone \in BOOLEAN : Rmdir(gone)
  <2>1. UNCHANGED <<server, cur, stop, late>> /\ pc' = "next" /\ pc = "rmdir"
    BY <1>9 DEF Rmdir, Done, GiveUp
  <2>2. dir' = top \/ (dir' = Parent[dir] /\ seen' = seen \cup Under(dir))
    BY <1>9 DEF Rmdir, Done, GiveUp
  <2>3. dir \in Under(dir)
    BY <2>1 DEF Under
  <2>4. dir' = top \/ Begun'
    BY <2>2, <2>3
  <2> QED
    BY <2>1, <2>4
<1>10. CASE Delete BY <1>10 DEF Delete, Done
<1>11. CASE DeleteFails BY <1>11 DEF DeleteFails, GiveUp
<1>12. CASE Cancel BY <1>12 DEF Cancel
<1>13. CASE UNCHANGED vars BY <1>13 DEF vars
<1> QED
  BY <1>1, <1>2, <1>3, <1>4, <1>5, <1>6, <1>7, <1>8, <1>9, <1>10, <1>11, <1>12, <1>13,
     Zenon DEF Next, Thread

-----------------------------------------------------------------------------
(* The theorems.                                                            *)

LEMMA InvInit == Init => Inv
<1> SUFFICES ASSUME Init PROVE Inv
  OBVIOUS
<1>1. Flags BY Zenon DEF Init, Flags
<1>2. Values BY DEF Init, Values
<1>3. Moving BY DEF Init, Moving, Told
<1>4. Whole(left) BY DEF Init
<1> QED BY <1>1, <1>2, <1>3, <1>4, TypeParts DEF Inv

\* The invariant that the rest is relative to.
LEMMA Invariant == Spec => []Inv
<1>1. Init => Inv BY InvInit
<1>2. Inv /\ [Next]_vars => Inv'
  BY TypeParts, TypePartsPrimed, FlagsStep, ValuesStep, MovingStep, WholeStep DEF Inv
<1> QED BY <1>1, <1>2, PTL DEF Spec

\* Every variable of a deletion keeps its type: the recursion of RmRecursive and Rmdir
\* is at a folder.
THEOREM TypeCorrect == Spec => []TypeOK
<1>1. Inv => TypeOK BY DEF Inv
<1> QED BY <1>1, Invariant, PTL

LEMMA GoneOrTold == Inv /\ Handled => LeftIsTold
<1> SUFFICES ASSUME Inv, Handled, pc = "done", ~stop, ~Told, NEW n \in left
             PROVE server = "dav" /\ \E d \in Tops \cap Dirs : n \in Under(d)
  BY DEF LeftIsTold
<1>1. n \in Nodes /\ Tops \subseteq seen
  BY DEF Inv, TypeOK, Handled
<1>2. CASE n \in Tops BY <1>1, <1>2 DEF Handled
<1>3. CASE n \notin Tops
  <2>1. PICK e \in Tops : n \in Below[e]
    BY <1>1, <1>3, TreeAssumption
  <2>2. e \in Nodes /\ e \in left
    BY <1>1, <2>1 DEF Tops, Inv, Whole
  <2>3. PICK d \in Tops \cap Dirs : server = "dav" /\ e \in Under(d)
    BY <1>1, <2>2 DEF Handled
  <2>4. n \in Under(d)
    BY <1>1, <2>1, <2>2, <2>3, TreeAssumption DEF Under, Tops
  <2> QED
    BY <2>3, <2>4
<1> QED BY <1>2, <1>3

\* What the threads of a deletion leave behind is told of, but for folders on WebDAV.
THEOREM LeftIsToldHolds == Spec => []LeftIsTold
<1>1. Init => Handled BY DEF Init, Handled
<1>2. Inv /\ Handled /\ [Next]_vars => Handled' BY HandledStep
<1>3. Inv /\ Handled => LeftIsTold BY GoneOrTold
<1> QED BY <1>1, <1>2, <1>3, Invariant, PTL DEF Spec

\* A message has a reason: a call failed, Cancel, or a hidden file in a folder on NFS.
THEOREM NoFalseAlarmHolds == Spec => []NoFalseAlarm
<1>1. Init => Clear BY DEF Init, Clear, Told
<1>2. Inv /\ Clear /\ [Next]_vars => Clear' BY ClearStep
<1>3. Clear => NoFalseAlarm BY DEF Clear, Hidden, NoFalseAlarm
<1> QED BY <1>1, <1>2, <1>3, Invariant, PTL DEF Spec

\* After Cancel one removal goes through, and those of marked entries of a server.
THEOREM CancelHoldsAlways == Spec => []CancelHolds
<1>1. Init => InHand /\ CancelHolds BY DEF Init, InHand, CancelHolds
<1>2. Inv /\ InHand /\ CancelHolds /\ [Next]_vars => InHand' /\ CancelHolds'
  BY InHandStep
<1> QED BY <1>1, <1>2, Invariant, PTL DEF Spec
=============================================================================
