--------------------------- MODULE ActivityProofs ---------------------------
(***************************************************************************)
(* Theorems about the activity protocol, for any set of threads, any number *)
(* of files, any actions the user may be offered and every interleaving.    *)
(*                                                                          *)
(* They follow from the inductive invariant Inv of ActivityInv.  Unblocked  *)
(* (why input is not lost) is kept by every step; Handover (who writes the  *)
(* shared flags) and Consent (what the answers mean) by every step that is  *)
(* not one of the two races of Watched.  Both are proved action by action.  *)
(*                                                                          *)
(* The last part is about two of the threads, for any archives, any tree of *)
(* files and any failures: the ones that extract and make archives          *)
(* (ArchiveInvariant in ArchiveInv).                                        *)
(***************************************************************************)
EXTENDS ActivityInv, ArchiveInv, TLAPS

-----------------------------------------------------------------------------
(* Type correctness, in parts: the provers treat Boolean variables (Zenon)  *)
(* and numbers (SMT) apart.                                                 *)

FlagTypes ==
  /\ activity_inprogess \in BOOLEAN /\ stop_activity \in BOOLEAN /\ paused \in BOOLEAN
  /\ dont_prompt_overwrite \in BOOLEAN
  /\ clash \in [Threads -> BOOLEAN]

ValueTypes ==
  /\ frame \in {"input", "progress", "modal", "menu", "confirm", "yes", "no",
                "overwrite", "execute", "handled", "launched", "ime", "exit"}
  /\ popup \in {"none", "actions", "confirm", "overwrite", "progress"}
  /\ ime \in Archives \cup {"NONE"}
  /\ selected_action \in Actions /\ action_to_take \in Actions
  /\ confirm_state \in {"none", "wait", "yes", "no"}
  /\ confirm_message \in Threads \cup {"none", "delete"}
  /\ confirm_transfer_state \in {"idle", "asking", "go", "cancelled"}
  /\ overwrite_type \in {"skip", "ask", "replace"}
  /\ agreed \subseteq Threads \cup {"delete"}

ThreadTypes ==
  /\ pc \in [Threads -> {"idle", "check", "file", "ask", "ask2", "ask3", "poll",
                        "resume", "resume2", "decide", "put", "work", "flag",
                        "modal", "refresh"}]
  /\ act \in [Threads -> Kinds \cup {"NONE"}]
  /\ left \in [Threads -> 0..MaxFiles]
  /\ rule \in [Threads -> {"skip", "ask", "replace"}]

GhostTypes == races \subseteq {"menu", "saved"} /\ late \in BOOLEAN

\* The parts make up the type invariant, before and after a step.
LEMMA TypedParts ==
  Typed <=> FlagTypes /\ ValueTypes /\ ThreadTypes /\ GhostTypes /\ FileInHand
BY DEF Typed, TypeOK, FlagTypes, ValueTypes, ThreadTypes, GhostTypes

\* The same for the state after a step.
LEMMA TypedPrimed ==
  Typed' <=> FlagTypes' /\ ValueTypes' /\ ThreadTypes' /\ GhostTypes' /\ FileInHand'
BY DEF Typed, TypeOK, FlagTypes, ValueTypes, ThreadTypes, GhostTypes

\* The ghosts are written by Watched alone.
LEMMA GhostsTyped == GhostTypes /\ Watched => GhostTypes'
<1> SUFFICES ASSUME GhostTypes, Watched PROVE GhostTypes'
  OBVIOUS
<1>1. races' \subseteq {"menu", "saved"}
  BY Zenon DEF GhostTypes, Watched
<1>2. late' \in BOOLEAN
  BY Zenon DEF GhostTypes, Watched
<1> QED BY <1>1, <1>2 DEF GhostTypes

\* GUI steps keep the flags Boolean ...
LEMMA FlagGui == FlagTypes /\ GuiStep => FlagTypes'
<1> SUFFICES ASSUME FlagTypes, GuiStep PROVE FlagTypes'
  OBVIOUS
<1> USE DEF FlagTypes, confirmVars, optionVars, threadVars
<1>1. CASE Input
  BY <1>1, Zenon DEF Input
<1>2. CASE TestProgress
  BY <1>2, Zenon DEF TestProgress, Closed
<1>3. CASE ShowProgress
  BY <1>3, Zenon DEF ShowProgress
<1>4. CASE Menu
  <2>1. CASE OpenMenu
    BY <1>4, <2>1, Zenon DEF Menu, OpenMenu
  <2>2. CASE PickGuarded
    BY <1>4, <2>2, Zenon DEF Menu, PickGuarded, LeaveMenu
  <2>3. CASE PickDirect
    BY <1>4, <2>3, Zenon DEF Menu, PickDirect, LeaveMenu
  <2>4. CASE PickArchive
    BY <1>4, <2>4, Zenon DEF Menu, PickArchive, LeaveMenu
  <2>5. CASE PickDelete
    BY <1>4, <2>5, Zenon DEF Menu, PickDelete
  <2>6. CASE UNCHANGED <<popup, ime, paused, selected_action, confirmVars,
                    confirm_transfer_state, agreed>>
    BY <1>4, <2>6, Zenon DEF Menu
  <2> QED BY <1>4, <2>1, <2>2, <2>3, <2>4, <2>5, <2>6 DEF Menu
<1>5. CASE Confirm
  BY <1>5, Zenon DEF Confirm, Closed
<1>6. CASE AnswerConfirm
  BY <1>6, Zenon DEF AnswerConfirm
<1>7. CASE Overwrite
  BY <1>7, Zenon DEF Overwrite, AnswerOverwrite, Closed
<1>8. CASE ExecuteActions
  <2>1. CASE LaunchCleared
    BY <1>8, <2>1, Zenon DEF ExecuteActions, LaunchCleared, Start, NextFrame
  <2>2. CASE LaunchUncleared
    BY <1>8, <2>2, Zenon DEF ExecuteActions, LaunchUncleared, Start, NextFrame
  <2>3. CASE PasteNothing
    BY <1>8, <2>3, Zenon DEF ExecuteActions, PasteNothing, NextFrame
  <2>4. CASE ExecuteNothing
    BY <1>8, <2>4, Zenon DEF ExecuteActions, ExecuteNothing, NextFrame
  <2>5. CASE ExecuteInFrame
    BY <1>8, <2>5, Zenon DEF ExecuteActions, ExecuteInFrame
  <2> QED BY <1>8, <2>1, <2>2, <2>3, <2>4, <2>5 DEF ExecuteActions
<1>9. CASE ClearAction
  BY <1>9, Zenon DEF ClearAction, NextFrame
<1>10. CASE ImeClosed
  BY <1>10, Zenon DEF ImeClosed
<1> QED BY <1>1, <1>2, <1>3, <1>4, <1>5, <1>6, <1>7, <1>8, <1>9, <1>10 DEF GuiStep

\* ... and every other variable in its set.
LEMMA TypedGui == Typed /\ GuiStep => ValueTypes' /\ ThreadTypes' /\ FileInHand'
<1> SUFFICES ASSUME Typed, GuiStep PROVE ValueTypes' /\ ThreadTypes' /\ FileInHand'
  OBVIOUS
<1> USE ActivityAssumption, TypedParts DEF ActivityAssumption, ValueTypes, ThreadTypes,
     FileInHand, Actions, Kinds, Archives, Guarded, Transfers, Pastes, Installs, Deletes,
     confirmVars, optionVars, threadVars
<1>1. CASE Input
  BY <1>1 DEF Input
<1>2. CASE TestProgress
  BY <1>2 DEF TestProgress, Closed
<1>3. CASE ShowProgress
  BY <1>3 DEF ShowProgress
<1>4. CASE Menu
  <2>1. CASE OpenMenu
    BY <1>4, <2>1 DEF Menu, OpenMenu
  <2>2. CASE PickGuarded
    BY <1>4, <2>2 DEF Menu, PickGuarded, LeaveMenu
  <2>3. CASE PickDirect
    BY <1>4, <2>3 DEF Menu, PickDirect, LeaveMenu
  <2>4. CASE PickArchive
    BY <1>4, <2>4 DEF Menu, PickArchive, LeaveMenu
  <2>5. CASE PickDelete
    BY <1>4, <2>5 DEF Menu, PickDelete
  <2>6. CASE UNCHANGED <<popup, ime, paused, selected_action, confirmVars,
                    confirm_transfer_state, agreed>>
    BY <1>4, <2>6 DEF Menu
  <2> QED BY <1>4, <2>1, <2>2, <2>3, <2>4, <2>5, <2>6 DEF Menu
<1>5. CASE Confirm
  BY <1>5 DEF Confirm, Closed
<1>6. CASE AnswerConfirm
  BY <1>6 DEF AnswerConfirm
<1>7. CASE Overwrite
  <2>1. overwrite_type' \in {"skip", "ask", "replace"}
    BY <1>7 DEF Overwrite, AnswerOverwrite
  <2>2. /\ popup' \in {"none", "actions", "confirm", "overwrite", "progress"}
        /\ confirm_transfer_state' \in {"idle", "asking", "go", "cancelled"}
        /\ selected_action' \in Actions
    BY <1>7 DEF Overwrite, AnswerOverwrite, Closed
  <2> QED BY <1>7, <2>1, <2>2 DEF Overwrite
<1>8. CASE ExecuteActions
  <2>1. CASE LaunchCleared
    BY <1>8, <2>1 DEF ExecuteActions, LaunchCleared, Start, NextFrame
  <2>2. CASE LaunchUncleared
    BY <1>8, <2>2 DEF ExecuteActions, LaunchUncleared, Start, NextFrame
  <2>3. CASE PasteNothing
    BY <1>8, <2>3 DEF ExecuteActions, PasteNothing, NextFrame
  <2>4. CASE ExecuteNothing
    BY <1>8, <2>4 DEF ExecuteActions, ExecuteNothing, NextFrame
  <2>5. CASE ExecuteInFrame
    BY <1>8, <2>5 DEF ExecuteActions, ExecuteInFrame
  <2> QED BY <1>8, <2>1, <2>2, <2>3, <2>4, <2>5 DEF ExecuteActions
<1>9. CASE ClearAction
  BY <1>9 DEF ClearAction, NextFrame
<1>10. CASE ImeClosed
  BY <1>10 DEF ImeClosed
<1> QED BY <1>1, <1>2, <1>3, <1>4, <1>5, <1>6, <1>7, <1>8, <1>9, <1>10 DEF GuiStep

\* The same for the steps of a thread.
LEMMA FlagThread ==
  ASSUME FlagTypes, NEW w \in Threads, ThreadStep(w)
  PROVE  FlagTypes'
<1> USE DEF FlagTypes, guiVars, confirmVars, optionVars, Goto
<1>1. CASE Check(w)
  BY <1>1, Zenon DEF ThreadStep, Check
<1>2. CASE NoMoreFiles(w)
  BY <1>2, Zenon DEF ThreadStep, NoMoreFiles, Finish
<1>3. CASE NextWork(w)
  BY <1>3, Zenon DEF ThreadStep, NextWork
<1>4. CASE Probe(w)
  BY <1>4, Zenon DEF ThreadStep, Probe
<1>5. CASE ProbeFailed(w)
  BY <1>5, Zenon DEF ThreadStep, ProbeFailed
<1>6. CASE Ask(w)
  BY <1>6, Zenon DEF ThreadStep, Ask
<1>7. CASE AskSave(w)
  BY <1>7, Zenon DEF ThreadStep, AskSave
<1>8. CASE AskHide(w)
  BY <1>8, Zenon DEF ThreadStep, AskHide
<1>9. CASE Poll(w)
  BY <1>9, Zenon DEF ThreadStep, Poll
<1>10. CASE Resume(w)
  BY <1>10, Zenon DEF ThreadStep, Resume
<1>11. CASE ResumeAction(w)
  BY <1>11, Zenon DEF ThreadStep, ResumeAction
<1>12. CASE Decide(w)
  BY <1>12, Zenon DEF ThreadStep, Decide, Return
<1>13. CASE Transfer(w)
  BY <1>13, Zenon DEF ThreadStep, Transfer, Return
<1>14. CASE EndFlag(w)
  BY <1>14, Zenon DEF ThreadStep, EndFlag
<1>15. CASE EndModal(w)
  BY <1>15, Zenon DEF ThreadStep, EndModal, Gone, Return
<1>16. CASE EndRefresh(w)
  BY <1>16, Zenon DEF ThreadStep, EndRefresh, Gone, Return
<1> QED BY <1>1, <1>2, <1>3, <1>4, <1>5, <1>6, <1>7, <1>8, <1>9, <1>10, <1>11, <1>12,
     <1>13, <1>14, <1>15, <1>16 DEF ThreadStep

\* A thread counts down only while it has a file in hand (FileInHand).
LEMMA TypedThread ==
  ASSUME Typed, NEW w \in Threads, ThreadStep(w)
  PROVE ValueTypes' /\ ThreadTypes' /\ FileInHand'
<1> USE ActivityAssumption, TypedParts DEF ActivityAssumption, ValueTypes, ThreadTypes,
     FileInHand, Actions, Kinds, Archives, Guarded, Transfers, Pastes, Installs, Deletes,
     guiVars, confirmVars, optionVars, Goto
<1>1. CASE Check(w)
  BY <1>1 DEF ThreadStep, Check
<1>2. CASE NoMoreFiles(w)
  BY <1>2 DEF ThreadStep, NoMoreFiles, Finish
<1>3. CASE NextWork(w)
  BY <1>3 DEF ThreadStep, NextWork
<1>4. CASE Probe(w)
  BY <1>4 DEF ThreadStep, Probe
<1>5. CASE ProbeFailed(w)
  BY <1>5 DEF ThreadStep, ProbeFailed
<1>6. CASE Ask(w)
  BY <1>6 DEF ThreadStep, Ask
<1>7. CASE AskSave(w)
  BY <1>7 DEF ThreadStep, AskSave
<1>8. CASE AskHide(w)
  BY <1>8 DEF ThreadStep, AskHide
<1>9. CASE Poll(w)
  BY <1>9 DEF ThreadStep, Poll
<1>10. CASE Resume(w)
  BY <1>10 DEF ThreadStep, Resume
<1>11. CASE ResumeAction(w)
  BY <1>11 DEF ThreadStep, ResumeAction
<1>12. CASE Decide(w)
  BY <1>12 DEF ThreadStep, Decide, Return
<1>13. CASE Transfer(w)
  BY <1>13 DEF ThreadStep, Transfer, Return
<1>14. CASE EndFlag(w)
  BY <1>14 DEF ThreadStep, EndFlag
<1>15. CASE EndModal(w)
  BY <1>15 DEF ThreadStep, EndModal, Gone, Return
<1>16. CASE EndRefresh(w)
  BY <1>16 DEF ThreadStep, EndRefresh, Gone, Return
<1> QED BY <1>1, <1>2, <1>3, <1>4, <1>5, <1>6, <1>7, <1>8, <1>9, <1>10, <1>11, <1>12,
     <1>13, <1>14, <1>15, <1>16 DEF ThreadStep

LEMMA TypedInit == Init => Typed
<1> SUFFICES ASSUME Init PROVE Typed
  OBVIOUS
<1> USE ActivityAssumption DEF ActivityAssumption, Init, Actions, Kinds, Archives,
     Guarded, Transfers, Pastes, Installs, Deletes
<1>1. FlagTypes
  BY Zenon DEF FlagTypes
<1>2. ValueTypes
  BY DEF ValueTypes
<1>3. ThreadTypes
  <2>1. pc \in [Threads -> {"idle", "check", "file", "ask", "ask2", "ask3", "poll",
                           "resume", "resume2", "decide", "put", "work", "flag",
                           "modal", "refresh"}]
    OBVIOUS
  <2>2. act \in [Threads -> Kinds \cup {"NONE"}]
    OBVIOUS
  <2>3. left \in [Threads -> 0..MaxFiles]
    OBVIOUS
  <2>4. rule \in [Threads -> {"skip", "ask", "replace"}]
    OBVIOUS
  <2> QED BY <2>1, <2>2, <2>3, <2>4 DEF ThreadTypes
<1>4. FileInHand
  BY DEF FileInHand
<1>5. GhostTypes
  BY Zenon DEF GhostTypes
<1> QED BY <1>1, <1>2, <1>3, <1>4, <1>5, TypedParts

\* Every step, stuttering included, keeps the type invariant.
LEMMA TypedStep == Typed /\ [Next]_vars => Typed'
<1> SUFFICES ASSUME Typed, [Next]_vars PROVE Typed'
  OBVIOUS
<1>1. CASE GuiStep
  <2>1. GhostTypes'
    BY <1>1, TypedParts, GhostsTyped DEF GuiStep
  <2> QED BY <1>1, <2>1, TypedParts, TypedPrimed, FlagGui, TypedGui
<1>2. ASSUME NEW w \in Threads, ThreadStep(w) PROVE Typed'
  <2>1. GhostTypes'
    BY <1>2, TypedParts, GhostsTyped DEF ThreadStep
  <2> QED BY <1>2, <2>1, TypedParts, TypedPrimed, FlagThread, TypedThread
<1>3. CASE UNCHANGED vars
  BY <1>3 DEF vars, guiVars, confirmVars, optionVars, threadVars, ghosts, Typed, TypeOK,
     FileInHand
<1> QED BY <1>1, <1>2, <1>3 DEF Next

\* Type correctness of the whole protocol: files still to do never go below zero, and
\* every flag holds one of its values, however the threads interleave.
THEOREM TypeCorrect == Spec => []TypeOK
<1>1. Typed => TypeOK
  BY DEF Typed
<1> QED BY <1>1, TypedInit, TypedStep, PTL DEF Spec

-----------------------------------------------------------------------------
(* Input is not lost, whatever happens.                                     *)

\* A frame blocks the input with a popup, for a thread, or late.
LEMMA GuiUnblocked ==
  ASSUME Typed, Unblocked, GuiStep, Typed'
  PROVE  Unblocked'
<1> USE ActivityAssumption DEF ActivityAssumption, Typed, TypeOK, Unblocked, FlagOwned,
     OptionsDrawn, PausedShown, Busy, AtWork, Unowned, Watched, GuiStep,
     Actions, Kinds, Archives, Guarded, Transfers, Pastes, Installs, Deletes,
     confirmVars, optionVars, threadVars
<1>1. CASE Input
  BY <1>1 DEF Input
<1>2. CASE TestProgress
  BY <1>2 DEF TestProgress, Closed
<1>3. CASE ShowProgress
  BY <1>3 DEF ShowProgress
<1>4. CASE Menu
  <2>1. CASE OpenMenu
    BY <1>4, <2>1 DEF Menu, OpenMenu
  <2>2. CASE PickGuarded
    BY <1>4, <2>2 DEF Menu, PickGuarded, LeaveMenu
  <2>3. CASE PickDirect
    BY <1>4, <2>3 DEF Menu, PickDirect, LeaveMenu
  <2>4. CASE PickArchive
    BY <1>4, <2>4 DEF Menu, PickArchive, LeaveMenu
  <2>5. CASE PickDelete
    BY <1>4, <2>5 DEF Menu, PickDelete
  <2>6. CASE UNCHANGED <<popup, ime, paused, selected_action, confirmVars,
                    confirm_transfer_state, agreed>>
    BY <1>4, <2>6 DEF Menu
  <2> QED BY <1>4, <2>1, <2>2, <2>3, <2>4, <2>5, <2>6 DEF Menu
<1>5. CASE Confirm
  BY <1>5 DEF Confirm, Closed
<1>6. CASE AnswerConfirm
  BY <1>6 DEF AnswerConfirm
<1>7. CASE Overwrite
  BY <1>7 DEF Overwrite, AnswerOverwrite, Closed
<1>8. CASE ExecuteActions
  <2>1. CASE LaunchCleared
    BY <1>8, <2>1 DEF ExecuteActions, LaunchCleared, Start, NextFrame
  <2>2. CASE LaunchUncleared
    BY <1>8, <2>2 DEF ExecuteActions, LaunchUncleared, Start, NextFrame
  <2>3. CASE PasteNothing
    BY <1>8, <2>3 DEF ExecuteActions, PasteNothing, NextFrame
  <2>4. CASE ExecuteNothing
    BY <1>8, <2>4 DEF ExecuteActions, ExecuteNothing, NextFrame
  <2>5. CASE ExecuteInFrame
    BY <1>8, <2>5 DEF ExecuteActions, ExecuteInFrame
  <2> QED BY <1>8, <2>1, <2>2, <2>3, <2>4, <2>5 DEF ExecuteActions
<1>9. CASE ClearAction
  BY <1>9 DEF ClearAction, NextFrame
<1>10. CASE ImeClosed
  BY <1>10 DEF ImeClosed
<1> QED BY <1>1, <1>2, <1>3, <1>4, <1>5, <1>6, <1>7, <1>8, <1>9, <1>10 DEF GuiStep

\* The last thread to go takes the flag down and unblocks the input after its work.
LEMMA ThreadUnblocked ==
  ASSUME Typed, Unblocked, NEW w \in Threads, ThreadStep(w), Typed'
  PROVE  Unblocked'
<1> USE ActivityAssumption DEF ActivityAssumption, Typed, TypeOK, Unblocked, FlagOwned,
     OptionsDrawn, PausedShown, Busy, AtWork, Unowned, Watched, Goto,
     Kinds, Archives, Guarded, Transfers, Pastes, Installs, Deletes,
     guiVars, confirmVars, optionVars
<1>1. CASE Check(w)
  BY <1>1 DEF ThreadStep, Check
<1>2. CASE NoMoreFiles(w)
  BY <1>2 DEF ThreadStep, NoMoreFiles, Finish
<1>3. CASE NextWork(w)
  BY <1>3 DEF ThreadStep, NextWork
<1>4. CASE Probe(w)
  BY <1>4 DEF ThreadStep, Probe
<1>5. CASE ProbeFailed(w)
  BY <1>5 DEF ThreadStep, ProbeFailed
<1>6. CASE Ask(w)
  BY <1>6 DEF ThreadStep, Ask
<1>7. CASE AskSave(w)
  BY <1>7 DEF ThreadStep, AskSave
<1>8. CASE AskHide(w)
  BY <1>8 DEF ThreadStep, AskHide
<1>9. CASE Poll(w)
  BY <1>9 DEF ThreadStep, Poll
<1>10. CASE Resume(w)
  BY <1>10 DEF ThreadStep, Resume
<1>11. CASE ResumeAction(w)
  BY <1>11 DEF ThreadStep, ResumeAction
<1>12. CASE Decide(w)
  BY <1>12 DEF ThreadStep, Decide, Return
<1>13. CASE Transfer(w)
  BY <1>13 DEF ThreadStep, Transfer, Return
<1>14. CASE EndFlag(w)
  BY <1>14 DEF ThreadStep, EndFlag
<1>15. CASE EndModal(w)
  BY <1>15 DEF ThreadStep, EndModal, Gone, Return
<1>16. CASE EndRefresh(w)
  BY <1>16 DEF ThreadStep, EndRefresh, Gone, Return
<1> QED BY <1>1, <1>2, <1>3, <1>4, <1>5, <1>6, <1>7, <1>8, <1>9, <1>10, <1>11, <1>12,
     <1>13, <1>14, <1>15, <1>16 DEF ThreadStep

-----------------------------------------------------------------------------
(* The handovers, until the first race.                                     *)

\* What a step is not when no race has been seen after it.
LEMMA RaceFree ==
  ASSUME Watched, NoRace'
  PROVE  /\ NoRace
         /\ popup # "actions" /\ popup' = "actions" /\ confirm_state # "wait" => ~Busy
         /\ \A w \in Threads : pc[w] = "ask2" /\ pc'[w] = "ask3"
                               => selected_action \notin Kinds
BY Zenon DEF Watched, NoRace, Busy

\* The GUI's steps: what a frame may do while a thread is at work.
LEMMA GuiKeeps ==
  ASSUME Inv, GuiStep, Typed', NoRace'
  PROVE  Handover' /\ Consent'
<1>0. /\ NoRace /\ Handover /\ Consent /\ Unblocked /\ Typed
      /\ popup # "actions" /\ popup' = "actions" /\ confirm_state # "wait" => ~Busy
  BY RaceFree DEF GuiStep, Inv
<1> USE <1>0, ActivityAssumption DEF ActivityAssumption, Typed, TypeOK, FileInHand,
     Unblocked, FlagOwned, OptionsDrawn,
     Handover, Alone, FlagKept, AskersOnly, Waiting, ConfirmStands, NothingQueued,
     Answered, QueuedAlone, QueuedWhere, MenuWhenQueued, MenuHidden, KeyboardAlone,
     Consent, Question, DeleteAgreed, Agreed, OverwriteConsent, NoRace,
     Busy, AtWork, Clearing, Actions, Kinds, Archives, Guarded, Transfers, Pastes,
     Installs, Deletes, confirmVars, optionVars, threadVars
<1>1. CASE Input
  <2>1. Handover'
    BY <1>1 DEF Input
  <2>2. Consent'
    BY <1>1 DEF Input
  <2> QED BY <2>1, <2>2
<1>2. CASE TestProgress
  <2>1. Handover'
    BY <1>2 DEF TestProgress, Closed
  <2>2. Consent'
    BY <1>2 DEF TestProgress, Closed
  <2> QED BY <2>1, <2>2
<1>3. CASE ShowProgress
  <2>1. Handover'
    BY <1>3 DEF ShowProgress
  <2>2. Consent'
    BY <1>3 DEF ShowProgress
  <2> QED BY <2>1, <2>2
<1>4. CASE Menu
  <2>1. CASE OpenMenu
    <3>1. Handover'
      BY <1>4, <2>1 DEF Menu, OpenMenu
    <3>2. Consent'
      BY <1>4, <2>1 DEF Menu, OpenMenu
    <3> QED BY <3>1, <3>2
  <2>2. CASE PickGuarded
    <3>1. Handover'
      BY <1>4, <2>2 DEF Menu, PickGuarded, LeaveMenu
    <3>2. Consent'
      BY <1>4, <2>2 DEF Menu, PickGuarded, LeaveMenu
    <3> QED BY <3>1, <3>2
  <2>3. CASE PickDirect
    <3>1. Handover'
      BY <1>4, <2>3 DEF Menu, PickDirect, LeaveMenu
    <3>2. Consent'
      BY <1>4, <2>3 DEF Menu, PickDirect, LeaveMenu
    <3> QED BY <3>1, <3>2
  <2>4. CASE PickArchive
    <3>1. Handover'
      BY <1>4, <2>4 DEF Menu, PickArchive, LeaveMenu
    <3>2. Consent'
      BY <1>4, <2>4 DEF Menu, PickArchive, LeaveMenu
    <3> QED BY <3>1, <3>2
  <2>5. CASE PickDelete
    <3>1. Handover'
      BY <1>4, <2>5 DEF Menu, PickDelete
    <3>2. Consent'
      BY <1>4, <2>5 DEF Menu, PickDelete
    <3> QED BY <3>1, <3>2
  <2>6. CASE UNCHANGED <<popup, ime, paused, selected_action, confirmVars,
                    confirm_transfer_state, agreed>>
    <3>1. Handover'
      BY <1>4, <2>6 DEF Menu
    <3>2. Consent'
      BY <1>4, <2>6 DEF Menu
    <3> QED BY <3>1, <3>2
  <2> QED BY <1>4, <2>1, <2>2, <2>3, <2>4, <2>5, <2>6 DEF Menu
<1>5. CASE Confirm
  <2>1. Handover'
    BY <1>5 DEF Confirm, Closed
  <2>2. Consent'
    BY <1>5 DEF Confirm, Closed
  <2> QED BY <2>1, <2>2
<1>6. CASE AnswerConfirm
  <2>1. Handover'
    BY <1>6 DEF AnswerConfirm
  <2>2. Consent'
    BY <1>6 DEF AnswerConfirm
  <2> QED BY <2>1, <2>2
<1>7. CASE Overwrite
  <2>1. Handover'
    BY <1>7 DEF Overwrite, AnswerOverwrite, Closed
  <2>2. Consent'
    BY <1>7 DEF Overwrite, AnswerOverwrite, Closed
  <2> QED BY <2>1, <2>2
<1>8. CASE ExecuteActions
  <2>1. CASE LaunchCleared
    <3>1. Handover'
      BY <1>8, <2>1 DEF ExecuteActions, LaunchCleared, Start, NextFrame
    <3>2. Consent'
      BY <1>8, <2>1 DEF ExecuteActions, LaunchCleared, Start, NextFrame
    <3> QED BY <3>1, <3>2
  <2>2. CASE LaunchUncleared
    <3>1. Handover'
      BY <1>8, <2>2 DEF ExecuteActions, LaunchUncleared, Start, NextFrame
    <3>2. Consent'
      BY <1>8, <2>2 DEF ExecuteActions, LaunchUncleared, Start, NextFrame
    <3> QED BY <3>1, <3>2
  <2>3. CASE PasteNothing
    <3>1. Handover'
      BY <1>8, <2>3 DEF ExecuteActions, PasteNothing, NextFrame
    <3>2. Consent'
      BY <1>8, <2>3 DEF ExecuteActions, PasteNothing, NextFrame
    <3> QED BY <3>1, <3>2
  <2>4. CASE ExecuteNothing
    <3>1. Handover'
      BY <1>8, <2>4 DEF ExecuteActions, ExecuteNothing, NextFrame
    <3>2. Consent'
      BY <1>8, <2>4 DEF ExecuteActions, ExecuteNothing, NextFrame
    <3> QED BY <3>1, <3>2
  <2>5. CASE ExecuteInFrame
    <3>1. Handover'
      BY <1>8, <2>5 DEF ExecuteActions, ExecuteInFrame
    <3>2. Consent'
      BY <1>8, <2>5 DEF ExecuteActions, ExecuteInFrame
    <3> QED BY <3>1, <3>2
  <2> QED BY <1>8, <2>1, <2>2, <2>3, <2>4, <2>5 DEF ExecuteActions
<1>9. CASE ClearAction
  <2>1. Handover'
    BY <1>9 DEF ClearAction, NextFrame
  <2>2. Consent'
    BY <1>9 DEF ClearAction, NextFrame
  <2> QED BY <2>1, <2>2
<1>10. CASE ImeClosed
  <2>1. Handover'
    BY <1>10 DEF ImeClosed
  <2>2. Consent'
    BY <1>10 DEF ImeClosed
  <2> QED BY <2>1, <2>2
<1> QED BY <1>1, <1>2, <1>3, <1>4, <1>5, <1>6, <1>7, <1>8, <1>9, <1>10 DEF GuiStep

\* A thread's steps: what it may do to the frame it interrupts.
LEMMA ThreadKeeps ==
  ASSUME Inv, NEW w \in Threads, ThreadStep(w), Typed', NoRace'
  PROVE  Handover' /\ Consent'
<1>0. /\ NoRace /\ Handover /\ Consent /\ Unblocked /\ Typed
      /\ pc[w] = "ask2" /\ pc'[w] = "ask3" => selected_action \notin Kinds
  BY RaceFree DEF ThreadStep, Inv
<1> USE <1>0, ActivityAssumption DEF ActivityAssumption, Typed, TypeOK, FileInHand,
     Unblocked, FlagOwned, OptionsDrawn,
     Handover, Alone, FlagKept, AskersOnly, Waiting, ConfirmStands, NothingQueued,
     Answered, QueuedAlone, QueuedWhere, MenuWhenQueued, MenuHidden, KeyboardAlone,
     Consent, Question, DeleteAgreed, Agreed, OverwriteConsent, NoRace,
     Busy, AtWork, Clearing, Goto, Actions, Kinds, Archives, Guarded, Transfers, Pastes,
     Installs, Deletes, guiVars, confirmVars, optionVars
<1>1. CASE Check(w)
  <2>1. Handover'
    BY <1>1 DEF ThreadStep, Check
  <2>2. Consent'
    BY <1>1 DEF ThreadStep, Check
  <2> QED BY <2>1, <2>2
<1>2. CASE NoMoreFiles(w)
  <2>1. Handover'
    BY <1>2 DEF ThreadStep, NoMoreFiles, Finish
  <2>2. Consent'
    BY <1>2 DEF ThreadStep, NoMoreFiles, Finish
  <2> QED BY <2>1, <2>2
<1>3. CASE NextWork(w)
  <2>1. Handover'
    BY <1>3 DEF ThreadStep, NextWork
  <2>2. Consent'
    BY <1>3 DEF ThreadStep, NextWork
  <2> QED BY <2>1, <2>2
<1>4. CASE Probe(w)
  <2>1. Handover'
    BY <1>4 DEF ThreadStep, Probe
  <2>2. Consent'
    BY <1>4 DEF ThreadStep, Probe
  <2> QED BY <2>1, <2>2
<1>5. CASE ProbeFailed(w)
  <2>1. Handover'
    BY <1>5 DEF ThreadStep, ProbeFailed
  <2>2. Consent'
    BY <1>5 DEF ThreadStep, ProbeFailed
  <2> QED BY <2>1, <2>2
<1>6. CASE Ask(w)
  <2>1. Handover'
    BY <1>6 DEF ThreadStep, Ask
  <2>2. Consent'
    BY <1>6 DEF ThreadStep, Ask
  <2> QED BY <2>1, <2>2
<1>7. CASE AskSave(w)
  <2>1. Handover'
    BY <1>7 DEF ThreadStep, AskSave
  <2>2. Consent'
    BY <1>7 DEF ThreadStep, AskSave
  <2> QED BY <2>1, <2>2
<1>8. CASE AskHide(w)
  <2>1. Handover'
    BY <1>8 DEF ThreadStep, AskHide
  <2>2. Consent'
    BY <1>8 DEF ThreadStep, AskHide
  <2> QED BY <2>1, <2>2
<1>9. CASE Poll(w)
  <2>1. Handover'
    BY <1>9 DEF ThreadStep, Poll
  <2>2. Consent'
    BY <1>9 DEF ThreadStep, Poll
  <2> QED BY <2>1, <2>2
<1>10. CASE Resume(w)
  <2>1. Handover'
    BY <1>10 DEF ThreadStep, Resume
  <2>2. Consent'
    BY <1>10 DEF ThreadStep, Resume
  <2> QED BY <2>1, <2>2
<1>11. CASE ResumeAction(w)
  <2>1. Handover'
    BY <1>11 DEF ThreadStep, ResumeAction
  <2>2. Consent'
    BY <1>11 DEF ThreadStep, ResumeAction
  <2> QED BY <2>1, <2>2
<1>12. CASE Decide(w)
  <2>1. Handover'
    BY <1>12 DEF ThreadStep, Decide, Return
  <2>2. Consent'
    BY <1>12 DEF ThreadStep, Decide, Return
  <2> QED BY <2>1, <2>2
<1>13. CASE Transfer(w)
  <2>1. Handover'
    BY <1>13 DEF ThreadStep, Transfer, Return
  <2>2. Consent'
    BY <1>13 DEF ThreadStep, Transfer, Return
  <2> QED BY <2>1, <2>2
<1>14. CASE EndFlag(w)
  <2>1. Handover'
    BY <1>14 DEF ThreadStep, EndFlag
  <2>2. Consent'
    BY <1>14 DEF ThreadStep, EndFlag
  <2> QED BY <2>1, <2>2
<1>15. CASE EndModal(w)
  <2>1. Handover'
    BY <1>15 DEF ThreadStep, EndModal, Gone, Return
  <2>2. Consent'
    BY <1>15 DEF ThreadStep, EndModal, Gone, Return
  <2> QED BY <2>1, <2>2
<1>16. CASE EndRefresh(w)
  <2>1. Handover'
    BY <1>16 DEF ThreadStep, EndRefresh, Gone, Return
  <2>2. Consent'
    BY <1>16 DEF ThreadStep, EndRefresh, Gone, Return
  <2> QED BY <2>1, <2>2
<1> QED BY <1>1, <1>2, <1>3, <1>4, <1>5, <1>6, <1>7, <1>8, <1>9, <1>10, <1>11, <1>12,
     <1>13, <1>14, <1>15, <1>16 DEF ThreadStep

\* At the start nothing is at work, queued, asked or shown.
LEMMA InvInit == Init => Inv
<1> SUFFICES ASSUME Init PROVE Inv
  OBVIOUS
<1> USE DEF Init, Busy, AtWork, Clearing, Kinds, Archives, Guarded, Transfers, Pastes,
     Installs, Deletes
<1>1. Handover
  BY DEF Handover, Alone, FlagKept, AskersOnly, Waiting, ConfirmStands, NothingQueued,
     Answered, QueuedAlone, QueuedWhere, MenuWhenQueued, MenuHidden, KeyboardAlone
<1>2. Consent
  BY DEF Consent, Question, DeleteAgreed, Agreed, OverwriteConsent
<1>3. Unblocked
  BY DEF Unblocked, FlagOwned, OptionsDrawn, PausedShown
<1> QED BY <1>1, <1>2, <1>3, TypedInit DEF Inv

\* Every step keeps the inductive invariant.
LEMMA InvStep == Inv /\ [Next]_vars => Inv'
<1> SUFFICES ASSUME Inv, [Next]_vars PROVE Inv'
  OBVIOUS
<1>1. Typed'
  BY TypedStep DEF Inv
<1>2. CASE GuiStep
  BY <1>1, <1>2, GuiKeeps, GuiUnblocked DEF Inv
<1>3. ASSUME NEW w \in Threads, ThreadStep(w) PROVE Inv'
  BY <1>1, <1>3, ThreadKeeps, ThreadUnblocked DEF Inv
<1>4. CASE UNCHANGED vars
  <2> USE <1>4 DEF vars, guiVars, confirmVars, optionVars, threadVars, ghosts, Inv, Busy,
       AtWork, Clearing, NoRace
  <2>1. NoRace' => Handover'
    BY DEF Handover, Alone, FlagKept, AskersOnly, Waiting, ConfirmStands, NothingQueued,
       Answered, QueuedAlone, QueuedWhere, MenuWhenQueued, MenuHidden, KeyboardAlone
  <2>2. NoRace' => Consent'
    BY DEF Consent, Question, DeleteAgreed, Agreed, OverwriteConsent
  <2>3. Unblocked'
    BY DEF Unblocked, FlagOwned, OptionsDrawn, PausedShown, Unowned
  <2> QED BY <1>1, <2>1, <2>2, <2>3
<1> QED BY <1>2, <1>3, <1>4 DEF Next

LEMMA InvHolds == Spec => []Inv
BY InvInit, InvStep, PTL DEF Spec

-----------------------------------------------------------------------------
(* The theorems.                                                            *)

\* At most one background activity is at work, although nothing but the flags and the
\* popups keeps the user from starting a second one, unless the menu was opened inside
\* a thread's sleep or a thread saved the action that launched it.
THEOREM OneActivityHolds == Spec => []OneActivity
<1>1. Inv => OneActivity
  BY DEF Inv, Handover, Alone, OneActivity
<1> QED BY <1>1, InvHolds, PTL

\* No file is overwritten without "replace all" or a Yes to the question about it,
\* until the first race.
THEOREM OverwriteConsentHolds == Spec => []OverwriteConsent
<1>1. Inv => OverwriteConsent
  BY DEF Inv, Consent, OverwriteConsent
<1> QED BY <1>1, InvHolds, PTL

\* While a thread waits for an answer the popup shows its question, unless it is the
\* remote install, which writes none (Ask, and the menu that asks about a delete).
THEOREM QuestionShownHolds == Spec => []QuestionShown
<1>1. Inv => QuestionShown
  BY DEF Inv, Handover, AskersOnly, Consent, Question, QuestionShown
<1> QED BY <1>1, InvHolds, PTL

\* A working activity always has its progress popup, hence its Cancel button, until
\* the first race.
THEOREM CancellableHolds == Spec => []Cancellable
<1>1. Inv => Cancellable
  BY DEF Inv, Handover, FlagKept, AtWork, Cancellable
<1> QED BY <1>1, InvHolds, PTL

\* Input is left blocked with nothing to unblock it only by a frame that tested the
\* activity's flag before the thread's end and blocked the input after it; races or not.
THEOREM PausedHasReasonHolds == Spec => []PausedHasReason
<1>1. Inv => PausedHasReason
  BY DEF Inv, Typed, TypeOK, Unblocked, PausedShown, PausedHasReason
<1> QED BY <1>1, InvHolds, PTL

\* No delete begins without a Yes to the delete question, until the first race.
THEOREM DeleteConsentHolds == Spec => DeleteConsent
<1> DEFINE A == \A w \in Threads : pc[w] = "idle" /\ pc'[w] # "idle" /\ act'[w] \in Deletes
                                      => "delete" \in agreed \/ ~NoRace
<1>1. ASSUME Inv, [Next]_vars PROVE [A]_vars
  <2> USE DEF Inv, Typed, TypeOK
  <2>1. CASE ExecuteActions
    BY <1>1, <2>1 DEF ExecuteActions, LaunchCleared, LaunchUncleared, PasteNothing,
       ExecuteNothing, ExecuteInFrame, Start, Consent, DeleteAgreed, Clearing,
       Installs, Deletes, Guarded, Transfers, Pastes, Archives, threadVars
  <2>2. CASE GuiStep /\ ~ExecuteActions
    BY <1>1, <2>2 DEF GuiStep, Input, TestProgress, ShowProgress, Menu, Confirm,
       AnswerConfirm, Overwrite, ClearAction, ImeClosed, threadVars
  <2>3. ASSUME NEW v \in Threads, ThreadStep(v) PROVE A
    BY <1>1, <2>3 DEF ThreadStep, Check, NoMoreFiles, Finish, NextWork, Probe,
       ProbeFailed, Ask, AskSave, AskHide, Poll, Resume, ResumeAction, Decide,
       Transfer, EndFlag, EndModal, EndRefresh, Gone, Goto
  <2>4. CASE UNCHANGED vars
    BY <2>4
  <2> QED BY <1>1, <2>1, <2>2, <2>3, <2>4 DEF Next
<1> QED BY <1>1, InvHolds, PTL DEF Spec, DeleteConsent

\* Cancel is taken back only when no activity is at work, until the first race.
THEOREM CancelSticksHolds == Spec => CancelSticks
<1> DEFINE A == stop_activity /\ ~stop_activity'
                  => (\A w \in Threads : ~AtWork(w)) \/ ~NoRace
<1>1. ASSUME Inv, [Next]_vars PROVE [A]_vars
  <2>1. CASE ExecuteActions
    BY <1>1, <2>1 DEF ExecuteActions, LaunchCleared, LaunchUncleared, PasteNothing,
       ExecuteNothing, ExecuteInFrame, Start, Inv, Handover, NothingQueued, Busy,
       Clearing, Kinds, Installs, Deletes, Guarded, Transfers, Pastes, Archives
  <2>2. CASE GuiStep /\ ~ExecuteActions
    BY <1>1, <2>2 DEF GuiStep, Input, TestProgress, ShowProgress, Menu, Confirm,
       AnswerConfirm, Overwrite, ClearAction, ImeClosed
  <2>3. ASSUME NEW v \in Threads, ThreadStep(v) PROVE A
    BY <1>1, <2>3 DEF ThreadStep
  <2>4. CASE UNCHANGED vars
    BY <2>4
  <2> QED BY <1>1, <2>1, <2>2, <2>3, <2>4 DEF Next
<1> QED BY <1>1, InvHolds, PTL DEF Spec, CancelSticks

-----------------------------------------------------------------------------
(* Archives: the threads that extract and make them.                        *)

ArchiveFlags ==
  remote \in BOOLEAN /\ stop \in BOOLEAN /\ told \in BOOLEAN /\ poisoned \in BOOLEAN

ArchiveValues ==
  /\ op \in {"extract", "zip"}
  /\ step \in {"open", "entry", "unlink", "create", "write", "close", "next", "done"}
  /\ unseen \subseteq Entries \cup Nodes
  /\ disk \in [Names -> {"none", "dir", "old", "part"} \cup Entries]
  /\ arc \in 1 .. Len(Listing) + 1 /\ pos \in Nat \ {0}
  /\ zip \subseteq Nodes /\ made \subseteq Nodes /\ existing \subseteq Nodes /\ seen \subseteq Nodes
  /\ dir \in Dirs \cup {top}

LEMMA ArchiveTypesParts == ArchiveTypes <=> ArchiveFlags /\ ArchiveValues
BY DEF ArchiveTypes, ArchiveFlags, ArchiveValues

LEMMA ArchiveTypesPrimed == ArchiveTypes' <=> ArchiveFlags' /\ ArchiveValues'
BY DEF ArchiveTypes, ArchiveFlags, ArchiveValues

LEMMA ArchiveFlagsStep == ArchiveFlags /\ [ArchiveNext]_archiveVars => ArchiveFlags'
<1> SUFFICES ASSUME ArchiveFlags, [ArchiveNext]_archiveVars PROVE ArchiveFlags'
  OBVIOUS
<1> USE DEF ArchiveFlags, extraction, zipping, archiveVars
<1>1. CASE FinishExtract BY <1>1, Zenon DEF FinishExtract
<1>2. CASE PassFolder BY <1>2, Zenon DEF PassFolder
<1>3. CASE OpenArchive BY <1>3, Zenon DEF OpenArchive
<1>4. CASE ReadFails BY <1>4, Zenon DEF ReadFails
<1>5. CASE CutShort BY <1>5, Zenon DEF CutShort
<1>6. CASE EndOfArchive BY <1>6, Zenon DEF EndOfArchive
<1>7. CASE SkipEntry BY <1>7, Zenon DEF SkipEntry, AtEntry
<1>8. CASE ExtractDir BY <1>8, Zenon DEF ExtractDir, AtEntry
<1>9. CASE ExtractFile BY <1>9, Zenon DEF ExtractFile, AtEntry
<1>10. CASE Unlink BY <1>10, Zenon DEF Unlink, InFile
<1>11. CASE Create BY <1>11, Zenon DEF Create, InFile
<1>12. CASE CreateFails BY <1>12, Zenon DEF CreateFails, InFile
<1>13. CASE Write BY <1>13, Zenon DEF Write, InFile
<1>14. CASE WriteFails BY <1>14, Zenon DEF WriteFails, InFile
<1>15. CASE WriteWrong BY <1>15, Zenon DEF WriteWrong, InFile
<1>16. CASE Close BY <1>16, Zenon DEF Close, InFile
<1>17. CASE CloseFails BY <1>17, Zenon DEF CloseFails, InFile
<1>18. CASE \E b \in BOOLEAN : ZipOpen(b) BY <1>18, Zenon DEF ZipOpen
<1>19. CASE \E b \in BOOLEAN : ZipClose(b) BY <1>19, Zenon DEF ZipClose
<1>20. CASE \E n \in Nodes : ZipAdd(n) BY <1>20, Zenon DEF ZipAdd
<1>21. CASE \E n \in Nodes : ZipAddUnreadable(n) BY <1>21, Zenon DEF ZipAddUnreadable
<1>22. CASE \E n \in Nodes : ZipAddFails(n) BY <1>22, Zenon DEF ZipAddFails
<1>23. CASE ZipLeave BY <1>23, Zenon DEF ZipLeave
<1>24. CASE Cancel BY <1>24, Zenon DEF Cancel
<1>25. CASE UNCHANGED archiveVars BY <1>25, Zenon
<1> QED
  BY <1>1, <1>2, <1>3, <1>4, <1>5, <1>6, <1>7, <1>8, <1>9, <1>10, <1>11, <1>12, <1>13,
     <1>14, <1>15, <1>16, <1>17, <1>18, <1>19, <1>20, <1>21, <1>22, <1>23, <1>24, <1>25,
     Zenon DEF ArchiveNext, Thread

\* The entries of an archive.
LEMMA InListing ==
  ASSUME NEW k \in DOMAIN Listing
  PROVE  /\ k \in 1 .. Len(Listing) /\ Len(Listing) \in Nat
         /\ Len(Listing[k]) \in Nat /\ DOMAIN Listing[k] = 1 .. Len(Listing[k])
         /\ \A i \in DOMAIN Listing[k] : Listing[k][i] \in Entries
                                          /\ Name[Listing[k][i]] \in Names
BY ArchiveAssumption

\* Every node is in a marked entry.
LEMMA MarkedHolds ==
  ASSUME NEW n \in Nodes
  PROVE  TopOf(n) \in Tops /\ n \in Under(TopOf(n))
<1>1. \E t \in Tops : n \in Under(t) BY TreeAssumption DEF Under
<1> QED BY <1>1, Zenon DEF TopOf

\* The entry in hand is one of a marked archive.
LEMMA EntryInHand ==
  ASSUME ArchiveValues, Placed,
         step \in {"unlink", "create", "write", "close"}
           \/ (step = "entry" /\ pos <= Len(Listing[arc]))
  PROVE  /\ arc \in DOMAIN Listing \ Folders /\ pos \in DOMAIN Listing[arc]
         /\ entry \in Entries /\ name = Name[entry] /\ entry = Listing[arc][pos]
         /\ name \in Names /\ In[name] \in Names \cup {top}
         /\ arc \in Nat /\ pos \in Nat \ {0}
<1>1. arc \in DOMAIN Listing \ Folders /\ pos <= Len(Listing[arc]) BY DEF Placed
<1>2. pos \in Nat \ {0} BY DEF ArchiveValues
<1>3. pos \in DOMAIN Listing[arc] /\ arc \in Nat BY <1>1, <1>2, InListing
<1> QED BY <1>1, <1>2, <1>3, InListing, ArchiveAssumption DEF entry, name

LEMMA ArchiveValuesStep ==
  ArchiveValues /\ Placed /\ [ArchiveNext]_archiveVars => ArchiveValues'
<1> SUFFICES ASSUME ArchiveValues, Placed, [ArchiveNext]_archiveVars PROVE ArchiveValues'
  OBVIOUS
<1> USE DEF ArchiveValues, extraction, zipping, archiveVars, NextEntry
<1>0. Len(Listing) \in Nat /\ DOMAIN Listing = 1 .. Len(Listing) BY ArchiveAssumption
<1>1. CASE FinishExtract BY <1>1 DEF FinishExtract
<1>2. CASE PassFolder BY <1>0, <1>2, ArchiveAssumption DEF PassFolder, NextArchive
<1>3. CASE OpenArchive BY <1>3 DEF OpenArchive
<1>4. CASE ReadFails BY <1>0, <1>4 DEF ReadFails, NextArchive, Placed
<1>5. CASE CutShort
  <2>1. arc \in DOMAIN Listing /\ pos \in Nat \ {0} BY <1>5 DEF CutShort, Placed
  <2>2. \A i \in pos .. Len(Listing[arc]) : Listing[arc][i] \in Entries BY <2>1, InListing
  <2>3. unseen' \subseteq Entries \cup Nodes BY <1>5, <2>2 DEF CutShort
  <2>4. /\ arc' = arc + 1 /\ pos' = 1 /\ step' = "open"
        /\ UNCHANGED <<op, disk, zip, made, existing, seen, dir>>
    BY <1>5 DEF CutShort, NextArchive
  <2> QED BY <1>0, <2>1, <2>3, <2>4
<1>6. CASE EndOfArchive BY <1>0, <1>6 DEF EndOfArchive, NextArchive, Placed
<1>7. CASE SkipEntry BY <1>7, EntryInHand DEF SkipEntry, AtEntry
<1>8. CASE ExtractDir BY <1>8, EntryInHand DEF ExtractDir, AtEntry, WithFolder
<1>9. CASE ExtractFile BY <1>9, EntryInHand DEF ExtractFile, AtEntry, WithFolder
<1>10. CASE Unlink BY <1>10, EntryInHand DEF Unlink, InFile
<1>11. CASE Create BY <1>11, EntryInHand DEF Create, InFile
<1>12. CASE CreateFails BY <1>12, EntryInHand DEF CreateFails, InFile
<1>13. CASE Write BY <1>13 DEF Write, InFile
<1>14. CASE WriteFails BY <1>14, EntryInHand DEF WriteFails, InFile
<1>15. CASE WriteWrong BY <1>15, EntryInHand DEF WriteWrong, InFile
<1>16. CASE Close BY <1>16, EntryInHand DEF Close, InFile
<1>17. CASE CloseFails BY <1>17, EntryInHand DEF CloseFails, InFile
<1>18. CASE \E b \in BOOLEAN : ZipOpen(b) BY <1>18 DEF ZipOpen
<1>19. CASE \E b \in BOOLEAN : ZipClose(b) BY <1>19 DEF ZipClose
<1>20. CASE \E n \in Nodes : ZipAdd(n) BY <1>20 DEF ZipAdd
<1>21. CASE \E n \in Nodes : ZipAddUnreadable(n)
  BY <1>21, TreeAssumption DEF ZipAddUnreadable, Under
<1>22. CASE \E n \in Nodes : ZipAddFails(n)
  BY <1>22, MarkedHolds, TreeAssumption DEF ZipAddFails, Under, Tops
<1>23. CASE ZipLeave
  <2>1. dir \in Dirs /\ Todo \subseteq Nodes BY <1>23 DEF ZipLeave, Todo
  <2>2. Under(dir) \subseteq Nodes /\ Parent[dir] \in Dirs \cup {top}
    BY <2>1, TreeAssumption DEF Under
  <2>3. \A n \in Todo : Under(n) \subseteq Nodes BY <2>1, TreeAssumption DEF Under
  <2>4. UNION {Under(n) : n \in Todo} \subseteq Nodes BY <2>3
  <2> QED BY <1>23, <2>2, <2>4 DEF ZipLeave
<1>24. CASE Cancel BY <1>24 DEF Cancel
<1>25. CASE UNCHANGED archiveVars BY <1>25
<1> QED
  BY <1>1, <1>2, <1>3, <1>4, <1>5, <1>6, <1>7, <1>8, <1>9, <1>10, <1>11, <1>12, <1>13, <1>14,
     <1>15, <1>16, <1>17, <1>18, <1>19, <1>20, <1>21, <1>22, <1>23, <1>24, <1>25,
     Zenon DEF ArchiveNext, Thread

LEMMA PlacedStep == ArchiveValues /\ Placed /\ [ArchiveNext]_archiveVars => Placed'
<1> SUFFICES ASSUME ArchiveValues, Placed, [ArchiveNext]_archiveVars PROVE Placed'
  OBVIOUS
<1> USE DEF Placed, extraction, zipping, archiveVars, NextEntry, entry
<1>0. Len(Listing) \in Nat /\ DOMAIN Listing = 1 .. Len(Listing) /\ Folders \subseteq DOMAIN Listing
      /\ arc \in 1 .. Len(Listing) + 1
  BY ArchiveAssumption DEF ArchiveValues
<1>1. CASE FinishExtract BY <1>0, <1>1 DEF FinishExtract
<1>2. CASE PassFolder BY <1>2 DEF PassFolder, NextArchive
<1>3. CASE OpenArchive BY <1>3 DEF OpenArchive
<1>4. CASE ReadFails BY <1>4 DEF ReadFails, NextArchive
<1>5. CASE CutShort BY <1>5 DEF CutShort, NextArchive
<1>6. CASE EndOfArchive BY <1>6 DEF EndOfArchive, NextArchive
<1>7. CASE SkipEntry BY <1>7 DEF SkipEntry, AtEntry
<1>8. CASE ExtractDir BY <1>8 DEF ExtractDir, AtEntry
<1>9. CASE ExtractFile BY <1>9 DEF ExtractFile, AtEntry
<1>10. CASE Unlink BY <1>10 DEF Unlink, InFile
<1>11. CASE Create BY <1>11 DEF Create, InFile
<1>12. CASE CreateFails BY <1>12 DEF CreateFails, InFile
<1>13. CASE Write BY <1>13 DEF Write, InFile
<1>14. CASE WriteFails BY <1>14 DEF WriteFails, InFile
<1>15. CASE WriteWrong BY <1>15 DEF WriteWrong, InFile
<1>16. CASE Close BY <1>16 DEF Close, InFile
<1>17. CASE CloseFails BY <1>17 DEF CloseFails, InFile
<1>18. CASE \E b \in BOOLEAN : ZipOpen(b) BY <1>18 DEF ZipOpen
<1>19. CASE \E b \in BOOLEAN : ZipClose(b) BY <1>19 DEF ZipClose
<1>20. CASE \E n \in Nodes : ZipAdd(n) BY <1>20 DEF ZipAdd
<1>21. CASE \E n \in Nodes : ZipAddUnreadable(n) BY <1>21 DEF ZipAddUnreadable
<1>22. CASE \E n \in Nodes : ZipAddFails(n) BY <1>22 DEF ZipAddFails
<1>23. CASE ZipLeave BY <1>23 DEF ZipLeave
<1>24. CASE Cancel BY <1>24 DEF Cancel
<1>25. CASE UNCHANGED archiveVars BY <1>25
<1> QED
  BY <1>1, <1>2, <1>3, <1>4, <1>5, <1>6, <1>7, <1>8, <1>9, <1>10, <1>11, <1>12, <1>13, <1>14,
     <1>15, <1>16, <1>17, <1>18, <1>19, <1>20, <1>21, <1>22, <1>23, <1>24, <1>25,
     Zenon DEF ArchiveNext, Thread

\* What happened stays so.
LEMMA NoWayBack ==
  ASSUME [ArchiveNext]_archiveVars
  PROVE  /\ op' = op /\ start' = start /\ existing' = existing
         /\ (told => told') /\ (stop => stop') /\ (poisoned => poisoned')
<1> USE DEF extraction, zipping, archiveVars
<1>1. CASE FinishExtract BY <1>1, Zenon DEF FinishExtract
<1>2. CASE PassFolder BY <1>2, Zenon DEF PassFolder
<1>3. CASE OpenArchive BY <1>3, Zenon DEF OpenArchive
<1>4. CASE ReadFails BY <1>4, Zenon DEF ReadFails
<1>5. CASE CutShort BY <1>5, Zenon DEF CutShort
<1>6. CASE EndOfArchive BY <1>6, Zenon DEF EndOfArchive
<1>7. CASE SkipEntry BY <1>7, Zenon DEF SkipEntry, AtEntry
<1>8. CASE ExtractDir BY <1>8, Zenon DEF ExtractDir, AtEntry
<1>9. CASE ExtractFile BY <1>9, Zenon DEF ExtractFile, AtEntry
<1>10. CASE Unlink BY <1>10, Zenon DEF Unlink, InFile
<1>11. CASE Create BY <1>11, Zenon DEF Create, InFile
<1>12. CASE CreateFails BY <1>12, Zenon DEF CreateFails, InFile
<1>13. CASE Write BY <1>13, Zenon DEF Write, InFile
<1>14. CASE WriteFails BY <1>14, Zenon DEF WriteFails, InFile
<1>15. CASE WriteWrong BY <1>15, Zenon DEF WriteWrong, InFile
<1>16. CASE Close BY <1>16, Zenon DEF Close, InFile
<1>17. CASE CloseFails BY <1>17, Zenon DEF CloseFails, InFile
<1>18. CASE \E b \in BOOLEAN : ZipOpen(b) BY <1>18 DEF ZipOpen
<1>19. CASE \E b \in BOOLEAN : ZipClose(b) BY <1>19 DEF ZipClose
<1>20. CASE \E n \in Nodes : ZipAdd(n) BY <1>20 DEF ZipAdd
<1>21. CASE \E n \in Nodes : ZipAddUnreadable(n) BY <1>21 DEF ZipAddUnreadable
<1>22. CASE \E n \in Nodes : ZipAddFails(n) BY <1>22 DEF ZipAddFails
<1>23. CASE ZipLeave BY <1>23, Zenon DEF ZipLeave
<1>24. CASE Cancel BY <1>24, Zenon DEF Cancel
<1>25. CASE UNCHANGED archiveVars BY <1>25, Zenon
<1> QED
  BY <1>1, <1>2, <1>3, <1>4, <1>5, <1>6, <1>7, <1>8, <1>9, <1>10, <1>11, <1>12, <1>13,
     <1>14, <1>15, <1>16, <1>17, <1>18, <1>19, <1>20, <1>21, <1>22, <1>23, <1>24, <1>25,
     Zenon DEF ArchiveNext, Thread

\* What was not seen is not seen later.
LEMMA UnseenStays ==
  ASSUME [ArchiveNext]_archiveVars
  PROVE  \A x \in unseen : x \in unseen'
<1> USE DEF extraction, zipping, archiveVars
<1>1. CASE CutShort BY <1>1 DEF CutShort
<1>2. CASE WriteWrong BY <1>2 DEF WriteWrong
<1>3. CASE CloseFails BY <1>3 DEF CloseFails
<1>4. CASE \E b \in BOOLEAN : ZipClose(b) BY <1>4 DEF ZipClose
<1>5. CASE ZipLeave BY <1>5 DEF ZipLeave
<1>6. CASE UNCHANGED unseen BY <1>6
<1> QED
  BY <1>1, <1>2, <1>3, <1>4, <1>5, <1>6, Zenon
     DEF ArchiveNext, Thread, FinishExtract, PassFolder, OpenArchive, ReadFails, EndOfArchive,
         SkipEntry, ExtractDir, ExtractFile, AtEntry, Unlink, Create, CreateFails, Write,
         WriteFails, Close, ZipOpen, ZipAdd, ZipAddUnreadable, ZipAddFails, Cancel

-----------------------------------------------------------------------------
(* Extraction.                                                              *)

\* What a step does to the disk, and whose file it leaves half.
LEMMA DiskStep ==
  ASSUME ArchiveValues, Placed, [ArchiveNext]_archiveVars, op = "extract", ~told'
  PROVE  /\ \A m \in Names : disk[m] # "none" =>
              disk'[m] = disk[m] \/ ((Unlink \/ Create \/ Close) /\ m = name)
         /\ UNCHANGED disk \/ ExtractDir \/ ExtractFile \/ Unlink \/ Create \/ Close
<1> USE DEF extraction, zipping, archiveVars
<1>0. disk \in [Names -> {"none", "dir", "old", "part"} \cup Entries] BY DEF ArchiveValues
<1>1. CASE UNCHANGED disk BY <1>1
<1>2. CASE ExtractDir \/ ExtractFile
  <2> DEFINE d == WithFolder(disk, name)
  <2>1. name \in Names /\ In[name] \in Names \cup {top}
    BY <1>2, EntryInHand DEF ExtractDir, ExtractFile, AtEntry
  <2>2. \A m \in Names : disk[m] # "none" => d[m] = disk[m] BY <1>0, <2>1 DEF WithFolder
  <2>3. DOMAIN d = Names BY <1>0, <2>1 DEF WithFolder
  <2>4. disk' = d \/ (disk' = [d EXCEPT ![name] = "dir"] /\ d[name] = "none")
    <3> HIDE DEF d
    <3>1. CASE ExtractDir BY <3>1 DEF ExtractDir, d
    <3>2. CASE ExtractFile BY <3>2 DEF ExtractFile, d
    <3> QED BY <1>2, <3>1, <3>2
  <2> HIDE DEF d
  <2> QED BY <1>2, <2>1, <2>2, <2>3, <2>4
<1>3. CASE Unlink \/ Create \/ Close
  <2>1. name \in Names BY <1>3, EntryInHand DEF Unlink, Create, Close, InFile
  <2>2. UNCHANGED disk \/ \E x : disk' = [disk EXCEPT ![name] = x]
    BY <1>3 DEF Unlink, Create, Close
  <2> QED BY <1>0, <1>3, <2>1, <2>2
<1> QED
  BY <1>1, <1>2, <1>3, Zenon
     DEF ArchiveNext, Thread, FinishExtract, PassFolder, OpenArchive, ReadFails, CutShort,
         EndOfArchive, SkipEntry, CreateFails, Write, WriteFails, WriteWrong, CloseFails, ZipOpen,
         ZipClose, ZipAdd, ZipAddUnreadable, ZipAddFails, ZipLeave, Cancel

\* After a file was closed it is there.
LEMMA FileThere ==
  ASSUME ArchiveValues, Placed, Close
  PROVE  disk'[name] = entry /\ entry \in Entries
<1>1. name \in Names /\ entry \in Entries BY EntryInHand DEF Close, InFile
<1> QED BY <1>1 DEF Close, ArchiveValues

\* How a thread gets a file in hand, and out of its hands.
LEMMA InHandStep ==
  ASSUME ArchiveValues, Placed, [ArchiveNext]_archiveVars, NEW n, ~told'
  PROVE  /\ Unlink /\ name = n /\ Kind[entry] # "link" => InHand(n)'
         /\ InHand(n) /\ ~InHand(n)' => (Close \/ (entry \in unseen' /\ pos' = pos + 1 /\ arc' = arc))
         /\ InHand(n)' /\ ~InHand(n) => Unlink /\ name = n
<1> USE DEF InHand, name, entry, InFile, NextEntry, extraction, zipping, archiveVars
<1>1. CASE Unlink BY <1>1 DEF Unlink
<1>2. CASE Create BY <1>2 DEF Create, Unlink
<1>3. CASE CreateFails BY <1>3 DEF CreateFails
<1>4. CASE Write BY <1>4 DEF Write, Unlink
<1>5. CASE WriteFails BY <1>5 DEF WriteFails
<1>6. CASE WriteWrong BY <1>6 DEF WriteWrong, Unlink
<1>7. CASE Close BY <1>7 DEF Close, Unlink
<1>8. CASE CloseFails BY <1>8 DEF CloseFails, Unlink
<1>9. CASE Cancel \/ UNCHANGED archiveVars BY <1>9 DEF Cancel, Unlink
<1>10. CASE FinishExtract \/ PassFolder \/ OpenArchive \/ ReadFails \/ CutShort \/ EndOfArchive
  BY <1>10 DEF FinishExtract, PassFolder, OpenArchive, ReadFails, CutShort, EndOfArchive,
               NextArchive, Unlink
<1>11. CASE SkipEntry \/ ExtractDir \/ ExtractFile
  BY <1>11 DEF SkipEntry, ExtractDir, ExtractFile, AtEntry, Unlink
<1>12. CASE \E b \in BOOLEAN : ZipOpen(b) \/ ZipClose(b)
  BY <1>12 DEF ZipOpen, ZipClose, Placed, Unlink
<1>13. CASE \E m \in Nodes : ZipAdd(m) \/ ZipAddUnreadable(m) \/ ZipAddFails(m)
  BY <1>13 DEF ZipAdd, ZipAddUnreadable, ZipAddFails, Unlink
<1>14. CASE ZipLeave BY <1>14 DEF ZipLeave, Unlink
<1> QED
  BY <1>1, <1>2, <1>3, <1>4, <1>5, <1>6, <1>7, <1>8, <1>9, <1>10, <1>11, <1>12, <1>13, <1>14,
     Zenon DEF ArchiveNext, Thread

\* Making an archive changes nothing on the disk.
LEMMA ZipDisk ==
  ASSUME [ArchiveNext]_archiveVars, op # "extract"
  PROVE  UNCHANGED disk
BY Zenon DEF ArchiveNext, Thread, FinishExtract, PassFolder, OpenArchive, ReadFails, CutShort,
     EndOfArchive, SkipEntry, ExtractDir, ExtractFile, AtEntry, Unlink, Create, CreateFails, Write,
     WriteFails, WriteWrong, Close, CloseFails, InFile, ZipOpen, ZipClose, ZipAdd,
     ZipAddUnreadable, ZipAddFails, ZipLeave, Cancel, extraction, zipping, archiveVars

LEMMA LostIsToldStep ==
  ArchiveValues /\ Placed /\ LostIsTold /\ [ArchiveNext]_archiveVars => LostIsTold'
<1> DEFINE Excused(n) == \E e \in Entries : Name[e] = n /\ (Kind[e] = "link" \/ e \in unseen)
<1> SUFFICES ASSUME ArchiveValues, Placed, LostIsTold, [ArchiveNext]_archiveVars,
                    NEW n \in Names, start'[n] = "old", disk'[n] \notin {"old"} \cup Entries,
                    ~told', ~InHand(n)'
             PROVE  Excused(n)'
  BY Zenon DEF LostIsTold
<1>1. start[n] = "old" /\ ~told BY NoWayBack
<1>2. Excused(n) => Excused(n)' BY UnseenStays
<1>3. CASE disk[n] \notin {"old"} \cup Entries
  <2>1. InHand(n) \/ Excused(n) BY <1>1, <1>3, Zenon DEF LostIsTold
  <2>2. CASE InHand(n)
    <3>1. Close \/ entry \in unseen' BY <2>2, InHandStep
    <3>2. name = n /\ entry \in Entries /\ name = Name[entry]
      BY <2>2, EntryInHand DEF InHand
    <3>3. ~Close BY <3>2, FileThere
    <3> QED BY <3>1, <3>2, <3>3
  <2> QED BY <1>2, <2>1, <2>2
<1>4. CASE disk[n] \in {"old"} \cup Entries
  <2>1. disk[n] # "none" /\ disk'[n] # disk[n] BY <1>4, ArchiveAssumption
  <2>2. op = "extract" BY <2>1, ZipDisk
  <2>3. (Unlink \/ Create \/ Close) /\ n = name BY <2>1, <2>2, DiskStep, Zenon
  <2>4. ~Close BY <2>3, FileThere
  <2>5. ~Create BY <2>3, InHandStep DEF Create, InFile, InHand, name, entry
  <2>6. Kind[entry] = "link" BY <2>3, <2>4, <2>5, InHandStep
  <2>7. entry \in Entries /\ name = Name[entry]
    BY <2>3, <2>4, <2>5, EntryInHand DEF Unlink, InFile
  <2> QED BY <2>3, <2>6, <2>7
<1> QED BY <1>3, <1>4

\* What of the entries a step passes: the entry in hand, or what nothing will read.
LEMMA PassedStep ==
  ASSUME ArchiveValues, Placed, [ArchiveNext]_archiveVars, op = "extract", ~stop', ~told',
         NEW k \in DOMAIN Listing \ Folders, NEW i \in DOMAIN Listing[k]
  PROVE  /\ Passed(k, i) => Passed(k, i)'
         /\ Passed(k, i)' =>
              \/ Passed(k, i)
              \/ Listing[k][i] \in unseen'
              \/ /\ k = arc /\ i = pos
                 /\ Close \/ Kind[Listing[k][i]] # "file"
<1> USE DEF Passed, Behind, extraction, zipping, archiveVars
<1>0. k \in Nat /\ i \in Nat \ {0} /\ arc \in Nat /\ pos \in Nat \ {0} /\ i <= Len(Listing[k])
      /\ Len(Listing[k]) \in Nat
  BY InListing DEF ArchiveValues
<1>1. CASE UNCHANGED <<arc, pos>> BY <1>1
<1>2. CASE PassFolder BY <1>0, <1>2 DEF PassFolder, NextArchive, Placed
<1>3. CASE ReadFails BY <1>3 DEF ReadFails
<1>4. CASE CutShort
  <2>1. arc' = arc + 1 /\ pos' = 1 BY <1>4 DEF CutShort, NextArchive
  <2>2. k = arc /\ pos <= i => Listing[k][i] \in unseen' BY <1>0, <1>4 DEF CutShort
  <2> QED BY <1>0, <2>1, <2>2
<1>5. CASE EndOfArchive
  <2>1. arc' = arc + 1 /\ pos' = 1 /\ pos > Len(Listing[arc])
    BY <1>5 DEF EndOfArchive, NextArchive
  <2>2. k = arc => pos > i BY <1>0, <2>1
  <2> QED BY <1>0, <2>1, <2>2
<1>6. ASSUME NextEntry, arc' = arc
      PROVE  /\ Passed(k, i) => Passed(k, i)'
             /\ Passed(k, i)' => Passed(k, i) \/ (k = arc /\ i = pos)
  BY <1>0, <1>6 DEF NextEntry
<1>7. k = arc /\ i = pos => entry = Listing[k][i] BY DEF entry
<1>8. CASE SkipEntry \/ ExtractDir
  <2>1. NextEntry /\ arc' = arc /\ Kind[entry] \in {"other", "dir"}
    BY <1>8 DEF SkipEntry, ExtractDir, AtEntry
  <2> QED BY <1>6, <1>7, <2>1
<1>9. CASE Unlink
  <2>1. arc' = arc /\ (pos' = pos \/ (NextEntry /\ Kind[entry] = "link"))
    BY <1>9 DEF Unlink, InFile
  <2> QED BY <1>1, <1>6, <1>7, <2>1
<1>10. CASE Close
  <2>1. NextEntry /\ arc' = arc BY <1>10 DEF Close, InFile
  <2> QED BY <1>6, <1>10, <2>1
<1>11. CASE WriteWrong \/ CloseFails
  <2>1. NextEntry /\ arc' = arc /\ entry \in unseen'
    BY <1>11 DEF WriteWrong, CloseFails, InFile
  <2> QED BY <1>6, <1>7, <2>1
<1>12. CASE CreateFails \/ WriteFails BY <1>12 DEF CreateFails, WriteFails
<1>13. CASE ExtractFile \/ Create \/ Write
  BY <1>1, <1>13 DEF ExtractFile, AtEntry, Create, Write, InFile
<1> QED
  BY <1>1, <1>2, <1>3, <1>4, <1>5, <1>8, <1>9, <1>10, <1>11, <1>12, <1>13, Zenon
     DEF ArchiveNext, Thread, FinishExtract, OpenArchive, ZipOpen, ZipClose, ZipAdd,
         ZipAddUnreadable, ZipAddFails, ZipLeave, Cancel

\* What the thread had in hand and has no more was read: it is the last of its name so far.
LEMMA OutOfHand ==
  ASSUME ArchiveValues, Placed, [ArchiveNext]_archiveVars, ~told',
         NEW k \in DOMAIN Listing \ Folders, NEW i \in DOMAIN Listing[k],
         Passed(k, i), name = Name[Listing[k][i]], Kind[entry] \in {"file", "link"},
         arc \in DOMAIN Listing \ Folders, pos \in DOMAIN Listing[arc],
         arc' = arc, pos' = pos + 1
  PROVE  AgainSoFar(k, i)'
<1>1. arc \in Nat /\ pos \in Nat BY DEF ArchiveValues
<1>2. PICK l \in DOMAIN Listing \ Folders : l = arc OBVIOUS
<1>3. PICK j \in DOMAIN Listing[l] : j = pos BY <1>2
<1>4. Passed(l, j)' BY <1>1, <1>2, <1>3 DEF Passed, Behind
<1>5. Behind(l, j, k, i) BY <1>2, <1>3 DEF Passed
<1>6. Name[Listing[l][j]] = Name[Listing[k][i]] /\ Kind[Listing[l][j]] \in {"file", "link"}
  BY <1>2, <1>3 DEF name, entry
<1> QED BY <1>4, <1>5, <1>6, Zenon DEF AgainSoFar

LEMMA ExtractedStep ==
  ArchiveValues /\ Placed /\ Extracted /\ [ArchiveNext]_archiveVars => Extracted'
<1> SUFFICES ASSUME ArchiveValues, Placed, Extracted, [ArchiveNext]_archiveVars,
                    op' = "extract", ~stop', ~told',
                    NEW k \in DOMAIN Listing \ Folders, NEW i \in DOMAIN Listing[k],
                    Passed(k, i)', Kind[Listing[k][i]] = "file", ~AgainSoFar(k, i)',
                    Listing[k][i] \notin unseen', ~InHand(Name[Listing[k][i]])'
             PROVE  disk'[Name[Listing[k][i]]] = Listing[k][i]
  BY Zenon DEF Extracted
<1> DEFINE n == Name[Listing[k][i]]
<1>1. op = "extract" /\ ~stop /\ ~told /\ Listing[k][i] \notin unseen BY NoWayBack, UnseenStays
<1>2. \A l \in DOMAIN Listing \ Folders : \A j \in DOMAIN Listing[l] :
        Passed(l, j) => Passed(l, j)'
  BY <1>1, PassedStep, Zenon
<1>3. ~AgainSoFar(k, i) BY <1>2, Zenon DEF AgainSoFar
<1>4. Listing[k][i] \in Entries /\ n \in Names BY InListing
<1>5. CASE ~Passed(k, i)
  <2>1. k = arc /\ i = pos /\ Close BY <1>1, <1>5, PassedStep
  <2>2. entry = Listing[k][i] /\ name = n BY <2>1 DEF entry, name
  <2> QED BY <2>1, <2>2, FileThere
<1>6. CASE Passed(k, i)
  <2>1. CASE InHand(n)
    <3>1. Close \/ (entry \in unseen' /\ pos' = pos + 1 /\ arc' = arc) BY <2>1, InHandStep
    <3>2. pos' = pos + 1 /\ arc' = arc BY <3>1 DEF Close, InFile, NextEntry
    <3>3. /\ arc \in DOMAIN Listing \ Folders /\ pos \in DOMAIN Listing[arc]
          /\ Kind[entry] = "file" /\ name = n
      BY <2>1, EntryInHand DEF InHand, Placed
    <3> QED BY <1>6, <3>2, <3>3, OutOfHand
  <2>2. CASE ~InHand(n)
    <3>1. disk[n] = Listing[k][i] BY <1>1, <1>3, <1>6, <2>2, Zenon DEF Extracted
    <3>2. disk[n] # "none" BY <1>4, <3>1, ArchiveAssumption
    <3>3. CASE Unlink /\ n = name
      <4>1. Kind[entry] = "link" BY <3>3, InHandStep
      <4>2. arc \in DOMAIN Listing \ Folders /\ pos \in DOMAIN Listing[arc]
        BY <3>3, EntryInHand DEF Unlink, InFile
      <4>3. pos' = pos + 1 /\ arc' = arc BY <3>3, <4>1 DEF Unlink, InFile, NextEntry
      <4> QED BY <1>6, <3>3, <4>1, <4>2, <4>3, OutOfHand
    <3>4. CASE ~(Unlink /\ n = name)
      <4>1. ~((Create \/ Close) /\ n = name) BY <2>2 DEF Create, Close, InFile, InHand
      <4>2. disk'[n] = disk[n] BY <1>1, <1>4, <3>2, <3>4, <4>1, DiskStep, Zenon
      <4> QED BY <3>1, <4>2
    <3> QED BY <3>3, <3>4
  <2> QED BY <2>1, <2>2
<1> QED BY <1>5, <1>6

\* At the end every entry was read.
LEMMA ExtractedEnd ==
  ASSUME ArchiveValues, Placed, Extracted
  PROVE  ExtractedOrTold
<1> SUFFICES ASSUME op = "extract", step = "done", ~stop, ~told,
                    NEW k \in DOMAIN Listing \ Folders, NEW i \in DOMAIN Listing[k],
                    Kind[Listing[k][i]] = "file", ~Again(k, i), Listing[k][i] \notin unseen
             PROVE  disk[Name[Listing[k][i]]] = Listing[k][i]
  BY Zenon DEF ExtractedOrTold
<1>1. arc = Len(Listing) + 1 BY DEF Placed
<1>2. Passed(k, i) BY <1>1, InListing DEF Passed, Behind
<1>3. ~AgainSoFar(k, i) BY Zenon DEF AgainSoFar, Again, Behind
<1>4. ~InHand(Name[Listing[k][i]]) BY DEF InHand
<1> QED BY <1>2, <1>3, <1>4, Zenon DEF Extracted

-----------------------------------------------------------------------------
(* Making an archive.                                                       *)

\* An extraction does not touch what is being archived.
LEMMA ZipAlone ==
  ASSUME [ArchiveNext]_archiveVars, op # "zip"
  PROVE  UNCHANGED <<seen, zip, existing, made>>
BY Zenon DEF ArchiveNext, Thread, FinishExtract, PassFolder, OpenArchive, ReadFails, CutShort,
     EndOfArchive, SkipEntry, ExtractDir, ExtractFile, AtEntry, Unlink, Create, CreateFails, Write,
     WriteFails, WriteWrong, Close, CloseFails, InFile, ZipOpen, ZipClose, ZipAdd,
     ZipAddUnreadable, ZipAddFails, ZipLeave, Cancel, extraction, zipping, archiveVars

\* The steps of the zip thread.
LEMMA ZipSteps ==
  ASSUME [ArchiveNext]_archiveVars, op = "zip"
  PROVE  \/ \E n \in Nodes : ZipAdd(n) \/ ZipAddUnreadable(n) \/ ZipAddFails(n)
         \/ \E b \in BOOLEAN : ZipOpen(b) \/ ZipClose(b)
         \/ ZipLeave \/ Cancel
         \/ UNCHANGED archiveVars
<1>1. ~FinishExtract /\ ~PassFolder /\ ~OpenArchive /\ ~ReadFails /\ ~CutShort /\ ~EndOfArchive
  BY DEF FinishExtract, PassFolder, OpenArchive, ReadFails, CutShort, EndOfArchive
<1>2. ~SkipEntry /\ ~ExtractDir /\ ~ExtractFile
  BY DEF SkipEntry, ExtractDir, ExtractFile, AtEntry
<1>3. /\ ~Unlink /\ ~Create /\ ~CreateFails /\ ~Write /\ ~WriteFails /\ ~WriteWrong
      /\ ~Close /\ ~CloseFails
  BY DEF Unlink, Create, CreateFails, Write, WriteFails, WriteWrong, Close, CloseFails, InFile
<1> QED BY <1>1, <1>2, <1>3, Zenon DEF ArchiveNext, Thread

\* What is under a file, and under a folder.
LEMMA LeafUnder == \A n \in Nodes \ Dirs : Under(n) = {n}
BY TreeAssumption DEF Under, Files

LEMMA UnderClosed ==
  /\ \A n \in Nodes : Under(n) \subseteq Nodes /\ n \in Under(n)
  /\ \A n \in Nodes : \A m \in Under(n) : Under(m) \subseteq Under(n)
BY TreeAssumption DEF Under

LEMMA BottomedStep ==
  ArchiveValues /\ Bottomed /\ [ArchiveNext]_archiveVars => Bottomed'
<1> SUFFICES ASSUME ArchiveValues, Bottomed, [ArchiveNext]_archiveVars PROVE Bottomed'
  OBVIOUS
<1> USE DEF extraction, zipping, archiveVars
<1>1. CASE UNCHANGED seen BY <1>1 DEF Bottomed
<1>2. ASSUME NEW n \in Nodes, seen' = seen \cup Under(n) PROVE Bottomed'
  BY <1>2, UnderClosed DEF Bottomed
<1>3. CASE ZipLeave
  <2>1. dir \in Nodes /\ seen' = seen \cup Under(dir)
    BY <1>3, TreeAssumption DEF ZipLeave, ArchiveValues
  <2> QED BY <1>2, <2>1
<1>4. CASE \E n \in Nodes : ZipAdd(n)
  <2>1. PICK n \in Nodes : ZipAdd(n) BY <1>4
  <2>2. UNCHANGED seen \/ (n \notin Dirs /\ seen' = seen \cup {n}) BY <2>1 DEF ZipAdd
  <2> QED BY <1>1, <1>2, <2>2, LeafUnder
<1>5. CASE \E n \in Nodes : ZipAddUnreadable(n)
  BY <1>2, <1>5, Zenon DEF ZipAddUnreadable
<1>6. CASE \E n \in Nodes : ZipAddFails(n)
  <2>1. PICK n \in Nodes : ZipAddFails(n) BY <1>6
  <2>2. TopOf(n) \in Nodes BY MarkedHolds DEF Tops
  <2> QED BY <1>2, <2>1, <2>2, Zenon DEF ZipAddFails
<1>7. CASE \E b \in BOOLEAN : ZipOpen(b) \/ ZipClose(b)
  BY <1>1, <1>7, Zenon DEF ZipOpen, ZipClose
<1>8. CASE Cancel \/ UNCHANGED archiveVars
  BY <1>1, <1>8, Zenon DEF Cancel
<1> QED BY <1>1, <1>3, <1>4, <1>5, <1>6, <1>7, <1>8, ZipAlone, ZipSteps

LEMMA ZippedStep ==
  ArchiveValues /\ Bottomed /\ Zipped /\ [ArchiveNext]_archiveVars => Zipped'
<1> SUFFICES ASSUME ArchiveValues, Bottomed, Zipped, [ArchiveNext]_archiveVars,
                    op' = "zip", ~told', ~poisoned'
             PROVE  /\ seen' \subseteq zip' \cup unseen'
                    /\ \A d \in Dirs : dir' \in Under(d) => d \in zip'
  BY Zenon DEF Zipped
<1> USE DEF extraction, zipping, archiveVars
<1>1. op = "zip" /\ ~told /\ ~poisoned BY NoWayBack
<1>2. seen \subseteq zip \cup unseen /\ \A d \in Dirs : dir \in Under(d) => d \in zip
  BY <1>1, Zenon DEF Zipped
<1>3. CASE UNCHANGED <<seen, zip, dir>> BY <1>2, <1>3, UnseenStays
<1>4. CASE ZipLeave
  <2>1. dir \in Dirs /\ seen' = seen \cup Under(dir) /\ dir' = Parent[dir] /\ zip' = zip
        /\ unseen' = unseen \cup UNION {Under(n) : n \in Todo}
    BY <1>4 DEF ZipLeave, ArchiveValues
  <2>2. dir \in zip BY <1>2, <2>1 DEF Under
  <2>3. \A d \in Dirs : Parent[dir] \in Under(d) => dir \in Under(d)
    BY <2>1, TreeAssumption DEF Under
  <2>4. ASSUME NEW n \in Below[dir] PROVE n \in seen \/ n \in unseen'
    <3>1. n \in Nodes BY <2>1, TreeAssumption
    <3>2. PICK c \in Nodes : Parent[c] = dir /\ n \in Under(c)
      BY <2>1, <2>4, <3>1, TreeAssumption DEF Under
    <3>3. CASE c \in seen BY <3>2, <3>3 DEF Bottomed
    <3>4. CASE c \notin seen
      <4>1. c \in Todo BY <3>2, <3>4 DEF Todo
      <4> QED BY <2>1, <3>2, <4>1
    <3> QED BY <3>3, <3>4
  <2>5. \A n \in Under(dir) : n = dir \/ n \in Below[dir] BY DEF Under
  <2>6. seen' \subseteq zip' \cup unseen' BY <1>2, <2>1, <2>2, <2>4, <2>5
  <2> QED BY <1>2, <2>1, <2>3, <2>6
<1>5. CASE \E n \in Nodes : ZipAdd(n)
  <2>1. PICK n \in Nodes : ZipAdd(n) BY <1>5
  <2>2. /\ zip' = zip \cup {n} /\ Parent[n] = dir
        /\ \/ n \in Dirs /\ dir' = n /\ seen' = seen
           \/ dir' = dir /\ seen' = seen \cup {n}
    BY <2>1 DEF ZipAdd, Todo
  <2>3. \A d \in Dirs : n \in Under(d) => d = n \/ dir \in Under(d)
    BY <2>2, TreeAssumption DEF Under
  <2> QED BY <1>2, <2>2, <2>3, UnseenStays
<1>6. CASE \E n \in Nodes : ZipAddUnreadable(n) \/ ZipAddFails(n)
  BY <1>6 DEF ZipAddUnreadable, ZipAddFails
<1>7. CASE \E b \in BOOLEAN : ZipOpen(b) \/ ZipClose(b)
  BY <1>3, <1>7, Zenon DEF ZipOpen, ZipClose
<1>8. CASE Cancel \/ UNCHANGED archiveVars BY <1>3, <1>8, Zenon DEF Cancel
<1> QED BY <1>1, <1>4, <1>5, <1>6, <1>7, <1>8, ZipSteps

LEMMA WrittenStep ==
  ArchiveValues /\ Written /\ [ArchiveNext]_archiveVars => Written'
<1> SUFFICES ASSUME ArchiveValues, Written, [ArchiveNext]_archiveVars,
                    op' = "zip", step' = "done", ~stop', ~told'
             PROVE  Tops \subseteq seen' /\ (Nodes \subseteq unseen' \/ (~poisoned' /\ made' = zip'))
  BY Zenon DEF Written
<1> USE DEF extraction, zipping, archiveVars
<1>1. op = "zip" /\ ~stop /\ ~told BY NoWayBack
<1>2. CASE \E b \in BOOLEAN : ZipClose(b)
  <2>1. /\ UNCHANGED <<zip, seen, poisoned>> /\ Todo = {} /\ dir = top
        /\ Nodes \subseteq unseen' \/ (~poisoned /\ made' = zip)
    BY <1>1, <1>2 DEF ZipClose
  <2>2. Tops \subseteq seen BY <2>1 DEF Todo, Tops
  <2> QED BY <2>1, <2>2
<1>3. CASE \E b \in BOOLEAN : ZipOpen(b) BY <1>3 DEF ZipOpen
<1>4. CASE \E n \in Nodes : ZipAdd(n) \/ ZipAddUnreadable(n) \/ ZipAddFails(n)
  BY <1>4 DEF ZipAdd, ZipAddUnreadable, ZipAddFails
<1>5. CASE ZipLeave BY <1>5 DEF ZipLeave
<1>6. CASE Cancel BY <1>6 DEF Cancel
<1>7. CASE UNCHANGED archiveVars BY <1>1, <1>7, Zenon DEF Written
<1> QED BY <1>1, <1>2, <1>3, <1>4, <1>5, <1>6, <1>7, ZipSteps

LEMMA ExistingStep ==
  /\ existing \subseteq zip /\ existing \subseteq made /\ [ArchiveNext]_archiveVars
  => existing' \subseteq zip' /\ existing' \subseteq made'
<1> SUFFICES ASSUME existing \subseteq zip, existing \subseteq made, [ArchiveNext]_archiveVars
             PROVE  existing' \subseteq zip' /\ existing' \subseteq made'
  OBVIOUS
<1>1. existing' = existing BY NoWayBack
<1>2. zip \subseteq zip' /\ (made' = made \/ made' = zip)
  <2> USE DEF extraction, zipping, archiveVars
  <2>1. CASE op # "zip" BY <2>1, ZipAlone
  <2>2. CASE op = "zip"
    BY <2>2, ZipSteps DEF ZipAdd, ZipAddUnreadable, ZipAddFails, ZipOpen, ZipClose, ZipLeave, Cancel
  <2> QED BY <2>1, <2>2
<1> QED BY <1>1, <1>2

\* At the end every node is done with.
LEMMA ZippedEnd ==
  ASSUME ArchiveValues, Bottomed, Zipped, Written, existing \subseteq zip, existing \subseteq made
  PROVE  ZippedOrTold
<1> SUFFICES ASSUME op = "zip", step = "done", ~stop, ~told
             PROVE  existing \cup (Nodes \ unseen) \subseteq made
  BY Zenon DEF ZippedOrTold
<1>1. Tops \subseteq seen /\ (Nodes \subseteq unseen \/ (~poisoned /\ made = zip))
  BY Zenon DEF Written
<1>2. CASE Nodes \subseteq unseen BY <1>2
<1>3. CASE ~poisoned /\ made = zip
  <2>1. seen \subseteq zip \cup unseen BY <1>3, Zenon DEF Zipped
  <2>2. \A n \in Nodes : n \in seen BY <1>1, TreeAssumption DEF Bottomed, Under
  <2> QED BY <1>3, <2>1, <2>2
<1> QED BY <1>1, <1>2, <1>3

-----------------------------------------------------------------------------
LEMMA ArchiveInitially == ArchiveInit => ArchiveInvariant
<1> SUFFICES ASSUME ArchiveInit PROVE ArchiveInvariant
  OBVIOUS
<1>1. ArchiveFlags BY DEF ArchiveInit, ArchiveFlags
<1>2. ArchiveValues /\ seen = {} /\ dir = top /\ zip = existing /\ step = "open" /\ disk = start
      /\ arc = 1 /\ pos = 1 /\ op \in {"extract", "zip"} /\ unseen = {} /\ made = existing
  <2>1. \A d \in [Names -> IF op = "zip" THEN {"none"} ELSE {"none", "dir", "old"}] :
          d \in [Names -> {"none", "dir", "old", "part"} \cup Entries]
    OBVIOUS
  <2> QED BY <2>1, ArchiveAssumption DEF ArchiveInit, ArchiveValues, Tops
<1>3. ArchiveTypes BY <1>1, <1>2, ArchiveTypesParts
<1>4. Placed BY <1>2 DEF Placed
<1>5. Extracted BY <1>2, InListing DEF Extracted, Passed, Behind
<1>6. LostIsTold BY <1>2 DEF LostIsTold
<1>7. Bottomed /\ Zipped /\ Written
  <2>1. \A d \in Dirs : top \notin Under(d) BY TreeAssumption DEF Under
  <2> QED BY <1>2, <2>1 DEF Bottomed, Zipped, Written
<1> QED BY <1>2, <1>3, <1>4, <1>5, <1>6, <1>7 DEF ArchiveInvariant

LEMMA ArchiveInvariantStep ==
  ArchiveInvariant /\ [ArchiveNext]_archiveVars => ArchiveInvariant'
BY ArchiveTypesParts, ArchiveTypesPrimed, ArchiveFlagsStep, ArchiveValuesStep, PlacedStep,
   ExtractedStep, LostIsToldStep, ExistingStep, BottomedStep, ZippedStep, WrittenStep, Zenon
   DEF ArchiveInvariant

\* The invariant holds in every state.
THEOREM ArchiveInvariance == ArchiveSpec => []ArchiveInvariant
BY ArchiveInitially, ArchiveInvariantStep, PTL DEF ArchiveSpec

\* ExtractZipThread, ExtractRemoteZipThread, ZipUtil::Extract: whatever archives are marked and
\* whatever fails, an empty status line at the end says that every file is in its place, but for
\* exactly those that a Size, a GetRange or a close nobody looks at cost.
THEOREM ExtractedOrToldHolds == ArchiveSpec => []ExtractedOrTold
<1>1. ArchiveInvariant => ExtractedOrTold
  BY ExtractedEnd, ArchiveTypesParts, Zenon DEF ArchiveInvariant
<1> QED BY <1>1, ArchiveInvariance, PTL

\* extract_file, which asks nobody: at any moment a file that was there and is gone, or is half
\* of another, is the one whose replacement the thread is writing, or is told of, but for a link
\* of its name and a failure nobody looks at that hit its own replacement.
THEOREM LostIsToldHolds == ArchiveSpec => []LostIsTold
<1>1. ArchiveInvariant => LostIsTold
  BY Zenon DEF ArchiveInvariant
<1> QED BY <1>1, ArchiveInvariance, PTL

\* MakeZipThread, ZipAddPath: for every tree, an archive that is not told to be incomplete holds
\* all that was marked and all below it, but for what a failing readdir hid, and for all of it
\* when zip_close failed; what it held before it still holds.
THEOREM ZippedOrToldHolds == ArchiveSpec => []ZippedOrTold
<1>1. ArchiveInvariant => ZippedOrTold
  BY ZippedEnd, ArchiveTypesParts, Zenon DEF ArchiveInvariant
<1> QED BY <1>1, ArchiveInvariance, PTL
=============================================================================
