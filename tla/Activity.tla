------------------------------ MODULE Activity ------------------------------
(***************************************************************************)
(* The activity protocol of the client: the GUI thread draws frames         *)
(* (gui.cpp RenderLoop), and every long operation (upload, download, paste, *)
(* install, delete, archive work) runs on a background thread that          *)
(* ExecuteActions starts.  The two sides talk through plain global          *)
(* variables, with no lock, no join and no condition variable.              *)
(*                                                                          *)
(* A frame visits its phases in the order of MainWindow and ExecuteActions: *)
(*   input -> progress [-> modal] -> menu -> confirm [-> yes | no] ->       *)
(*   overwrite -> execute [-> handled | launched] -> the next frame, or ime. *)
(* A background thread moves through pc (see the thread section).  Nothing   *)
(* keeps either side from being suspended between any two accesses to what   *)
(* they share, so every such access is a step of its own and all the steps   *)
(* interleave freely.                                                        *)
(*                                                                          *)
(* Abstracted: file lists are the number of files still to do; a name is    *)
(* whether it exists at the destination (clash); INSTALL_LOCAL_PKG and      *)
(* INSTALL_URL_PKG are left out, as no widget of this version selects them. *)
(***************************************************************************)
EXTENDS Naturals, FiniteSets

CONSTANTS
  Threads,    \* background threads that may be alive at once
  MaxFiles,   \* bound: files one activity works on
  Offered,    \* bound: the actions the user picks from the menu
  Rules       \* bound: the overwrite options the user chooses

\* ACTIONS of windows.h that start a background thread, by the shape of their
\* ExecuteActions case.
Transfers == {"UPLOAD", "DOWNLOAD"}
Pastes    == {"LOCAL_PASTE", "REMOTE_PASTE"}
Guarded   == Transfers \cup Pastes           \* wait for the overwrite options
Installs  == {"INSTALL_REMOTE_PKG"}
Deletes   == {"DELETE_LOCAL", "DELETE_REMOTE"}
Archives  == {"EXTRACT_LOCAL_ZIP", "EXTRACT_REMOTE_ZIP", "CREATE_LOCAL_ZIP"}
Kinds     == Guarded \cup Installs \cup Deletes \cup Archives

ASSUME ActivityAssumption ==
  /\ Threads # {}
  /\ MaxFiles \in Nat \ {0}
  /\ Threads \cap {"none", "delete"} = {}
  /\ Offered \subseteq Kinds
  /\ Rules \subseteq {"skip", "ask", "replace"}

\* REFRESH stands for every action whose handler finishes in the frame and then
\* resets selected_action, the two that the threads request included.
Actions == Kinds \cup {"NONE", "REFRESH", "EXIT"}

VARIABLES
  frame,                  \* phase of the GUI thread's frame
  popup,                  \* the modal popup on screen
  ime,                    \* the archive action waiting for the on-screen keyboard
  selected_action, action_to_take,
  activity_inprogess, stop_activity,
  paused,                 \* SetModalMode's flag
  confirm_state, confirm_message,
  confirm_transfer_state, overwrite_type, dont_prompt_overwrite,
  pc, act, left,          \* per thread: position, its action, files to do
  clash, rule,            \* per thread: the file exists; the rule it read
  agreed,                 \* ghost: the questions answered Yes
  races,                  \* ghost: how a second activity could have been asked for
  late                    \* ghost: input was blocked for an activity that was over

guiVars     == <<frame, popup, ime>>
confirmVars == <<confirm_state, confirm_message, action_to_take>>
optionVars  == <<confirm_transfer_state, overwrite_type, dont_prompt_overwrite>>
threadVars  == <<pc, act, left, clash, rule>>
ghosts      == <<agreed, races, late>>
vars == <<guiVars, selected_action, activity_inprogess, stop_activity, paused,
          confirmVars, optionVars, threadVars, ghosts>>

\* A thread is at work until it takes its own flag down; after that it only
\* unblocks the input and asks for a refresh (DELETE_REMOTE asks before).
AtWork(w) == \/ pc[w] \notin {"idle", "modal", "refresh"}
             \/ pc[w] = "refresh" /\ act[w] = "DELETE_REMOTE"

Init ==
  /\ frame = "input" /\ popup = "none" /\ ime = "NONE"
  /\ selected_action = "NONE" /\ action_to_take = "NONE"
  /\ activity_inprogess = FALSE /\ stop_activity = FALSE /\ paused = FALSE
  /\ confirm_state = "none" /\ confirm_message = "none"
  /\ confirm_transfer_state = "idle"
  /\ overwrite_type = "ask" /\ dont_prompt_overwrite = FALSE
  /\ pc = [w \in Threads |-> "idle"]
  /\ act = [w \in Threads |-> "NONE"]
  /\ left = [w \in Threads |-> 0]
  /\ clash = [w \in Threads |-> FALSE]
  /\ rule = [w \in Threads |-> "ask"]
  /\ agreed = {} /\ races = {} /\ late = FALSE

-----------------------------------------------------------------------------
(* The GUI thread: one frame.                                              *)

\* A popup that is no longer submitted is gone from the screen.
Closed(p) == IF popup = p THEN "none" ELSE popup

\* HandleWindowInput and the panels' buttons: Start needs ~paused, the buttons
\* and file lists need only that no modal popup covers them.
Input ==
  /\ frame = "input"
  /\ \/ UNCHANGED selected_action
     \/ ~paused /\ selected_action' = "EXIT"
     \/ popup = "none" /\ selected_action' = "REFRESH"
  /\ frame' = "progress"
  /\ UNCHANGED <<popup, ime, activity_inprogess, stop_activity, paused,
                 confirmVars, optionVars, threadVars, agreed>>

\* ShowProgressDialog, its test ...
TestProgress ==
  /\ frame = "progress"
  /\ IF activity_inprogess
       THEN frame' = "modal" /\ UNCHANGED popup
       ELSE frame' = "menu" /\ popup' = Closed("progress")
  /\ UNCHANGED <<ime, selected_action, activity_inprogess, stop_activity, paused,
                 confirmVars, optionVars, threadVars, agreed>>

\* Mutant: the flag follows the button, so a frame without a press takes Cancel back.
ShowProgressForgets ==
  /\ frame = "modal"
  /\ frame' = "menu" /\ popup' = "progress"
  /\ \/ paused' = TRUE /\ stop_activity' = FALSE
     \/ popup = "progress" /\ paused' = FALSE /\ stop_activity' = TRUE
  /\ UNCHANGED <<ime, selected_action, activity_inprogess,
                 confirmVars, optionVars, threadVars, agreed>>

\* ... and its body: modal mode on, and perhaps the Cancel button.
ShowProgress ==
  /\ frame = "modal"
  /\ frame' = "menu" /\ popup' = "progress"
  /\ \/ paused' = TRUE /\ UNCHANGED stop_activity
     \/ popup = "progress" /\ paused' = FALSE /\ stop_activity' = TRUE
  /\ UNCHANGED <<ime, selected_action, activity_inprogess,
                 confirmVars, optionVars, threadVars, agreed>>

\* ShowActionsDialog, the menu: Triangle opens it over the file lists.
OpenMenu ==
  /\ ~paused /\ popup = "none"
  /\ paused' = TRUE /\ popup' = "actions"
  /\ UNCHANGED <<ime, selected_action, confirmVars, confirm_transfer_state, agreed>>

LeaveMenu(action) ==
  /\ popup = "actions"
  /\ popup' = "none" /\ paused' = FALSE
  /\ selected_action' = action

PickGuarded ==
  /\ \E k \in Guarded \cap Offered : LeaveMenu(k)
  /\ confirm_transfer_state' = "asking"
  /\ UNCHANGED <<ime, confirmVars, agreed>>

PickDirect ==
  /\ \E a \in (Installs \cap Offered) \cup {"REFRESH", selected_action} : LeaveMenu(a)
  /\ UNCHANGED <<ime, confirmVars, confirm_transfer_state, agreed>>

PickArchive ==
  /\ LeaveMenu(selected_action)
  /\ ime' \in Archives \cap Offered
  /\ UNCHANGED <<confirmVars, confirm_transfer_state, agreed>>

\* Delete asks first: the menu stays until the Confirm popup replaces it.
PickDelete ==
  /\ popup = "actions"
  /\ confirm_state' = "wait" /\ confirm_message' = "delete"
  /\ action_to_take' \in Deletes \cap Offered
  /\ agreed' = agreed \ {"delete"}
  /\ UNCHANGED <<popup, ime, paused, selected_action, confirm_transfer_state>>

Menu ==
  /\ frame = "menu"
  /\ \/ OpenMenu \/ PickGuarded \/ PickDirect \/ PickArchive \/ PickDelete
     \/ UNCHANGED <<popup, ime, paused, selected_action, confirmVars,
                    confirm_transfer_state, agreed>>
  /\ frame' = "confirm"
  /\ UNCHANGED <<activity_inprogess, stop_activity, overwrite_type,
                 dont_prompt_overwrite, threadVars>>

\* ShowActionsDialog, the Confirm popup: it can be answered from the frame after
\* the one that opened it ...
Confirm ==
  /\ frame = "confirm"
  /\ \/ /\ popup' = IF confirm_state = "wait" THEN "confirm" ELSE Closed("confirm")
        /\ frame' = "overwrite" /\ UNCHANGED <<confirm_state, agreed>>
     \/ /\ confirm_state = "wait" /\ popup = "confirm" /\ popup' = "none"
        /\ \/ /\ confirm_state' = "yes" /\ frame' = "yes"
              /\ agreed' = agreed \cup ({confirm_message} \ {"none"})
           \/ /\ confirm_state' = "no" /\ frame' = "no"
              /\ UNCHANGED agreed
  /\ UNCHANGED <<ime, selected_action, paused, confirm_message, action_to_take,
                 activity_inprogess, stop_activity, optionVars, threadVars>>

\* Mutant: No restores action_to_take like Yes does.
AnswerConfirmAlways ==
  /\ frame \in {"yes", "no"}
  /\ selected_action' = action_to_take /\ paused' = FALSE
  /\ frame' = "overwrite"
  /\ UNCHANGED <<popup, ime, confirmVars, activity_inprogess, stop_activity,
                 optionVars, threadVars, agreed>>

\* ... and what follows its confirm_state = ..., which a waiting thread may see first.
AnswerConfirm ==
  /\ frame \in {"yes", "no"}
  /\ selected_action' = IF frame = "yes" THEN action_to_take ELSE "NONE"
  /\ paused' = FALSE
  /\ frame' = "overwrite"
  /\ UNCHANGED <<popup, ime, confirmVars, activity_inprogess, stop_activity,
                 optionVars, threadVars, agreed>>

\* The Overwrite Options popup.  The radio buttons write overwrite_type at once,
\* so Cancel keeps the choice; Circle cancels from the first frame on.
AnswerOverwrite(go) ==
  /\ go => popup = "overwrite"
  /\ popup' = "none"
  /\ confirm_transfer_state' = IF go THEN "go" ELSE "cancelled"
  /\ selected_action' = IF go THEN selected_action ELSE "NONE"
  /\ overwrite_type' \in Rules \cup {overwrite_type}
  /\ dont_prompt_overwrite' \in IF go THEN BOOLEAN ELSE {dont_prompt_overwrite}

Overwrite ==
  /\ frame = "overwrite"
  /\ \/ /\ popup' = IF confirm_transfer_state = "asking" THEN "overwrite"
                                                         ELSE Closed("overwrite")
        /\ UNCHANGED <<selected_action, optionVars>>
     \/ confirm_transfer_state = "asking" /\ \E go \in BOOLEAN : AnswerOverwrite(go)
  /\ frame' = "execute"
  /\ UNCHANGED <<ime, confirmVars, activity_inprogess, stop_activity, paused,
                 threadVars, agreed>>

\* RenderLoop picks the next frame by gui_mode.
NextFrame == IF ime = "NONE" THEN "input" ELSE "ime"

\* pthread_create for action k, with selected_action = a at that moment: a thread
\* starts, or the caller's error branch undoes the flags.
Start(k, a) ==
  /\ stop_activity' = FALSE
  /\ \/ \E w \in Threads, n \in 0..MaxFiles :
          /\ pc[w] = "idle"
          /\ pc' = [pc EXCEPT ![w] = IF k \in Installs \cup {"DELETE_REMOTE"}
                                       THEN "check" ELSE "file"]
          /\ act' = [act EXCEPT ![w] = k]
          /\ left' = [left EXCEPT ![w] = n]
          /\ agreed' = IF k \in Deletes THEN agreed \ {"delete"} ELSE agreed
          /\ activity_inprogess' = TRUE /\ selected_action' = a
          /\ UNCHANGED <<paused, clash, rule>>
     \/ /\ activity_inprogess' = FALSE /\ paused' = FALSE
        /\ selected_action' = IF k \in Transfers \cup {"DELETE_LOCAL"}
                                THEN "REFRESH" ELSE a
        /\ UNCHANGED <<threadVars, agreed>>

\* Mutant: the case never clears selected_action.
LaunchAgain ==
  /\ selected_action \in Deletes \cup Archives
  /\ Start(selected_action, selected_action)
  /\ frame' = NextFrame
  /\ UNCHANGED confirm_transfer_state

\* The cases of ExecuteActions that clear selected_action before the thread
\* starts.
LaunchCleared ==
  /\ selected_action \in Deletes \cup Archives
  /\ Start(selected_action, "NONE")
  /\ frame' = NextFrame
  /\ UNCHANGED confirm_transfer_state

\* The cases that clear it after: the thread may already run.
LaunchUncleared ==
  /\ \/ selected_action \in Installs /\ UNCHANGED confirm_transfer_state
     \/ /\ selected_action \in Guarded
        /\ dont_prompt_overwrite \/ confirm_transfer_state = "go"
        /\ IF selected_action \in Pastes THEN confirm_transfer_state' = "idle"
                                         ELSE UNCHANGED confirm_transfer_state
  /\ Start(selected_action, selected_action)
  /\ frame' = IF selected_action \in Transfers THEN "launched" ELSE "handled"

\* A paste whose clipboard was filled by the other panel does nothing.
PasteNothing ==
  /\ selected_action \in Pastes
  /\ dont_prompt_overwrite \/ confirm_transfer_state = "go"
  /\ confirm_transfer_state' = "idle"
  /\ activity_inprogess' = FALSE /\ stop_activity' = FALSE
  /\ selected_action' = "NONE"
  /\ frame' = NextFrame
  /\ UNCHANGED <<paused, threadVars, agreed>>

\* No case applies, or a transfer still waits for its options.
ExecuteNothing ==
  /\ \/ selected_action = "NONE"
     \/ /\ selected_action \in Guarded
        /\ ~dont_prompt_overwrite /\ confirm_transfer_state # "go"
  /\ frame' = NextFrame
  /\ UNCHANGED <<selected_action, activity_inprogess, stop_activity, paused,
                 confirm_transfer_state, threadVars, agreed>>

\* A handler that runs inside the frame, and the end of the program.
ExecuteInFrame ==
  /\ \/ selected_action = "REFRESH" /\ frame' = "handled"
     \/ selected_action = "EXIT" /\ frame' = "exit"
  /\ UNCHANGED <<selected_action, activity_inprogess, stop_activity, paused,
                 confirm_transfer_state, threadVars, agreed>>

ExecuteActions ==
  /\ frame = "execute"
  /\ \/ LaunchCleared \/ LaunchUncleared \/ PasteNothing
     \/ ExecuteNothing \/ ExecuteInFrame
  /\ UNCHANGED <<popup, ime, confirmVars, overwrite_type, dont_prompt_overwrite>>

\* "selected_action = ACTION_NONE", the last statement of those cases.
ClearAction ==
  /\ frame \in {"handled", "launched"}
  /\ selected_action' = "NONE"
  /\ confirm_transfer_state' = IF frame = "launched" THEN "idle"
                                                     ELSE confirm_transfer_state
  /\ frame' = NextFrame
  /\ UNCHANGED <<popup, ime, activity_inprogess, stop_activity, paused, confirmVars,
                 overwrite_type, dont_prompt_overwrite, threadVars, agreed>>

\* HandleImeInput when the keyboard closes: entered text runs the action.
ImeClosed ==
  /\ frame = "ime"
  /\ selected_action' \in {ime, selected_action}
  /\ ime' = "NONE" /\ frame' = "input"
  /\ UNCHANGED <<popup, activity_inprogess, stop_activity, paused, confirmVars,
                 optionVars, threadVars, agreed>>

\* The modal mode that no thread is left to end.
Unowned == \A w \in Threads : ~AtWork(w) /\ pc[w] # "modal"

\* What the ghosts see of a step: the actions menu opened while a thread is at work
\* and no question stands, a launched action saved as the one to go back to, and the
\* modal mode switched on for an activity that is over.
Watched ==
  /\ races' = races
       \cup {r \in {"menu"} : /\ popup # "actions" /\ popup' = "actions"
                              /\ confirm_state # "wait"
                              /\ \E w \in Threads : AtWork(w)}
       \cup {r \in {"saved"} : /\ \E w \in Threads : pc[w] = "ask2" /\ pc'[w] = "ask3"
                               /\ selected_action \in Kinds}
  /\ late' = (paused' /\ (late \/ (frame = "modal" /\ frame' = "menu" /\ Unowned)))

GuiStep ==
  /\ \/ Input \/ TestProgress \/ ShowProgress \/ Menu \/ Confirm \/ AnswerConfirm
     \/ Overwrite \/ ExecuteActions \/ ClearAction \/ ImeClosed
  /\ Watched

-----------------------------------------------------------------------------
(* A background thread:                                                    *)
(*   [check ->] file -> [ask -> ask2 -> ask3 -> poll -> resume -> resume2 ->] *)
(*   decide -> put -> file ... -> flag -> modal [-> refresh] -> idle, or     *)
(*   file -> work -> file for the actions that never ask per file.           *)

Goto(w, l) == pc' = [pc EXCEPT ![w] = l]

\* Where an activity goes when its loop is over: DELETE_REMOTE requests its
\* refresh before it clears the flags, the others after.
Finish(w) == Goto(w, IF act[w] = "DELETE_REMOTE" THEN "refresh" ELSE "flag")

\* Ping before a remote delete; for an install with background download enabled,
\* canInstallRemotePkg, which otherwise asks whether to download instead.
Check(w) ==
  /\ pc[w] = "check"
  /\ Goto(w, "file") \/ Goto(w, IF act[w] \in Installs THEN "ask" ELSE "flag")
  /\ UNCHANGED <<act, left, clash, rule, selected_action, activity_inprogess, paused,
                 confirmVars, agreed>>

\* The loop is over: no file left, or Cancel was pressed.
NoMoreFiles(w) ==
  /\ pc[w] = "file"
  /\ left[w] = 0 \/ stop_activity
  /\ Finish(w)
  /\ UNCHANGED <<act, left, clash, rule, selected_action, activity_inprogess, paused,
                 confirmVars, agreed>>

\* One more file of an action that asks nothing; a remote delete of plain files
\* does not look at stop_activity.
NextWork(w) ==
  /\ pc[w] = "file" /\ left[w] > 0 /\ act[w] \notin Guarded
  /\ ~stop_activity \/ act[w] = "DELETE_REMOTE"
  /\ Goto(w, "work")
  /\ UNCHANGED <<act, left, clash, rule, selected_action, activity_inprogess, paused,
                 confirmVars, agreed>>

\* UploadFile, DownloadFile, CopyOrMoveLocalFile, CopyOrMoveRemoteFile up to the
\* decision: does the destination exist, and what does overwrite_type say?
Probe(w) ==
  /\ pc[w] = "file" /\ left[w] > 0 /\ act[w] \in Guarded /\ ~stop_activity
  /\ \E exists \in BOOLEAN :
       /\ clash' = [clash EXCEPT ![w] = exists]
       /\ rule' = [rule EXCEPT ![w] = overwrite_type]
       /\ IF exists /\ overwrite_type = "ask"
            THEN Goto(w, "ask") /\ UNCHANGED confirm_state
            ELSE /\ Goto(w, "decide")
                 /\ confirm_state' = IF exists /\ overwrite_type = "skip"
                                       THEN "no" ELSE "yes"
  /\ UNCHANGED <<act, left, selected_action, activity_inprogess, paused,
                 confirm_message, action_to_take, agreed>>

\* Ping or Size failed: the file is given up, with the rest of its directory.
ProbeFailed(w) ==
  /\ pc[w] = "file" /\ left[w] > 0 /\ act[w] \in Transfers /\ ~stop_activity
  /\ \E n \in 0..(left[w] - 1) : left' = [left EXCEPT ![w] = n]
  /\ UNCHANGED <<pc, act, clash, rule, selected_action, activity_inprogess, paused,
                 confirmVars, agreed>>

\* Mutant: the question is put without CONFIRM_WAIT, so an old answer counts.
AskNoWait(w) ==
  /\ pc[w] = "ask" /\ Goto(w, "ask2")
  /\ confirm_message' = IF act[w] \in Installs THEN confirm_message ELSE w
  /\ agreed' = agreed \ {w}
  /\ UNCHANGED <<act, left, clash, rule, selected_action, activity_inprogess, paused,
                 action_to_take, confirm_state>>

\* Mutant: a message that is there already is kept.
AskAgain(w) ==
  /\ pc[w] = "ask" /\ Goto(w, "ask2")
  /\ confirm_state' = "wait"
  /\ confirm_message' = IF act[w] \in Installs \/ confirm_message # "none"
                          THEN confirm_message ELSE w
  /\ agreed' = agreed \ {w}
  /\ UNCHANGED <<act, left, clash, rule, selected_action, activity_inprogess, paused,
                 action_to_take>>

\* The question: the message (an install writes none), then three flags ...
Ask(w) ==
  /\ pc[w] = "ask" /\ Goto(w, "ask2")
  /\ confirm_state' = "wait"
  /\ confirm_message' = IF act[w] \in Installs THEN confirm_message ELSE w
  /\ agreed' = agreed \ {w}
  /\ UNCHANGED <<act, left, clash, rule, selected_action, activity_inprogess, paused,
                 action_to_take>>

AskSave(w) ==
  /\ pc[w] = "ask2" /\ Goto(w, "ask3")
  /\ action_to_take' = selected_action
  /\ UNCHANGED <<act, left, clash, rule, selected_action, activity_inprogess, paused,
                 confirm_state, confirm_message, agreed>>

AskHide(w) ==
  /\ pc[w] = "ask3" /\ Goto(w, "poll")
  /\ activity_inprogess' = FALSE
  /\ UNCHANGED <<act, left, clash, rule, selected_action, paused, confirmVars, agreed>>

\* Mutant: only Yes ends the wait.
PollYes(w) ==
  /\ pc[w] = "poll" /\ confirm_state = "yes" /\ Goto(w, "resume")
  /\ UNCHANGED <<act, left, clash, rule, selected_action, activity_inprogess, paused,
                 confirmVars, agreed>>

\* ... the loop around sysUsleep(100000), and the flags back.
Poll(w) ==
  /\ pc[w] = "poll" /\ confirm_state # "wait" /\ Goto(w, "resume")
  /\ UNCHANGED <<act, left, clash, rule, selected_action, activity_inprogess, paused,
                 confirmVars, agreed>>

\* Mutant: the activity goes on without taking its flag back.
ResumeHidden(w) ==
  /\ pc[w] = "resume" /\ Goto(w, "resume2")
  /\ UNCHANGED <<act, left, clash, rule, selected_action, activity_inprogess, paused,
                 confirmVars, agreed>>

Resume(w) ==
  /\ pc[w] = "resume" /\ Goto(w, "resume2")
  /\ activity_inprogess' = TRUE
  /\ UNCHANGED <<act, left, clash, rule, selected_action, paused, confirmVars, agreed>>

ResumeAction(w) ==
  /\ pc[w] = "resume2" /\ Goto(w, "decide")
  /\ selected_action' = action_to_take
  /\ UNCHANGED <<act, left, clash, rule, activity_inprogess, paused, confirmVars, agreed>>

\* What UploadFile and its likes knew of their file is gone when they return.
Return(w) ==
  /\ clash' = [clash EXCEPT ![w] = FALSE]
  /\ rule' = [rule EXCEPT ![w] = "ask"]
  /\ agreed' = agreed \ {w}

\* confirm_state == CONFIRM_YES goes on; else the file is skipped (an install ends).
Decide(w) ==
  /\ pc[w] = "decide"
  /\ \/ /\ act[w] \in Installs
        /\ Goto(w, IF confirm_state = "yes" THEN "file" ELSE "flag")
        /\ UNCHANGED <<left, clash, rule, agreed>>
     \/ /\ act[w] \notin Installs /\ confirm_state = "yes" /\ Goto(w, "put")
        /\ UNCHANGED <<left, clash, rule, agreed>>
     \/ /\ act[w] \notin Installs /\ confirm_state # "yes" /\ Goto(w, "file")
        /\ left' = [left EXCEPT ![w] = @ - 1] /\ Return(w)
  /\ UNCHANGED <<act, selected_action, activity_inprogess, paused, confirmVars>>

\* The transfer itself.  A failure drops the rest of the directory being walked.
Transfer(w) ==
  /\ pc[w] \in {"put", "work"} /\ Goto(w, "file")
  /\ \E n \in 0..(left[w] - 1) : left' = [left EXCEPT ![w] = n]
  /\ Return(w)
  /\ UNCHANGED <<act, selected_action, activity_inprogess, paused, confirmVars>>

Gone(w) ==
  /\ Goto(w, "idle")
  /\ act' = [act EXCEPT ![w] = "NONE"]
  /\ left' = [left EXCEPT ![w] = 0]
  /\ Return(w)

\* The last statements of every thread.
EndFlag(w) ==
  /\ pc[w] = "flag" /\ Goto(w, "modal")
  /\ activity_inprogess' = FALSE
  /\ UNCHANGED <<act, left, clash, rule, selected_action, paused, confirmVars, agreed>>

\* Mutant: a thread ends without SetModalMode(false).
EndModalKept(w) ==
  /\ pc[w] = "modal"
  /\ IF act[w] \in Installs \cup {"DELETE_REMOTE"}
       THEN Gone(w)
       ELSE Goto(w, "refresh") /\ UNCHANGED <<act, left, clash, rule, agreed>>
  /\ UNCHANGED <<selected_action, activity_inprogess, paused, confirmVars>>

EndModal(w) ==
  /\ pc[w] = "modal"
  /\ paused' = FALSE
  /\ IF act[w] \in Installs \cup {"DELETE_REMOTE"}
       THEN Gone(w)
       ELSE Goto(w, "refresh") /\ UNCHANGED <<act, left, clash, rule, agreed>>
  /\ UNCHANGED <<selected_action, activity_inprogess, confirmVars>>

EndRefresh(w) ==
  /\ pc[w] = "refresh"
  /\ selected_action' = "REFRESH"
  /\ IF act[w] = "DELETE_REMOTE"
       THEN Goto(w, "flag") /\ UNCHANGED <<act, left, clash, rule, agreed>>
       ELSE Gone(w)
  /\ UNCHANGED <<activity_inprogess, paused, confirmVars>>

ThreadStep(w) ==
  /\ frame # "exit"
  /\ \/ Check(w) \/ NoMoreFiles(w) \/ NextWork(w) \/ Probe(w) \/ ProbeFailed(w)
     \/ Ask(w) \/ AskSave(w) \/ AskHide(w)
     \/ Poll(w) \/ Resume(w) \/ ResumeAction(w) \/ Decide(w) \/ Transfer(w)
     \/ EndFlag(w) \/ EndModal(w) \/ EndRefresh(w)
  /\ UNCHANGED <<guiVars, stop_activity, optionVars>>
  /\ Watched

Next == GuiStep \/ \E w \in Threads : ThreadStep(w)

Spec == Init /\ [][Next]_vars

-----------------------------------------------------------------------------
(* Fairness: RenderLoop keeps drawing frames, the kernel schedules every    *)
(* thread, I/O returns, and a user who is asked something answers some day. *)
(* Threads and answers need strong fairness: what they need (a file to do,  *)
(* a popup on screen) comes and goes.                                       *)
Fairness ==
  /\ WF_vars(GuiStep)
  /\ \A w \in Threads : SF_vars(ThreadStep(w))
  /\ SF_vars(GuiStep /\ frame' \in {"yes", "no"})
  /\ SF_vars(GuiStep /\ confirm_transfer_state = "asking" /\ confirm_transfer_state' # "asking")

FairSpec == Spec /\ Fairness

-----------------------------------------------------------------------------
TypeOK ==
  /\ frame \in {"input", "progress", "modal", "menu", "confirm", "yes", "no",
                "overwrite", "execute", "handled", "launched", "ime", "exit"}
  /\ popup \in {"none", "actions", "confirm", "overwrite", "progress"}
  /\ ime \in Archives \cup {"NONE"}
  /\ selected_action \in Actions /\ action_to_take \in Actions
  /\ activity_inprogess \in BOOLEAN /\ stop_activity \in BOOLEAN /\ paused \in BOOLEAN
  /\ confirm_state \in {"none", "wait", "yes", "no"}
  /\ confirm_message \in Threads \cup {"none", "delete"}
  /\ confirm_transfer_state \in {"idle", "asking", "go", "cancelled"}
  /\ overwrite_type \in {"skip", "ask", "replace"}
  /\ dont_prompt_overwrite \in BOOLEAN
  /\ pc \in [Threads -> {"idle", "check", "file", "ask", "ask2", "ask3", "poll",
                        "resume", "resume2", "decide", "put", "work", "flag",
                        "modal", "refresh"}]
  /\ act \in [Threads -> Kinds \cup {"NONE"}]
  /\ left \in [Threads -> 0..MaxFiles]
  /\ clash \in [Threads -> BOOLEAN]
  /\ rule \in [Threads -> {"skip", "ask", "replace"}]
  /\ agreed \subseteq Threads \cup {"delete"}
  /\ races \subseteq {"menu", "saved"} /\ late \in BOOLEAN

Alive(w) == pc[w] # "idle"

\* The schedules in which neither a user opened the menu inside a waiting thread's
\* sleep nor a thread saved the action that had just launched it (Watched).
NoRace == races = {}

\* Only one background activity is at work at a time: the globals above, the remote
\* client and the file lists are all written as if this held.  The menu and the saved
\* action are the only two ways to a second one.
OneActivity ==
  NoRace => \A v, w \in Threads : AtWork(v) /\ AtWork(w) => v = w

\* A file that exists at the destination is replaced only under "replace all" or
\* after the user said Yes to the question about this very file.  Both races end this:
\* the answer meant for one thread is read by another.
OverwriteConsent ==
  NoRace =>
    \A w \in Threads : pc[w] = "put" /\ clash[w] =>
      \/ rule[w] = "replace"
      \/ rule[w] = "ask" /\ w \in agreed

\* A running activity that is not waiting for an answer shows its progress popup,
\* which holds the only Cancel button.  A second one would take the popup down.
Cancellable ==
  NoRace =>
    \A w \in Threads : pc[w] \in {"check", "file", "put", "work"} => activity_inprogess

\* Between frames, input is blocked only while a popup is up or a thread has yet to
\* unblock it; otherwise Start, Triangle, L1, L2 and R1 are dead.  The one exception is
\* the frame whose SetModalMode(true) comes after the thread's last SetModalMode(false).
PausedHasReason ==
  frame = "input" /\ paused => popup # "none" \/ ~Unowned \/ late

\* No thread deletes files unless the delete question was answered Yes since the
\* last delete began.  After a race it may: ResumeAction then executes the delete that
\* is still being asked about.
DeleteConsent ==
  [][\A w \in Threads : pc[w] = "idle" /\ pc'[w] # "idle" /\ act'[w] \in Deletes
                          => "delete" \in agreed \/ ~NoRace]_vars

\* A Cancel is not forgotten while the activity it was meant for is at work, unless
\* a race launched another one.
CancelSticks ==
  [][stop_activity /\ ~stop_activity' => (\A w \in Threads : ~AtWork(w)) \/ ~NoRace]_vars

\* Every question is the one its popup shows: the message on screen while a thread
\* waits is that thread's own.  The remote install writes none and shows what was
\* asked last; after a race the delete question may take a thread's place.
QuestionShown ==
  NoRace =>
    \A w \in Threads :
      pc[w] = "poll" /\ confirm_state = "wait" /\ act[w] \notin Installs
        => confirm_message = w

\* Every activity ends, once the user has answered its questions.
ActivityEnds == \A w \in Threads : Alive(w) ~> ~Alive(w) \/ frame = "exit"
=============================================================================
