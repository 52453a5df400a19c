---------------------------- MODULE ActivityInv ----------------------------
(***************************************************************************)
(* Why the unlocked flags suffice, and how far: the inductive invariant      *)
(* behind OneActivity and its companions, for every interleaving.  Unblocked *)
(* holds whatever happens; Handover and Consent hold until the first race    *)
(* (NoRace).  Each conjunct says what the code relies on at one handover.    *)
(***************************************************************************)
EXTENDS Activity

\* A file in hand is counted until the decision about it is taken.
FileInHand ==
  \A w \in Threads :
    pc[w] \in {"ask", "ask2", "ask3", "poll", "resume", "resume2", "decide"}
    /\ act[w] \notin Installs => left[w] > 0

Typed == TypeOK /\ FileInHand

Busy == \E w \in Threads : AtWork(w)

\* Between a case of ExecuteActions and its "selected_action = ACTION_NONE".
Clearing == frame \in {"handled", "launched"}

-----------------------------------------------------------------------------
(* Why the input does not stay blocked, whatever happens.                  *)

\* The flag of an activity does not outlive it.
FlagOwned == activity_inprogess => Busy

\* From the frame after the choice the overwrite options hide every other popup but
\* the progress.
OptionsDrawn ==
  confirm_transfer_state = "asking" =>
    /\ frame \notin {"menu", "confirm", "yes", "no", "overwrite"} => popup = "overwrite"
    /\ frame = "menu" => popup \in {"overwrite", "progress"}

\* Blocked input that no thread is left to end is a popup's, which ends it when
\* answered.
PausedShown ==
  paused /\ ~late /\ Unowned =>
    /\ confirm_transfer_state # "asking"
    /\ \/ popup = "actions"
       \/ popup = "confirm" /\ confirm_state = "wait"
       \/ frame \in {"yes", "no"}

Unblocked == FlagOwned /\ OptionsDrawn /\ PausedShown

-----------------------------------------------------------------------------
(* Who writes the shared variables, until the first race.                  *)

\* At most one activity is at work, and its flag is up but for AskHide to Resume.
FlagKept ==
  \A w \in Threads :
    AtWork(w) /\ pc[w] \notin {"poll", "resume"} => activity_inprogess

Alone == \A v, w \in Threads : AtWork(v) /\ AtWork(w) => v = w

\* Only transfers, pastes and installs ask; nobody transfers for the others.
AskersOnly ==
  \A w \in Threads :
    pc[w] \in {"ask", "ask2", "ask3", "poll", "resume", "resume2", "decide"}
      => act[w] \in Guarded \cup Installs

\* A thread waits exactly while its question stands, and a question stands
\* only for the thread that put it.
Waiting ==
  \A w \in Threads :
    /\ pc[w] \in {"ask2", "ask3"} => confirm_state = "wait"
    /\ AtWork(w) /\ confirm_state = "wait" => pc[w] \in {"ask2", "ask3", "poll"}

\* The Confirm popup stays only as long as its question, and can be answered only
\* when the thread that asked polls.
ConfirmStands ==
  popup = "confirm" =>
    /\ confirm_state = "wait"
    /\ frame \in {"menu", "confirm"} => \A w \in Threads : AtWork(w) => pc[w] = "poll"

\* No action waits to be executed while an activity is at work, and the answer to
\* its question brings none back; with no activity the question is a delete's.
NothingQueued ==
  /\ confirm_state = "wait" /\ ~Busy => action_to_take \in Deletes
  /\ Busy /\ ~Clearing => selected_action \notin Kinds
  /\ \A w \in Threads : pc[w] \in {"ask3", "poll", "resume", "resume2"}
                          => action_to_take \notin Kinds

\* What a Yes is about to bring back, and that the popup is gone by then.
Answered ==
  /\ frame \in {"yes", "no"} => popup = "none"
  /\ frame = "yes" /\ action_to_take \in Kinds =>
       action_to_take \in Deletes /\ ~Busy /\ confirm_state # "wait"

\* An action waits to be executed only while no activity runs or asks.
QueuedAlone ==
  selected_action \in Kinds /\ ~Clearing => confirm_state # "wait"

\* Where in the frame each kind of action may be waiting.
QueuedWhere ==
  /\ selected_action \in Guarded /\ ~Clearing
       => \/ /\ confirm_transfer_state = "asking"
             /\ (frame \notin {"confirm", "overwrite"} => popup = "overwrite")
          \/ frame = "execute" /\ confirm_transfer_state = "go"
  /\ selected_action \in Installs \cup Deletes
       => frame \in {"confirm", "overwrite", "execute", "handled"}
  /\ frame = "modal" => selected_action \notin Kinds

\* The actions menu is not on screen when an action waits to be executed.
MenuWhenQueued ==
  popup = "actions" /\ selected_action \in Kinds
    => selected_action \in Archives /\ frame \in {"confirm", "overwrite", "execute"}

\* The actions menu is not on screen when a question waits to be answered, nor
\* when an activity is at work, once the frame has drawn the popup that hides it.
MenuHidden ==
  popup = "actions" =>
    /\ confirm_state = "wait" => frame = "confirm"
    /\ Busy => \/ frame = "confirm" /\ confirm_state = "wait"
               \/ /\ frame \in {"input", "progress", "modal"}
                  /\ \A w \in Threads : AtWork(w) => act[w] \in Archives

\* The keyboard opens only when nothing else goes on.
KeyboardAlone ==
  ime # "NONE" =>
    /\ ~Busy /\ confirm_state # "wait" /\ popup # "actions" /\ selected_action \notin Kinds
    /\ frame \in {"confirm", "overwrite", "execute", "handled", "ime", "exit"}

Handover ==
  /\ Alone /\ FlagKept /\ AskersOnly /\ Waiting /\ ConfirmStands
  /\ NothingQueued /\ Answered /\ QueuedAlone /\ QueuedWhere
  /\ MenuWhenQueued /\ MenuHidden /\ KeyboardAlone

-----------------------------------------------------------------------------
(* What the answers mean, until the first race.                            *)

\* The question on screen is the thread's own, or, with no thread, the delete one.
Question ==
  /\ confirm_state = "wait" /\ ~Busy => confirm_message = "delete"
  /\ \A w \in Threads : pc[w] \in {"ask2", "ask3", "poll"} /\ confirm_state = "wait"
                          /\ act[w] \in Guarded => confirm_message = w

\* A delete that waits to be executed was agreed to.
DeleteAgreed ==
  /\ selected_action \in Deletes /\ ~Clearing => "delete" \in agreed
  /\ frame = "yes" /\ action_to_take \in Deletes => "delete" \in agreed

\* From the question to the file: a clash goes on under the rule that was read, and a
\* Yes to a thread's question is recorded.
Agreed ==
  \A w \in Threads : act[w] \in Guarded =>
    /\ pc[w] \in {"ask", "ask2", "ask3", "poll", "resume", "resume2"}
         => rule[w] = "ask"
    /\ pc[w] \in {"poll", "resume", "resume2"} /\ confirm_state = "yes" => w \in agreed
    /\ pc[w] = "decide" /\ clash[w] /\ confirm_state = "yes"
         => rule[w] = "replace" \/ (rule[w] = "ask" /\ w \in agreed)

Consent == Question /\ DeleteAgreed /\ Agreed /\ OverwriteConsent

-----------------------------------------------------------------------------
\* The inductive invariant: until the first race each variable that the GUI and the
\* threads share is written by one side at a time.
Inv == Typed /\ Unblocked /\ (NoRace => Handover /\ Consent)
=============================================================================
