----------------------------- MODULE MCActivity -----------------------------
(* The activity protocol and its inductive invariant on small instances. *)
EXTENDS ActivityInv, TLC

\* The threads are alike.
AnyThread == Permutations(Threads)

\* The ghosts, the message and the locals of the overwrite decision guard nothing.
Protocol == <<guiVars, selected_action, activity_inprogess, stop_activity, paused,
              confirm_state, action_to_take, optionVars, pc, act, left>>
=============================================================================
