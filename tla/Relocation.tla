----------------------------- MODULE Relocation -----------------------------
(***************************************************************************)
(* What pasting files promises, whatever order it works in, whatever fails  *)
(* and wherever it is cancelled or the console loses power: a file's data   *)
(* is copied to the destination, carried there at once (rename), or dropped *)
(* from the source once the destination holds it.  It is never nowhere.     *)
(***************************************************************************)
CONSTANT Files
VARIABLE held   \* where each file's data stands whole: of {"src", "dst"}

Init == held \in [Files -> {{}, {"src"}}]

\* A copy is complete.
Arrive(f) ==
  /\ held[f] = {"src"}
  /\ held' = [held EXCEPT ![f] = {"src", "dst"}]

\* The original of a complete copy is removed.
Depart(f) ==
  /\ held[f] = {"src", "dst"}
  /\ held' = [held EXCEPT ![f] = {"dst"}]

\* One rename carries a file, or a folder with all its files.
Carry(S) ==
  /\ \A f \in S : held[f] = {"src"}
  /\ held' = [f \in Files |-> IF f \in S THEN {"dst"} ELSE held[f]]

Next == (\E f \in Files : Arrive(f) \/ Depart(f)) \/ \E S \in SUBSET Files : Carry(S)

Spec == Init /\ [][Next]_held
=============================================================================
