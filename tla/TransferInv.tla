---------------------------- MODULE TransferInv ----------------------------
(***************************************************************************)
(* The inductive invariants behind the properties of Transfer.  Kinds,      *)
(* Folders and Moving hold of every transfer; OnCourse and Arrived speak of *)
(* one with nothing to tell, FoldersMade of one without trouble.            *)
(***************************************************************************)
EXTENDS Transfer

Kinds   == \A n \in Nodes : src[n] # "none" => (src[n] = "dir" <=> n \in Dirs)
Folders == WellFormed(src) /\ WellFormed(dst)

\* The node in hand: an entry of the folder being walked, not done with, and in the
\* state its step leaves it in.  Neither that folder nor one above it is done with.
Moving ==
  /\ pc \in {"folder", "file", "transfer", "copying"} => cur \in Nodes \ seen /\ Parent[cur] = dir
  /\ pc = "folder" => cur \in Dirs
  /\ pc \in {"file", "transfer", "copying"} => cur \in Files \/ job = "move"
  /\ pc = "copying" => job # "move" /\ src[cur] = "data" /\ dst[cur] = "partial"
  /\ job = "move" => dir = top /\ pc # "folder"
  /\ \A d \in seen : dir \notin Under(d)

Inv == TypeOK /\ Kinds /\ Folders /\ Moving

\* What a file about to be transferred, or an entry about to be moved, replaces may
\* be replaced.
Consented ==
  pc = "transfer" => \A n \in Under(cur) : dst[n] = "old" =>
    rule = "replace" \/ \E d \in agreed \cup unseen : n \in Under(d)

\* Data is only where the walk has been, and a move's walk has been at an entry first.
Reached ==
  /\ \A f \in Files : dst[f] = "data" => f \in seen
  /\ job = "move" => \A n \in seen, e \in Tops : n \in Under(e) => e \in seen

\* The entry of a leaked handle is done with.
Leaks ==
  /\ \A e \in Tops, f \in leaked : f \in Under(e) => Under(e) \subseteq seen
  /\ LeakEndsEntry

\* Nothing has been told that no test, answer or Cancel explains.
Told == (told => trouble \/ passed) /\ (muffled # {} => trouble)

Quiet == ~told /\ ~passed

\* What is not done with is as it was; of what is done with, only the folders being
\* walked are not, and all that the client shows in it is.
OnCourse ==
  Quiet =>
    /\ \A n \in Nodes \ seen : n \in had => src[n] # "none"
    /\ \A n \in seen, d \in Nodes : n \in Below[d] => d \in seen \/ dir \in Under(d)
    /\ \A d \in seen : \A n \in Below[d] : n \in seen \/ n \notin had \/ ~Shown(n)
    /\ pc = "done" => Tops \subseteq seen

Arrived ==
  Quiet => \A f \in seen \cap had \cap Files :
    dst[f] = "data" \/ KeepsTail(f) \/ \E m \in muffled : f \in Under(m)

FoldersMade ==
  ~trouble /\ ~passed =>
    /\ dir # top => dst[dir] = "dir"
    /\ \A d \in seen \cap had \cap Dirs : dst[d] = "dir"

IInv == Inv /\ Consented /\ Reached /\ Leaks /\ Told /\ OnCourse /\ Arrived /\ FoldersMade
=============================================================================
