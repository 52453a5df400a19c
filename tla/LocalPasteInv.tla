---------------------------- MODULE LocalPasteInv ----------------------------
(***************************************************************************)
(* The inductive invariants behind the properties of LocalPaste.  Kinds,    *)
(* Folders and Moving hold of every paste; Whole needs a device that keeps  *)
(* what fclose has seen; OnCourse and Transferred speak of a paste that met *)
(* no failure (and no refusal, No, skip or Cancel).                         *)
(***************************************************************************)
EXTENDS LocalPaste

\* A node's kind never changes at the source, and nothing appears there.
Kinds ==
  /\ \A n \in Nodes : src[n] # "none" => (src[n] = "dir" <=> n \in Dirs)
  /\ \A n \in Nodes : src[n] # "none" => n \in had

Folders == WellFormed(src) /\ WellFormed(dst)

\* The node in hand: a child of the folder being walked, not done with, and in the
\* state its step leaves it in.
Moving ==
  /\ pc \notin {"next", "done"} =>
       /\ cur \in Nodes \ seen /\ Parent[cur] = dir
       /\ cur \in Dirs <=> pc = "enter"
  /\ pc \in {"move", "remove"} => mode = "cut"
  /\ pc \in {"copying", "reading", "remove"} => src[cur] = "data"
  /\ pc \in {"copying", "reading"} => dst[cur] = "partial"

\* NoFileLost and ExactlyOnce, said of src and dst.
Kept == \A f \in had \cap Files : src[f] = "data" \/ dst[f] = "data"

Once ==
  ~trouble =>
    /\ \A f \in Files :
         /\ mode = "cut" /\ src[f] = "data" /\ dst[f] = "data" => pc = "remove" /\ cur = f
         /\ dst[f] = "partial" => pc = "copying" /\ cur = f
    /\ mode = "copy" => \A n \in had : src[n] # "none"

\* A file's data is at the destination only when the file is done with, or its
\* original about to be removed; and there it then is.
Whole ==
  /\ \A f \in Files : dst[f] = "data" => f \in seen \/ (pc = "remove" /\ cur = f)
  /\ pc = "remove" => dst[cur] = "data"
  /\ Kept

\* A file about to be replaced may be.
Consented ==
  pc \in {"move", "copy"} /\ dst[cur] = "old" =>
    rule = "replace" \/ (rule = "ask" /\ cur \in agreed)

Inv == TypeOK /\ Kinds /\ Folders /\ Moving

\* What is not done with is as it was; of what is done with, only the folders being
\* walked are not, and all that is in it is.
OnCourse ==
  ~trouble /\ ~passed =>
    /\ \A n \in Nodes \ seen : n \in had => src[n] # "none"
    /\ \A n \in seen, d \in Nodes : n \in Below[d] => d \in seen \/ dir \in Under(d)
    /\ \A d \in seen : \A n \in Below[d] : n \in seen \/ n \notin had
    /\ dir # top => dst[dir] = "dir"
    /\ pc = "done" => Tops \subseteq seen

\* What is done with is transferred, and what loses its original copied.
Transferred ==
  ~trouble /\ ~passed =>
    /\ \A n \in seen \cap had :
         /\ dst[n] = IF n \in Dirs THEN "dir" ELSE "data"
         /\ mode = "cut" => src[n] = "none"
    /\ pc = "remove" => dst[cur] = "data"
=============================================================================
