---------------------------- MODULE DeletionInv ----------------------------
(***************************************************************************)
(* The inductive invariants behind the properties of Deletion: where the    *)
(* walk can be, what is done with once nothing has been told, why something *)
(* has been told, and what can still be removed after Cancel.               *)
(***************************************************************************)
EXTENDS Deletion

\* The node in hand is an entry of the folder being walked; neither that folder nor
\* one above it is done with.
Moving ==
  /\ pc = "ping" => seen = {} /\ ~Told
  /\ pc \in {"folder", "remove"} => cur \in Nodes \ seen /\ Parent[cur] = dir
  /\ pc = "folder" => cur \in Dirs /\ server # "dav"
  /\ pc = "remove" /\ cur \in Dirs => server = "dav"
  /\ pc = "rmdir" => dir # top
  /\ server = "dav" => dir = top
  /\ hiding => server = "nfs"
  /\ \A d \in seen : dir \notin Under(d)

Inv == TypeOK /\ Moving /\ Whole(left)

\* As long as there is no message, what is done with is gone.
Handled ==
  ~stop /\ ~Told =>
    /\ \A n \in seen \cap left : server = "dav" /\ \E d \in Tops \cap Dirs : n \in Under(d)
    /\ pc = "done" => Tops \subseteq seen

\* A hidden file that NfsClient::ListDir did not show.
Hidden(ns) == hiding /\ Dotted \cap left \cap ns # {}

\* As long as no call has failed, only hidden files make a folder fail.
Clear ==
  ~trouble /\ ~stop =>
    /\ Told => Hidden(seen)
    /\ seen \cap left # {} => Hidden(seen)
    /\ pc = "rmdir" /\ Below[dir] \cap left # {} => Hidden(seen) \/ Hidden(Below[dir])

\* The loop of RmRecursive that has removed something since Cancel does not go on.
InHand ==
  /\ late # {} => stop
  /\ pc = "remove" /\ ~(Remote /\ cur \in Tops) => late = {}
  /\ ~Remote /\ late # {} => pc \in {"next", "done"} /\ (dir = top \/ Begun)

IInv == Inv /\ Handled /\ Clear /\ InHand /\ CancelHolds
=============================================================================
