----------------------------- MODULE ArchiveInv -----------------------------
(***************************************************************************)
(* The inductive invariants behind the properties of Archive: what the      *)
(* entries that were passed have left on the disk, and what the walk of      *)
(* ZipAddPath has put in the archive.                                       *)
(***************************************************************************)
EXTENDS Archive

\* Each of the two threads has places of its own; entries are read from a marked archive.
Placed ==
  /\ step \in IF op = "zip" THEN {"open", "next", "done"} ELSE 
       {"open", "entry", "unlink", "create", "write", "close", "done"}
  /\ step = "open" => pos = 1
  /\ step \in {"entry", "unlink", "create", "write", "close"} => arc \in DOMAIN Listing \ Folders
  /\ step \in {"unlink", "create", "write", "close"} =>
       /\ pos <= Len(Listing[arc])
       /\ Kind[entry] \in IF step = "unlink" THEN {"file", "link"} ELSE {"file"}
  /\ op = "extract" /\ step = "done" /\ ~stop => arc = Len(Listing) + 1

-----------------------------------------------------------------------------
(* Extraction.                                                              *)

Behind(l, j, k, i) == l > k \/ (l = k /\ j > i)

\* The entries that were read, or that nothing will read any more.
Passed(k, i) == Behind(arc, pos, k, i)

\* An entry that was read behind the i-th of archive k has its name.
AgainSoFar(k, i) ==
  \E l \in DOMAIN Listing \ Folders : \E j \in DOMAIN Listing[l] :
    /\ Passed(l, j) /\ Behind(l, j, k, i)
    /\ Name[Listing[l][j]] = Name[Listing[k][i]] /\ Kind[Listing[l][j]] \in {"file", "link"}

\* As long as nothing is told, the files that were read are where their names say, but for
\* those lost unseen, and for the one whose name the file in hand has.
Extracted ==
  op = "extract" /\ ~stop /\ ~told =>
    \A k \in DOMAIN Listing \ Folders : \A i \in DOMAIN Listing[k] :
      /\ Passed(k, i) /\ Kind[Listing[k][i]] = "file" /\ ~AgainSoFar(k, i)
      /\ Listing[k][i] \notin unseen /\ ~InHand(Name[Listing[k][i]])
      => disk[Name[Listing[k][i]]] = Listing[k][i]

-----------------------------------------------------------------------------
(* Making an archive.                                                       *)

\* What is done with is done with to the bottom.
Bottomed == \A n \in seen : Under(n) \subseteq seen

\* As long as nothing is told, what is done with is in the archive or was not seen, and the
\* folder that is read and those above it are in it.
Zipped ==
  op = "zip" /\ ~told /\ ~poisoned =>
    seen \subseteq zip \cup unseen /\ \A d \in Dirs : dir \in Under(d) => d \in zip

\* Nothing is closed before all that was marked is done with.
Written ==
  op = "zip" /\ step = "done" /\ ~stop /\ ~told =>
    Tops \subseteq seen /\ (Nodes \subseteq unseen \/ (~poisoned /\ made = zip))

ArchiveInvariant ==
  /\ ArchiveTypes /\ Placed
  /\ Extracted /\ LostIsTold
  /\ existing \subseteq zip /\ existing \subseteq made /\ Bottomed /\ Zipped /\ Written
=============================================================================
