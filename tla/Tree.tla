-------------------------------- MODULE Tree --------------------------------
(***************************************************************************)
(* What a paste, a transfer or a deletion works on: the entries the user    *)
(* has marked in a panel and, below the folders among them, all that their  *)
(* paths can name.                                                          *)
(***************************************************************************)
EXTENDS FiniteSets

CONSTANTS
  Nodes,      \* the marked files and folders, and all below them
  Dirs,       \* the folders among them
  Parent,     \* the folder a node is in; top for the marked entries
  Below       \* all the nodes below a node

top   == "top"
Files == Nodes \ Dirs
Tops  == {n \in Nodes : Parent[n] = top}

\* The nodes form a forest.
ASSUME TreeAssumption ==
  /\ Dirs \subseteq Nodes /\ top \notin Nodes
  /\ Parent \in [Nodes -> Dirs \cup {top}]
  /\ Below \in [Nodes -> SUBSET Nodes]
  /\ \A n \in Files : Below[n] = {}
  /\ \A n \in Nodes : n \notin Below[n]
  /\ \A n, d \in Nodes : n \in Below[d] <=> Parent[n] = d \/ Parent[n] \in Below[d]
  /\ \A n, d \in Nodes : n \in Below[d] =>
       Parent[n] = d \/ \E e \in Nodes : Parent[e] = d /\ n \in Below[e]
  /\ \A n, d, e \in Nodes : n \in Below[d] /\ d \in Below[e] => n \in Below[e]
  /\ \A n, d, e \in Nodes : n \in Below[d] /\ n \in Below[e]
       => d = e \/ d \in Below[e] \/ e \in Below[d]
  /\ \A n \in Nodes : n \in Tops \/ \E e \in Tops : n \in Below[e]

Under(d) == Below[d] \cup {d}

\* The folders above n.
Above(n) == {d \in Dirs : n \in Below[d]}

\* A file system: what is in something is in a folder.
WellFormed(t) == \A d, n \in Nodes : n \in Below[d] /\ t[n] # "none" => t[d] = "dir"
=============================================================================
