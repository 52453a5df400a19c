----------------------------- MODULE InstallInv -----------------------------
(***************************************************************************)
(* The inductive invariants behind the properties of Install: whose folder   *)
(* is being filled, what has been put in it so far, and where the licence of *)
(* the package in hand is.                                                  *)
(***************************************************************************)
EXTENDS Install

\* What may be said to be in a task's folder.
Things == Packages \cup {"none", Part, "stub", "d0", "d1", "f0", "foreign", "absent"}

TypeOK ==
  /\ cross \in BOOLEAN /\ account \in {"none", "inactive", "active"}
  /\ tasks \in [Tasks -> SUBSET Things]
  /\ temp \in [Contents -> [pkg : Packages \cup {"none", Part},
                            rap : {"none", Part, "whole"}, rif : {"none", Part, "whole"}]]
  /\ exdata \in [Contents -> {"none", Part, "whole"}]
  /\ next_id \in [Kinds -> Ids]
  /\ pc \in {"idle", "ask", "next", "get", "licence", "task", "stub", "move", "rif", "pdb"}
  /\ mode \in Kinds /\ files \subseteq Marked /\ it \in Packages /\ id \in Ids
  /\ result \in [Marked -> {"none", "success", "failed", "skipped"}]
  /\ stop \in BOOLEAN /\ starts \in Nat /\ fails \in Nat
  /\ before \subseteq Tasks /\ untasked \subseteq Packages
  /\ unlicensed \subseteq Packages /\ broken \subseteq Contents

\* The steps of a download, and those of a task.
Steps ==
  /\ pc \in {"get", "licence", "move", "rif"} => mode = "install"
  /\ pc = "stub" => mode = "queue"
  /\ pc = "ask" => \A p \in Packages : result[p] # "success"

\* The folder being filled was not there before; those that were are still there.
Fresh ==
  /\ \A t \in before : tasks[t] # Absent
  /\ Busy => task \notin before

\* What is in temp_folder and in the task's folder, as long as no call for it has failed.
Filled ==
  it \notin untasked =>
    /\ mode = "install" /\ pc \in {"licence", "task", "move"} => temp[c].pkg = it
    /\ mode = "install" /\ pc \in {"rif", "pdb"} => it \in tasks[task]
    /\ mode = "queue" /\ pc = "pdb" /\ tasks[task] # Absent => "stub" \in tasks[task]

\* A success has its task, and it is none that is being filled.
Queued ==
  \A p \in Packages : result[p] = "success" /\ p \notin untasked =>
    \E i \in Ids : Made(p, <<mode, i>>) /\ (pc \notin {"idle", "next"} => <<mode, i>> \in before)

\* Part of a licence comes from a download or a conversion that broke off; a rap is only
\* where the server has one.
Parts ==
  \A x \in Contents :
    /\ Part \in {temp[x].rap, temp[x].rif, exdata[x]} => x \in broken
    /\ "rap" \notin Beside[x] => temp[x].rap = "none"

\* The licence of the package in hand.
InHand ==
  mode = "install" /\ it \notin unlicensed /\ c \notin broken /\ Beside[c] # {} =>
    /\ pc \in {"task", "move", "rif"} => temp[c][Preferred] = "whole"
    /\ pc = "pdb" /\ account = "active" => exdata[c] = "whole"

Inv == TypeOK /\ Steps
TaskInv == Fresh /\ Filled /\ Queued
LicenceInv == Parts /\ InHand /\ Licensed
IInv == Inv /\ TaskInv /\ LicenceInv
=============================================================================
