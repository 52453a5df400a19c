------------------------------ MODULE Deletion ------------------------------
(***************************************************************************)
(* Deleting the marked entries: DeleteSelectedLocalFilesThread with         *)
(* FS::RmRecursive, DeleteSelectedRemotesFilesThread with Rmdir and Delete  *)
(* of the SMB, NFS and WebDAV clients, one call per step, and Cancel.  FTP's *)
(* Rmdir is in module FtpControl.                                           *)
(***************************************************************************)
EXTENDS Tree

CONSTANTS
  Servers,    \* of {"local", "smb", "nfs", "dav"}: local for the console's own panel
  Dotted      \* the nodes whose names begin with a dot

ASSUME ServersAssumption == Servers \subseteq {"local", "smb", "nfs", "dav"}

VARIABLES
  server,
  hiding,     \* not show_hidden_files, which NfsClient::ListDir looks at
  left,       \* the nodes that are still there
  pc, dir, cur, seen,
  stop,       \* stop_activity
  message,    \* status_message: "none", "old" from before, "new" from this deletion
  trouble,    \* ghost: a call has failed
  late        \* ghost: what was removed after Cancel, emptied folders apart

vars == <<server, hiding, left, pc, dir, cur, seen, stop, message, trouble, late>>

Remote == server # "local"

\* No folder is gone from above what is in it.
Whole(ns) == \A n \in ns, d \in Nodes : n \in Below[d] => d \in ns

\* What is marked may have been deleted by others since it was listed.  Unlike the
\* other actions these two leave the status line as they find it.
Init ==
  /\ server \in Servers
  /\ hiding \in IF server = "nfs" THEN BOOLEAN ELSE {FALSE}
  /\ left \in {ns \in SUBSET Nodes : Whole(ns)}
  /\ pc = IF Remote THEN "ping" ELSE "next"
  /\ dir = top /\ cur = top /\ seen = {} /\ stop = FALSE
  /\ message \in {"none", "old"} /\ trouble = FALSE /\ late = {}

\* What the loop over the marked entries, or over a folder's listing, has left.
Todo == {n \in Nodes : Parent[n] = dir /\ n \notin seen
                       /\ (dir = top \/ (n \in left /\ ~(hiding /\ n \in Dotted)))}

Told == message = "new"

\* The line is written over when there is something to tell.
Tell(something) == message' = IF something THEN "new" ELSE message

Done(ns) == pc' = "next" /\ seen' = seen \cup ns

\* A failure unwinds the recursion; the thread's loop goes on.
GiveUp ==
  /\ pc' = "next" /\ dir' = top
  /\ seen' = seen \cup UNION {Under(e) : e \in {t \in Tops : {cur, dir} \cap Under(t) # {}}}

Begun == \E n \in seen : Parent[n] = dir

\* A folder's loop heeds Cancel, RmRecursive's before each entry but the first (when
\* readdir does not begin with "."), and so does a call of RmRecursive or Rmdir for
\* a folder; WebDAV's Rmdir is a Delete, and the loop over marked remote files none.
Heeds(n) ==
  IF dir = top THEN ~Remote \/ (n \in Dirs /\ server # "dav") ELSE Remote \/ Begun

\* Ping.  When it fails the message about that is written, and erased again by
\* Disconnect, the very next call.
Ping(answer) ==
  /\ pc = "ping"
  /\ pc' = IF answer THEN "next" ELSE "lost"
  /\ message' = IF answer THEN message ELSE "none"
  /\ trouble' = ~answer
  /\ UNCHANGED <<server, hiding, left, dir, cur, seen, stop, late>>

\* Mutant: the loops do not look at stop_activity.
PickDeaf ==
  /\ pc = "next"
  /\ \E n \in Todo :
       /\ cur' = n
       /\ pc' = IF n \in Dirs /\ server # "dav" THEN "folder" ELSE "remove"
  /\ UNCHANGED <<server, hiding, left, dir, seen, stop, message, trouble, late>>

\* The next file or folder.
Pick ==
  /\ pc = "next"
  /\ \E n \in Todo :
       /\ ~(stop /\ Heeds(n))
       /\ cur' = n
       /\ pc' = IF n \in Dirs /\ server # "dav" THEN "folder" ELSE "remove"
  /\ UNCHANGED <<server, hiding, left, dir, seen, stop, message, trouble, late>>

\* A call that finds stop_activity set returns 1 at once.
Pass ==
  /\ stop
  /\ \/ pc = "next" /\ dir = top /\ \E n \in Todo : Heeds(n) /\ Done(Under(n))
     \/ pc = "folder" /\ Done(Under(cur))
  /\ UNCHANGED <<server, hiding, left, dir, cur, stop, message, trouble, late>>

Finish ==
  /\ pc = "next" /\ dir = top /\ Todo = {}
  /\ pc' = "done"
  /\ UNCHANGED <<server, hiding, left, dir, cur, seen, stop, message, trouble, late>>

\* opendir or ListDir of a folder.  One that fails is taken for an empty folder
\* (RmRecursive's remove deletes an empty one too); the SMB client tells.
Enter(listed) ==
  /\ pc = "folder" /\ ~stop
  /\ listed => cur \in left
  /\ pc' = IF listed THEN "next" ELSE "rmdir"
  /\ dir' = cur
  /\ trouble' = (trouble \/ ~listed)
  /\ Tell(~listed /\ server = "smb")
  /\ UNCHANGED <<server, hiding, left, cur, seen, stop, late>>

\* The folder's loop is over.  RmRecursive looks at Cancel once more; Rmdir does not.
Leave ==
  /\ pc = "next" /\ dir # top /\ Todo = {}
  /\ Remote \/ ~stop
  /\ pc' = "rmdir"
  /\ UNCHANGED <<server, hiding, left, dir, cur, seen, stop, message, trouble, late>>

\* Cancel: Rmdir returns 1 and the folder's parent goes on with its own test ...
LeaveStopped ==
  /\ pc = "next" /\ dir # top /\ stop /\ Remote /\ Todo # {}
  /\ Done(Under(dir)) /\ dir' = Parent[dir]
  /\ UNCHANGED <<server, hiding, left, cur, stop, message, trouble, late>>

\* ... RmRecursive returns 0, which every folder above takes for a failure.
GiveUpStopped ==
  /\ pc = "next" /\ dir # top /\ stop /\ ~Remote
  /\ GiveUp
  /\ Tell(Parent[dir] # top)
  /\ UNCHANGED <<server, hiding, left, cur, stop, trouble, late>>

\* Mutant: rmdir is taken to have worked.
RmdirUnchecked(gone) ==
  /\ pc = "rmdir"
  /\ gone => dir \in left /\ Below[dir] \cap left = {}
  /\ left' = IF gone THEN left \ {dir} ELSE left
  /\ Done(Under(dir)) /\ dir' = Parent[dir]
  /\ UNCHANGED <<server, hiding, cur, stop, message, trouble, late>>

\* rmdir of the folder; it refuses one that is not empty.
Rmdir(gone) ==
  /\ pc = "rmdir"
  /\ IF gone
       THEN /\ dir \in left /\ Below[dir] \cap left = {}
            /\ left' = left \ {dir}
            /\ Done(Under(dir)) /\ dir' = Parent[dir]
            /\ UNCHANGED <<message, trouble>>
       ELSE /\ GiveUp
            /\ Tell(TRUE)
            /\ trouble' = (trouble \/ Below[dir] \cap left = {})
            /\ UNCHANGED left
  /\ UNCHANGED <<server, hiding, cur, stop, late>>

\* Mutant: the test of the result is turned round.
DeleteInverted ==
  /\ pc = "remove" /\ cur \in left
  /\ left' = left \ Under(cur)
  /\ Done({cur})
  /\ late' = IF stop THEN late \cup {cur} ELSE late
  /\ Tell(TRUE)
  /\ UNCHANGED <<server, hiding, dir, cur, stop, trouble>>

\* remove, Delete or WebDAV's Rmdir, of a file or a marked entry.
Delete ==
  /\ pc = "remove" /\ cur \in left
  /\ left' = left \ Under(cur)
  /\ Done({cur})
  /\ late' = IF stop THEN late \cup {cur} ELSE late
  /\ UNCHANGED <<server, hiding, dir, cur, stop, message, trouble>>

\* The result of Rmdir is dropped, and WebDAV's writes no message; a server that
\* could not delete all of a folder has deleted some of it.
DeleteFails ==
  /\ pc = "remove"
  /\ GiveUp
  /\ trouble' = TRUE
  /\ Tell(cur \notin Dirs)
  /\ \E gone \in SUBSET Below[cur] : Whole(left \ gone) /\ left' = left \ gone
  /\ UNCHANGED <<server, hiding, cur, stop, late>>

Thread ==
  \/ (\E answer \in BOOLEAN : Ping(answer))
  \/ Pick \/ Pass \/ Finish
  \/ (\E listed \in BOOLEAN : Enter(listed))
  \/ Leave \/ LeaveStopped \/ GiveUpStopped
  \/ (\E gone \in BOOLEAN : Rmdir(gone))
  \/ Delete \/ DeleteFails

\* The Cancel button of the progress popup.
Cancel ==
  /\ pc \notin {"done", "lost"} /\ ~stop
  /\ stop' = TRUE
  /\ UNCHANGED <<server, hiding, left, pc, dir, cur, seen, message, trouble, late>>

Next == Thread \/ Cancel

Spec == Init /\ [][Next]_vars

-----------------------------------------------------------------------------
TypeOK ==
  /\ server \in Servers /\ hiding \in BOOLEAN
  /\ left \subseteq Nodes
  /\ pc \in {"ping", "next", "folder", "rmdir", "remove", "done", "lost"}
  /\ dir \in Dirs \cup {top} /\ cur \in Nodes \cup {top}
  /\ seen \subseteq Nodes /\ late \subseteq Nodes
  /\ message \in {"none", "old", "new"}
  /\ stop \in BOOLEAN /\ trouble \in BOOLEAN

\* When a deletion that had a connection and was not cancelled ends without a
\* message of its own (an older one may stand in the line), all that was marked is
\* gone, whatever failed: but for folders of a WebDAV server.
LeftIsTold ==
  pc = "done" /\ ~stop /\ ~Told =>
    \A n \in left : server = "dav" /\ \E d \in Tops \cap Dirs : n \in Under(d)

\* A deletion writes a message only if a call failed, the user cancelled, or a hidden
\* file has kept its folder.  One from before outlives a deletion without a fault.
NoFalseAlarm == Told => trouble \/ stop \/ (hiding /\ Dotted \cap left # {})

\* After Cancel at most the removal in hand goes through, and the folders it leaves
\* empty: only marked entries of a server are still deleted one by one.
CancelHolds ==
  \A m, n \in late : m # n => Remote /\ (m \in Tops \/ n \in Tops)
=============================================================================
