------------------------------ MODULE Transfer ------------------------------
(***************************************************************************)
(* Upload, download and the remote pastes of actions.cpp over the SMB, NFS, *)
(* WebDAV and index page clients: which file comes next, the loss of the    *)
(* connection, the probe for an existing destination, and the clients' Get, *)
(* Put, Copy, Move, ListDir and Mkdir, one library call or one copying loop *)
(* per step.  FTP is module FtpControl.                                     *)
(*                                                                          *)
(* Abstracted as in LocalPaste: what stands at a node's source and at its   *)
(* destination path is a kind, the recursion is the folder being walked     *)
(* (dir) and the nodes done with (seen), a question is answered in a step.  *)
(***************************************************************************)
EXTENDS Tree

CONSTANTS
  Servers,    \* of {"smb", "nfs", "dav", "http"}
  Jobs,       \* of {"upload", "download", "copy", "move"}
  Dotted,     \* the nodes whose names begin with a dot
  Present     \* the nodes whose names the destination may hold at first

ASSUME RequestAssumption ==
  /\ Servers \subseteq {"smb", "nfs", "dav", "http"}
  /\ Jobs \subseteq {"upload", "download", "copy", "move"}

VARIABLES
  job, server,
  rule,       \* overwrite_type
  hiding,     \* not show_hidden_files, where a listing looks at it
  refused,    \* pasted entries that are where they should go, or seem to contain it
  src, dst,   \* what stands at each node's source and destination path
  pc, dir, cur, seen,
  stop,       \* stop_activity
  linked,     \* the client has a context: Quit has not been called
  told,       \* status_message is not empty
  leaked,     \* files whose transfer has left a handle open
  had, was,   \* ghosts: the nodes at the source at first, the files the destination held
  agreed,     \* ghost: the nodes whose overwriting was answered Yes
  unseen,     \* ghost: existing destinations that a failed probe took for absent
  trouble,    \* ghost: a call has failed
  muffled,    \* ghost: the nodes at which a failure was not looked at, or kept secret
  passed      \* ghost: something was left out: a refusal, a No, a skip, a Cancel

request == <<job, server, rule, hiding, refused, had, was>>
tree    == <<src, dst>>
walk    == <<pc, dir, cur, seen>>
report  == <<told, trouble, muffled>>
consent == <<agreed, unseen>>
vars    == <<request, tree, walk, stop, linked, leaked, report, consent, passed>>

\* The loops that copy through two open files, and the calls that do it all.
Streams == server \in {"smb", "nfs"} /\ job \in {"upload", "download"}

\* What a client does not support fails at once: an index page only serves
\* downloads, and only WebDAV copies and moves.
Supported ==
  \/ job = "download"
  \/ job = "upload" /\ server # "http"
  \/ server = "dav"

\* The menu offers what is supported, and Paste on every server.
Init ==
  /\ job \in Jobs /\ server \in Servers
  /\ Supported \/ job \in {"copy", "move"}
  /\ rule \in {"skip", "ask", "replace"}
  /\ hiding \in IF server = "nfs" /\ job # "upload" THEN BOOLEAN ELSE {FALSE}
  /\ refused \in IF job \in {"copy", "move"} THEN (SUBSET (Tops \cap Dirs)) \cup {Tops} ELSE {{}}
  /\ src \in {t \in [Nodes -> {"none", "dir", "data"}] :
                /\ \A n \in Nodes : t[n] # "none" => (t[n] = "dir" <=> n \in Dirs)
                /\ WellFormed(t)}
  /\ dst \in {t \in [Nodes -> {"none", "dir", "old"}] :
                WellFormed(t) /\ \A n \in Nodes \ Present : t[n] = "none"}
  /\ pc = "next" /\ dir = top /\ cur = top /\ seen = {}
  /\ stop = FALSE /\ linked = TRUE /\ told = FALSE /\ leaked = {}
  /\ had = {n \in Nodes : src[n] # "none"} /\ was = {n \in Nodes : dst[n] = "old"}
  /\ agreed = {} /\ unseen = {} /\ trouble = FALSE /\ muffled = {} /\ passed = FALSE

\* ListDir: an NFS client leaves out hidden files.
Listed(n) == src[n] # "none" /\ ~(hiding /\ n \in Dotted)

\* What the loop over the marked entries, or over a folder's ListDir, has left.
Todo == {n \in Nodes : Parent[n] = dir /\ n \notin seen /\ (dir = top \/ Listed(n))}

Done(ns) == pc' = "next" /\ seen' = seen \cup ns /\ UNCHANGED <<dir, cur>>

\* A return of 0 unwinds the recursion; the thread's loop goes on.
GiveUp ==
  /\ pc' = "next" /\ dir' = top
  /\ seen' = seen \cup UNION {Under(e) : e \in {t \in Tops : cur \in Under(t)}}
  /\ UNCHANGED cur

\* Mutant: the callers do not look at the result.
FailedSilently == trouble' = TRUE /\ UNCHANGED <<told, muffled>>

\* Every caller of a failed transfer writes the status message.
Failed == trouble' = TRUE /\ told' = TRUE /\ UNCHANGED muffled

\* A failure nobody looks at, of the node in hand.
Muffled == trouble' = TRUE /\ muffled' = muffled \cup {cur} /\ UNCHANGED told

-----------------------------------------------------------------------------
(* The threads' loops.                                                      *)

\* The next file or folder.  A move asks the server for the whole of it.
Pick ==
  /\ pc = "next" /\ ~stop
  /\ \E n \in Todo \ refused :
       /\ cur' = n
       /\ pc' = IF n \in Dirs /\ job # "move" THEN "folder" ELSE "file"
  /\ UNCHANGED <<request, tree, dir, seen, stop, linked, leaked, report, consent, passed>>

\* "it->directory == remote_directory" is passed over in silence, a folder that
\* seems to hold remote_directory is not.
Refuse ==
  /\ pc = "next" /\ ~stop
  /\ \E n \in Todo \cap refused : Done(Under(n))
  /\ told' = TRUE \/ (refused = Tops /\ told' = told)
  /\ passed' = TRUE
  /\ UNCHANGED <<request, tree, stop, linked, leaked, trouble, muffled, consent>>

\* Cancel ends the loop of a thread, or makes each further call return at once ...
Break ==
  /\ pc = "next" /\ dir = top
  /\ Todo = {} \/ stop
  /\ pc' = "done"
  /\ passed' = (passed \/ Todo # {})
  /\ UNCHANGED <<request, tree, dir, cur, seen, stop, linked, leaked, report, consent>>

\* ... and a folder's.
Leave ==
  /\ pc = "next" /\ dir # top
  /\ Todo = {} \/ stop
  /\ pc' = "next" /\ seen' = seen \cup {dir} /\ dir' = Parent[dir] /\ UNCHANGED cur
  /\ passed' = (passed \/ Todo # {})
  /\ UNCHANGED <<request, tree, stop, linked, leaked, report, consent>>

\* The destination folders made: FS::MkDirs makes those above it too, Mkdir one, and
\* BaseClient's none.
Wanted == CASE job = "download" -> Above(cur) \cup {cur}
            [] job # "download" /\ server = "http" -> {}
            [] OTHER -> {cur}

Made(made) ==
  /\ \A d \in made : dst[d] = "none"
  /\ \A m \in made, d \in Nodes : m \in Below[d] => dst[d] = "dir" \/ d \in made
  /\ dst' = [n \in Nodes |-> IF n \in made THEN "dir" ELSE dst[n]]

\* ListDir, then Mkdir, whose result is ignored: what fails then are the files in
\* it.  A listing that fails is an empty one; only the SMB client tells.
Enter ==
  /\ pc = "folder" /\ linked
  /\ \E listed \in BOOLEAN, made \in SUBSET Wanted :
       /\ listed => src[cur] = "dir"
       /\ Made(made)
       /\ seen' = IF listed THEN seen ELSE seen \cup Below[cur]
       /\ trouble' = (trouble \/ ~listed \/ dst'[cur] # "dir")
       /\ IF server = "smb" /\ job # "upload"
            THEN told' = (told \/ ~listed) /\ UNCHANGED muffled
            ELSE muffled' = (IF listed THEN muffled ELSE muffled \cup {cur}) /\ UNCHANGED told
  /\ pc' = "next" /\ dir' = cur /\ UNCHANGED cur
  /\ UNCHANGED <<request, src, stop, linked, leaked, consent, passed>>

-----------------------------------------------------------------------------
(* A file: is the server there, may it be replaced?                         *)

\* Ping before an upload (NFS asks nobody), Size before a download; a paste trusts.
AsksServer == job = "download" \/ (job = "upload" /\ server # "nfs")

Lost ==
  /\ pc = "file" /\ linked /\ AsksServer
  /\ linked' = FALSE
  /\ GiveUp /\ Failed
  /\ UNCHANGED <<request, tree, stop, leaked, consent, passed>>

\* The next call goes through the null context that Quit has left.
Fault ==
  /\ pc \in {"folder", "file"} /\ ~linked
  /\ pc' = "fault"
  /\ UNCHANGED <<request, tree, dir, cur, seen, stop, linked, leaked, report, consent, passed>>

\* A server's answer is about anything of that name, FS::FileExists about files.
FileExists(n) == dst[n] # "none" /\ (job = "download" => dst[n] # "dir")

\* Mutant: the answer is not looked at.
DecideAnyhow(seesIt, yes) ==
  /\ pc = "file" /\ linked
  /\ job = "download" => src[cur] = "data"
  /\ seesIt = FileExists(cur)
  /\ pc' = "transfer"
  /\ UNCHANGED <<request, tree, dir, cur, seen, stop, linked, leaked, report, consent, passed>>

\* UploadFile, DownloadFile, CopyOrMoveRemoteFile: a probe the server does not
\* answer counts as no such file.
Decide(seesIt, yes) ==
  /\ pc = "file" /\ linked
  /\ job = "download" => src[cur] = "data"
  /\ seesIt => FileExists(cur)
  /\ job = "download" => seesIt = FileExists(cur)
  /\ IF rule = "replace" \/ ~seesIt \/ (rule = "ask" /\ yes)
       THEN /\ pc' = "transfer" /\ UNCHANGED <<dir, cur, seen, passed>>
            /\ agreed' = IF seesIt /\ rule = "ask" THEN agreed \cup {cur} ELSE agreed
       ELSE Done({cur}) /\ passed' = TRUE /\ UNCHANGED agreed
  /\ IF FileExists(cur) /\ ~seesIt /\ rule # "replace"
       THEN unseen' = unseen \cup {cur} /\ trouble' = TRUE
       ELSE UNCHANGED <<unseen, trouble>>
  /\ UNCHANGED <<request, tree, stop, linked, leaked, told, muffled>>

-----------------------------------------------------------------------------
(* Get, Put, Copy and Move.                                                 *)

\* The destination can be written: its folder is there, and it is not one.
Writable(n) == dst[n] # "dir" /\ (Parent[n] # top => dst[Parent[n]] = "dir")

Arrives(kind) == dst' = [dst EXCEPT ![cur] = kind]

\* SMB and NFS open both files ...
Open ==
  /\ pc = "transfer" /\ Streams
  /\ src[cur] = "data" /\ Writable(cur)
  /\ Arrives("partial")
  /\ pc' = "copying" /\ UNCHANGED <<dir, cur, seen>>
  /\ UNCHANGED <<request, src, stop, linked, leaked, report, consent, passed>>

\* Mutant: the failure is returned as 1.
OpenFailsGoesOn(second) ==
  /\ pc = "transfer" /\ Streams
  /\ second => src[cur] = "data"
  /\ leaked' = IF second THEN leaked \cup {cur} ELSE leaked
  /\ Done({cur}) /\ Failed
  /\ UNCHANGED <<request, tree, stop, linked, consent, passed>>

\* ... and when the second open fails the first file stays open.
OpenFails(second) ==
  /\ pc = "transfer" /\ Streams
  /\ second => src[cur] = "data"
  /\ leaked' = IF second THEN leaked \cup {cur} ELSE leaked
  /\ GiveUp /\ Failed
  /\ UNCHANGED <<request, tree, stop, linked, consent, passed>>

\* NfsClient::Put opens an existing file without truncating it: when the old
\* one was longer its end stays.
KeepsTail(n) == server = "nfs" /\ job = "upload" /\ n \in was

CopyDone ==
  /\ pc = "copying"
  /\ Arrives("data") \/ (KeepsTail(cur) /\ Arrives("partial"))
  /\ Done({cur})
  /\ UNCHANGED <<request, src, stop, linked, leaked, report, consent, passed>>

\* A read that fails ends the loop as the end of the file does; FS::Write and
\* smb2_write are not looked at.  Get and Put return 1.
CopyShort ==
  /\ pc = "copying"
  /\ Done({cur}) /\ Muffled
  /\ UNCHANGED <<request, tree, stop, linked, leaked, consent, passed>>

\* nfs_write is.
WriteFails ==
  /\ pc = "copying" /\ server = "nfs" /\ job = "upload"
  /\ GiveUp /\ Failed
  /\ UNCHANGED <<request, tree, stop, linked, leaked, consent, passed>>

\* The HTTP library's DownloadFile and UploadFile, and WebDAV's COPY.
Call ==
  /\ pc = "transfer" /\ ~Streams /\ Supported /\ job # "move"
  /\ src[cur] = "data" /\ Writable(cur)
  /\ Arrives("data")
  /\ Done({cur})
  /\ UNCHANGED <<request, src, stop, linked, leaked, report, consent, passed>>

\* A download that was answered is taken for good, whatever the status: the
\* file may be an error page.
CallWrong ==
  /\ pc = "transfer" /\ ~Streams /\ job = "download"
  /\ Writable(cur) /\ Arrives("partial")
  /\ Done({cur}) /\ Muffled
  /\ UNCHANGED <<request, src, stop, linked, leaked, consent, passed>>

CallFails ==
  /\ pc = "transfer" /\ ~Streams /\ job # "move"
  /\ \/ UNCHANGED dst
     \/ Supported /\ Writable(cur) /\ Arrives("partial")
  /\ GiveUp /\ Failed
  /\ UNCHANGED <<request, src, stop, linked, leaked, consent, passed>>

\* WebDAV's MOVE carries an entry with all that is in it.
Move ==
  /\ pc = "transfer" /\ job = "move" /\ server = "dav"
  /\ src[cur] # "none"
  /\ dst' = [n \in Nodes |-> IF n \in Under(cur) THEN src[n] ELSE dst[n]]
  /\ src' = [n \in Nodes |-> IF n \in Under(cur) THEN "none" ELSE src[n]]
  /\ Done(Under(cur))
  /\ UNCHANGED <<request, stop, linked, leaked, report, consent, passed>>

\* A server that could not move all of a folder answers 207 and lists what has
\* stayed: for HTTP_SUCCESS a success as any other.  What a member would have
\* replaced is gone all the same.
MovePart ==
  /\ pc = "transfer" /\ job = "move" /\ server = "dav"
  /\ src[cur] = "dir"
  /\ \E stuck \in SUBSET {n \in Below[cur] : src[n] # "none"} :
       /\ stuck # {}
       /\ \A n \in stuck : {m \in Below[n] : src[m] # "none"} \subseteq stuck
       /\ dst' = [n \in Nodes |-> IF n \notin Under(cur) THEN dst[n]
                                 ELSE IF n \in stuck THEN "none" ELSE src[n]]
       /\ src' = [n \in Nodes |-> IF n \in Under(cur) /\ Under(n) \cap stuck = {}
                                 THEN "none" ELSE src[n]]
  /\ Done(Under(cur)) /\ Muffled
  /\ UNCHANGED <<request, stop, linked, leaked, consent, passed>>

\* Mutant: the source goes whatever the server has answered.
MoveFailsRemoves ==
  /\ pc = "transfer" /\ job = "move"
  /\ src' = [n \in Nodes |-> IF n \in Under(cur) THEN "none" ELSE src[n]]
  /\ Done(Under(cur)) /\ Failed
  /\ UNCHANGED <<request, dst, stop, linked, leaked, consent, passed>>

MoveFails ==
  /\ pc = "transfer" /\ job = "move"
  /\ Done(Under(cur)) /\ Failed
  /\ UNCHANGED <<request, tree, stop, linked, leaked, consent, passed>>

Thread ==
  \/ Pick \/ Refuse \/ Break \/ Leave \/ Enter \/ Lost \/ Fault
  \/ \E seesIt, yes \in BOOLEAN : Decide(seesIt, yes)
  \/ Open \/ (\E second \in BOOLEAN : OpenFails(second))
  \/ CopyDone \/ CopyShort \/ WriteFails
  \/ Call \/ CallWrong \/ CallFails \/ Move \/ MovePart \/ MoveFails

\* The Cancel button of the progress popup.
Cancel ==
  /\ pc \notin {"done", "fault"} /\ ~stop
  /\ stop' = TRUE
  /\ UNCHANGED <<request, tree, walk, linked, leaked, report, consent, passed>>

Next == Thread \/ Cancel

Spec == Init /\ [][Next]_vars

-----------------------------------------------------------------------------
TypeOK ==
  /\ job \in Jobs /\ server \in Servers /\ rule \in {"skip", "ask", "replace"}
  /\ hiding \in BOOLEAN /\ refused \subseteq Tops
  /\ src \in [Nodes -> {"none", "dir", "data"}]
  /\ dst \in [Nodes -> {"none", "dir", "old", "data", "partial"}]
  /\ pc \in {"next", "folder", "file", "transfer", "copying", "done", "fault"}
  /\ dir \in Dirs \cup {top} /\ cur \in Nodes \cup {top}
  /\ seen \subseteq Nodes /\ had \subseteq Nodes /\ was \subseteq Nodes
  /\ leaked \subseteq Files /\ agreed \subseteq Nodes /\ unseen \subseteq Nodes
  /\ stop \in BOOLEAN /\ linked \in BOOLEAN /\ told \in BOOLEAN
  /\ trouble \in BOOLEAN /\ muffled \subseteq Nodes /\ passed \in BOOLEAN

\* The files whose data stands whole at the source and at the destination.
Held == [f \in Files |-> (IF src[f] = "data" THEN {"src"} ELSE {})
                         \cup (IF dst[f] = "data" THEN {"dst"} ELSE {})]

Abstract == INSTANCE Relocation WITH held <- Held

\* Transfers and remote pastes copy and move files only as Relocation says: a file's
\* data is at no moment nowhere, and what has arrived is not written again.
Relocates == Abstract!Spec

\* What the client would show of the source: a hidden node, or one in a hidden
\* folder, is left out.
Shown(n) == ~(hiding /\ \E d \in Dotted \ Tops : n \in Under(d))

\* A transfer that met no failed call, refusal, No, skip or Cancel has brought
\* everything over when it ends, but for the ends of older NFS files.
Complete ==
  pc = "done" /\ ~trouble /\ ~passed =>
    \A n \in had : Shown(n) =>
      \/ dst[n] = IF n \in Dirs THEN "dir" ELSE "data"
      \/ KeepsTail(n)

\* When a transfer that left nothing out on purpose ends and the status line is
\* empty, a file that has not arrived is the one a failure was muffled at, or in
\* such a folder: its copying loop, an error page for it, the folder's listing, or
\* its move in part.  Nothing else that failed is kept secret, and no muffled
\* failure costs a file elsewhere.
FailureTold ==
  pc = "done" /\ ~told /\ ~passed =>
    \A f \in had \cap Files : Shown(f) =>
      dst[f] = "data" \/ KeepsTail(f) \/ \E m \in muffled : f \in Under(m)

\* What stands at the destination is replaced only under "replace all", after a Yes
\* about it or the folder it is in, or when the server did not answer the probe.
Agreed(n) == dst[n] = "old" /\ dst'[n] # "old" =>
  rule = "replace" \/ \E d \in agreed \cup unseen : n \in Under(d)

ReplacedWithConsent == [][\A n \in Nodes : Agreed(n)]_vars

\* A handle left open ends the marked entry it was opened for: an activity leaks no
\* more handles than entries were marked, and none while no call fails.
LeakEndsEntry ==
  /\ \A e \in Tops, f, g \in leaked : {f, g} \subseteq Under(e) => f = g
  /\ leaked # {} => trouble /\ told
=============================================================================
