--------------------------- MODULE RemoteSession ---------------------------
(***************************************************************************)
(* The session with the server: the global pointer remoteclient, the client *)
(* objects it points to, and the library context (socket, smb2_context,     *)
(* nfs_context, CHTTPClient) each of them holds.  The GUI thread creates,   *)
(* uses and deletes the objects in the handlers of ExecuteActions; so does  *)
(* the thread of a transfer or of a remote delete.                          *)
(*                                                                          *)
(* One step is one call of a client's method, or the statements between two *)
(* of them.  A step that follows a null or dangling pointer ends the        *)
(* program: fault says which pointer.                                       *)
(*                                                                          *)
(* Abstracted: what a request is about (its answer is enough); the on-      *)
(* screen keyboard that a new folder's or a new name's text comes from;     *)
(* the questions of a transfer (module Activity), of which only the         *)
(* uncovered screen matters here; a second job started over a running one   *)
(* (Activity again: here it waits); folders in a transfer, whose listings   *)
(* are requests between those of their files.                               *)
(***************************************************************************)
EXTENDS Naturals

CONSTANTS
  MaxClients,  \* bound: client objects created
  MaxFiles,    \* bound: files one transfer or delete works on
  Protocols    \* kinds of server the settings name

Web   == {"webdav", "index"}       \* subclasses of BaseClient
Kinds == {"ftp", "smb", "nfs"} \cup Web

ASSUME SessionAssumption ==
  /\ MaxClients \in Nat /\ MaxFiles \in Nat \ {0}
  /\ Protocols \subseteq Kinds /\ Protocols # {}

Clients  == 1..MaxClients
Contexts == {"none", "open", "stale", "freed"}
Requests == {"NEW_FOLDER", "RENAME", "EDIT"}
Jobs     == {"DELETE", "UPLOAD", "DOWNLOAD"}
Actions  == {"NONE", "CONNECT", "DISCONNECT", "REFRESH", "SEARCH", "CHANGE"}
              \cup Requests \cup Jobs

VARIABLES
  pc,               \* [thread -> the call it makes next]
  remoteclient,     \* the object pointed to; 0 is the null pointer
  created,          \* number of objects created so far
  kind, alive, connected, context,   \* of each object
  listing,          \* remote_files has entries on screen
  popup,            \* a popup was open when the last frame ended
  button,           \* what the connect button offers, or "covered" by a popup
  selected_action,
  left,             \* files the worker still has to do
  fault,            \* the bad pointer that ended the program
  trouble,          \* ghost: some call of a client has failed
  raced             \* ghost: the user has selected something over a running job

objects == <<created, kind, alive, connected, context>>
screen  == <<listing, popup, button, selected_action>>
vars == <<pc, remoteclient, objects, screen, left, fault, trouble, raced>>

Init ==
  /\ pc = [t \in {"gui", "worker"} |-> IF t = "gui" THEN "panel" ELSE "idle"]
  /\ remoteclient = 0 /\ created = 0
  /\ kind = [c \in Clients |-> "ftp"]
  /\ alive = [c \in Clients |-> FALSE]
  /\ connected = [c \in Clients |-> FALSE]
  /\ context = [c \in Clients |-> "none"]
  /\ listing = FALSE /\ popup = FALSE /\ button = "covered" /\ selected_action = "NONE"
  /\ left = 0 /\ fault = "none" /\ trouble = FALSE /\ raced = FALSE

-----------------------------------------------------------------------------
(* Which steps follow which pointer.                                        *)

\* Steps that call a virtual method, those that hand the context to the
\* library, and those that call Quit.
Virtual == {"button", "leave", "drop", "connect", "discard"}
Pings   == {"ping", "enter", "check", "probe"}
Calls   == {"list", "request", "fetch", "files", "put", "size", "get"}
Quits   == {"quit", "lost", "failed", "hangup", "giveup", "hopeless"}

Pointer ==
  IF remoteclient = 0 THEN "null client"
  ELSE IF alive[remoteclient] THEN "none" ELSE "deleted client"

\* FtpClient tests its handle; the other libraries get the pointer they were given.
Library ==
  IF context[remoteclient] = "freed" THEN "freed context"
  ELSE IF context[remoteclient] = "none" /\ kind[remoteclient] # "ftp"
       THEN "null context" ELSE "none"

\* NfsClient::Ping asks nobody; Quit tests for null, but not for freed.
Touched(step) ==
  IF step \notin Virtual \cup Pings \cup Calls \cup Quits THEN "none"
  ELSE IF step = "leave" /\ remoteclient = 0 THEN "none"
  ELSE IF Pointer # "none" \/ step \in Virtual THEN Pointer
  ELSE IF step \in Pings /\ kind[remoteclient] = "nfs" THEN "none"
  ELSE IF step \in Quits /\ context[remoteclient] # "freed" THEN "none"
  ELSE Library

\* Thread t is about to make this call, and survives it.
At(t, step) ==
  /\ fault = "none" /\ pc[t] = step
  /\ Touched(step) = "none"

Goto(t, step) == pc' = [pc EXCEPT ![t] = step]

\* ConnectionPanel tests the pointer and uses it in one expression: what was
\* tested may still be in a register when the other thread has reset the global.
Crash(t) ==
  /\ fault = "none"
  /\ Touched(pc[t]) # "none"
  /\ fault' \in {Touched(pc[t])} \cup
                {f \in {"deleted client"} : pc[t] = "button" /\ remoteclient = 0}
  /\ UNCHANGED <<pc, remoteclient, objects, screen, left, trouble, raced>>

-----------------------------------------------------------------------------
(* The clients.                                                             *)

\* What Connect of each kind returns and leaves behind.  BaseClient's returns 1
\* whatever its ping says; a login that FTP refuses has called Quit; SMB keeps
\* its context; NFS destroys its own and forgets the pointer only when the
\* mount is what failed.
ConnectResult(k, ok, con, ctx) ==
  \/ ok /\ con /\ ctx = "open"
  \/ ok /\ ~con /\ ctx = "open" /\ k \in Web
  \/ ~ok /\ ~con /\ ctx = "none" /\ k \notin Web
  \/ ~ok /\ ~con /\ <<k, ctx>> \in {<<"ftp", "stale">>, <<"smb", "open">>, <<"nfs", "freed">>}

\* Ping: the server answers only over an open context.  SmbClient's stores the
\* answer in connected, NfsClient's returns connected.
Ping(t, step, yes, no) ==
  /\ At(t, step)
  /\ \E answer \in BOOLEAN :
       /\ answer => context[remoteclient] = "open"
       /\ kind[remoteclient] = "nfs" => answer = connected[remoteclient]
       /\ connected' = IF kind[remoteclient] = "smb"
                         THEN [connected EXCEPT ![remoteclient] = answer] ELSE connected
       /\ trouble' = (trouble \/ ~answer)
       /\ Goto(t, IF answer THEN yes ELSE no)
  /\ UNCHANGED <<remoteclient, created, kind, alive, context, screen, left, fault, raced>>

\* A request of any other kind: Mkdir, Rename, Get, Put, Size, ListDir, Rmdir.
Request(t, step, ok) ==
  /\ At(t, step)
  /\ ok => context[remoteclient] = "open"
  /\ trouble' = (trouble \/ ~ok)
  /\ UNCHANGED <<remoteclient, objects, popup, button, selected_action, fault, raced>>

\* BaseClient::Quit leaves connected alone; FtpClient's stops at a zero handle.
ConnectedAfterQuit(c) ==
  /\ connected[c]
  /\ \/ kind[c] \in Web
     \/ kind[c] = "ftp" /\ context[c] = "none"

\* FtpClient keeps the number of the socket it closed; the others null their
\* pointers.
Quit(t, step, next) ==
  /\ At(t, step)
  /\ connected' = [connected EXCEPT ![remoteclient] = ConnectedAfterQuit(remoteclient)]
  /\ context' = [context EXCEPT ![remoteclient] =
                   IF kind[remoteclient] = "ftp" /\ @ # "none" THEN "stale" ELSE "none"]
  /\ Goto(t, next)
  /\ UNCHANGED <<remoteclient, created, kind, alive, screen, left, fault, trouble, raced>>

\* The rows go with Disconnect ("drop"), not where Connect has failed ("discard").
\* ~BaseClient deletes its CHTTPClient, the other destructors leave their
\* contexts alone.
Delete(t, step) ==
  /\ At(t, step)
  /\ listing' = (listing /\ step = "discard")
  /\ alive' = [alive EXCEPT ![remoteclient] = FALSE]
  /\ context' = IF kind[remoteclient] \in Web
                  THEN [context EXCEPT ![remoteclient] = "none"] ELSE context
  /\ Goto(t, "forget")
  /\ UNCHANGED <<remoteclient, created, kind, connected, popup, button, selected_action,
                 left, fault, trouble, raced>>

-----------------------------------------------------------------------------
(* Disconnect, called by the GUI and by the delete thread.                  *)

\* Mutant: the guard of IsConnected is lost with the Quit behind it.
LeaveWithoutQuit(t) ==
  /\ At(t, "leave")
  /\ Goto(t, IF remoteclient = 0 THEN IF t = "gui" THEN "panel" ELSE "end" ELSE "drop")
  /\ UNCHANGED <<remoteclient, objects, screen, left, fault, trouble, raced>>

\* Quit if connected; then the rows, the object and the pointer go.
Leave(t) ==
  /\ At(t, "leave")
  /\ Goto(t, IF remoteclient = 0 THEN IF t = "gui" THEN "panel" ELSE "end"
             ELSE IF connected[remoteclient] THEN "hangup" ELSE "drop")
  /\ UNCHANGED <<remoteclient, objects, screen, left, fault, trouble, raced>>

\* Mutant: the pointer keeps its value.
ForgetNothing(t) ==
  /\ At(t, "forget")
  /\ selected_action' = IF t = "gui" /\ selected_action = "CONNECT" THEN "NONE"
                        ELSE selected_action
  /\ Goto(t, IF t = "gui" THEN "panel" ELSE "end")
  /\ UNCHANGED <<remoteclient, objects, listing, popup, button, left, fault, trouble, raced>>

\* remoteclient = nullptr, in Disconnect and where Connect has failed.  Only
\* the latter resets selected_action: ACTION_DISCONNECT stays, and finds a null
\* pointer in the next frame.
Forget(t) ==
  /\ At(t, "forget")
  /\ remoteclient' = 0
  /\ selected_action' = IF t = "gui" /\ selected_action = "CONNECT" THEN "NONE"
                        ELSE selected_action
  /\ Goto(t, IF t = "gui" THEN "panel" ELSE "end")
  /\ UNCHANGED <<objects, listing, popup, button, left, fault, trouble, raced>>

Disconnecting(t) ==
  \/ Leave(t)
  \/ Quit(t, "hangup", "drop")
  \/ Delete(t, "drop")
  \/ Forget(t)

-----------------------------------------------------------------------------
(* The GUI thread: one frame.                                               *)

\* ConnectionPanel: is_connected, the pointer first ...
DrawPanel ==
  /\ At("gui", "panel")
  /\ Goto("gui", IF remoteclient = 0 THEN "input" ELSE "button")
  /\ button' = IF popup THEN "covered" ELSE "CONNECT"
  /\ UNCHANGED <<remoteclient, objects, listing, popup, selected_action, left, fault,
                 trouble, raced>>

\* ... then the object it points to.
DrawButton ==
  /\ At("gui", "button")
  /\ Goto("gui", "input")
  /\ button' = IF button # "covered" /\ connected[remoteclient]
                 THEN "DISCONNECT" ELSE button
  /\ UNCHANGED <<remoteclient, objects, listing, popup, selected_action, left, fault,
                 trouble, raced>>

\* SupportedActions: the index pages can only be read.
Supports(action) == kind[remoteclient] = "index" => action = "DOWNLOAD"

\* What the widgets of a frame select.  An entry of the remote list or of its
\* menu needs rows on the screen; new folder, edit and upload are greyed out
\* only when there is a client and it cannot do them.
Selectable ==
  {"REFRESH", "SEARCH"}
  \cup {a \in {"CONNECT"} : button = a /\ created < MaxClients}
  \cup {a \in {"DISCONNECT"} : button = a}
  \cup {a \in {"CHANGE"} : listing}
  \cup {a \in {"NEW_FOLDER", "EDIT"} : listing /\ (remoteclient # 0 => Supports(a))}
  \cup {a \in {"RENAME", "DELETE", "DOWNLOAD"} :
          listing /\ remoteclient # 0 /\ Supports(a)}
  \cup {a \in {"UPLOAD"} : remoteclient # 0 => Supports(a)}

\* At the end of the frame the progress or the question is on the screen while
\* a thread works, but not while a transfer sleeps on the answer to a question.
\* The popup covers the widgets from the next frame on.
Input ==
  /\ At("gui", "input")
  /\ Goto("gui", "execute")
  /\ \/ UNCHANGED <<selected_action, raced>>
     \/ /\ button # "covered" /\ selected_action' \in Selectable
        /\ raced' = (raced \/ pc["worker"] # "idle")
  /\ \/ popup' = (pc["worker"] # "idle")
     \/ pc["worker"] \in {"put", "get"} /\ popup' = FALSE
  /\ UNCHANGED <<remoteclient, objects, listing, button, left, fault, trouble>>

\* Mutant: HandleRefreshRemoteFiles without its null test.
FirstCallUntested(action) ==
  CASE action = "DISCONNECT" -> "leave"
    [] action \in {"SEARCH", "REFRESH"} -> "ping"
    [] action = "CHANGE" -> "enter"
    [] action \in {"NEW_FOLDER", "RENAME"} -> "request"
    [] action = "EDIT" -> IF remoteclient # 0 THEN "fetch" ELSE "done"
    [] OTHER -> "panel"

\* The handlers of ExecuteActions that begin with a call of the client.
FirstCall(action) ==
  CASE action = "DISCONNECT" -> "leave"
    [] action = "SEARCH" -> "ping"
    [] action = "CHANGE" -> "enter"
    [] action \in {"NEW_FOLDER", "RENAME"} -> "request"
    [] action = "REFRESH" -> IF remoteclient # 0 THEN "ping" ELSE "done"
    [] action = "EDIT" -> IF remoteclient # 0 THEN "fetch" ELSE "done"
    [] OTHER -> "panel"

Execute ==
  /\ At("gui", "execute")
  /\ selected_action \notin Jobs \cup {"CONNECT"}
  /\ Goto("gui", FirstCall(selected_action))
  /\ UNCHANGED <<remoteclient, objects, screen, left, fault, trouble, raced>>

\* Actions::Connect: a new object for the protocol of the settings; the one it
\* replaces, if any, is not deleted.
ExecuteConnect ==
  /\ At("gui", "execute")
  /\ selected_action = "CONNECT" /\ created < MaxClients
  /\ created' = created + 1
  /\ remoteclient' = created + 1
  /\ \E k \in Protocols : kind' = [kind EXCEPT ![created + 1] = k]
  /\ alive' = [alive EXCEPT ![created + 1] = TRUE]
  /\ Goto("gui", "connect")
  /\ UNCHANGED <<connected, context, screen, left, fault, trouble, raced>>

Connect ==
  /\ At("gui", "connect")
  /\ \E ok, con \in BOOLEAN, ctx \in Contexts :
       /\ ConnectResult(kind[remoteclient], ok, con, ctx)
       /\ context' = [context EXCEPT ![remoteclient] = ctx]
       /\ connected' = [connected EXCEPT ![remoteclient] = con]
       /\ trouble' = (trouble \/ ~con)
       /\ Goto("gui", IF ok THEN "ping" ELSE "failed")
  /\ UNCHANGED <<remoteclient, created, kind, alive, screen, left, fault, raced>>

\* The cases that start a thread, which finds its files in the lists on screen.
ExecuteJob ==
  /\ At("gui", "execute") /\ pc["worker"] = "idle"
  /\ selected_action \in Jobs
  /\ pc' = [pc EXCEPT !["gui"] = "panel",
                      !["worker"] = CASE selected_action = "DELETE" -> "check"
                                      [] selected_action = "UPLOAD" -> "probe"
                                      [] OTHER -> "size"]
  /\ left' \in 1..MaxFiles
  /\ selected_action' = "NONE"
  /\ UNCHANGED <<remoteclient, objects, listing, popup, button, fault, trouble, raced>>

\* RefreshRemoteFiles after its ping: the list has at least its ".." row, and
\* is shown even when the server's answer to ListDir was an error.
List ==
  /\ \E ok \in BOOLEAN : Request("gui", "list", ok)
  /\ listing' = TRUE
  /\ Goto("gui", "done")
  /\ UNCHANGED left

\* CreateNewRemoteFolder and RenameRemoteFolder: no ping first, a refresh after
\* success.
Ask ==
  /\ \E ok \in BOOLEAN :
       /\ Request("gui", "request", ok)
       /\ Goto("gui", IF ok THEN "ping" ELSE "done")
  /\ UNCHANGED <<listing, left>>

\* ACTION_REMOTE_EDIT fetches the file.
Fetch ==
  /\ \E ok \in BOOLEAN : Request("gui", "fetch", ok)
  /\ Goto("gui", "done")
  /\ UNCHANGED <<listing, left>>

\* The handler's last statement.
Done ==
  /\ At("gui", "done")
  /\ selected_action' = "NONE"
  /\ Goto("gui", "panel")
  /\ UNCHANGED <<remoteclient, objects, listing, popup, button, left, fault, trouble, raced>>

\* HandleChangeRemoteDirectory pings, and RefreshRemoteFiles pings again; after
\* a failed first ping it returns with selected_action as it was.
Gui ==
  \/ DrawPanel \/ DrawButton \/ Input
  \/ Execute \/ ExecuteConnect \/ Connect \/ ExecuteJob
  \/ Ping("gui", "ping", "list", "quit")
  \/ Ping("gui", "enter", "ping", "lost")
  \/ List \/ Ask \/ Fetch
  \/ Quit("gui", "quit", "done")
  \/ Quit("gui", "lost", "panel")
  \/ Quit("gui", "failed", "discard")
  \/ Delete("gui", "discard")
  \/ Done
  \/ Disconnecting("gui")

-----------------------------------------------------------------------------
(* The worker: the thread of a delete, an upload or a download.             *)

\* DeleteSelectedRemotesFilesThread, after its ping: every marked entry,
\* whatever the results.
DeleteFiles ==
  /\ \E ok \in BOOLEAN : Request("worker", "files", ok)
  /\ left' = left - 1
  /\ Goto("worker", IF left = 1 THEN "post" ELSE "files")
  /\ UNCHANGED listing

\* On to the next file of a transfer, unless Cancel makes the rest return at once.
NextFile(step, last) ==
  \E n \in {0, left - 1} :
    /\ left' = n
    /\ Goto("worker", IF n = 0 THEN last ELSE step)

\* UploadFile after its ping: FileExists and Put.  The loop over the marked
\* files goes on whatever the result.
Put ==
  /\ \E ok \in BOOLEAN : Request("worker", "put", ok)
  /\ NextFile("probe", "post")
  /\ UNCHANGED listing

\* DownloadFile: Size, which ends the session when it fails, and Get.
Size ==
  /\ \E ok \in BOOLEAN :
       /\ Request("worker", "size", ok)
       /\ Goto("worker", IF ok THEN "get" ELSE "hopeless")
  /\ UNCHANGED <<listing, left>>

Get ==
  /\ \E ok \in BOOLEAN : Request("worker", "get", ok)
  /\ NextFile("size", "end")
  /\ UNCHANGED listing

\* After a failed file the next one is tried over the client that was quit.
GoOn(step, first, last) ==
  /\ At("worker", step)
  /\ NextFile(first, last)
  /\ UNCHANGED <<remoteclient, objects, screen, fault, trouble, raced>>

\* The thread asks for a refresh of the remote list and then ends; a download
\* refreshes the local list instead.
Post ==
  /\ At("worker", "post")
  /\ selected_action' = "REFRESH"
  /\ Goto("worker", "end")
  /\ UNCHANGED <<remoteclient, objects, listing, popup, button, left, fault, trouble, raced>>

End ==
  /\ At("worker", "end")
  /\ Goto("worker", "idle")
  /\ left' = 0
  /\ UNCHANGED <<remoteclient, objects, screen, fault, trouble, raced>>

Worker ==
  \/ Ping("worker", "check", "files", "leave")
  \/ DeleteFiles
  \/ Disconnecting("worker")
  \/ Ping("worker", "probe", "put", "giveup")
  \/ Put
  \/ Quit("worker", "giveup", "failedUpload")
  \/ GoOn("failedUpload", "probe", "post")
  \/ Size \/ Get
  \/ Quit("worker", "hopeless", "failedDownload")
  \/ GoOn("failedDownload", "size", "end")
  \/ Post \/ End

\* The program has ended.
Halted == fault # "none" /\ UNCHANGED vars

Next == Gui \/ Worker \/ Crash("gui") \/ Crash("worker") \/ Halted

Spec == Init /\ [][Next]_vars

-----------------------------------------------------------------------------
(* Properties.                                                              *)

GuiSteps == {"panel", "button", "input", "execute", "connect", "ping", "enter",
             "list", "request", "fetch", "quit", "lost", "failed", "leave", "hangup",
             "drop", "discard", "forget", "done"}
WorkerSteps == {"idle", "check", "files", "leave", "hangup", "drop", "forget",
                "probe", "put", "giveup", "failedUpload", "size", "get", "hopeless",
                "failedDownload", "post", "end"}

\* Every variable has its type, and no more objects exist than were created.
TypeOK ==
  /\ pc \in [{"gui", "worker"} -> GuiSteps \cup WorkerSteps]
  /\ pc["gui"] \in GuiSteps /\ pc["worker"] \in WorkerSteps
  /\ created \in 0..MaxClients /\ remoteclient \in 0..created
  /\ kind \in [Clients -> Kinds]
  /\ alive \in [Clients -> BOOLEAN]
  /\ connected \in [Clients -> BOOLEAN]
  /\ context \in [Clients -> Contexts]
  /\ listing \in BOOLEAN /\ popup \in BOOLEAN
  /\ button \in {"CONNECT", "DISCONNECT", "covered"}
  /\ selected_action \in Actions
  /\ left \in 0..MaxFiles
  /\ pc["worker"] \in {"files", "put", "get", "size", "probe", "giveup", "hopeless",
                       "failedUpload", "failedDownload", "check"} => left \in 1..MaxFiles
  /\ fault \in {"none", "null client", "deleted client", "null context", "freed context"}
  /\ trouble \in BOOLEAN /\ raced \in BOOLEAN

\* A client that says it is connected holds an open context, so the connect
\* button and the refresh tell the truth: FTP, SMB and NFS (the
\* WebDAV and index page clients do not: Quit leaves connected set).
ConnectedHasSession ==
  \A c \in Clients :
    alive[c] /\ connected[c] /\ kind[c] \notin Web => context[c] = "open"

\* As long as every call of a client succeeds, and the user selects nothing over
\* a running job, the program follows a bad pointer in two places only: Search
\* and Upload, which the windows offer and the handlers run without asking
\* whether there is a client at all.
CalmSession ==
  fault # "none" /\ ~trouble /\ ~raced =>
    /\ fault = "null client"
    /\ selected_action = "SEARCH" \/ pc["worker"] = "probe"

\* A thread calls a client that was deleted in one place only, wherever the two
\* are suspended, or after the user has selected something over a running job:
\* the connection panel, between its test of the pointer and its use, when the
\* delete thread's ping has failed and that thread disconnects meanwhile.  Every
\* other step of either thread is safe.
DeletedOnlyInPanel ==
  fault = "deleted client" /\ ~raced =>
    /\ trouble
    /\ pc["gui"] = "button" /\ pc["worker"] \in {"forget", "end", "idle"}

\* A client that is gone has given its context back, however its session ended;
\* an SMB client only if no ping had failed: its ping clears the flag that
\* Disconnect looks at before it calls Quit.
ContextReleased ==
  ~raced => \A c \in 1..created :
    ~alive[c] /\ (kind[c] # "smb" \/ ~trouble) => context[c] # "open"

\* Until a call fails, the one client alive is the one the program can reach.
OneClient ==
  ~trouble /\ ~raced => \A c \in Clients : alive[c] => c = remoteclient
=============================================================================
