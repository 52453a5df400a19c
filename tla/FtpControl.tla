----------------------------- MODULE FtpControl -----------------------------
(***************************************************************************)
(* The FTP client (clients/ftpclient.cpp) and its callers in actions.cpp:   *)
(* commands and replies over the control connection, data connections that  *)
(* open, carry and close, and a server that may refuse, fail or vanish.     *)
(*                                                                          *)
(* A call of the client is its script of commands: each is sent, its reply  *)
(* read (FtpSendCmd), and the call ends with 0 at the first reply that does *)
(* not begin with an expected digit.  HELLO is the server's greeting, DONE  *)
(* the data transfer and the reply FtpClose reads after it.                 *)
(*                                                                          *)
(* Abstracted: paths, listings and file contents; multi-line replies, which *)
(* ReadResponse joins to one; a server that is silent for good, against     *)
(* which the client has no timeout.  The server acts on a command at once.  *)
(* A reply over 511 bytes reads as an empty one, and its rest as the next.  *)
(* A range from the start of a file is read as Get reads.                   *)
(***************************************************************************)
EXTENDS Naturals, Sequences

CONSTANTS
  Files,     \* the names in use in the remote folder ("folder" is one more entry)
  Failures,  \* what may go wrong: see Kinds
  MaxBehind  \* bound: replies left unread on one connection

\* refuse: a command the server could carry out is refused; drop: the control
\* connection is lost; cut: a data connection is; rest: REST is refused; data: a
\* data connection does not open after its command was sent; long: a reply is longer
\* than the client's buffer; disk: the local file of a transfer fails.
Kinds == {"refuse", "drop", "cut", "rest", "data", "long", "disk"}

ASSUME FailuresAssumption == Failures \subseteq Kinds
ASSUME FilesAssumption == "folder" \notin Files
ASSUME BehindAssumption == MaxBehind \in Nat

Calls == {"Login", "Noop", "FileExists", "Size", "Get", "GetRange", "Head", "Put", "ListDir",
          "Delete", "Rmd", "Mkdir", "Rename", "Quit"}

Ops == {"connect", "disconnect", "browse", "upload", "create", "download", "extract",
        "header", "edit", "save", "delete", "tree", "mkdir", "rename"}

VARIABLES
  \* the server
  stored,    \* each file: "none", "old" (not of this session), "half" or "new"
  line,      \* the control connection: "none" (no client), "closed", "up", "lost"
  replies,   \* sent and not read
  sending,   \* it waits for or serves a data connection
  \* the client
  connected, call, file, at,
  script,    \* the commands the call has left
  offset,    \* the handle's offset is not 0
  \* its caller
  op, rule,
  todo,      \* delete: the marked entries; create: the names not tried; tree: the listing
  marked,    \* delete: the marked entries while a folder is emptied
  \* ghosts
  told,      \* the call that last returned 1, and its file
  whole,     \* the last data transfer was whole
  yes,       \* this upload was allowed to replace its file
  blind,     \* an existing file was probed, and the server would not say
  behind,    \* the replies this connection's calls have left unread
  spoiled    \* the local file failed in the last Get or Put

server == <<stored, line, replies, sending>>
client == <<connected, call, file, at, script, offset>>
caller == <<op, rule, todo, marked>>
ghosts == <<told, whole, yes, blind>>
slips  == <<behind, spoiled>>
vars   == <<server, client, caller, ghosts, slips>>

Transfers == {"RETR", "STOR", "LIST"}
Verbs == {"HELLO", "USER", "PASS", "NOOP", "TYPE", "SIZE", "PASV", "REST", "DONE", "CWD",
          "DELE", "RMD", "MKD", "RNFR", "RNTO", "QUIT"} \cup Transfers

\* FtpAccess, FtpXfer and FtpClose.
Access(transfer, from) ==
  IF from THEN <<"TYPE", "PASV", "REST", transfer, "DONE">>
          ELSE <<"TYPE", "PASV", transfer, "DONE">>

\* ListDir, whose offset is 0.
Listing == <<"CWD", "TYPE", "PASV", "LIST", "DONE">>

\* The commands of a call.
Script(c, from) ==
  CASE c = "Login" -> <<"HELLO", "USER", "PASS">>
    [] c = "Noop" -> <<"NOOP">>
    [] c \in {"FileExists", "Size"} -> <<"TYPE", "SIZE">>
    [] c \in {"Get", "GetRange", "Head"} -> Access("RETR", from)
    [] c = "Put" -> Access("STOR", from)
    [] c = "ListDir" -> Listing
    [] c = "Delete" -> <<"DELE">>
    [] c = "Rmd" -> <<"RMD">>
    [] c = "Mkdir" -> <<"MKD">>
    [] c = "Rename" -> <<"RNFR", "RNTO">>
    [] c = "Quit" -> <<"QUIT">>

Reply(c, v) == [code |-> c, verb |-> v]

verb == Head(script)

\* The expected first digits.
Expects(v) ==
  CASE v \in {"USER", "RNFR", "REST"} -> {"3"}
    [] v \in Transfers -> {"1"}
    [] v = "NOOP" -> {"2", "5"}
    [] OTHER -> {"2"}

\* What FtpSendCmd takes for success; PASV and SIZE look into the reply as well.
Accepted(r) == r.code \in Expects(verb) /\ (verb \in {"PASV", "SIZE"} => r.verb = verb)

Init ==
  /\ stored \in [Files -> {"none", "old"}]
  /\ line = "none" /\ replies = <<>> /\ sending = FALSE
  /\ connected = FALSE /\ call = "none" /\ file \in Files /\ at = "idle" /\ script = <<>>
  /\ offset = FALSE
  /\ op = "none" /\ rule = "ask" /\ todo = {} /\ marked = {}
  /\ told = <<>> /\ whole = FALSE /\ yes = FALSE /\ blind = FALSE
  /\ behind = 0 /\ spoiled = FALSE

-----------------------------------------------------------------------------
(* The callers: what follows a call that returned r.                        *)

\* Mutant: Get does not set the offset.
StartGet(c) == IF c \in {"Put", "ListDir"} THEN FALSE ELSE c = "GetRange" \/ offset

\* The offset a call starts from; Head uses what the call before left.
Start(c) == IF c \in {"Get", "Put", "ListDir"} THEN FALSE ELSE c = "GetRange" \/ offset

Goto(c, f) ==
  /\ call' = c /\ file' = f /\ offset' = Start(c) /\ script' = Script(c, offset')
  /\ at' = IF c = "Login" THEN "read" ELSE "send"

\* GetRange resets the offset when it got as far as FtpClose.
EndOp ==
  /\ call' = "none" /\ at' = "idle" /\ script' = <<>> /\ op' = "none"
  /\ todo' = {} /\ marked' = {}
  /\ offset' = (offset /\ ~(call = "GetRange" /\ verb = "DONE"))
  /\ UNCHANGED file

Keep == UNCHANGED <<op, todo, marked>>

\* RefreshRemoteFiles; HandleChangeRemoteDirectory does the same.
Browse(r) ==
  \/ call = "Noop" /\ r /\ Goto("ListDir", file) /\ Keep
  \/ call = "Noop" /\ ~r /\ Goto("Quit", file) /\ Keep
  \/ call = "ListDir" /\ EndOp

\* Connect, CreateNewRemoteFolder, RenameRemoteFolder: a refresh when they succeed.
Change(r) ==
  \/ r /\ Goto("Noop", file) /\ op' = "browse" /\ UNCHANGED <<todo, marked>>
  \/ ~r /\ EndOp

\* Mutant: the answer to the question is not looked at.
UploadAnyhow(r) ==
  \/ call = "Noop" /\ r /\ Goto(IF rule = "replace" THEN "Put" ELSE "FileExists", file) /\ Keep
     /\ UNCHANGED yes
  \/ call = "Noop" /\ ~r /\ Goto("Quit", file) /\ Keep /\ UNCHANGED yes
  \/ call = "FileExists" /\ Goto("Put", file) /\ Keep /\ UNCHANGED yes
  \/ call = "Put" /\ EndOp /\ UNCHANGED yes

\* UploadFile.
Upload(r) ==
  \/ call = "Noop" /\ r /\ Goto(IF rule = "replace" THEN "Put" ELSE "FileExists", file) /\ Keep
     /\ UNCHANGED yes
  \/ call = "Noop" /\ ~r /\ Goto("Quit", file) /\ Keep /\ UNCHANGED yes
  \/ call = "FileExists" /\ ~r /\ Goto("Put", file) /\ Keep /\ UNCHANGED yes
  \/ call = "FileExists" /\ r /\ rule = "ask" /\ Goto("Put", file) /\ Keep /\ yes' = TRUE
  \/ call = "FileExists" /\ r /\ EndOp /\ UNCHANGED yes
  \/ call = "Put" /\ EndOp /\ UNCHANGED yes

\* CreateRemoteFile: the first free of name, name.1, ..., then a refresh.
Create(r) ==
  \/ /\ call = "FileExists" /\ r
     /\ \/ \E f \in todo : Goto("FileExists", f) /\ todo' = todo \ {f}
                           /\ UNCHANGED <<op, marked>>
        \/ todo = {} /\ EndOp
  \/ call = "FileExists" /\ ~r /\ Goto("Put", file) /\ Keep
  \/ call = "Put" /\ Goto("Noop", file) /\ op' = "browse" /\ UNCHANGED <<todo, marked>>

\* DownloadFile: a Size that fails ends the session.
Download(r) ==
  \/ call = "Size" /\ r /\ Goto("Get", file) /\ Keep
  \/ call = "Size" /\ r /\ EndOp
  \/ call = "Size" /\ ~r /\ Goto("Quit", file) /\ Keep
  \/ call = "Get" /\ EndOp

\* DeleteSelectedRemotesFilesThread: the next marked entry, "folder" or a file.
NextMarked(left) ==
  \/ \E f \in left \ {"folder"} :
       /\ Goto("Delete", f) /\ op' = "delete"
       /\ todo' = left \ {f} /\ marked' = {}
  \/ /\ "folder" \in left
     /\ Goto("ListDir", file) /\ op' = "tree"
     /\ todo' = {} /\ marked' = left \ {"folder"}
  \/ left \subseteq {"folder"} /\ EndOp   \* a cancelled folder is passed over

DeleteMarked(r) ==
  \/ call = "Noop" /\ ~r /\ Goto("Quit", file) /\ Keep
  \/ call = "Noop" /\ r /\ NextMarked(todo)
  \/ call = "Delete" /\ NextMarked(todo)

\* Rmdir(path, recursive); a Cancel or a failed Delete returns early.
Tree(r) ==
  \/ /\ call \in {"ListDir", "Delete"} /\ (call = "Delete" => r)
     /\ \E f \in todo : Goto("Delete", f) /\ todo' = todo \ {f} /\ UNCHANGED <<op, marked>>
  \/ /\ call \in {"ListDir", "Delete"} /\ (call = "Delete" => r) /\ todo = {}
     /\ Goto("Rmd", file) /\ Keep
  \/ NextMarked(marked)

\* The call returns r.
Return(r) ==
  /\ told' = IF r THEN <<call, file>> ELSE <<>>
  /\ \/ (op \in {"extract", "header", "edit"} \/ call = "Quit") /\ EndOp /\ UNCHANGED yes
     \/ op \in {"connect", "mkdir", "rename"} /\ call # "Quit" /\ Change(r) /\ UNCHANGED yes
     \/ op = "save" /\ Change(TRUE) /\ UNCHANGED yes
     \/ op = "browse" /\ Browse(r) /\ UNCHANGED yes
     \/ op = "upload" /\ Upload(r)
     \/ op = "create" /\ Create(r) /\ UNCHANGED yes
     \/ op = "download" /\ Download(r) /\ UNCHANGED yes
     \/ op = "delete" /\ DeleteMarked(r) /\ UNCHANGED yes
     \/ op = "tree" /\ Tree(r) /\ UNCHANGED yes
  /\ UNCHANGED rule

-----------------------------------------------------------------------------
(* The client and the server.                                               *)

Upon(f, kind) == stored' = [stored EXCEPT ![f] = kind]

\* What the server could carry out.
Can(v) ==
  CASE v \in {"SIZE", "RETR", "DELE", "RNFR"} -> stored[file] # "none"
    [] v = "RMD" -> \A f \in Files : stored[f] = "none"
    [] OTHER -> TRUE

\* Quit: whatever the reply, the connection is closed; Disconnect and a failed
\* Connect delete the client too.
HangUp ==
  /\ line' = IF op \in {"connect", "disconnect", "delete"} THEN "none" ELSE "closed"
  /\ replies' = <<>> /\ sending' = FALSE
  /\ connected' = FALSE
  /\ Return(TRUE)
  /\ UNCHANGED <<stored, whole, blind>>

\* Connect: the user is logged in.
LoggedIn(rest) ==
  /\ Return(TRUE) /\ connected' = TRUE /\ replies' = rest
  /\ UNCHANGED <<stored, line, sending, whole, blind>>

\* The command failed, and rest is what is left to read.
Rejected(rest) ==
  \/ verb = "QUIT" /\ HangUp
  \/ /\ verb = "HELLO"
     /\ line' = "none" /\ replies' = <<>>
     /\ Return(FALSE)
     /\ UNCHANGED <<stored, sending, connected, whole, blind>>
  \/ /\ verb = "USER" /\ (at = "send" \/ replies = <<>>)
     /\ LoggedIn(rest)           \* LastResponse still holds the greeting, a 2
  \/ /\ verb = "PASS" \/ (verb = "USER" /\ at = "read" /\ replies # <<>>)
     /\ Goto("Quit", file) /\ replies' = rest
     /\ UNCHANGED <<stored, line, sending, connected, caller, ghosts>>
  \/ /\ verb = "CWD"              \* ListDir drops Chdir's result
     /\ script' = Tail(script) /\ at' = "send" /\ replies' = rest
     /\ UNCHANGED <<stored, line, sending, connected, call, file, offset, caller, ghosts>>
  \/ /\ verb = "REST"             \* FtpOpenPasv returns 0, and only -1 is an error
     /\ at' = "wild" /\ replies' = rest
     /\ UNCHANGED <<stored, line, sending, connected, call, file, script, offset, caller, ghosts>>
  \/ /\ verb \notin {"QUIT", "HELLO", "USER", "PASS", "CWD", "REST"}
     /\ Return(call = "GetRange" /\ verb = "DONE")   \* GetRange drops FtpClose's result
     /\ replies' = rest
     /\ UNCHANGED <<stored, line, sending, connected, whole, blind>>

\* The command succeeded; the next, or the end of the call.
Succeeded(rest) ==
  \/ verb = "QUIT" /\ HangUp
  \/ /\ Len(script) > 1
     /\ script' = Tail(script)
     /\ at' = IF Head(script') = "DONE" THEN "data" ELSE "send"
     /\ replies' = rest
     /\ UNCHANGED <<stored, line, sending, connected, call, file, offset, caller, ghosts>>
  \/ /\ Len(script) = 1 /\ verb # "QUIT"
     /\ IF verb = "PASS" THEN LoggedIn(rest)
          ELSE /\ Return(TRUE) /\ replies' = rest
               /\ UNCHANGED <<stored, line, sending, connected, whole, blind>>

\* send() to a server that carries the command out ...
Grant ==
  /\ at = "send" /\ line = "up" /\ Can(verb)
  /\ IF verb \in Transfers
       THEN at' = "open" /\ sending' = TRUE /\ UNCHANGED replies
       ELSE /\ at' = "read" /\ UNCHANGED sending
            /\ \E code \in Expects(verb) \cup (IF verb = "USER" THEN {"2"} ELSE {}) :
                 replies' = Append(replies, Reply(code, verb))
  /\ IF verb \in {"DELE", "RNTO"} THEN Upon(file, "none") ELSE UNCHANGED stored
  /\ UNCHANGED <<line, connected, call, file, script, offset, caller, ghosts>>

\* ... that refuses it ...
Refuse ==
  /\ at = "send" /\ line = "up"
  /\ ~Can(verb) \/ (IF verb = "REST" THEN "rest" ELSE "refuse") \in Failures
  /\ at' = IF verb \in Transfers THEN "open" ELSE "read"
  /\ \E code \in {"4", "5"} : replies' = Append(replies, Reply(code, verb))
  /\ sending' = FALSE
  /\ blind' = (blind \/ (call = "FileExists" /\ stored[file] # "none"))
  /\ UNCHANGED <<stored, line, connected, call, file, script, offset, caller,
                 told, whole, yes>>

\* ... or over a dead connection.
SendDead ==
  /\ at = "send" /\ line # "up"
  /\ \/ Rejected(replies)
     \/ /\ line = "lost" /\ at' = IF verb \in Transfers THEN "open" ELSE "read"
        /\ UNCHANGED <<server, connected, call, file, script, offset, caller, ghosts>>

\* connect() of the data connection, after its command.
Open ==
  /\ at = "open"
  /\ at' = "read"
  /\ IF sending /\ line = "up"
       THEN /\ replies' = Append(replies, Reply("1", verb))
            /\ IF verb = "STOR" THEN Upon(file, "half") ELSE UNCHANGED stored
       ELSE UNCHANGED <<replies, stored>>
  /\ UNCHANGED <<line, sending, connected, call, file, script, offset, caller, ghosts>>

\* The call ends without reading the reply to the command that wanted it.
OpenFails ==
  /\ at = "open" /\ ("data" \in Failures \/ line = "lost")
  /\ sending' = FALSE
  /\ IF sending /\ line = "up"
       THEN replies' = Append(replies, Reply("4", verb))
       ELSE UNCHANGED replies
  /\ IF line = "up" THEN behind < MaxBehind /\ behind' = behind + 1 ELSE UNCHANGED behind
  /\ Return(FALSE)
  /\ UNCHANGED <<stored, line, connected, whole, blind, spoiled>>

\* fopen of the local file, before any command.
LocalFails ==
  /\ at = "send" /\ call \in {"Get", "Put"} /\ verb = "TYPE" /\ "disk" \in Failures
  /\ Return(FALSE)
  /\ UNCHANGED <<server, connected, whole, blind>>

\* Mutant: FtpClose does not read the reply.
TransferUnread(complete) ==
  /\ at = "data"
  /\ spoiled' = FALSE
  /\ complete => sending
  /\ ~complete => "cut" \in Failures \/ line = "lost" \/ ~sending
  /\ whole' = (complete /\ ~offset)
  /\ sending' = FALSE
  /\ replies' = IF sending /\ line = "up"
                  THEN Append(replies, Reply(IF complete THEN "2" ELSE "4", "DONE"))
                  ELSE replies
  /\ Return(TRUE)
  /\ UNCHANGED <<stored, line, connected, blind, behind>>

\* The data itself, to its end or to a break; the server says which.  When the local
\* file fails FtpXfer stops, and what the server saw of it may look complete.
Transfer(complete) ==
  /\ at = "data"
  /\ spoiled' \in IF call \notin {"Get", "Put"} THEN {spoiled}
                   ELSE IF "disk" \in Failures THEN BOOLEAN ELSE {FALSE}
  /\ complete => sending
  /\ ~complete => "cut" \in Failures \/ line = "lost" \/ ~sending \/ (spoiled' /\ call = "Get")
  /\ whole' = (complete /\ ~offset /\ ~spoiled')
  /\ at' = "read" /\ sending' = FALSE
  /\ replies' = IF sending /\ line = "up"
                  THEN Append(replies, Reply(IF complete THEN "2" ELSE "4", "DONE"))
                  ELSE replies
  /\ IF call = "Put" /\ whole' THEN Upon(file, "new") ELSE UNCHANGED stored
  /\ IF op = "tree"
       THEN \E seen \in SUBSET {f \in Files : stored[f] # "none"} :
              (complete => seen = {f \in Files : stored[f] # "none"}) /\ todo' = seen
       ELSE UNCHANGED todo
  /\ UNCHANGED <<line, connected, call, file, script, offset, op, rule, marked, told, yes,
                 blind, behind>>

\* ReadResponse.
Read ==
  /\ at = "read" /\ replies # <<>>
  /\ LET r == Head(replies) IN
       \/ Accepted(r) /\ Succeeded(Tail(replies))
       \/ /\ verb = "USER" /\ r.code = "2"   \* no password wanted
          /\ LoggedIn(Tail(replies))
       \/ ~Accepted(r) /\ ~(verb = "USER" /\ r.code = "2") /\ Rejected(Tail(replies))

\* Readline with its buffer full: it empties the buffer and leaves the rest of the line.
ReadLong ==
  /\ at = "read" /\ replies # <<>> /\ "long" \in Failures
  /\ behind < MaxBehind /\ behind' = behind + 1
  /\ \E code \in {"1", "2", "3", "4", "5"} :
       Rejected(<<Reply(code, "TAIL")>> \o Tail(replies))
  /\ UNCHANGED spoiled

\* Mutant: Readline forgets that it met the end.
ReadEndSpins ==
  /\ at = "read" /\ replies = <<>> /\ line # "up"
  /\ UNCHANGED vars

\* The end of a lost connection.
ReadEnd ==
  /\ at = "read" /\ replies = <<>> /\ line # "up"
  /\ Rejected(<<>>)

\* GetRange or Head go on with a handle that was never set.
Stray ==
  /\ at = "wild"
  /\ UNCHANGED <<stored, blind>> /\ whole' = FALSE
  /\ \/ /\ Return(call = "GetRange")     \* it happens to look closed
        /\ UNCHANGED <<line, replies, sending, connected>>
     \/ /\ EndOp /\ told' = <<>>          \* the program crashes and is started again
        /\ line' = "none" /\ replies' = <<>> /\ sending' = FALSE /\ connected' = FALSE
        /\ UNCHANGED <<rule, yes>>

Client ==
  \/ /\ Grant \/ Refuse \/ SendDead \/ Open \/ LocalFails \/ Read \/ ReadEnd \/ Stray
     /\ UNCHANGED slips
  \/ OpenFails
  \/ ReadLong
  \/ \E complete \in BOOLEAN : Transfer(complete)

\* The connection is lost, with what was on its way, the server's farewell (421) or
\* nothing.
Drop ==
  /\ line = "up" /\ "drop" \in Failures
  /\ line' = "lost"
  /\ replies' \in {<<>>, replies, Append(replies, Reply("4", "BYE"))}
  /\ UNCHANGED <<stored, sending, client, caller, ghosts, slips>>

-----------------------------------------------------------------------------
(* The user.                                                                *)

Fresh == told' = <<>> /\ yes' = FALSE /\ blind' = FALSE /\ UNCHANGED whole

\* Connect: a new client, once the greeting is on its way.
Connect ==
  /\ op = "none" /\ ~connected
  /\ line' = "up" /\ sending' = FALSE
  /\ \E code \in {"2"} \cup (IF "refuse" \in Failures THEN {"4"} ELSE {}) :
       replies' = <<Reply(code, "HELLO")>>
  /\ op' = "connect" /\ Goto("Login", file)
  /\ Fresh /\ behind' = 0
  /\ UNCHANGED <<stored, connected, rule, todo, marked, spoiled>>

Begin(o, c, f) ==
  /\ op = "none" /\ line # "none"
  /\ op' = o /\ Goto(c, f)
  /\ Fresh
  /\ UNCHANGED <<server, connected, marked, slips>>

Plain == UNCHANGED <<rule, todo>>

User ==
  \/ Connect
  \/ connected /\ Begin("disconnect", "Quit", file) /\ Plain
  \/ Begin("browse", "Noop", file) /\ Plain
  \/ \E f \in Files, how \in {"skip", "ask", "replace"} :
       Begin("upload", "Noop", f) /\ rule' = how /\ UNCHANGED todo
  \/ \E f \in Files : Begin("create", "FileExists", f) /\ todo' = Files \ {f} /\ UNCHANGED rule
  \/ \E f \in Files : Begin("download", "Size", f) /\ Plain
  \/ \E f \in Files : Begin("extract", "GetRange", f) /\ Plain
  \/ \E f \in Files : Begin("header", "Head", f) /\ Plain
  \/ \E f \in Files : Begin("edit", "Get", f) /\ Plain
  \/ \E f \in Files : Begin("save", "Put", f) /\ Plain
  \/ \E s \in SUBSET (Files \cup {"folder"}) :
       Begin("delete", "Noop", file) /\ todo' = s /\ UNCHANGED rule
  \/ Begin("mkdir", "Mkdir", file) /\ Plain
  \/ \E f \in Files : Begin("rename", "Rename", f) /\ Plain

Next == Client \/ Drop \/ User

Spec == Init /\ [][Next]_vars

\* The server answers, and the thread runs.
FairSpec == Spec /\ WF_vars(Client)

-----------------------------------------------------------------------------
TypeOK ==
  /\ stored \in [Files -> {"none", "old", "half", "new"}]
  /\ line \in {"none", "closed", "up", "lost"}
  /\ replies \in Seq([code : {"1", "2", "3", "4", "5"}, verb : Verbs \cup {"BYE", "TAIL"}])
  /\ sending \in BOOLEAN /\ connected \in BOOLEAN
  /\ call \in Calls \cup {"none"} /\ file \in Files
  /\ at \in {"idle", "send", "open", "read", "data", "wild"}
  /\ script \in Seq(Verbs) /\ offset \in BOOLEAN
  /\ op \in Ops \cup {"none"} /\ rule \in {"skip", "ask", "replace"}
  /\ todo \subseteq Files \cup {"folder"} /\ marked \subseteq Files
  /\ told \in {<<>>} \cup (Calls \X Files)
  /\ whole \in BOOLEAN /\ yes \in BOOLEAN /\ blind \in BOOLEAN
  /\ behind \in Nat /\ spoiled \in BOOLEAN

\* When a command is sent over a living connection no reply is unread but those that
\* data connections that did not open and over-long replies have left: each of these,
\* and nothing else, puts every later command one reply behind until a new Connect.
InStep == at = "send" /\ line = "up" => Len(replies) <= behind

\* What a call reported with 1: the file is deleted, renamed, there, stored or fetched
\* whole, unless the local file failed in the midst of it.
Happened ==
  \A f \in Files :
    /\ told \in {<<"Delete", f>>, <<"Rename", f>>} => stored[f] = "none"
    /\ told = <<"Put", f>> => stored[f] = "new" \/ spoiled
    /\ told = <<"Get", f>> => whole \/ spoiled
    /\ told = <<"FileExists", f>> => stored[f] # "none"

\* While the replies are in step, what the client reports as done is done; only a local
\* file that fails spoils a transfer that reports success.
Truthful == behind = 0 => Happened

\* UploadFile and CreateRemoteFile store over a file of the server's only under
\* "replace all" or after a Yes (the editor over the file it edits), unless the server
\* refused to say that it exists or the replies are out of step.
Asked(f) == stored[f] = "old" /\ stored'[f] = "half"
              => \/ op = "save" \/ (op = "upload" /\ (rule = "replace" \/ yes))
                 \/ blind \/ behind > 0

OverwriteAsked == [][\A f \in Files : Asked(f)]_vars

\* A client that says it is connected has a connection, dead or alive; one that does
\* not has none, but while it logs in.
ConnectedLine == IF connected THEN line \in {"up", "lost"}
                              ELSE line \in {"none", "closed"} \/ op = "connect"

\* Whatever is refused, lost or broken, an operation ends.
OpEnds == op # "none" ~> op = "none"
=============================================================================
