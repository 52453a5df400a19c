-------------------------- MODULE RemoteSessionInv --------------------------
(* The inductive invariant of RemoteSession.  Once the user has selected      *)
(* something over a running job, only the types remain.                      *)
EXTENDS RemoteSession

FrameSteps == {"panel", "button", "input", "execute"}
GivingUp   == {"leave", "hangup", "drop", "forget", "giveup", "failedUpload",
               "hopeless", "failedDownload"}

\* While the worker uses the client the GUI is between handlers, and nothing is
\* selected until the worker asks for a refresh.
Separate ==
  /\ pc["worker"] \notin {"idle", "end"} =>
       pc["gui"] \in FrameSteps /\ selected_action = "NONE"
  /\ pc["worker"] = "end" =>
       /\ selected_action \in {"NONE", "REFRESH"}
       /\ pc["gui"] \in FrameSteps \cup {"ping", "list", "quit", "done"}

\* The handler a step of the GUI belongs to.
Handler ==
  /\ pc["gui"] \in {"connect", "failed", "discard"} => selected_action = "CONNECT"
  /\ pc["gui"] \in {"leave", "hangup", "drop"} => selected_action = "DISCONNECT"
  /\ pc["gui"] \in {"enter", "lost"} => selected_action = "CHANGE"
  /\ pc["gui"] = "forget" => selected_action \in {"CONNECT", "DISCONNECT"}
  /\ selected_action = "CONNECT" => pc["gui"] \notin {"panel", "button", "input"}
  /\ selected_action \in Jobs => pc["gui"] = "execute"
  /\ pc["gui"] = "button" => button # "DISCONNECT"

\* A client is there, unless it was just deleted and the pointer not yet reset;
\* only the delete thread takes it from the panel that has just tested it.
\* Objects that were not created yet are as they will be when they are.
Pointed ==
  /\ remoteclient # 0 /\ ~alive[remoteclient] <=>
       pc["gui"] = "forget" \/ pc["worker"] = "forget"
  /\ pc["gui"] = "button" /\ remoteclient = 0 => pc["worker"] \in {"end", "idle"}
  /\ pc["gui"] = "connect" => remoteclient # 0 /\ alive[remoteclient]
  /\ \A c \in Clients : c > created =>
       ~alive[c] /\ ~connected[c] /\ context[c] = "none"

\* FTP and NFS clients are connected exactly when their context is open, SMB
\* clients only then.
Connectedness ==
  \A c \in Clients : alive[c] =>
    /\ kind[c] \in {"ftp", "nfs"} => (connected[c] <=> context[c] = "open")
    /\ kind[c] = "smb" /\ connected[c] => context[c] = "open"

\* An object about to be deleted has given its context back.
Dropping ==
  (\E t \in {"gui", "worker"} : pc[t] \in {"drop", "discard"}) /\ remoteclient # 0 =>
    \/ kind[remoteclient] \in Web
    \/ kind[remoteclient] = "smb" /\ trouble
    \/ context[remoteclient] # "open"

\* While every call succeeds: one client, connected and with an open context
\* except while it comes and goes; without it no rows and nothing selected that
\* needs them.
Calm ==
  ~trouble /\ ~raced =>
    /\ pc["worker"] \notin GivingUp
    /\ pc["gui"] \notin {"quit", "lost", "failed", "discard"}
    /\ \A c \in Clients : alive[c] => c = remoteclient
    /\ remoteclient # 0 /\ pc["gui"] \notin {"connect", "drop", "forget"} =>
         connected[remoteclient] /\ context[remoteclient] = "open"
    /\ pc["gui"] = "forget" => ~listing
    /\ pc["gui"] \in {"connect", "forget", "drop"} => pc["worker"] = "idle"
    /\ pc["gui"] \in {"drop", "hangup"} => remoteclient # 0
    /\ pc["gui"] = "input" /\ button = "CONNECT" => remoteclient = 0
    /\ pc["gui"] = "execute" /\ selected_action = "CONNECT" => remoteclient = 0
    /\ remoteclient = 0 =>
         /\ ~listing
         /\ selected_action \in {"NONE", "CONNECT", "DISCONNECT", "REFRESH",
                                 "SEARCH", "UPLOAD"}
         /\ pc["worker"] \in {"idle", "probe"}
         /\ \/ pc["gui"] \in {"panel", "input", "execute", "done", "leave"}
            \/ pc["gui"] = "ping" /\ selected_action = "SEARCH"

Structure == TypeOK /\ (~raced => Separate /\ Handler)
Objects   == ~raced => Pointed /\ Connectedness /\ Dropping
Promises  == CalmSession /\ ContextReleased /\ DeletedOnlyInPanel

IInv == Structure /\ Objects /\ Calm /\ Promises
=============================================================================
