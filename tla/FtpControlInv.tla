--------------------------- MODULE FtpControlInv ---------------------------
(* The inductive invariant of FtpControl. *)
EXTENDS FtpControl

Logins == {"HELLO", "USER", "PASS"}

\* What every suffix of a call's script has: CWD is never the last command, the
\* commands of the login belong to Login and end in PASS.
Shaped(c, s) ==
  /\ s \in Seq(Verbs) /\ s # <<>>
  /\ \A i \in 1..Len(s) :
       /\ s[i] = "CWD" => i < Len(s)
       /\ s[i] \in Logins <=> c = "Login"
  /\ c = "Login" => s[Len(s)] = "PASS"
  /\ c = "Quit" => s = <<"QUIT">>

\* The call and its script, while an operation runs.
Scripted ==
  /\ at = "idle" <=> op = "none"
  /\ at # "idle" => call \in Calls /\ Shaped(call, script)
  /\ at = "open" => verb \in Transfers
  /\ at = "wild" => verb = "REST"
  /\ at = "data" => verb = "DONE"
  /\ at # "idle" /\ call = "Login" => op = "connect"
  /\ op = "connect" => call \in {"Login", "Quit"}
  /\ op \in {"tree", "create"} => todo \subseteq Files

\* Besides what was left behind at most one reply is unread on a living connection, and
\* only while it is awaited.
Paced ==
  line = "up" =>
    Len(replies) <= behind + (IF at = "read" \/ (at = "open" /\ ~sending) THEN 1 ELSE 0)

\* Logging in: over a connection, and not yet connected.
Joining == op = "connect" => ~connected /\ line \in {"up", "lost"}

IInv == TypeOK /\ Scripted /\ ConnectedLine /\ Joining

-----------------------------------------------------------------------------
(* What Truthful and OverwriteAsked need besides, while the replies are in step. *)

\* The calls of each operation.
CallsOf(o) ==
  CASE o = "connect"    -> {"Login", "Quit"}
    [] o = "disconnect" -> {"Quit"}
    [] o = "browse"     -> {"Noop", "ListDir", "Quit"}
    [] o = "upload"     -> {"Noop", "FileExists", "Put", "Quit"}
    [] o = "create"     -> {"FileExists", "Put"}
    [] o = "download"   -> {"Size", "Get", "Quit"}
    [] o = "extract"    -> {"GetRange"}
    [] o = "header"     -> {"Head"}
    [] o = "edit"       -> {"Get"}
    [] o = "save"       -> {"Put"}
    [] o = "delete"     -> {"Noop", "Delete", "Quit"}
    [] o = "tree"       -> {"ListDir", "Delete", "Rmd"}
    [] o = "mkdir"      -> {"Mkdir"}
    [] o = "rename"     -> {"Rename"}

\* The command whose reply a call that tells of a file ends with.
LastCommand == [Delete |-> "DELE", Rename |-> "RNTO", Put |-> "DONE", Get |-> "DONE",
                FileExists |-> "SIZE"]

\* Which commands belong to which of these calls, in every suffix of their scripts.
Owned(c, s) ==
  /\ \A i \in 1..Len(s) :
       /\ s[i] = "DELE" => c = "Delete"
       /\ s[i] = "RNTO" => c = "Rename"
       /\ s[i] = "STOR" => c = "Put"
       /\ s[i] = "QUIT" => c = "Quit"
       /\ s[i] = "CWD" => s[i + 1] # "DONE"
       /\ c = "FileExists" => s[i] \in {"TYPE", "SIZE"}
  /\ c \in DOMAIN LastCommand => s[Len(s)] = LastCommand[c]

Placed ==
  at # "idle" =>
    /\ call \in CallsOf(op) /\ Owned(call, script)
    /\ at = "send" => verb # "DONE"
    /\ call \in {"Get", "Put"} => ~offset

\* What a positive reply to the command in hand says is so.
Answer ==
  /\ verb \in {"DELE", "RNTO"} => stored[file] = "none"
  /\ verb = "SIZE" => stored[file] # "none"
  /\ verb = "DONE" /\ call = "Put" => stored[file] = "new" \/ spoiled
  /\ verb = "DONE" /\ call = "Get" => whole \/ spoiled

\* An unread reply is a refusal or a farewell, or answers the command in hand.
Answered ==
  \A i \in 1..Len(replies) :
    \/ replies[i].code \in {"4", "5"}
    \/ i = 1 /\ at = "read" /\ (replies[1].code = "2" => Answer)

\* What was told stays true through the call that follows.
Following ==
  at # "idle" =>
    \A f \in Files :
      /\ told # <<"Get", f>>
      /\ told = <<"Put", f>> => call \notin {"Delete", "Rename", "Put", "Get"}
      /\ told \in {<<"Delete", f>>, <<"Rename", f>>} => call # "Put"
      /\ told = <<"FileExists", f>> => call \notin {"Delete", "Rename"}
      /\ op = "connect" => told = <<>>

\* A server that will not say that a file exists has been heard.
Denied ==
  at = "read" /\ line = "up" /\ replies # <<>> /\ call = "FileExists" /\ stored[file] # "none" =>
    Accepted(Head(replies)) \/ blind

\* A file that is about to be replaced may be.
Permitted ==
  at # "idle" /\ call = "Put" /\ line = "up" /\ stored[file] = "old" =>
    op = "save" \/ (op = "upload" /\ (rule = "replace" \/ yes)) \/ blind

Honest == Placed /\ Answered /\ Following /\ Denied /\ Permitted
=============================================================================
