-------------------------- MODULE FtpControlProofs --------------------------
(***************************************************************************)
(* Theorems about the FTP client, for every set of names and any failures.  *)
(***************************************************************************)
EXTENDS FtpControlInv, SequenceTheorems, TLAPS

-----------------------------------------------------------------------------
(* Scripts.                                                                 *)

LEMMA ScriptShaped ==
  ASSUME NEW c \in Calls, NEW from \in BOOLEAN
  PROVE  Shaped(c, Script(c, from))
<1> USE DEF Shaped, Script, Access, Listing, Verbs, Transfers, Logins
<1>1. CASE c = "Login" BY <1>1
<1>2. CASE c = "Noop" BY <1>2
<1>3. CASE c \in {"FileExists", "Size"}
  <2>1. Script(c, from) = <<"TYPE", "SIZE">> BY <1>3
  <2>2. c # "Login" /\ c # "Quit" BY <1>3
  <2> HIDE DEF Script
  <2> QED BY <2>1, <2>2
<1>4. CASE c \in {"Get", "GetRange", "Head"}
  <2>1. CASE from
    <3>1. Script(c, from) = <<"TYPE", "PASV", "REST", "RETR", "DONE">> BY <1>4, <2>1
    <3>2. c # "Login" /\ c # "Quit" BY <1>4
    <3> HIDE DEF Script
    <3> QED BY <3>1, <3>2
  <2>2. CASE ~from
    <3>1. Script(c, from) = <<"TYPE", "PASV", "RETR", "DONE">> BY <1>4, <2>2
    <3>2. c # "Login" /\ c # "Quit" BY <1>4
    <3> HIDE DEF Script
    <3> QED BY <3>1, <3>2
  <2> QED BY <2>1, <2>2
<1>5. CASE c = "Put"
  <2>1. CASE from BY <1>5, <2>1
  <2>2. CASE ~from BY <1>5, <2>2
  <2> QED BY <2>1, <2>2
<1>6. CASE c = "ListDir" BY <1>6
<1>7. CASE c = "Delete" BY <1>7
<1>8. CASE c = "Rmd" BY <1>8
<1>9. CASE c = "Mkdir" BY <1>9
<1>10. CASE c = "Rename" BY <1>10
<1>11. CASE c = "Quit" BY <1>11
<1> QED
  BY <1>1, <1>2, <1>3, <1>4, <1>5, <1>6, <1>7, <1>8, <1>9, <1>10, <1>11 DEF Calls

LEMMA TailShaped ==
  ASSUME NEW c, NEW s, Shaped(c, s), Len(s) > 1
  PROVE  Shaped(c, Tail(s)) /\ c # "Quit"
<1>1. s \in Seq(Verbs) /\ Len(s) \in Nat BY DEF Shaped
<1>2. Tail(s) \in Seq(Verbs) /\ Len(Tail(s)) = Len(s) - 1
  BY <1>1
<1>3. \A i \in 1..Len(Tail(s)) : Tail(s)[i] = s[i + 1] /\ i + 1 \in 1..Len(s)
  BY <1>1, <1>2
<1>4. Tail(s) # <<>>
  <2>1. Len(Tail(s)) # 0 BY <1>1, <1>2
  <2>2. Len(<<>>) = 0 OBVIOUS
  <2> QED BY <2>1, <2>2
<1>5. c # "Quit" BY DEF Shaped
<1>6. c = "Login" => Tail(s)[Len(Tail(s))] = "PASS"
  BY <1>1, <1>2, <1>3 DEF Shaped
<1>7. \A i \in 1..Len(Tail(s)) :
        /\ Tail(s)[i] = "CWD" => i < Len(Tail(s))
        /\ Tail(s)[i] \in Logins <=> c = "Login"
  BY <1>1, <1>2, <1>3 DEF Shaped
<1> QED BY <1>2, <1>4, <1>5, <1>6, <1>7 DEF Shaped

\* The command in hand.
LEMMA VerbShaped ==
  ASSUME NEW c, NEW s, Shaped(c, s)
  PROVE  /\ Head(s) \in Verbs /\ Len(s) \in Nat \ {0}
         /\ Head(s) = "CWD" => Len(s) > 1
         /\ Head(s) \in Logins <=> c = "Login"
         /\ c = "Login" /\ Len(s) = 1 => Head(s) = "PASS"
         /\ c = "Quit" => Head(s) = "QUIT"
<1>1. s \in Seq(Verbs) /\ s # <<>> BY DEF Shaped
<1>2. Len(s) \in Nat \ {0} /\ Head(s) = s[1] /\ 1 \in 1..Len(s) BY <1>1
<1>3. s[1] \in Verbs BY <1>1, <1>2
<1> QED BY <1>1, <1>2, <1>3 DEF Shaped

-----------------------------------------------------------------------------
(* The type invariant in two halves, and what a returning call leads to.    *)

Flags ==
  /\ sending \in BOOLEAN /\ connected \in BOOLEAN /\ offset \in BOOLEAN
  /\ whole \in BOOLEAN /\ yes \in BOOLEAN /\ blind \in BOOLEAN

Replies == Seq([code : {"1", "2", "3", "4", "5"}, verb : Verbs \cup {"BYE", "TAIL"}])

Values ==
  /\ stored \in [Files -> {"none", "old", "half", "new"}]
  /\ line \in {"none", "closed", "up", "lost"}
  /\ replies \in Replies
  /\ call \in Calls \cup {"none"} /\ file \in Files
  /\ at \in {"idle", "send", "open", "read", "data", "wild"}
  /\ script \in Seq(Verbs)
  /\ op \in Ops \cup {"none"} /\ rule \in {"skip", "ask", "replace"}
  /\ todo \subseteq Files \cup {"folder"} /\ marked \subseteq Files
  /\ told \in {<<>>} \cup (Calls \X Files)

SlipTypes == behind \in Nat /\ spoiled \in BOOLEAN

LEMMA TypeParts ==
  /\ TypeOK <=> Flags /\ Values /\ SlipTypes
  /\ TypeOK' <=> Flags' /\ Values' /\ SlipTypes'
BY DEF TypeOK, Flags, Values, Replies, SlipTypes

\* The operation is over.
Ended ==
  /\ call' = "none" /\ at' = "idle" /\ script' = <<>> /\ op' = "none"
  /\ todo' = {} /\ marked' = {} /\ file' = file

\* The operation goes on with another call.
Called ==
  /\ call' \in Calls \ {"Login"} /\ file' \in Files /\ at' = "send"
  /\ Shaped(call', script')
  /\ op' \in Ops \ {"connect"}
  /\ todo' \subseteq Files \cup {"folder"} /\ marked' \subseteq Files
  /\ op' \in {"tree", "create"} => todo' \subseteq Files

LEMMA GotoCalled ==
  ASSUME offset \in BOOLEAN, NEW c \in Calls \ {"Login"}, NEW f \in Files, Goto(c, f)
  PROVE  /\ call' = c /\ file' = f /\ at' = "send" /\ Shaped(call', script')
         /\ offset' \in BOOLEAN
<1>1. offset' \in BOOLEAN BY Zenon DEF Goto, Start
<1> QED BY <1>1, ScriptShaped DEF Goto

LEMMA EndOpEnded == offset \in BOOLEAN /\ EndOp => Ended /\ offset' \in BOOLEAN
<1> SUFFICES ASSUME offset \in BOOLEAN, EndOp PROVE Ended /\ offset' \in BOOLEAN
  OBVIOUS
<1>1. offset' \in BOOLEAN BY Zenon DEF EndOp
<1> QED BY <1>1 DEF EndOp, Ended

LEMMA NextMarkedOutcome ==
  ASSUME Flags, Values, NEW left, left \subseteq Files \cup {"folder"}, NextMarked(left)
  PROVE  (Ended \/ Called) /\ offset' \in BOOLEAN
<1>1. CASE \E f \in left \ {"folder"} :
             /\ Goto("Delete", f) /\ op' = "delete"
             /\ todo' = left \ {f} /\ marked' = {}
  BY <1>1, GotoCalled DEF Flags, Called, Calls, Ops
<1>2. CASE /\ Goto("ListDir", file) /\ op' = "tree"
           /\ todo' = {} /\ marked' = left \ {"folder"}
  BY <1>2, GotoCalled DEF Flags, Values, Called, Calls, Ops
<1>3. CASE EndOp BY <1>3, EndOpEnded DEF Flags
<1> QED BY <1>1, <1>2, <1>3 DEF NextMarked

LEMMA ReturnOutcome ==
  ASSUME Flags, Values, Scripted, at # "idle", NEW r \in BOOLEAN, Return(r)
  PROVE  /\ Ended \/ Called
         /\ offset' \in BOOLEAN /\ yes' \in BOOLEAN /\ rule' = rule
         /\ told' \in {<<>>} \cup (Calls \X Files)
<1>0. op # "none" /\ call \in Calls BY DEF Scripted
<1> DEFINE Outcome == (Ended \/ Called) /\ offset' \in BOOLEAN
<1>e. EndOp => Outcome BY EndOpEnded DEF Flags
<1>g. ASSUME NEW c \in Calls \ {"Login"}, NEW f \in Files, Goto(c, f), Keep, op # "connect",
             op \in {"tree", "create"} => todo \subseteq Files
      PROVE  Outcome
  BY <1>g, <1>0, GotoCalled DEF Flags, Values, Called, Keep
<1>b. ASSUME NEW c \in Calls \ {"Login"}, NEW f \in Files, Goto(c, f), op' = "browse",
             UNCHANGED <<todo, marked>>
      PROVE  Outcome
  BY <1>b, GotoCalled DEF Flags, Values, Called, Ops
<1> HIDE DEF Outcome
<1>f. file \in Files BY DEF Values
<1>c. {"Noop", "FileExists", "Size", "Get", "Put", "ListDir", "Delete", "Rmd", "Quit"}
        \subseteq Calls \ {"Login"}
  BY DEF Calls
<1>10. Outcome
  <2>1. CASE EndOp /\ UNCHANGED yes BY <2>1, <1>e
  <2>2. ASSUME NEW x \in BOOLEAN, Change(x) PROVE Outcome
    BY <2>2, <1>b, <1>c, <1>e, <1>f DEF Change
  <2>3. CASE op = "browse" /\ Browse(r)
    BY <2>3, <1>g, <1>c, <1>e, <1>f DEF Browse
  <2>4. CASE op = "upload" /\ Upload(r)
    <3>1. (\E c \in {"Put", "FileExists", "Quit"} : Goto(c, file) /\ Keep) \/ EndOp
      BY <2>4 DEF Upload
    <3> QED BY <2>4, <3>1, <1>g, <1>c, <1>e, <1>f
  <2>5. CASE op = "create" /\ Create(r)
    <3>0. todo \subseteq Files BY <2>5 DEF Scripted
    <3>1. CASE \E f \in todo : /\ Goto("FileExists", f) /\ todo' = todo \ {f}
                               /\ UNCHANGED <<op, marked>>
      BY <2>5, <3>0, <3>1, GotoCalled, <1>c DEF Outcome, Flags, Values, Called, Ops
    <3>2. CASE EndOp BY <3>2, <1>e
    <3>3. CASE Goto("Put", file) /\ Keep BY <3>3, <3>0, <2>5, <1>g, <1>c, <1>f
    <3>4. CASE Goto("Noop", file) /\ op' = "browse" /\ UNCHANGED <<todo, marked>>
      BY <3>4, <1>b, <1>c, <1>f
    <3> QED BY <2>5, <3>1, <3>2, <3>3, <3>4 DEF Create
  <2>6. CASE op = "download" /\ Download(r)
    BY <2>6, <1>g, <1>c, <1>e, <1>f DEF Download
  <2>7. ASSUME NEW left, left \subseteq Files \cup {"folder"}, NextMarked(left) PROVE Outcome
    BY <2>7, NextMarkedOutcome DEF Outcome
  <2>8. CASE op = "delete" /\ DeleteMarked(r)
    <3>1. CASE Goto("Quit", file) /\ Keep BY <2>8, <3>1, <1>g, <1>c, <1>f
    <3>2. CASE NextMarked(todo) BY <3>2, <2>7 DEF Values
    <3> QED BY <2>8, <3>1, <3>2 DEF DeleteMarked
  <2>9. CASE op = "tree" /\ Tree(r)
    <3>0. todo \subseteq Files BY <2>9 DEF Scripted
    <3>1. CASE \E f \in todo : /\ Goto("Delete", f) /\ todo' = todo \ {f}
                               /\ UNCHANGED <<op, marked>>
      BY <2>9, <3>0, <3>1, GotoCalled, <1>c DEF Outcome, Flags, Values, Called, Ops
    <3>2. CASE Goto("Rmd", file) /\ Keep BY <2>9, <3>0, <3>2, <1>g, <1>c, <1>f
    <3>3. CASE NextMarked(marked) BY <3>3, <2>7 DEF Values
    <3> QED BY <2>9, <3>1, <3>2, <3>3 DEF Tree
  <2> QED
    BY <2>1, <2>2, <2>3, <2>4, <2>5, <2>6, <2>8, <2>9 DEF Return
<1>11. yes' \in BOOLEAN
  <2>1. yes \in BOOLEAN BY DEF Flags
  <2> QED BY <2>1, Zenon DEF Return, Upload
<1>12. told' \in {<<>>} \cup (Calls \X Files)
  BY <1>0, <1>f DEF Return
<1> QED BY <1>10, <1>11, <1>12 DEF Outcome, Return

\* A call returns: types, scripts, and no login left.
LEMMA ReturnStep ==
  ASSUME Flags, Values, Scripted, at # "idle", NEW r \in BOOLEAN, Return(r)
  PROVE  /\ offset' \in BOOLEAN /\ yes' \in BOOLEAN
         /\ call' \in Calls \cup {"none"} /\ file' \in Files
         /\ at' \in {"idle", "send"} /\ script' \in Seq(Verbs)
         /\ op' \in Ops \cup {"none"} /\ rule' \in {"skip", "ask", "replace"}
         /\ todo' \subseteq Files \cup {"folder"} /\ marked' \subseteq Files
         /\ told' \in {<<>>} \cup (Calls \X Files)
         /\ Scripted' /\ op' # "connect"
<1>1. /\ Ended \/ Called
      /\ offset' \in BOOLEAN /\ yes' \in BOOLEAN /\ rule' = rule
      /\ told' \in {<<>>} \cup (Calls \X Files)
  BY ReturnOutcome
<1>2. CASE Ended
  BY <1>1, <1>2 DEF Ended, Values, Scripted
<1>3. CASE Called
  <2>1. op' # "none" BY <1>3 DEF Called, Ops
  <2>2. script' \in Seq(Verbs) BY <1>3 DEF Called, Shaped
  <2> QED BY <1>1, <1>3, <2>1, <2>2 DEF Called, Values, Scripted
<1> QED BY <1>1, <1>2, <1>3

-----------------------------------------------------------------------------
(* The invariant but for Paced.                                             *)

Good == Flags /\ Values /\ Scripted /\ ConnectedLine /\ Joining

LEMMA GoodIsIInv == (Good /\ SlipTypes <=> IInv) /\ (Good' /\ SlipTypes' <=> IInv')
BY TypeParts DEF Good, IInv

\* A step that ends a call and touches neither the connection nor the login.
LEMMA ReturnGood ==
  ASSUME Good, at # "idle", op # "connect", NEW r \in BOOLEAN, Return(r),
         stored' \in [Files -> {"none", "old", "half", "new"}], replies' \in Replies,
         sending' \in BOOLEAN, whole' \in BOOLEAN, blind' \in BOOLEAN,
         UNCHANGED <<line, connected>>
  PROVE  Good'
<1>1. Flags /\ Values /\ Scripted BY DEF Good
<1> DEFINE Rest ==
         /\ call' \in Calls \cup {"none"} /\ file' \in Files
         /\ at' \in {"idle", "send"} /\ script' \in Seq(Verbs)
         /\ op' \in Ops \cup {"none"} /\ rule' \in {"skip", "ask", "replace"}
         /\ todo' \subseteq Files \cup {"folder"} /\ marked' \subseteq Files
         /\ told' \in {<<>>} \cup (Calls \X Files)
<1>2. /\ offset' \in BOOLEAN /\ yes' \in BOOLEAN /\ Rest
      /\ Scripted' /\ op' # "connect"
  BY <1>1, ReturnStep
<1>3. Flags'
  <2>1. connected \in BOOLEAN BY <1>1 DEF Flags
  <2> HIDE DEF Rest
  <2> QED BY <1>2, <2>1, Zenon DEF Flags
<1>4. Values' BY <1>1, <1>2 DEF Values
<1>5. ConnectedLine'
  <2>1. IF connected THEN line \in {"up", "lost"} ELSE line \in {"none", "closed"}
    BY DEF Good, ConnectedLine
  <2> QED BY <2>1 DEF ConnectedLine
<1> QED BY <1>2, <1>3, <1>4, <1>5 DEF Good, Joining

\* The connection is given up, or a login succeeds, when the call returns.
LEMMA ReturnLine ==
  ASSUME Good, at # "idle", NEW r \in BOOLEAN, Return(r),
         replies' \in Replies, sending' \in BOOLEAN, connected' \in BOOLEAN,
         UNCHANGED <<stored, whole, blind>>,
         \/ ~connected' /\ line' \in {"none", "closed"}
         \/ connected' /\ line' \in {"up", "lost"}
  PROVE  Good'
<1>1. Flags /\ Values /\ Scripted BY DEF Good
<1> DEFINE Rest ==
         /\ call' \in Calls \cup {"none"} /\ file' \in Files
         /\ at' \in {"idle", "send"} /\ script' \in Seq(Verbs)
         /\ op' \in Ops \cup {"none"} /\ rule' \in {"skip", "ask", "replace"}
         /\ todo' \subseteq Files \cup {"folder"} /\ marked' \subseteq Files
         /\ told' \in {<<>>} \cup (Calls \X Files)
<1>2. /\ offset' \in BOOLEAN /\ yes' \in BOOLEAN /\ Rest
      /\ Scripted' /\ op' # "connect"
  BY <1>1, ReturnStep
<1>3. Flags'
  <2>1. whole \in BOOLEAN /\ blind \in BOOLEAN BY <1>1 DEF Flags
  <2> HIDE DEF Rest
  <2> QED BY <1>2, <2>1, Zenon DEF Flags
<1>4. Values' BY <1>1, <1>2 DEF Values
<1>5. ConnectedLine' BY DEF ConnectedLine
<1> QED BY <1>2, <1>3, <1>4, <1>5 DEF Good, Joining

LEMMA HangUpGood == Good /\ at # "idle" /\ HangUp => Good'
<1> SUFFICES ASSUME Good, at # "idle", HangUp PROVE Good'
  OBVIOUS
<1>1. <<>> \in Replies BY DEF Replies
<1>2. line' \in {"none", "closed"} BY DEF HangUp
<1>3. replies' \in Replies BY <1>1 DEF HangUp
<1> QED BY <1>2, <1>3, ReturnLine DEF HangUp

LEMMA LoggedInGood ==
  ASSUME Good, at # "idle", call = "Login", NEW rest \in Replies, LoggedIn(rest)
  PROVE  Good'
<1>1. line \in {"up", "lost"} BY DEF Good, Joining, Scripted
<1>2. sending \in BOOLEAN BY DEF Good, Flags
<1>3. line' \in {"up", "lost"} BY <1>1 DEF LoggedIn
<1>4. Return(TRUE) /\ connected' = TRUE /\ replies' \in Replies /\ sending' \in BOOLEAN
      /\ UNCHANGED <<stored, whole, blind>>
  BY <1>2, Zenon DEF LoggedIn
<1> QED BY <1>3, <1>4, ReturnLine

\* The script moves on.
LEMMA TailGood ==
  ASSUME Good, at # "idle", Len(script) > 1, script' = Tail(script),
         at' \in {"send", "data"}, at' = "data" => Head(script') = "DONE",
         replies' \in Replies,
         UNCHANGED <<stored, line, sending, connected, call, file, offset, caller, ghosts>>
  PROVE  Good'
<1>1. Flags /\ Values /\ Scripted BY DEF Good
<1>2. Shaped(call, script') BY <1>1, TailShaped DEF Scripted
<1>3. script' \in Seq(Verbs) BY <1>2 DEF Shaped
<1>4. Flags' BY <1>1, Zenon DEF Flags, ghosts
<1>5. Values' BY <1>1, <1>3 DEF Values, caller, ghosts
<1>6. Scripted' BY <1>1, <1>2 DEF Scripted, verb, caller
<1>7. ConnectedLine' BY Zenon DEF Good, ConnectedLine, caller
<1>8. Joining' BY Zenon DEF Good, Joining, caller
<1> QED BY <1>4, <1>5, <1>6, <1>7, <1>8 DEF Good

LEMMA RejectedGood ==
  ASSUME Good, at # "idle", NEW rest \in Replies, Rejected(rest)
  PROVE  Good'
<1>1. Flags /\ Values /\ Scripted BY DEF Good
<1>2. call \in Calls /\ Shaped(call, script) BY <1>1 DEF Scripted
<1>3. /\ verb \in Verbs
      /\ verb = "CWD" => Len(script) > 1
      /\ verb \in Logins <=> call = "Login"
      /\ call = "Quit" => verb = "QUIT"
  BY <1>2, VerbShaped DEF verb
<1>4. op = "connect" => verb \in Logins \cup {"QUIT"} BY <1>1, <1>3 DEF Scripted
<1>5. CASE verb = "QUIT" /\ HangUp BY <1>5, HangUpGood
<1>6. CASE /\ verb = "HELLO"
           /\ line' = "none" /\ replies' = <<>>
           /\ Return(FALSE)
           /\ UNCHANGED <<stored, sending, connected, whole, blind>>
  <2>1. ~connected BY <1>1, <1>3, <1>6 DEF Good, Scripted, Joining, Logins
  <2>2. connected' = FALSE /\ connected' \in BOOLEAN /\ sending' \in BOOLEAN
    BY <1>1, <1>6, <2>1, Zenon DEF Flags
  <2>3. replies' \in Replies BY <1>6 DEF Replies
  <2> QED BY <1>6, <2>2, <2>3, ReturnLine
<1>7. CASE verb = "USER" /\ LoggedIn(rest)
  <2>1. call = "Login" BY <1>3, <1>7 DEF Logins
  <2> QED BY <1>7, <2>1, LoggedInGood
<1>8. CASE /\ verb \in {"USER", "PASS"}
           /\ Goto("Quit", file) /\ replies' = rest
           /\ UNCHANGED <<stored, line, sending, connected, caller, ghosts>>
  <2>1. op = "connect" BY <1>1, <1>3, <1>8 DEF Scripted, Logins
  <2>2. file \in Files /\ offset \in BOOLEAN BY <1>1 DEF Flags, Values
  <2>3. /\ call' = "Quit" /\ file' = file /\ at' = "send" /\ Shaped(call', script')
        /\ offset' \in BOOLEAN
    BY <1>8, <2>2, GotoCalled DEF Calls
  <2>4. Flags' BY <1>1, <1>8, <2>3, Zenon DEF Flags, ghosts
  <2>5. Values' BY <1>1, <1>8, <2>3 DEF Values, Shaped, Calls, caller, ghosts
  <2>6. Scripted' BY <1>1, <1>8, <2>1, <2>3 DEF Scripted, Calls, caller
  <2>7. ConnectedLine' BY <1>8, Zenon DEF Good, ConnectedLine, caller
  <2>8. Joining' BY <1>8, Zenon DEF Good, Joining, caller
  <2> QED BY <2>4, <2>5, <2>6, <2>7, <2>8 DEF Good
<1>9. CASE /\ verb = "CWD"
           /\ script' = Tail(script) /\ at' = "send" /\ replies' = rest
           /\ UNCHANGED <<stored, line, sending, connected, call, file, offset, caller,
                          ghosts>>
  BY <1>3, <1>9, TailGood
<1>10. CASE /\ verb = "REST"
            /\ at' = "wild" /\ replies' = rest
            /\ UNCHANGED <<stored, line, sending, connected, call, file, script, offset,
                           caller, ghosts>>
  <2>1. Flags' BY <1>1, <1>10, Zenon DEF Flags, ghosts
  <2>2. Values' BY <1>1, <1>10 DEF Values, caller, ghosts
  <2>3. Scripted' BY <1>1, <1>10 DEF Scripted, verb, caller
  <2>4. ConnectedLine' BY <1>10, Zenon DEF Good, ConnectedLine, caller
  <2>5. Joining' BY <1>10, Zenon DEF Good, Joining, caller
  <2> QED BY <2>1, <2>2, <2>3, <2>4, <2>5 DEF Good
<1>11. CASE /\ verb \notin {"QUIT", "HELLO", "USER", "PASS", "CWD", "REST"}
            /\ Return(call = "GetRange" /\ verb = "DONE") /\ replies' = rest
            /\ UNCHANGED <<stored, line, sending, connected, whole, blind>>
  <2>1. op # "connect" BY <1>4, <1>11 DEF Logins
  <2>2. (call = "GetRange" /\ verb = "DONE") \in BOOLEAN OBVIOUS
  <2>3. sending' \in BOOLEAN /\ whole' \in BOOLEAN /\ blind' \in BOOLEAN
    BY <1>1, <1>11, Zenon DEF Flags
  <2>4. stored' \in [Files -> {"none", "old", "half", "new"}] BY <1>1, <1>11 DEF Values
  <2> QED BY <1>11, <2>1, <2>2, <2>3, <2>4, ReturnGood
<1> QED
  BY <1>5, <1>6, <1>7, <1>8, <1>9, <1>10, <1>11 DEF Rejected

LEMMA SucceededGood ==
  ASSUME Good, at # "idle", NEW rest \in Replies, Succeeded(rest)
  PROVE  Good'
<1>1. Flags /\ Values /\ Scripted BY DEF Good
<1>2. call \in Calls /\ Shaped(call, script) BY <1>1 DEF Scripted
<1>3. /\ verb \in Logins <=> call = "Login"
      /\ call = "Login" /\ Len(script) = 1 => verb = "PASS"
      /\ call = "Quit" => verb = "QUIT"
  BY <1>2, VerbShaped DEF verb
<1>4. CASE verb = "QUIT" /\ HangUp BY <1>4, HangUpGood
<1>5. CASE /\ Len(script) > 1
           /\ script' = Tail(script)
           /\ at' = IF Head(script') = "DONE" THEN "data" ELSE "send"
           /\ replies' = rest
           /\ UNCHANGED <<stored, line, sending, connected, call, file, offset, caller,
                          ghosts>>
  <2>1. at' \in {"send", "data"} /\ (at' = "data" => Head(script') = "DONE") BY <1>5
  <2> QED BY <1>5, <2>1, TailGood
<1>6. CASE verb = "PASS" /\ LoggedIn(rest)
  <2>1. call = "Login" BY <1>3, <1>6 DEF Logins
  <2> QED BY <1>6, <2>1, LoggedInGood
<1>7. CASE /\ Len(script) = 1 /\ verb \notin {"QUIT", "PASS"}
           /\ Return(TRUE) /\ replies' = rest
           /\ UNCHANGED <<stored, line, sending, connected, whole, blind>>
  <2>1. op # "connect" BY <1>1, <1>3, <1>7 DEF Scripted
  <2>2. sending' \in BOOLEAN /\ whole' \in BOOLEAN /\ blind' \in BOOLEAN
    BY <1>1, <1>7, Zenon DEF Flags
  <2>3. stored' \in [Files -> {"none", "old", "half", "new"}] BY <1>1, <1>7 DEF Values
  <2> QED BY <1>7, <2>1, <2>2, <2>3, ReturnGood
<1> QED BY <1>4, <1>5, <1>6, <1>7 DEF Succeeded

\* The server's part of a step: the call and its caller stand still.
LEMMA ServerGood ==
  ASSUME Good, stored' \in [Files -> {"none", "old", "half", "new"}], replies' \in Replies,
         sending' \in BOOLEAN, blind' \in BOOLEAN,
         line' = line \/ (line' = "lost" /\ line = "up"),
         \/ at' = at
         \/ at \notin {"idle"} /\ at' = "read"
         \/ at \notin {"idle"} /\ at' = "open" /\ verb \in Transfers,
         UNCHANGED <<connected, call, file, script, offset, caller, told, whole, yes>>
  PROVE  Good'
<1>1. Flags /\ Values /\ Scripted BY DEF Good
<1>2. Flags' BY <1>1, Zenon DEF Flags
<1>3. Values' BY <1>1 DEF Values, caller
<1>4. Scripted' BY <1>1 DEF Scripted, verb, caller
<1>5. ConnectedLine' BY DEF Good, ConnectedLine, caller
<1>6. Joining' BY DEF Good, Joining, caller
<1> QED BY <1>2, <1>3, <1>4, <1>5, <1>6 DEF Good

\* What the server writes is a reply.
LEMMA AppendReply ==
  ASSUME replies \in Replies, NEW c \in {"1", "2", "3", "4", "5"},
         NEW v \in Verbs \cup {"BYE", "TAIL"}
  PROVE  Append(replies, Reply(c, v)) \in Replies
BY DEF Replies, Reply

LEMMA TailReplies ==
  ASSUME replies \in Replies, replies # <<>>
  PROVE  /\ Tail(replies) \in Replies /\ Len(Tail(replies)) = Len(replies) - 1
         /\ Len(replies) \in Nat
BY DEF Replies

LEMMA ClientGood == Good /\ Client => Good'
<1> SUFFICES ASSUME Good, Client PROVE Good'
  OBVIOUS
<1>1. Flags /\ Values /\ Scripted BY DEF Good
<1>2. replies \in Replies /\ <<>> \in Replies BY <1>1 DEF Values, Replies
<1>3. at # "idle" => verb \in Verbs BY <1>1, VerbShaped DEF Scripted, verb
<1>4. stored \in [Files -> {"none", "old", "half", "new"}] /\ file \in Files
  BY <1>1 DEF Values
<1>5. \A k \in {"none", "old", "half", "new"} :
        Upon(file, k) => stored' \in [Files -> {"none", "old", "half", "new"}]
  BY <1>4 DEF Upon
<1>6. sending \in BOOLEAN /\ blind \in BOOLEAN /\ whole \in BOOLEAN
  BY <1>1, Zenon DEF Flags
<1>7. "DONE" \in Verbs BY DEF Verbs
<1>8. at \in {"open"} => verb \in Transfers BY <1>1 DEF Scripted
<1>9. op = "connect" => call \in {"Login", "Quit"} BY <1>1 DEF Scripted
<1>10. at \in {"open", "wild"} => op # "connect"
  <2>1. at # "idle" => /\ verb \in Logins <=> call = "Login"
                       /\ call = "Quit" => verb = "QUIT"
    BY <1>1, VerbShaped DEF Scripted, verb
  <2> QED BY <1>1, <1>9, <2>1 DEF Scripted, Logins, Transfers
<1>11. CASE Grant
  <2>1. replies' \in Replies
    <3>1. \A c \in Expects(verb) \cup (IF verb = "USER" THEN {"2"} ELSE {}) :
            c \in {"1", "2", "3", "4", "5"}
      BY DEF Expects
    <3>2. verb \in Verbs BY <1>3, <1>11 DEF Grant
    <3>3. CASE UNCHANGED replies BY <1>2, <3>3
    <3>4. CASE \E c \in Expects(verb) \cup (IF verb = "USER" THEN {"2"} ELSE {}) :
                 replies' = Append(replies, Reply(c, verb))
      BY <1>2, <3>1, <3>2, <3>4, AppendReply
    <3> QED BY <1>11, <3>3, <3>4 DEF Grant
  <2>2. stored' \in [Files -> {"none", "old", "half", "new"}]
    BY <1>4, <1>5, <1>11 DEF Grant
  <2>3. sending' \in BOOLEAN BY <1>6, <1>11 DEF Grant
  <2>4. /\ at # "idle"
        /\ at' = "read" \/ (at' = "open" /\ verb \in Transfers)
    BY <1>11 DEF Grant
  <2>5. blind' \in BOOLEAN BY <1>6, <1>11, Zenon DEF Grant, ghosts
  <2> QED BY <1>11, <2>1, <2>2, <2>3, <2>4, <2>5, ServerGood DEF Grant, ghosts
<1>12. CASE Refuse
  <2>1. replies' \in Replies BY <1>2, <1>3, <1>12, AppendReply DEF Refuse
  <2>2. stored' \in [Files -> {"none", "old", "half", "new"}] BY <1>4, <1>12 DEF Refuse
  <2>3. sending' \in BOOLEAN BY <1>12 DEF Refuse
  <2>4. /\ at # "idle"
        /\ at' = "read" \/ (at' = "open" /\ verb \in Transfers)
    BY <1>12 DEF Refuse
  <2>5. blind' \in BOOLEAN BY <1>6, <1>12, Zenon DEF Refuse
  <2> QED BY <1>12, <2>1, <2>2, <2>3, <2>4, <2>5, ServerGood DEF Refuse
<1>13. CASE SendDead
  <2>1. at # "idle" BY <1>13 DEF SendDead
  <2>2. CASE Rejected(replies) BY <1>2, <2>1, <2>2, RejectedGood
  <2>3. CASE /\ at' = IF verb \in Transfers THEN "open" ELSE "read"
             /\ UNCHANGED <<server, connected, call, file, script, offset, caller, ghosts>>
    <3>1. UNCHANGED <<stored, line, replies, sending, told, whole, yes, blind>>
      BY <2>3 DEF server, ghosts
    <3>2. at' = "read" \/ (at' = "open" /\ verb \in Transfers) BY <2>3
    <3> QED BY <1>2, <1>4, <1>6, <2>1, <2>3, <3>1, <3>2, ServerGood
  <2> QED BY <1>13, <2>2, <2>3 DEF SendDead
<1>14. CASE Open
  <2>1. replies' \in Replies
    <3>1. verb \in Verbs BY <1>3, <1>14 DEF Open
    <3> QED BY <1>2, <1>14, <3>1, AppendReply DEF Open
  <2>2. stored' \in [Files -> {"none", "old", "half", "new"}]
    BY <1>4, <1>5, <1>14 DEF Open
  <2>3. UNCHANGED <<line, sending, told, whole, yes, blind>> BY <1>14 DEF Open, ghosts
  <2> QED BY <1>6, <1>14, <2>1, <2>2, <2>3, ServerGood DEF Open
<1>15. CASE OpenFails
  <2>1. replies' \in Replies
    <3>1. verb \in Verbs BY <1>3, <1>15 DEF OpenFails
    <3> QED BY <1>2, <1>15, <3>1, AppendReply DEF OpenFails
  <2>2. at # "idle" /\ op # "connect" BY <1>10, <1>15 DEF OpenFails
  <2>3. sending' \in BOOLEAN /\ whole' \in BOOLEAN /\ blind' \in BOOLEAN
    BY <1>6, <1>15, Zenon DEF OpenFails
  <2> QED BY <1>4, <1>15, <2>1, <2>2, <2>3, ReturnGood DEF OpenFails
<1>16. CASE Read
  <2>1. at # "idle" /\ replies # <<>> BY <1>16 DEF Read
  <2>2. Tail(replies) \in Replies BY <1>2, <2>1, TailReplies
  <2>3. verb = "USER" => call = "Login"
    BY <1>1, <2>1, VerbShaped DEF Scripted, verb, Logins
  <2> QED BY <1>16, <2>1, <2>2, <2>3, RejectedGood, SucceededGood, LoggedInGood DEF Read
<1>17. CASE ReadEnd
  BY <1>2, <1>17, RejectedGood DEF ReadEnd
<1>18. CASE Stray
  <2>1. at # "idle" /\ op # "connect" BY <1>10, <1>18 DEF Stray
  <2>2. whole' \in BOOLEAN /\ blind' \in BOOLEAN BY <1>6, <1>18, Zenon DEF Stray
  <2>3. CASE /\ Return(call = "GetRange")
             /\ UNCHANGED <<line, replies, sending, connected>>
    <3>1. (call = "GetRange") \in BOOLEAN OBVIOUS
    <3>2. stored' = stored /\ replies' \in Replies BY <1>2, <1>18, <2>3 DEF Stray
    <3>3. sending' \in BOOLEAN BY <1>6, <2>3, Zenon
    <3> QED BY <1>4, <2>1, <2>2, <2>3, <3>1, <3>2, <3>3, ReturnGood
  <2>4. CASE /\ EndOp /\ told' = <<>>
             /\ line' = "none" /\ replies' = <<>> /\ sending' = FALSE /\ connected' = FALSE
             /\ UNCHANGED <<rule, yes>>
    <3>1. Ended /\ offset' \in BOOLEAN BY <1>1, <2>4, EndOpEnded DEF Flags
    <3>2. yes \in BOOLEAN BY <1>1 DEF Flags
    <3>3. Flags' BY <2>2, <2>4, <3>1, <3>2, Zenon DEF Flags
    <3>4. stored' = stored BY <1>18 DEF Stray
    <3>5. Values' BY <1>1, <1>2, <2>4, <3>1, <3>4 DEF Values, Ended
    <3>6. Scripted' BY <3>1 DEF Scripted, Ended
    <3>7. ConnectedLine' BY <2>4 DEF ConnectedLine
    <3>8. Joining' BY <3>1 DEF Joining, Ended
    <3> QED BY <3>3, <3>5, <3>6, <3>7, <3>8 DEF Good
  <2> QED BY <1>18, <2>3, <2>4 DEF Stray
<1>19. ASSUME NEW complete \in BOOLEAN, Transfer(complete) PROVE Good'
  <2>1. replies' \in Replies
    BY <1>2, <1>7, <1>19, AppendReply DEF Transfer
  <2>2. stored' \in [Files -> {"none", "old", "half", "new"}]
    BY <1>4, <1>5, <1>19 DEF Transfer
  <2>3. Flags'
    <3>1. whole' \in BOOLEAN /\ sending' = FALSE
          /\ UNCHANGED <<connected, offset, yes, blind>>
      BY <1>19 DEF Transfer
    <3> QED BY <1>1, <3>1, Zenon DEF Flags
  <2>4. todo' = todo \/ todo' \subseteq Files
    BY <1>19 DEF Transfer
  <2>5. /\ at # "idle" /\ at' = "read"
        /\ UNCHANGED <<line, connected, call, file, script, op, rule, marked, told>>
    BY <1>19 DEF Transfer
  <2>6. Values' BY <1>1, <2>1, <2>2, <2>4, <2>5 DEF Values
  <2>7. Scripted' BY <1>1, <2>4, <2>5 DEF Scripted
  <2>8. ConnectedLine' BY <2>5, Zenon DEF Good, ConnectedLine
  <2>9. Joining' BY <2>5, Zenon DEF Good, Joining
  <2> QED BY <2>3, <2>6, <2>7, <2>8, <2>9 DEF Good
<1>20. CASE LocalFails
  <2>1. at # "idle" /\ op # "connect" BY <1>9, <1>20 DEF LocalFails
  <2>2. sending' \in BOOLEAN /\ whole' \in BOOLEAN /\ blind' \in BOOLEAN
    BY <1>6, <1>20, Zenon DEF LocalFails, server
  <2>3. UNCHANGED <<stored, replies, line, connected>> /\ Return(FALSE)
    BY <1>20 DEF LocalFails, server
  <2> QED BY <1>2, <1>4, <2>1, <2>2, <2>3, ReturnGood
<1>21. CASE ReadLong
  <2>1. at # "idle" /\ replies # <<>> BY <1>21 DEF ReadLong
  <2>2. PICK code \in {"1", "2", "3", "4", "5"} :
          Rejected(<<Reply(code, "TAIL")>> \o Tail(replies))
    BY <1>21 DEF ReadLong
  <2>3. Tail(replies) \in Replies BY <1>2, <2>1, TailReplies
  <2>4. <<Reply(code, "TAIL")>> \in Replies BY DEF Replies, Reply
  <2>5. <<Reply(code, "TAIL")>> \o Tail(replies) \in Replies BY <2>3, <2>4 DEF Replies
  <2> QED BY <2>1, <2>2, <2>5, RejectedGood
<1> QED
  BY <1>11, <1>12, <1>13, <1>14, <1>15, <1>16, <1>17, <1>18, <1>19, <1>20, <1>21 DEF Client

LEMMA DropGood == Good /\ Drop => Good'
<1> SUFFICES ASSUME Good, Drop PROVE Good'
  OBVIOUS
<1>1. Flags /\ Values BY DEF Good
<1>2. replies \in Replies /\ <<>> \in Replies BY <1>1 DEF Values, Replies
<1>3. Append(replies, Reply("4", "BYE")) \in Replies BY <1>2, AppendReply
<1>4. replies' \in Replies BY <1>2, <1>3 DEF Drop
<1>5. stored' \in [Files -> {"none", "old", "half", "new"}]
  BY <1>1 DEF Drop, Values
<1>6. sending' \in BOOLEAN /\ blind' \in BOOLEAN BY <1>1, Zenon DEF Drop, Flags, ghosts
<1> QED BY <1>4, <1>5, <1>6, ServerGood DEF Drop, client, ghosts

LEMMA ConnectGood == Good /\ Connect => Good'
<1> SUFFICES ASSUME Good, Connect PROVE Good'
  OBVIOUS
<1>1. Flags /\ Values /\ Scripted BY DEF Good
<1>2. file \in Files /\ offset \in BOOLEAN BY <1>1 DEF Flags, Values
<1>3. offset' \in BOOLEAN BY <1>2, Zenon DEF Connect, Goto, Start
<1>4. call' = "Login" /\ file' = file /\ at' = "read" /\ Shaped(call', script')
  BY <1>3, ScriptShaped DEF Connect, Goto, Calls
<1>5. replies' \in Replies
  <2>1. PICK code \in {"2", "4"} : replies' = <<Reply(code, "HELLO")>> BY DEF Connect
  <2>2. Reply(code, "HELLO") \in [code : {"1", "2", "3", "4", "5"}, verb : Verbs \cup {"BYE", "TAIL"}]
    BY DEF Reply, Verbs
  <2> QED BY <2>1, <2>2 DEF Replies
<1>6. Flags'
  <2>1. /\ sending' = FALSE /\ yes' = FALSE /\ blind' = FALSE
        /\ UNCHANGED <<whole, connected>>
    BY DEF Connect, Fresh
  <2> QED BY <1>1, <1>3, <2>1, Zenon DEF Flags
<1>7. Values' BY <1>1, <1>4, <1>5 DEF Connect, Fresh, Values, Shaped, Calls, Ops
<1>8. Scripted' BY <1>4 DEF Connect, Scripted, Calls
<1>9. ConnectedLine' BY DEF Connect, ConnectedLine
<1>10. Joining' BY DEF Connect, Joining
<1> QED BY <1>6, <1>7, <1>8, <1>9, <1>10 DEF Good

LEMMA BeginGood ==
  ASSUME Good, NEW o \in Ops \ {"connect", "tree"}, NEW c \in Calls \ {"Login"},
         NEW f \in Files, Begin(o, c, f),
         rule' \in {"skip", "ask", "replace"}, todo' \subseteq Files \cup {"folder"},
         o = "create" => todo' \subseteq Files
  PROVE  Good'
<1>1. Flags /\ Values BY DEF Good
<1>2. Goto(c, f) /\ offset \in BOOLEAN BY <1>1 DEF Begin, Flags
<1>3. /\ call' = c /\ file' = f /\ at' = "send" /\ Shaped(call', script')
      /\ offset' \in BOOLEAN
  BY <1>2, GotoCalled
<1>4. o # "none" BY DEF Ops
<1>5. Flags'
  <2>1. yes' = FALSE /\ blind' = FALSE /\ UNCHANGED <<sending, whole, connected>>
    BY DEF Begin, Fresh, server
  <2> QED BY <1>1, <1>3, <2>1, Zenon DEF Flags
<1>6. Values' BY <1>1, <1>3 DEF Begin, Fresh, Values, Shaped, server
<1>7. Scripted' BY <1>3, <1>4 DEF Begin, Scripted
<1>8. ConnectedLine' BY DEF Good, Begin, ConnectedLine, server
<1>9. Joining' BY DEF Begin, Joining
<1> QED BY <1>5, <1>6, <1>7, <1>8, <1>9 DEF Good

LEMMA UserGood == Good /\ User => Good'
<1> SUFFICES ASSUME Good, User PROVE Good'
  OBVIOUS
<1>1. /\ file \in Files /\ rule \in {"skip", "ask", "replace"}
      /\ todo \subseteq Files \cup {"folder"}
  BY DEF Good, Values
<1>2. CASE Connect BY <1>2, ConnectGood
<1>3. ASSUME NEW o \in Ops \ {"connect", "create", "tree"}, NEW c \in Calls \ {"Login"},
             NEW f \in Files, Begin(o, c, f), Plain
      PROVE  Good'
  BY <1>1, <1>3, BeginGood DEF Plain
<1>4. ASSUME NEW f \in Files, NEW how \in {"skip", "ask", "replace"},
             Begin("upload", "Noop", f), rule' = how, UNCHANGED todo
      PROVE  Good'
  BY <1>1, <1>4, BeginGood DEF Ops, Calls
<1>5. ASSUME NEW f \in Files, Begin("create", "FileExists", f), todo' = Files \ {f},
             UNCHANGED rule
      PROVE  Good'
  BY <1>1, <1>5, BeginGood DEF Ops, Calls
<1>6. ASSUME NEW s \in SUBSET (Files \cup {"folder"}), Begin("delete", "Noop", file),
             todo' = s, UNCHANGED rule
      PROVE  Good'
  BY <1>1, <1>6, BeginGood DEF Ops, Calls
<1>7. {"disconnect", "browse", "download", "extract", "header", "edit", "save", "mkdir",
       "rename"} \subseteq Ops \ {"connect", "create", "tree"}
  BY DEF Ops
<1>8. {"Quit", "Noop", "Size", "GetRange", "Head", "Get", "Put", "Mkdir", "Rename"}
        \subseteq Calls \ {"Login"}
  BY DEF Calls
<1> QED
  BY <1>1, <1>2, <1>3, <1>4, <1>5, <1>6, <1>7, <1>8 DEF User

LEMMA GoodStep == Good /\ [Next]_vars => Good'
<1> SUFFICES ASSUME Good, UNCHANGED vars PROVE Good'
  BY ClientGood, DropGood, UserGood DEF Next
<1> USE DEF vars, server, client, caller, ghosts
<1>1. Flags' BY Zenon DEF Good, Flags
<1>2. Values' BY DEF Good, Values
<1>3. Scripted' BY DEF Good, Scripted, verb
<1>4. ConnectedLine' BY Zenon DEF Good, ConnectedLine
<1>5. Joining' BY Zenon DEF Good, Joining
<1> QED BY <1>1, <1>2, <1>3, <1>4, <1>5 DEF Good

LEMMA GoodInit == Init => Good
<1> SUFFICES ASSUME Init PROVE Good
  OBVIOUS
<1>1. Flags BY DEF Init, Flags
<1>2. Values BY DEF Init, Values, Replies
<1>3. Scripted /\ ConnectedLine /\ Joining BY DEF Init, Scripted, ConnectedLine, Joining
<1> QED BY <1>1, <1>2, <1>3 DEF Good

LEMMA SlipTypesInit == Init => SlipTypes
<1> SUFFICES ASSUME Init PROVE SlipTypes
  OBVIOUS
<1>1. behind \in Nat BY DEF Init
<1>2. spoiled \in BOOLEAN BY Zenon DEF Init
<1> QED BY <1>1, <1>2 DEF SlipTypes

LEMMA SlipTypesStep == SlipTypes /\ [Next]_vars => SlipTypes'
<1> SUFFICES ASSUME SlipTypes, [Next]_vars PROVE SlipTypes'
  OBVIOUS
<1> USE DEF SlipTypes
<1>1. CASE Client
  <2>1. CASE UNCHANGED slips BY <2>1 DEF slips
  <2>2. CASE OpenFails BY <2>2 DEF OpenFails
  <2>3. CASE ReadLong BY <2>3 DEF ReadLong
  <2>4. ASSUME NEW complete \in BOOLEAN, Transfer(complete) PROVE SlipTypes'
    <3>1. behind' = behind /\ spoiled' \in BOOLEAN BY <2>4 DEF Transfer
    <3> QED BY <3>1
  <2> QED BY <1>1, <2>1, <2>2, <2>3, <2>4 DEF Client
<1>2. CASE Drop BY <1>2 DEF Drop, slips
<1>3. CASE User
  <2>1. CASE Connect BY <2>1 DEF Connect
  <2>2. \A o, c, f : Begin(o, c, f) => UNCHANGED slips BY DEF Begin
  <2>3. CASE UNCHANGED slips BY <2>3 DEF slips
  <2> QED BY <1>3, <2>1, <2>2, <2>3, Zenon DEF User
<1>4. CASE UNCHANGED vars BY <1>4 DEF vars, slips
<1> QED BY <1>1, <1>2, <1>3, <1>4 DEF Next

\* The invariant behind the theorems: types, the shape of the script in hand, and what
\* the login, the connection and is_connected have to do with each other.
THEOREM InductiveInvariant == Spec => []IInv
<1>1. Init => IInv
  <2>1. Init => SlipTypes BY SlipTypesInit
  <2> QED BY <2>1, GoodInit, GoodIsIInv
<1>2. IInv /\ [Next]_vars => IInv' BY GoodStep, SlipTypesStep, GoodIsIInv
<1> QED BY <1>1, <1>2, PTL DEF Spec

-----------------------------------------------------------------------------
(* The pace of commands and replies.                                        *)

\* Whatever ends or moves on a call leaves what it has not read, or hangs up.
LEMMA RestLeft ==
  ASSUME NEW rest, Rejected(rest) \/ Succeeded(rest) \/ LoggedIn(rest)
  PROVE  line' \in {"none", "closed"} \/ (line' = line /\ replies' = rest)
BY Zenon DEF Rejected, Succeeded, LoggedIn, HangUp

LEMMA PacedWhenFew ==
  ASSUME behind' \in Nat, Len(replies') \in Nat, Len(replies') <= behind'
  PROVE  Paced'
BY DEF Paced

LEMMA PacedStep ==
  ASSUME Good, SlipTypes, Paced, [Next]_vars
  PROVE  Paced'
<1>1. Flags /\ Values /\ Scripted BY DEF Good
<1>2. replies \in Replies /\ Len(replies) \in Nat /\ Len(<<>>) = 0 /\ behind \in Nat
  BY <1>1 DEF Values, Replies, SlipTypes
<1>3. ASSUME NEW c, NEW v
      PROVE  Len(Append(replies, Reply(c, v))) = Len(replies) + 1
  BY <1>2 DEF Replies
<1>4. line' # "up" => Paced' BY DEF Paced
<1>5. CASE Grant /\ behind' = behind
  <2>1. Len(replies) <= behind BY <1>2, <1>5 DEF Grant, Paced
  <2>2. CASE at' = "open" /\ sending' = TRUE /\ UNCHANGED replies
    BY <1>2, <1>5, <2>1, <2>2 DEF Paced
  <2>3. CASE at' = "read" /\ \E c, v : replies' = Append(replies, Reply(c, v))
    BY <1>2, <1>3, <1>5, <2>1, <2>3 DEF Paced
  <2> QED BY <1>5, <2>2, <2>3 DEF Grant
<1>6. CASE Refuse /\ behind' = behind
  <2>1. Len(replies) <= behind BY <1>2, <1>6 DEF Refuse, Paced
  <2>2. Len(replies') <= behind + 1 BY <1>2, <1>3, <1>6, <2>1 DEF Refuse
  <2> QED BY <1>2, <1>6, <2>2 DEF Refuse, Paced
<1>7. CASE SendDead
  <2>1. line # "up" BY <1>7 DEF SendDead
  <2>2. line' # "up" BY <1>7, <2>1, RestLeft DEF SendDead, server
  <2> QED BY <1>4, <2>2
<1>8. CASE Open /\ behind' = behind
  <2>1. CASE sending /\ line = "up"
    <3>1. Len(replies) <= behind BY <1>2, <1>8, <2>1 DEF Open, Paced
    <3>2. replies' = Append(replies, Reply("1", verb)) BY <1>8, <2>1 DEF Open
    <3>3. Len(replies') <= behind + 1 BY <1>2, <1>3, <3>1, <3>2
    <3> QED BY <1>2, <1>8, <3>3 DEF Open, Paced
  <2>2. CASE ~(sending /\ line = "up")
    <3>1. UNCHANGED <<replies, line>> /\ at = "open" /\ at' = "read"
      BY <1>8, <2>2 DEF Open
    <3> QED BY <1>2, <1>8, <2>2, <3>1 DEF Paced
  <2> QED BY <2>1, <2>2
<1>9. CASE OpenFails
  <2>1. CASE line = "up"
    <3>1. behind' = behind + 1 /\ at = "open" BY <1>9, <2>1 DEF OpenFails
    <3>2. CASE sending
      <4>1. Len(replies) <= behind BY <1>2, <2>1, <3>1, <3>2 DEF Paced
      <4>2. Len(replies') = Len(replies) + 1 BY <1>3, <1>9, <2>1, <3>2 DEF OpenFails
      <4> QED BY <1>2, <3>1, <4>1, <4>2, PacedWhenFew
    <3>3. CASE ~sending
      <4>1. Len(replies) <= behind + 1 BY <1>2, <2>1, <3>1, <3>3 DEF Paced
      <4>2. replies' = replies BY <1>9, <3>3 DEF OpenFails
      <4> QED BY <1>2, <3>1, <4>1, <4>2, PacedWhenFew
    <3> QED BY <3>2, <3>3
  <2>2. CASE line # "up" BY <1>4, <1>9, <2>2 DEF OpenFails
  <2> QED BY <2>1, <2>2
<1>10. CASE Read /\ behind' = behind
  <2>1. line = "up" => Len(Tail(replies)) <= behind /\ Len(Tail(replies)) \in Nat
    <3>1. Len(Tail(replies)) = Len(replies) - 1 BY <1>2, <1>10, TailReplies DEF Read
    <3>2. Len(replies) # 0 BY <1>2, <1>10 DEF Read, Replies
    <3> QED BY <1>2, <1>10, <3>1, <3>2 DEF Read, Paced
  <2>2. line' \in {"none", "closed"} \/ (line' = line /\ replies' = Tail(replies))
    BY <1>10, RestLeft, Zenon DEF Read
  <2> QED BY <1>2, <1>4, <1>10, <2>1, <2>2, PacedWhenFew
<1>11. CASE ReadEnd
  <2>1. line # "up" /\ Rejected(<<>>) BY <1>11 DEF ReadEnd
  <2>2. line' # "up" BY <2>1, RestLeft
  <2> QED BY <1>4, <2>2
<1>12. CASE Stray /\ behind' = behind
  <2>1. line = "up" => Len(replies) <= behind BY <1>2, <1>12 DEF Stray, Paced
  <2>2. line' = "none" \/ UNCHANGED <<line, replies>> BY <1>12 DEF Stray
  <2> QED BY <1>2, <1>4, <1>12, <2>1, <2>2, PacedWhenFew
<1>13. ASSUME NEW complete \in BOOLEAN, Transfer(complete) PROVE Paced'
  <2>1. line = "up" => Len(replies) <= behind BY <1>2, <1>13 DEF Transfer, Paced
  <2>2. line' = line /\ at' = "read" /\ behind' = behind BY <1>13 DEF Transfer
  <2>3. UNCHANGED replies \/ \E c : replies' = Append(replies, Reply(c, "DONE"))
    BY <1>13 DEF Transfer
  <2>4. line = "up" => Len(replies') <= behind + 1 BY <1>2, <1>3, <2>1, <2>3
  <2> QED BY <2>2, <2>4 DEF Paced
<1>14. CASE Drop BY <1>4, <1>14 DEF Drop
<1>15. CASE User
  <2>1. op = "none" => at = "idle" BY <1>1 DEF Scripted
  <2>2. CASE Connect
    <3>1. Len(replies') = 1 /\ at' = "read" /\ behind' = 0 BY <2>2 DEF Connect, Goto
    <3> QED BY <3>1 DEF Paced
  <2>3. CASE op = "none" /\ UNCHANGED <<line, replies, behind>>
    <3>1. line = "up" => Len(replies) <= behind BY <1>2, <2>1, <2>3 DEF Paced
    <3> QED BY <1>2, <1>4, <2>3, <3>1, PacedWhenFew
  <2>4. \A o, c, f : Begin(o, c, f) => op = "none" /\ UNCHANGED <<line, replies, behind>>
    BY DEF Begin, server, slips
  <2> QED BY <1>15, <2>2, <2>3, <2>4, Zenon DEF User
<1>16. CASE UNCHANGED vars BY <1>16 DEF Paced, vars, server, client, slips
<1>17. CASE LocalFails /\ behind' = behind
  <2>1. line = "up" => Len(replies) <= behind BY <1>2, <1>17 DEF LocalFails, Paced
  <2>2. UNCHANGED <<line, replies>> BY <1>17 DEF LocalFails, server
  <2> QED BY <1>2, <1>4, <1>17, <2>1, <2>2, PacedWhenFew
<1>18. CASE ReadLong
  <2>1. at = "read" /\ replies # <<>> /\ behind' = behind + 1 BY <1>18 DEF ReadLong
  <2>2. PICK code : Rejected(<<Reply(code, "TAIL")>> \o Tail(replies))
    BY <1>18 DEF ReadLong
  <2>3. line = "up" => Len(replies) <= behind + 1 BY <1>2, <2>1 DEF Paced
  <2>4. Len(<<Reply(code, "TAIL")>> \o Tail(replies)) = Len(replies)
    <3>1. Tail(replies) \in Replies /\ Len(Tail(replies)) = Len(replies) - 1
      BY <1>2, <2>1, TailReplies
    <3> QED BY <1>2, <3>1 DEF Replies
  <2>5. line' \in {"none", "closed"}
        \/ (line' = line /\ replies' = <<Reply(code, "TAIL")>> \o Tail(replies))
    BY <2>2, RestLeft
  <2> QED BY <1>2, <1>4, <2>1, <2>3, <2>4, <2>5, PacedWhenFew
<1> QED
  BY <1>5, <1>6, <1>7, <1>8, <1>9, <1>10, <1>11, <1>12, <1>13, <1>14, <1>15, <1>16,
     <1>17, <1>18
     DEF Next, Client, slips

-----------------------------------------------------------------------------
(* The theorems.                                                            *)

\* Every variable keeps its type: a script is a sequence of commands, a call that runs
\* is a call of the client (ftpclient.cpp).
THEOREM TypeCorrect == Spec => []TypeOK
BY InductiveInvariant, PTL DEF IInv

\* is_connected (ftpclient.cpp:149, 164, 1026) says the truth about the control
\* connection: it is set only over one and cleared when one is closed.
THEOREM ConnectedLineHolds == Spec => []ConnectedLine
BY InductiveInvariant, PTL DEF IInv

\* FtpSendCmd and ReadResponse stay in step on a living connection, but for the replies
\* that FtpOpenPasv leaves when its data connection does not open (ftpclient.cpp:572) and
\* Readline when its buffer is full (275): each counts for one, and nothing else does.
THEOREM InStepHolds == Spec => []InStep
<1>1. Init => Good /\ SlipTypes /\ Paced
  <2>1. Init => SlipTypes /\ Paced BY SlipTypesInit DEF Init, Paced
  <2> QED BY <2>1, GoodInit
<1>2. Good /\ SlipTypes /\ Paced /\ [Next]_vars => Good' /\ SlipTypes' /\ Paced'
  BY GoodStep, SlipTypesStep, PacedStep
<1>3. Good /\ SlipTypes /\ Paced => InStep
  <2>1. Good => replies \in Replies BY DEF Good, Values
  <2> QED BY <2>1 DEF Replies, SlipTypes, Paced, InStep
<1> QED BY <1>1, <1>2, <1>3, PTL DEF Spec
-----------------------------------------------------------------------------
(* Honest: what is told is so.                                              *)

LEMMA LastCommands ==
  /\ DOMAIN LastCommand = {"Delete", "Rename", "Put", "Get", "FileExists"}
  /\ LastCommand["Delete"] = "DELE" /\ LastCommand["Rename"] = "RNTO"
  /\ LastCommand["Put"] = "DONE" /\ LastCommand["Get"] = "DONE"
  /\ LastCommand["FileExists"] = "SIZE"
BY DEF LastCommand

LEMMA ScriptOwned ==
  ASSUME NEW c \in Calls, NEW from \in BOOLEAN
  PROVE  /\ Owned(c, Script(c, from))
         /\ c # "Login" => Head(Script(c, from)) # "DONE"
<1> DEFINE s == Script(c, from)
<1>1. CASE c = "Login" BY <1>1, LastCommands DEF Script, Owned
<1>2. CASE c = "Noop" BY <1>2, LastCommands DEF Script, Owned
<1>3. CASE c = "Rmd" BY <1>3, LastCommands DEF Script, Owned
<1>4. CASE c = "Mkdir" BY <1>4, LastCommands DEF Script, Owned
<1>5. CASE c = "Quit" BY <1>5, LastCommands DEF Script, Owned
<1>6. CASE c = "Rename" BY <1>6, LastCommands DEF Script, Owned
<1>7. CASE c = "FileExists" BY <1>7, LastCommands DEF Script, Owned
<1>8. CASE c = "Size" BY <1>8, LastCommands DEF Script, Owned
<1>9. CASE c = "Delete" BY <1>9, LastCommands DEF Script, Owned
<1>10. CASE c = "ListDir" BY <1>10, LastCommands DEF Script, Listing, Owned
<1>11. CASE c \in {"Get", "GetRange", "Head", "Put"}
  <2>1. PICK t \in {"RETR", "STOR"} : s = Access(t, from) /\ (t = "STOR" => c = "Put")
    BY <1>11 DEF Script
  <2>2. CASE from
    <3>1. s = <<"TYPE", "PASV", "REST", t, "DONE">> BY <2>1, <2>2 DEF Access
    <3> HIDE DEF s
    <3>2. Len(s) = 5 /\ s[1] = "TYPE" /\ s[2] = "PASV" /\ s[3] = "REST" /\ s[4] = t
          /\ s[5] = "DONE" /\ Head(s) = "TYPE"
      BY <3>1
    <3>3. Owned(c, s) BY <1>11, <2>1, <3>2, LastCommands DEF Owned
    <3> QED BY <3>2, <3>3 DEF s
  <2>3. CASE ~from
    <3>1. s = <<"TYPE", "PASV", t, "DONE">> BY <2>1, <2>3 DEF Access
    <3> HIDE DEF s
    <3>2. Len(s) = 4 /\ s[1] = "TYPE" /\ s[2] = "PASV" /\ s[3] = t /\ s[4] = "DONE"
          /\ Head(s) = "TYPE"
      BY <3>1
    <3>3. Owned(c, s) BY <1>11, <2>1, <3>2, LastCommands DEF Owned
    <3> QED BY <3>2, <3>3 DEF s
  <2> QED BY <2>2, <2>3
<1> QED
  BY <1>1, <1>2, <1>3, <1>4, <1>5, <1>6, <1>7, <1>8, <1>9, <1>10, <1>11 DEF Calls

LEMMA TailOwned ==
  ASSUME NEW c, NEW s, Shaped(c, s), Len(s) > 1, Owned(c, s)
  PROVE  Owned(c, Tail(s)) /\ (Head(s) = "CWD" => Head(Tail(s)) # "DONE")
<1>1. s \in Seq(Verbs) /\ Len(s) \in Nat BY DEF Shaped
<1>2. Tail(s) \in Seq(Verbs) /\ Len(Tail(s)) = Len(s) - 1
  BY <1>1
<1>3. \A i \in 1..Len(Tail(s)) : Tail(s)[i] = s[i + 1] /\ i + 1 \in 1..Len(s)
  BY <1>1, <1>2
<1>4. \A i \in 1..Len(Tail(s)) : Tail(s)[i] = "CWD" => Tail(s)[i + 1] = s[(i + 1) + 1]
  <2>1. \A i \in 1..Len(Tail(s)) : Tail(s)[i] = "CWD" => i < Len(Tail(s))
    BY TailShaped DEF Shaped
  <2>2. \A i \in 1..Len(Tail(s)) : i < Len(Tail(s)) => i + 1 \in 1..Len(Tail(s))
    BY <1>2
  <2> QED BY <1>3, <2>1, <2>2
<1>5. Tail(s)[Len(Tail(s))] = s[Len(s)] BY <1>1, <1>2, <1>3
<1>6. Head(s) = s[1] /\ Head(Tail(s)) = s[2] /\ 1 \in 1..Len(s) BY <1>1, <1>2, <1>3
<1>7. Head(s) = "CWD" => Head(Tail(s)) # "DONE" BY <1>6 DEF Owned
<1>8. \A i \in 1..Len(Tail(s)) :
        /\ Tail(s)[i] = "DELE" => c = "Delete"
        /\ Tail(s)[i] = "RNTO" => c = "Rename"
        /\ Tail(s)[i] = "STOR" => c = "Put"
        /\ Tail(s)[i] = "QUIT" => c = "Quit"
        /\ Tail(s)[i] = "CWD" => Tail(s)[i + 1] # "DONE"
        /\ c = "FileExists" => Tail(s)[i] \in {"TYPE", "SIZE"}
  <2> SUFFICES ASSUME NEW i \in 1..Len(Tail(s))
               PROVE  /\ Tail(s)[i] = "DELE" => c = "Delete"
                      /\ Tail(s)[i] = "RNTO" => c = "Rename"
                      /\ Tail(s)[i] = "STOR" => c = "Put"
                      /\ Tail(s)[i] = "QUIT" => c = "Quit"
                      /\ Tail(s)[i] = "CWD" => Tail(s)[i + 1] # "DONE"
                      /\ c = "FileExists" => Tail(s)[i] \in {"TYPE", "SIZE"}
    OBVIOUS
  <2>1. Tail(s)[i] = s[i + 1] /\ i + 1 \in 1..Len(s) BY <1>3
  <2>2. Tail(s)[i] = "CWD" => Tail(s)[i + 1] = s[(i + 1) + 1] BY <1>4
  <2> QED BY <2>1, <2>2 DEF Owned
<1>9. c \in DOMAIN LastCommand => Tail(s)[Len(Tail(s))] = LastCommand[c]
  BY <1>5 DEF Owned
<1> QED BY <1>7, <1>8, <1>9 DEF Owned

\* The command in hand.
LEMMA VerbOwned ==
  ASSUME NEW c, NEW s, Shaped(c, s), Owned(c, s)
  PROVE  /\ Head(s) = "DELE" => c = "Delete"
         /\ Head(s) = "RNTO" => c = "Rename"
         /\ Head(s) = "STOR" => c = "Put"
         /\ Head(s) = "QUIT" => c = "Quit"
         /\ c = "FileExists" => Head(s) \in {"TYPE", "SIZE"}
         /\ Len(s) = 1 /\ c \in DOMAIN LastCommand => Head(s) = LastCommand[c]
<1>1. Len(s) \in Nat \ {0} /\ Head(s) = s[1] /\ 1 \in 1..Len(s) BY DEF Shaped
<1> QED BY <1>1 DEF Owned

\* The operation goes on, with a call of its own.
Onward ==
  /\ at' = "send" /\ call' \in CallsOf(op')
  /\ Owned(call', script') /\ Head(script') # "DONE"
  /\ call' \in {"Get", "Put"} => ~offset'

LEMMA GotoOnward ==
  ASSUME offset \in BOOLEAN, NEW c \in Calls \ {"Login"}, NEW f \in Files, Goto(c, f),
         c \in CallsOf(op')
  PROVE  Onward /\ call' = c /\ file' = f
<1>1. offset' \in BOOLEAN /\ (c \in {"Get", "Put"} => ~offset') BY Zenon DEF Goto, Start
<1>2. call' = c /\ file' = f /\ at' = "send" /\ script' = Script(c, offset') BY DEF Goto
<1>3. c \in Calls /\ c # "Login" OBVIOUS
<1>4. Owned(c, script') /\ Head(script') # "DONE" BY <1>1, <1>2, <1>3, ScriptOwned
<1> QED BY <1>1, <1>2, <1>4 DEF Onward

\* What each caller does next.
Moves(r) ==
  /\ call # "Get"
  /\ call \in {"Put", "Rename"} => call' = "Noop"
  /\ call = "Delete" => call' \in {"Delete", "ListDir", "Rmd"}
  /\ call = "FileExists" => call' \in {"Put", "FileExists"}
  /\ call' = "Put" =>
       \/ op' = "upload" /\ (rule = "replace" \/ yes')
       \/ op' \in {"upload", "create"} /\ call = "FileExists" /\ ~r /\ file' = file

LEMMA ReturnOnward ==
  ASSUME Flags, Values, Scripted, Placed, at # "idle", NEW r \in BOOLEAN, Return(r)
  PROVE  Ended \/ (Onward /\ Moves(r))
<1> DEFINE Out == Ended \/ (Onward /\ Moves(r))
<1>0. /\ op # "none" /\ op \in Ops /\ call \in Calls /\ call \in CallsOf(op)
      /\ file \in Files /\ offset \in BOOLEAN
  BY DEF Scripted, Placed, Values, Flags
<1>e. EndOp => Out BY <1>0, EndOpEnded
<1>c. {"Noop", "FileExists", "Size", "Get", "Put", "ListDir", "Delete", "Rmd", "Quit"}
        \subseteq Calls \ {"Login"}
  BY DEF Calls
<1>g. ASSUME NEW c \in {"Noop", "FileExists", "Size", "Get", "Put", "ListDir", "Delete",
                        "Rmd", "Quit"},
             NEW f \in Files, Goto(c, f), c \in CallsOf(op')
      PROVE  Onward /\ call' = c /\ file' = f
  BY <1>g, <1>0, <1>c, GotoOnward
<1>b. ASSUME Goto("Noop", file), op' = "browse", call \notin {"Get", "Delete", "FileExists"}
      PROVE  Out
  <2>1. "Noop" \in CallsOf(op') BY <1>b DEF CallsOf
  <2>2. Onward /\ call' = "Noop" BY <1>0, <1>b, <2>1, <1>g
  <2> QED BY <1>b, <2>2 DEF Moves
<1>q. ASSUME Goto("Quit", file), Keep, call \in {"Noop", "Size"}, "Quit" \in CallsOf(op)
      PROVE  Out
  <2>1. op' = op BY <1>q DEF Keep
  <2>2. Onward /\ call' = "Quit" BY <1>0, <1>q, <1>g, <2>1
  <2> QED BY <1>q, <2>2 DEF Moves
<1>1. CASE EndOp BY <1>1, <1>e
<1>2. CASE op \in {"connect", "mkdir", "rename"} /\ call # "Quit" /\ Change(r)
  <2>1. call \notin {"Get", "Delete", "FileExists"} BY <1>0, <1>2 DEF CallsOf
  <2> QED BY <1>2, <2>1, <1>b, <1>e DEF Change
<1>3. CASE op = "save" /\ Change(TRUE)
  <2>1. call \notin {"Get", "Delete", "FileExists"} BY <1>0, <1>3 DEF CallsOf
  <2> QED BY <1>3, <2>1, <1>b, <1>e DEF Change
<1>4. CASE op = "browse" /\ Browse(r)
  <2>1. CASE call = "Noop" /\ Goto("ListDir", file) /\ Keep
    <3>1. op' = "browse" BY <1>4, <2>1 DEF Keep
    <3>2. "ListDir" \in CallsOf(op') BY <3>1 DEF CallsOf
    <3>3. Onward /\ call' = "ListDir" BY <1>0, <2>1, <3>2, <1>g
    <3> QED BY <2>1, <3>3 DEF Moves
  <2>2. CASE call = "Noop" /\ Goto("Quit", file) /\ Keep
    BY <1>4, <2>2, <1>q DEF CallsOf
  <2> QED BY <1>4, <2>1, <2>2, <1>e DEF Browse
<1>5. CASE op = "upload" /\ Upload(r)
  <2>1. ASSUME NEW c \in {"Put", "FileExists"}, Goto(c, file), Keep
        PROVE  Onward /\ call' = c /\ file' = file /\ op' = "upload"
    <3>1. op' = "upload" BY <1>5, <2>1 DEF Keep
    <3>2. c \in CallsOf(op') BY <3>1 DEF CallsOf
    <3> QED BY <1>0, <2>1, <3>1, <3>2, <1>g
  <2>2. CASE call = "Noop" /\ Goto(IF rule = "replace" THEN "Put" ELSE "FileExists", file)
             /\ Keep
    BY <2>1, <2>2 DEF Moves
  <2>3. CASE call = "Noop" /\ Goto("Quit", file) /\ Keep
    BY <1>5, <2>3, <1>q DEF CallsOf
  <2>4. CASE call = "FileExists" /\ ~r /\ Goto("Put", file) /\ Keep
    BY <2>1, <2>4 DEF Moves
  <2>5. CASE call = "FileExists" /\ Goto("Put", file) /\ Keep /\ yes' = TRUE
    BY <2>1, <2>5 DEF Moves
  <2> QED BY <1>5, <2>2, <2>3, <2>4, <2>5, <1>e DEF Upload
<1>6. CASE op = "create" /\ Create(r)
  <2>0. call \in {"FileExists", "Put"} BY <1>0, <1>6 DEF CallsOf
  <2>1. CASE call = "FileExists" /\ \E f \in todo : Goto("FileExists", f)
                                                   /\ UNCHANGED <<op, marked>>
    <3>1. PICK f \in todo : Goto("FileExists", f) BY <2>1
    <3>2. f \in Files BY <1>6, <3>1 DEF Scripted
    <3>3. op' = "create" BY <1>6, <2>1
    <3>4. "FileExists" \in CallsOf(op') BY <3>3 DEF CallsOf
    <3>5. Onward /\ call' = "FileExists" BY <3>1, <3>2, <3>4, <1>g
    <3> QED BY <2>1, <3>5 DEF Moves
  <2>2. CASE call = "FileExists" /\ ~r /\ Goto("Put", file) /\ Keep
    <3>1. op' = "create" BY <1>6, <2>2 DEF Keep
    <3>2. "Put" \in CallsOf(op') BY <3>1 DEF CallsOf
    <3>3. Onward /\ call' = "Put" /\ file' = file BY <1>0, <2>2, <3>2, <1>g
    <3> QED BY <2>2, <3>1, <3>3 DEF Moves
  <2>3. CASE call = "Put" /\ Goto("Noop", file) /\ op' = "browse"
    BY <2>3, <1>b
  <2> QED BY <1>6, <2>1, <2>2, <2>3, <1>e DEF Create
<1>7. CASE op = "download" /\ Download(r)
  <2>1. CASE call = "Size" /\ Goto("Get", file) /\ Keep
    <3>1. op' = "download" BY <1>7, <2>1 DEF Keep
    <3>2. "Get" \in CallsOf(op') BY <3>1 DEF CallsOf
    <3>3. Onward /\ call' = "Get" BY <1>0, <2>1, <3>2, <1>g
    <3> QED BY <2>1, <3>3 DEF Moves
  <2>2. CASE call = "Size" /\ Goto("Quit", file) /\ Keep
    BY <1>7, <2>2, <1>q DEF CallsOf
  <2> QED BY <1>7, <2>1, <2>2, <1>e DEF Download
<1>8. ASSUME NEW left, left \subseteq Files \cup {"folder"}, NextMarked(left),
             call \in {"Noop", "Delete", "ListDir", "Rmd"}
      PROVE  Out
  <2>1. CASE \E f \in left \ {"folder"} : Goto("Delete", f) /\ op' = "delete"
    <3>1. PICK f \in left \ {"folder"} : Goto("Delete", f) /\ op' = "delete" BY <2>1
    <3>2. f \in Files BY <1>8, <3>1
    <3>3. "Delete" \in CallsOf(op') BY <3>1 DEF CallsOf
    <3>4. Onward /\ call' = "Delete" BY <3>1, <3>2, <3>3, <1>g
    <3> QED BY <1>8, <3>4 DEF Moves
  <2>2. CASE Goto("ListDir", file) /\ op' = "tree"
    <3>1. "ListDir" \in CallsOf(op') BY <2>2 DEF CallsOf
    <3>2. Onward /\ call' = "ListDir" BY <1>0, <2>2, <3>1, <1>g
    <3> QED BY <1>8, <3>2 DEF Moves
  <2> QED BY <1>8, <2>1, <2>2, <1>e DEF NextMarked
<1>9. CASE op = "delete" /\ DeleteMarked(r)
  <2>1. CASE call = "Noop" /\ Goto("Quit", file) /\ Keep
    BY <1>9, <2>1, <1>q DEF CallsOf
  <2>2. CASE call \in {"Noop", "Delete"} /\ NextMarked(todo)
    BY <2>2, <1>8 DEF Values
  <2> QED BY <1>9, <2>1, <2>2 DEF DeleteMarked
<1>10. CASE op = "tree" /\ Tree(r)
  <2>0. call \in {"ListDir", "Delete", "Rmd"} BY <1>0, <1>10 DEF CallsOf
  <2>1. CASE call \in {"ListDir", "Delete"}
             /\ \E f \in todo : Goto("Delete", f) /\ UNCHANGED <<op, marked>>
    <3>1. PICK f \in todo : Goto("Delete", f) BY <2>1
    <3>2. f \in Files BY <1>10, <3>1 DEF Scripted
    <3>3. op' = "tree" BY <1>10, <2>1
    <3>4. "Delete" \in CallsOf(op') BY <3>3 DEF CallsOf
    <3>5. Onward /\ call' = "Delete" BY <3>1, <3>2, <3>4, <1>g
    <3> QED BY <2>1, <3>5 DEF Moves
  <2>2. CASE call \in {"ListDir", "Delete"} /\ Goto("Rmd", file) /\ Keep
    <3>1. op' = "tree" BY <1>10, <2>2 DEF Keep
    <3>2. "Rmd" \in CallsOf(op') BY <3>1 DEF CallsOf
    <3>3. Onward /\ call' = "Rmd" BY <1>0, <2>2, <3>2, <1>g
    <3> QED BY <2>2, <3>3 DEF Moves
  <2>3. CASE NextMarked(marked) BY <2>0, <2>3, <1>8 DEF Values
  <2> QED BY <1>10, <2>1, <2>2, <2>3 DEF Tree
<1> QED
  BY <1>1, <1>2, <1>3, <1>4, <1>5, <1>6, <1>7, <1>9, <1>10 DEF Return

\* Refusals and farewells only.
Stale(rs) == \A i \in 1..Len(rs) : rs[i].code \in {"4", "5"}

LEMMA StaleAnswered == Stale(replies') => Answered'
BY DEF Stale, Answered

LEMMA TailStale ==
  ASSUME replies \in Replies, replies # <<>>, Answered
  PROVE  Stale(Tail(replies))
<1>1. /\ Len(replies) \in Nat /\ Len(Tail(replies)) = Len(replies) - 1
      /\ \A i \in 1..Len(Tail(replies)) :
           Tail(replies)[i] = replies[i + 1] /\ i + 1 \in 1..Len(replies) /\ i + 1 # 1
  BY TailReplies DEF Replies
<1>2. \A i \in 1..Len(replies) : i # 1 => replies[i].code \in {"4", "5"} BY DEF Answered
<1> QED BY <1>1, <1>2 DEF Stale

\* What a call that returns 1 tells of is so, and a probe that returns 0 missed nothing.
Settled(r) ==
  /\ r => /\ call \in {"Delete", "Rename"} => stored[file] = "none"
          /\ call = "Put" => stored[file] = "new" \/ spoiled
          /\ call = "FileExists" => stored[file] # "none"
          /\ call = "Get" => whole' \/ spoiled
  /\ ~r /\ call = "FileExists" /\ line' = "up" /\ stored[file] # "none" => blind'

LEMMA ReturnHonest ==
  ASSUME Good, Honest, at # "idle", NEW r \in BOOLEAN, Return(r), stored' = stored,
         spoiled' = spoiled, Stale(replies'), Settled(r)
  PROVE  Honest' /\ Happened'
<1>1. Flags /\ Values /\ Scripted /\ Placed BY DEF Good, Honest
<1>2. /\ Ended \/ (Onward /\ Moves(r))
      /\ op' # "connect" /\ at' \in {"idle", "send"}
  BY <1>1, ReturnOnward, ReturnStep
<1>3. told' = (IF r THEN <<call, file>> ELSE <<>>) /\ rule' = rule BY DEF Return
<1>4. Happened' BY <1>3 DEF Happened, Settled
<1>5. Placed' BY <1>2 DEF Placed, Ended, Onward, verb
<1>6. Answered' BY StaleAnswered
<1>7. Following'
  <2>1. CASE Ended BY <2>1 DEF Ended, Following
  <2>2. CASE Moves(r) BY <1>2, <1>3, <2>2 DEF Moves, Following
  <2> QED BY <1>2, <2>1, <2>2
<1>8. Denied' BY <1>2 DEF Denied
<1>9. Permitted'
  <2>1. CASE Ended BY <2>1 DEF Ended, Permitted
  <2>2. CASE Moves(r) BY <1>3, <2>2 DEF Moves, Settled, Permitted
  <2> QED BY <1>2, <2>1, <2>2
<1> QED BY <1>4, <1>5, <1>6, <1>7, <1>8, <1>9 DEF Honest

\* The script moves on.
LEMMA TailHonest ==
  ASSUME Good, Honest, Happened, at # "idle", Len(script) > 1, script' = Tail(script),
         at' \in {"send", "data"},
         at' = "send" => Head(script) = "CWD" \/ Head(script') # "DONE",
         Stale(replies'), spoiled' = spoiled,
         UNCHANGED <<stored, line, call, file, offset, caller, ghosts>>
  PROVE  Honest' /\ Happened'
<1>1. Scripted /\ Placed BY DEF Good, Honest
<1>2. Owned(call, script') /\ (Head(script) = "CWD" => Head(script') # "DONE")
  BY <1>1, TailOwned DEF Scripted, Placed
<1>3. Happened' BY DEF Happened, ghosts
<1>4. Placed' BY <1>1, <1>2 DEF Placed, caller, verb
<1>5. Answered' BY StaleAnswered
<1>6. Following' BY DEF Honest, Following, caller, ghosts
<1>7. Denied' BY DEF Denied
<1>8. Permitted' BY DEF Honest, Permitted, caller, ghosts
<1> QED BY <1>3, <1>4, <1>5, <1>6, <1>7, <1>8 DEF Honest

LEMMA HandOwned ==
  ASSUME Good, Honest, at # "idle"
  PROVE  /\ call \in Calls /\ call \in CallsOf(op) /\ Len(script) \in Nat \ {0}
         /\ verb \in {"USER", "PASS", "HELLO"} <=> call = "Login"
         /\ verb = "CWD" => Len(script) > 1
         /\ verb = "DELE" => call = "Delete"
         /\ verb = "RNTO" => call = "Rename"
         /\ verb = "STOR" => call = "Put"
         /\ verb = "QUIT" <=> call = "Quit"
         /\ call = "FileExists" => verb \in {"TYPE", "SIZE"}
         /\ Len(script) = 1 /\ call \in DOMAIN LastCommand => verb = LastCommand[call]
<1>1. call \in Calls /\ Shaped(call, script) /\ Owned(call, script) /\ call \in CallsOf(op)
  BY DEF Good, Scripted, Honest, Placed
<1> QED BY <1>1, VerbShaped, VerbOwned DEF verb, Logins

LEMMA HangUpHonest ==
  ASSUME Good, Honest, at # "idle", verb = "QUIT", HangUp, spoiled' = spoiled
  PROVE  Honest' /\ Happened'
<1>1. call = "Quit" BY HandOwned
<1>2. Return(TRUE) /\ stored' = stored /\ replies' = <<>> BY DEF HangUp
<1>3. Stale(replies') BY <1>2 DEF Stale
<1>4. Settled(TRUE) BY <1>1 DEF Settled
<1> QED BY <1>2, <1>3, <1>4, ReturnHonest

LEMMA LoggedInHonest ==
  ASSUME Good, Honest, at # "idle", call = "Login", NEW rest, Stale(rest), LoggedIn(rest),
         spoiled' = spoiled
  PROVE  Honest' /\ Happened'
<1>1. Return(TRUE) /\ stored' = stored /\ replies' = rest BY DEF LoggedIn
<1>2. Settled(TRUE) BY DEF Settled
<1> QED BY <1>1, <1>2, ReturnHonest

LEMMA RejectedHonest ==
  ASSUME Good, Honest, Happened, at # "idle", NEW rest, Stale(rest), Rejected(rest),
         spoiled' = spoiled,
         call = "FileExists" /\ line = "up" /\ stored[file] # "none" => blind
  PROVE  Honest' /\ Happened'
<1>1. CASE verb = "QUIT" /\ HangUp BY <1>1, HangUpHonest
<1>2. CASE /\ verb = "HELLO" /\ line' = "none" /\ replies' = <<>> /\ Return(FALSE)
           /\ stored' = stored
  <2>1. Stale(replies') BY <1>2 DEF Stale
  <2>2. Settled(FALSE) BY <1>2 DEF Settled
  <2> QED BY <1>2, <2>1, <2>2, ReturnHonest
<1>3. CASE verb = "USER" /\ LoggedIn(rest) BY <1>3, HandOwned, LoggedInHonest
<1>4. CASE /\ verb \in {"USER", "PASS"}
           /\ Goto("Quit", file) /\ replies' = rest
           /\ UNCHANGED <<stored, line, sending, connected, caller, ghosts>>
  <2>1. op = "connect" BY <1>4, HandOwned DEF Good, Scripted
  <2>2. file \in Files /\ offset \in BOOLEAN /\ "Quit" \in Calls \ {"Login"}
    BY DEF Good, Flags, Values, Calls
  <2>3. op' = "connect" BY <1>4, <2>1 DEF caller
  <2>4. "Quit" \in CallsOf(op') BY <2>3 DEF CallsOf
  <2>5. Onward /\ call' = "Quit" BY <1>4, <2>2, <2>4, GotoOnward
  <2>6. Happened' BY <1>4 DEF Happened, ghosts
  <2>7. Placed' BY <2>5 DEF Placed, Onward, verb
  <2>8. Answered' BY <1>4, StaleAnswered
  <2>9. Following' BY <1>4, <2>1, <2>5 DEF Honest, Following, caller, ghosts
  <2>10. Denied' BY <2>5 DEF Denied
  <2>11. Permitted' BY <2>5 DEF Permitted
  <2> QED BY <2>6, <2>7, <2>8, <2>9, <2>10, <2>11 DEF Honest
<1>5. CASE /\ verb = "CWD"
           /\ script' = Tail(script) /\ at' = "send" /\ replies' = rest
           /\ UNCHANGED <<stored, line, sending, connected, call, file, offset, caller,
                          ghosts>>
  BY <1>5, HandOwned, TailHonest DEF verb
<1>6. CASE /\ verb = "REST"
           /\ at' = "wild" /\ replies' = rest
           /\ UNCHANGED <<stored, line, sending, connected, call, file, script, offset,
                          caller, ghosts>>
  <2>1. Happened' BY <1>6 DEF Happened, ghosts
  <2>2. Placed' BY <1>6 DEF Honest, Placed, caller, verb
  <2>3. Answered' BY <1>6, StaleAnswered
  <2>4. Following' BY <1>6 DEF Honest, Following, caller, ghosts
  <2>5. Denied' BY <1>6 DEF Denied
  <2>6. Permitted' BY <1>6 DEF Honest, Permitted, caller, ghosts
  <2> QED BY <2>1, <2>2, <2>3, <2>4, <2>5, <2>6 DEF Honest
<1>7. CASE /\ Return(call = "GetRange" /\ verb = "DONE") /\ replies' = rest
           /\ UNCHANGED <<stored, line, sending, connected, whole, blind>>
  <2>1. Settled(call = "GetRange" /\ verb = "DONE") BY <1>7 DEF Settled
  <2>2. (call = "GetRange" /\ verb = "DONE") \in BOOLEAN OBVIOUS
  <2> QED BY <1>7, <2>1, <2>2, ReturnHonest
<1> QED BY <1>1, <1>2, <1>3, <1>4, <1>5, <1>6, <1>7 DEF Rejected

LEMMA SucceededHonest ==
  ASSUME Good, Honest, Happened, at # "idle", NEW rest, Stale(rest), Succeeded(rest),
         spoiled' = spoiled,
         verb \in {"DELE", "RNTO", "DONE", "SIZE"} => Answer
  PROVE  Honest' /\ Happened'
<1>1. CASE verb = "QUIT" /\ HangUp BY <1>1, HangUpHonest
<1>2. CASE /\ Len(script) > 1
           /\ script' = Tail(script)
           /\ at' = IF Head(script') = "DONE" THEN "data" ELSE "send"
           /\ replies' = rest
           /\ UNCHANGED <<stored, line, sending, connected, call, file, offset, caller,
                          ghosts>>
  BY <1>2, TailHonest
<1>3. CASE verb = "PASS" /\ LoggedIn(rest) BY <1>3, HandOwned, LoggedInHonest
<1>4. CASE /\ Len(script) = 1 /\ Return(TRUE) /\ replies' = rest
           /\ UNCHANGED <<stored, line, sending, connected, whole, blind>>
  <2>1. call \in DOMAIN LastCommand => verb = LastCommand[call] BY <1>4, HandOwned
  <2>2. Settled(TRUE) BY <1>4, <2>1, LastCommands DEF Answer, Settled
  <2> QED BY <1>4, <2>2, ReturnHonest
<1> QED BY <1>1, <1>2, <1>3, <1>4 DEF Succeeded

LEMMA ReadHonest ==
  ASSUME Good, Honest, Happened, Read, spoiled' = spoiled
  PROVE  Honest' /\ Happened'
<1>1. at = "read" /\ replies # <<>> /\ replies \in Replies BY DEF Read, Good, Values
<1>2. Stale(Tail(replies)) BY <1>1, TailStale DEF Honest
<1>3. Head(replies) = replies[1] /\ 1 \in 1..Len(replies) BY <1>1 DEF Replies
<1>4. CASE Accepted(Head(replies)) /\ Succeeded(Tail(replies))
  <2>1. verb \in {"DELE", "RNTO", "DONE", "SIZE"} => Head(replies).code = "2"
    BY <1>4 DEF Accepted, Expects, Transfers
  <2>2. verb \in {"DELE", "RNTO", "DONE", "SIZE"} => Answer
    BY <1>3, <2>1 DEF Honest, Answered
  <2> QED BY <1>1, <1>2, <1>4, <2>2, SucceededHonest
<1>5. CASE verb = "USER" /\ LoggedIn(Tail(replies))
  BY <1>1, <1>2, <1>5, HandOwned, LoggedInHonest
<1>6. CASE ~Accepted(Head(replies)) /\ Rejected(Tail(replies))
  <2>1. call = "FileExists" /\ line = "up" /\ stored[file] # "none" => blind
    BY <1>1, <1>6 DEF Honest, Denied
  <2> QED BY <1>1, <1>2, <1>6, <2>1, RejectedHonest
<1> QED BY <1>4, <1>5, <1>6 DEF Read

\* A reply is appended to nothing.
LEMMA FirstReply ==
  ASSUME replies \in Replies, Len(replies) = 0, NEW c, NEW v
  PROVE  /\ Len(Append(replies, Reply(c, v))) = 1
         /\ Append(replies, Reply(c, v))[1] = [code |-> c, verb |-> v]
         /\ Append(replies, Reply(c, v)) # <<>>
         /\ Head(Append(replies, Reply(c, v))) = [code |-> c, verb |-> v]
<1>1. replies = <<>> BY DEF Replies
<1>2. Append(replies, Reply(c, v)) = <<[code |-> c, verb |-> v]>> BY <1>1 DEF Reply
<1> QED BY <1>2

\* What the server's step leaves alone.
LEMMA ServerHonest ==
  ASSUME Good, Honest, at # "idle",
         at' \in {"open", "read", at}, at' = "send" => at = "send",
         UNCHANGED <<call, file, script, offset, caller, told>>
  PROVE  Placed' /\ Following'
<1>1. Placed' BY DEF Honest, Placed, caller, verb
<1>2. Following' BY DEF Honest, Following, caller
<1> QED BY <1>1, <1>2

LEMMA GrantHonest ==
  ASSUME Good, Paced, Honest, Happened, Grant, behind = 0, UNCHANGED slips
  PROVE  Honest' /\ Happened'
<1>1. /\ at = "send" /\ line = "up" /\ Can(verb)
      /\ UNCHANGED <<line, connected, call, file, script, offset, caller, ghosts>>
  BY DEF Grant
<1>2. /\ replies \in Replies /\ file \in Files
      /\ stored \in [Files -> {"none", "old", "half", "new"}]
  BY DEF Good, Values
<1>3. Len(replies) = 0 BY <1>1, <1>2 DEF Paced, Replies
<1>4. verb # "DONE" BY <1>1 DEF Honest, Placed
<1>5. verb' = verb BY <1>1 DEF verb
<1>6. /\ verb \in {"DELE", "RNTO"} => stored' = [stored EXCEPT ![file] = "none"]
      /\ verb \notin {"DELE", "RNTO"} => stored' = stored
  BY DEF Grant, Upon
<1>7. verb \in {"DELE", "RNTO"} => call \in {"Delete", "Rename"} BY <1>1, HandOwned
<1>8. Placed' /\ Following'
  <2>1. at' \in {"open", "read"} BY DEF Grant
  <2> QED BY <1>1, <2>1, ServerHonest DEF ghosts
<1>9. Answered' /\ Denied'
  <2>1. CASE at' = "open" /\ UNCHANGED replies
    BY <1>2, <1>3, <2>1 DEF Answered, Denied
  <2>2. CASE at' = "read" /\ \E code \in Expects(verb) \cup (IF verb = "USER" THEN {"2"} ELSE {}) :
                               replies' = Append(replies, Reply(code, verb))
    <3>1. PICK code \in Expects(verb) \cup (IF verb = "USER" THEN {"2"} ELSE {}) :
            replies' = Append(replies, Reply(code, verb))
      BY <2>2
    <3>2. Len(replies') = 1 /\ replies'[1] = [code |-> code, verb |-> verb]
          /\ Head(replies') = [code |-> code, verb |-> verb]
      BY <1>2, <1>3, <3>1, FirstReply
    <3>3. Answer'
      <4>1. verb \in {"DELE", "RNTO"} => stored'[file] = "none" BY <1>2, <1>6
      <4>2. verb = "SIZE" => stored'[file] # "none" BY <1>1, <1>6 DEF Can
      <4> QED BY <1>1, <1>4, <1>5, <4>1, <4>2 DEF Answer
    <3>4. Answered' BY <2>2, <3>2, <3>3 DEF Answered
    <3>5. Denied'
      <4>1. CASE call = "FileExists"
        <5>1. verb # "USER" BY <1>1, <4>1, HandOwned
        <5>2. code \in Expects(verb) BY <5>1
        <5>3. Accepted(Head(replies))' BY <1>5, <3>2, <5>2 DEF Accepted, Expects, Transfers
        <5> QED BY <5>3 DEF Denied
      <4>2. CASE call # "FileExists" BY <1>1, <4>2 DEF Denied
      <4> QED BY <4>1, <4>2
    <3> QED BY <3>4, <3>5
  <2> QED BY <2>1, <2>2 DEF Grant
<1>10. \A f \in Files : stored'[f] = stored[f] \/ (f = file /\ stored'[f] = "none"
                                                  /\ call \in {"Delete", "Rename"})
  BY <1>2, <1>6, <1>7
<1>11. Permitted' BY <1>1, <1>2, <1>10 DEF Honest, Permitted, caller, ghosts
<1>12. Happened' BY <1>1, <1>10 DEF Honest, Following, Happened, ghosts, slips
<1> QED BY <1>8, <1>9, <1>11, <1>12 DEF Honest

LEMMA RefuseHonest ==
  ASSUME Good, Paced, Honest, Happened, Refuse, behind = 0, UNCHANGED slips
  PROVE  Honest' /\ Happened'
<1>1. /\ at = "send" /\ line = "up" /\ at' \in {"open", "read"}
      /\ UNCHANGED <<stored, line, connected, call, file, script, offset, caller,
                     told, whole, yes>>
  BY DEF Refuse
<1>2. replies \in Replies BY DEF Good, Values
<1>3. Len(replies) = 0 BY <1>1, <1>2 DEF Paced, Replies
<1>4. PICK code \in {"4", "5"} : replies' = Append(replies, Reply(code, verb))
  BY DEF Refuse
<1>5. Len(replies') = 1 /\ replies'[1].code = code BY <1>2, <1>3, <1>4, FirstReply
<1>6. blind' = (blind \/ (call = "FileExists" /\ stored[file] # "none")) BY DEF Refuse
<1>7. Placed' /\ Following' BY <1>1, ServerHonest
<1>8. Answered'
  <2>1. Stale(replies') BY <1>5 DEF Stale
  <2> QED BY <2>1, StaleAnswered
<1>9. Denied' BY <1>1, <1>6 DEF Denied
<1>10. Permitted' BY <1>1, <1>6 DEF Honest, Permitted, caller
<1>11. Happened' BY <1>1 DEF Happened, slips
<1> QED BY <1>7, <1>8, <1>9, <1>10, <1>11 DEF Honest

LEMMA SendDeadHonest ==
  ASSUME Good, Honest, Happened, SendDead, UNCHANGED slips
  PROVE  Honest' /\ Happened'
<1>1. at = "send" /\ line # "up" BY DEF SendDead
<1>2. Stale(replies) BY <1>1 DEF Honest, Answered, Stale
<1>3. CASE Rejected(replies) BY <1>1, <1>2, <1>3, RejectedHonest DEF slips
<1>4. CASE /\ at' = IF verb \in Transfers THEN "open" ELSE "read"
           /\ UNCHANGED <<server, connected, call, file, script, offset, caller, ghosts>>
  <2>1. Placed' /\ Following' BY <1>1, <1>4, ServerHonest DEF ghosts
  <2>2. Answered' BY <1>2, <1>4, StaleAnswered DEF server
  <2>3. Denied' BY <1>1, <1>4 DEF Denied, server
  <2>4. Permitted' BY <1>1, <1>4 DEF Permitted, server
  <2>5. Happened' BY <1>4 DEF Happened, server, ghosts, slips
  <2> QED BY <2>1, <2>2, <2>3, <2>4, <2>5 DEF Honest
<1> QED BY <1>3, <1>4 DEF SendDead

LEMMA OpenHonest ==
  ASSUME Good, Paced, Honest, Happened, Open, behind = 0, UNCHANGED slips
  PROVE  Honest' /\ Happened'
<1>1. /\ at = "open" /\ at' = "read" /\ verb \in Transfers
      /\ UNCHANGED <<line, sending, connected, call, file, script, offset, caller, ghosts>>
  BY DEF Open, Good, Scripted
<1>2. /\ replies \in Replies /\ file \in Files
      /\ stored \in [Files -> {"none", "old", "half", "new"}]
  BY DEF Good, Values
<1>3. Stale(replies) BY <1>1 DEF Honest, Answered, Stale
<1>4. call # "FileExists" /\ (verb = "STOR" => call = "Put")
  BY <1>1, HandOwned DEF Transfers
<1>5. Placed' /\ Following' BY <1>1, ServerHonest DEF ghosts
<1>6. Answered'
  <2>1. CASE sending /\ line = "up"
    <3>1. Len(replies) = 0 BY <1>1, <1>2, <2>1 DEF Paced, Replies
    <3>2. replies' = Append(replies, Reply("1", verb)) BY <2>1 DEF Open
    <3>3. Len(replies') = 1 /\ replies'[1].code = "1" BY <1>2, <3>1, <3>2, FirstReply
    <3> QED BY <1>1, <3>3 DEF Answered
  <2>2. CASE ~(sending /\ line = "up")
    <3>1. replies' = replies BY <2>2 DEF Open
    <3> QED BY <1>3, <3>1, StaleAnswered
  <2> QED BY <2>1, <2>2
<1>7. \A f \in Files : stored'[f] = stored[f] \/ (f = file /\ stored'[f] = "half"
                                                  /\ call = "Put")
  BY <1>2, <1>4 DEF Open, Upon
<1>8. Denied' BY <1>1, <1>4 DEF Denied
<1>9. Permitted' BY <1>1, <1>2, <1>7 DEF Honest, Permitted, caller, ghosts
<1>10. Happened' BY <1>1, <1>7 DEF Honest, Following, Happened, ghosts, slips
<1> QED BY <1>5, <1>6, <1>8, <1>9, <1>10 DEF Honest

LEMMA OpenFailsHonest ==
  ASSUME Good, Honest, OpenFails, line # "up"
  PROVE  Honest' /\ Happened'
<1>1. /\ at = "open" /\ line' = line /\ stored' = stored
      /\ replies' = replies /\ Return(FALSE) /\ spoiled' = spoiled
  BY DEF OpenFails
<1>2. Stale(replies') BY <1>1 DEF Honest, Answered, Stale
<1>3. Settled(FALSE) BY <1>1 DEF Settled
<1> QED BY <1>1, <1>2, <1>3, ReturnHonest

LEMMA LocalFailsHonest ==
  ASSUME Good, Honest, LocalFails, UNCHANGED slips
  PROVE  Honest' /\ Happened'
<1>1. /\ at = "send" /\ call # "FileExists" /\ stored' = stored
      /\ replies' = replies /\ Return(FALSE) /\ spoiled' = spoiled
  BY DEF LocalFails, server, slips
<1>2. Stale(replies') BY <1>1 DEF Honest, Answered, Stale
<1>3. Settled(FALSE) BY <1>1 DEF Settled
<1> QED BY <1>1, <1>2, <1>3, ReturnHonest

LEMMA ReadEndHonest ==
  ASSUME Good, Honest, Happened, ReadEnd, UNCHANGED slips
  PROVE  Honest' /\ Happened'
<1>1. at = "read" /\ line # "up" /\ Rejected(<<>>) BY DEF ReadEnd
<1>2. Stale(<<>>) BY DEF Stale
<1> QED BY <1>1, <1>2, RejectedHonest DEF slips

LEMMA StrayHonest ==
  ASSUME Good, Honest, Stray, UNCHANGED slips
  PROVE  Honest' /\ Happened'
<1>1. at = "wild" /\ verb = "REST" /\ stored' = stored BY DEF Stray, Good, Scripted
<1>2. CASE Return(call = "GetRange") /\ UNCHANGED replies
  <2>1. Stale(replies') BY <1>1, <1>2 DEF Honest, Answered, Stale
  <2>2. call # "FileExists" BY <1>1, HandOwned
  <2>3. Settled(call = "GetRange") BY <2>2 DEF Settled
  <2>4. (call = "GetRange") \in BOOLEAN OBVIOUS
  <2> QED BY <1>1, <1>2, <2>1, <2>3, <2>4, ReturnHonest DEF slips
<1>3. CASE EndOp /\ told' = <<>> /\ replies' = <<>>
  <2>1. Ended BY <1>3, EndOpEnded DEF Good, Flags
  <2>2. Answered' BY <1>3 DEF Answered
  <2> QED
    BY <1>3, <2>1, <2>2
       DEF Honest, Ended, Placed, Following, Denied, Permitted, Happened
<1> QED BY <1>2, <1>3 DEF Stray

LEMMA TransferHonest ==
  ASSUME Good, Paced, Honest, Happened, behind = 0, NEW complete \in BOOLEAN, Transfer(complete)
  PROVE  Honest' /\ Happened'
<1>1. /\ at = "data" /\ at' = "read" /\ verb = "DONE" /\ (complete => sending)
      /\ UNCHANGED <<line, connected, call, file, script, offset, op, rule, marked, told,
                     yes, blind>>
      /\ whole' = (complete /\ ~offset /\ ~spoiled')
  BY DEF Transfer, Good, Scripted
<1>2. /\ replies \in Replies /\ file \in Files /\ offset \in BOOLEAN
      /\ stored \in [Files -> {"none", "old", "half", "new"}]
  BY DEF Good, Values, Flags
<1>3. Stale(replies) BY <1>1 DEF Honest, Answered, Stale
<1>4. call # "FileExists" BY <1>1, HandOwned
<1>5. call \in {"Get", "Put"} => ~offset BY <1>1 DEF Honest, Placed
<1>6. \A f \in Files : stored'[f] = stored[f] \/ (f = file /\ stored'[f] = "new"
                                                  /\ call = "Put")
  BY <1>2 DEF Transfer, Upon
<1>7. Placed' BY <1>1 DEF Honest, Placed, verb
<1>8. Following' BY <1>1 DEF Honest, Following
<1>9. Answered'
  <2>1. CASE sending /\ line = "up"
    <3>1. Len(replies) = 0 BY <1>1, <1>2, <2>1 DEF Paced, Replies
    <3>2. replies' = Append(replies, Reply(IF complete THEN "2" ELSE "4", "DONE"))
      BY <2>1 DEF Transfer
    <3>3. /\ Len(replies') = 1
          /\ replies'[1].code = IF complete THEN "2" ELSE "4"
      BY <1>2, <3>1, <3>2, FirstReply
    <3>4. complete /\ call = "Put" => stored'[file] = "new" \/ spoiled'
      BY <1>1, <1>2, <1>5 DEF Transfer, Upon
    <3>5. complete /\ call = "Get" => whole' \/ spoiled' BY <1>1, <1>5, Zenon
    <3>6. verb' = "DONE" /\ file' = file /\ call' = call BY <1>1 DEF verb
    <3>7. complete => Answer' BY <3>4, <3>5, <3>6 DEF Answer
    <3> QED BY <1>1, <3>3, <3>7 DEF Answered
  <2>2. CASE ~(sending /\ line = "up")
    <3>1. replies' = replies BY <2>2 DEF Transfer
    <3> QED BY <1>3, <3>1, StaleAnswered
  <2> QED BY <2>1, <2>2
<1>10. Denied' BY <1>1, <1>4 DEF Denied
<1>11. Permitted' BY <1>1, <1>2, <1>6 DEF Honest, Permitted
<1>12. Happened'
  <2>1. call \notin {"Get", "Put"} => spoiled' = spoiled BY DEF Transfer
  <2>2. \A f \in Files : told # <<"Get", f>> /\ (told = <<"Put", f>> => call \notin {"Get", "Put"})
    BY <1>1 DEF Honest, Following
  <2> QED BY <1>1, <1>6, <2>1, <2>2 DEF Honest, Following, Happened
<1> QED BY <1>7, <1>8, <1>9, <1>10, <1>11, <1>12 DEF Honest

LEMMA DropHonest ==
  ASSUME Good, Honest, Happened, Drop
  PROVE  Honest' /\ Happened'
<1>1. /\ line = "up" /\ line' = "lost" /\ spoiled' = spoiled
      /\ UNCHANGED <<stored, sending, client, caller, ghosts>>
  BY DEF Drop, slips
<1>2. replies \in Replies BY DEF Good, Values
<1>3. verb' = verb BY <1>1 DEF verb, client
<1>4. Answer' <=> Answer BY <1>1, <1>3 DEF Answer, client, ghosts
<1>5. Answered'
  <2>1. CASE replies' = <<>> BY <2>1 DEF Answered
  <2>2. CASE replies' = replies BY <1>1, <1>4, <2>2 DEF Honest, Answered, client
  <2>3. CASE replies' = Append(replies, Reply("4", "BYE"))
    <3>1. /\ Len(replies) \in Nat /\ Len(replies') = Len(replies) + 1
          /\ replies'[Len(replies) + 1] = [code |-> "4", verb |-> "BYE"]
          /\ \A i \in 1..Len(replies) : replies'[i] = replies[i]
      BY <1>2, <2>3 DEF Replies, Reply
    <3>2. \A i \in 1..Len(replies') : i \in 1..Len(replies) \/ i = Len(replies) + 1
      BY <3>1
    <3> QED BY <1>1, <1>4, <3>1, <3>2 DEF Honest, Answered, client
  <2> QED BY <2>1, <2>2, <2>3 DEF Drop
<1>6. Placed' /\ Following'
  BY <1>1, <1>3 DEF Honest, Placed, Following, client, caller, ghosts
<1>7. Denied' /\ Permitted' BY <1>1 DEF Denied, Permitted
<1>8. Happened' BY <1>1 DEF Happened, ghosts
<1> QED BY <1>5, <1>6, <1>7, <1>8 DEF Honest

LEMMA BeginHonest ==
  ASSUME Good, Honest, NEW o, NEW c \in Calls \ {"Login"}, NEW f \in Files, Begin(o, c, f),
         c \in CallsOf(o), o # "connect", c = "Put" => o = "save"
  PROVE  Honest' /\ Happened'
<1>1. /\ op = "none" /\ op' = o /\ Goto(c, f) /\ told' = <<>>
      /\ UNCHANGED <<stored, line, replies>>
  BY DEF Begin, Fresh, server
<1>2. at = "idle" BY <1>1 DEF Good, Scripted
<1>3. Onward /\ call' = c /\ file' = f
  <2>1. offset \in BOOLEAN BY DEF Good, Flags
  <2>2. c \in CallsOf(op') BY <1>1
  <2> QED BY <1>1, <2>1, <2>2, GotoOnward
<1>4. Placed' BY <1>3 DEF Placed, Onward, verb
<1>5. Answered'
  <2>1. Stale(replies') BY <1>1, <1>2 DEF Honest, Answered, Stale
  <2> QED BY <2>1, StaleAnswered
<1>6. Following' BY <1>1 DEF Following
<1>7. Denied' BY <1>3 DEF Denied, Onward
<1>8. Permitted' BY <1>1, <1>3 DEF Permitted
<1>9. Happened' BY <1>1 DEF Happened
<1> QED BY <1>4, <1>5, <1>6, <1>7, <1>8, <1>9 DEF Honest

LEMMA ConnectHonest ==
  ASSUME Good, Connect
  PROVE  Honest' /\ Happened'
<1>1. /\ op' = "connect" /\ told' = <<>> /\ Goto("Login", file) /\ at' = "read"
      /\ call' = "Login" /\ file' = file /\ script' = Script("Login", offset')
  BY DEF Connect, Fresh, Goto
<1>2. script' = <<"HELLO", "USER", "PASS">> BY <1>1 DEF Script
<1>3. Placed'
  <2>1. "Login" \in CallsOf(op') BY <1>1 DEF CallsOf
  <2>2. Owned("Login", script') BY <1>2, LastCommands DEF Owned
  <2> QED BY <1>1, <2>1, <2>2 DEF Placed
<1>4. Answered'
  <2>1. Len(replies') = 1 BY DEF Connect
  <2>2. verb' = "HELLO" BY <1>2 DEF verb
  <2>3. Answer' BY <2>2 DEF Answer
  <2> QED BY <1>1, <2>1, <2>3 DEF Answered
<1>5. Following' /\ Denied' /\ Permitted' /\ Happened'
  BY <1>1 DEF Following, Denied, Permitted, Happened
<1> QED BY <1>3, <1>4, <1>5 DEF Honest

LEMMA UserHonest ==
  ASSUME Good, behind = 0 => Honest, behind' = 0, User
  PROVE  Honest' /\ Happened'
<1>0. file \in Files BY DEF Good, Values
<1>1. {"Quit", "Noop", "FileExists", "Size", "GetRange", "Head", "Get", "Put", "Mkdir",
       "Rename"} \subseteq Calls \ {"Login"}
  BY DEF Calls
<1>b. ASSUME NEW o, NEW c, <<o, c>> \in
               {<<"disconnect", "Quit">>, <<"browse", "Noop">>, <<"upload", "Noop">>,
                <<"create", "FileExists">>, <<"download", "Size">>, <<"extract", "GetRange">>,
                <<"header", "Head">>, <<"edit", "Get">>, <<"save", "Put">>,
                <<"delete", "Noop">>, <<"mkdir", "Mkdir">>, <<"rename", "Rename">>},
             NEW f \in Files, Begin(o, c, f)
      PROVE  Honest' /\ Happened'
  <2>1. c \in CallsOf(o) /\ o # "connect" /\ (c = "Put" => o = "save")
    BY <1>b DEF CallsOf
  <2>2. c \in Calls \ {"Login"} BY <1>1, <1>b
  <2>3. Honest BY <1>b DEF Begin, slips
  <2> QED BY <1>b, <2>1, <2>2, <2>3, BeginHonest
<1> QED BY <1>0, <1>b, ConnectHonest DEF User

\* The invariant of what is told.
Truth == Good /\ SlipTypes /\ Paced /\ (behind = 0 => Honest /\ Happened)

LEMMA TruthStep ==
  ASSUME Truth, [Next]_vars
  PROVE  Truth'
<1>1. Good /\ SlipTypes /\ Paced /\ behind \in Nat /\ (behind = 0 => Honest /\ Happened)
  BY DEF Truth, SlipTypes
<1>2. Good' /\ SlipTypes' /\ Paced' BY <1>1, GoodStep, SlipTypesStep, PacedStep
<1>3. ASSUME behind' = 0 PROVE Honest' /\ Happened'
  <2>1. CASE Client
    <3>1. behind = 0 /\ (OpenFails => line # "up") /\ ~ReadLong
      <4>1. CASE UNCHANGED slips /\ ~OpenFails /\ ~ReadLong BY <1>3, <4>1 DEF slips
      <4>2. CASE OpenFails /\ line = "up" BY <1>1, <1>3, <4>2 DEF OpenFails
      <4>3. CASE ReadLong BY <1>1, <1>3, <4>3 DEF ReadLong
      <4>4. CASE OpenFails /\ line # "up"
        <5>1. at = "open" /\ behind' = behind BY <4>4 DEF OpenFails
        <5>2. ~ReadLong BY <5>1 DEF ReadLong
        <5> QED BY <1>3, <4>4, <5>1, <5>2
      <4>5. ASSUME NEW complete \in BOOLEAN, Transfer(complete) PROVE behind = 0 /\ at = "data"
        BY <1>3, <4>5 DEF Transfer
      <4>6. at = "data" => ~OpenFails /\ ~ReadLong BY DEF OpenFails, ReadLong
      <4> QED BY <2>1, <4>1, <4>2, <4>3, <4>4, <4>5, <4>6 DEF Client
    <3>2. Honest /\ Happened BY <1>1, <3>1
    <3>3. spoiled' = spoiled \/ ~UNCHANGED slips BY DEF slips
    <3> QED
      BY <1>1, <2>1, <3>1, <3>2, <3>3, GrantHonest, RefuseHonest, SendDeadHonest, OpenHonest,
         OpenFailsHonest, LocalFailsHonest, ReadHonest, ReadEndHonest, StrayHonest,
         TransferHonest DEF Client
  <2>2. CASE Drop
    <3>1. UNCHANGED slips /\ behind = 0 BY <1>3, <2>2 DEF Drop, slips
    <3> QED BY <1>1, <2>2, <3>1, DropHonest
  <2>3. CASE User BY <1>1, <1>3, <2>3, UserHonest
  <2>4. CASE UNCHANGED vars
    <3>1. Honest /\ Happened BY <1>1, <1>3, <2>4 DEF vars, slips
    <3> QED
      BY <2>4, <3>1 DEF vars, server, client, caller, ghosts, slips, verb, Answer, Accepted,
         Honest, Placed, Answered, Following, Denied, Permitted, Happened
  <2> QED BY <2>1, <2>2, <2>3, <2>4 DEF Next
<1> QED BY <1>2, <1>3 DEF Truth

LEMMA TruthInit == Init => Truth
<1> SUFFICES ASSUME Init PROVE Truth
  OBVIOUS
<1>1. Good /\ SlipTypes /\ Paced BY GoodInit, SlipTypesInit DEF Init, Paced
<1>2. Honest /\ Happened
  BY DEF Init, Honest, Placed, Answered, Following, Denied, Permitted, Happened
<1> QED BY <1>1, <1>2 DEF Truth

\* Only a STOR that was accepted begins a file.
LEMMA HalfStored ==
  ASSUME Truth, behind = 0, [Next]_vars, NEW f \in Files, stored[f] = "old",
         stored'[f] = "half"
  PROVE  /\ f = file /\ at # "idle" /\ call = "Put" /\ line = "up"
<1>1. /\ Good /\ Paced /\ Honest /\ file \in Files
      /\ stored \in [Files -> {"none", "old", "half", "new"}]
  BY DEF Truth, Good, Values
<1>2. ASSUME stored' = stored PROVE FALSE BY <1>2
<1>3. \A k : Upon(file, k) => k = "half" /\ f = file BY <1>1 DEF Upon
<1>4. CASE Open
  <2>1. sending /\ line = "up" /\ verb = "STOR" /\ Upon(file, "half")
    BY <1>2, <1>4 DEF Open
  <2>2. at = "open" BY <1>4 DEF Open
  <2>3. call = "Put" BY <1>1, <2>1, <2>2, HandOwned
  <2> QED BY <1>3, <2>1, <2>2, <2>3
<1>5. CASE Grant BY <1>2, <1>3, <1>5 DEF Grant
<1>6. ASSUME NEW complete \in BOOLEAN, Transfer(complete) PROVE FALSE
  BY <1>2, <1>3, <1>6 DEF Transfer
<1>7. CASE Refuse BY <1>2, <1>7 DEF Refuse
<1>8. \A rest : Rejected(rest) \/ Succeeded(rest) \/ LoggedIn(rest) => stored' = stored
  BY Zenon DEF Rejected, Succeeded, LoggedIn, HangUp
<1>9. CASE SendDead BY <1>2, <1>8, <1>9 DEF SendDead, server
<1>10. CASE OpenFails BY <1>2, <1>10 DEF OpenFails
<1>11. CASE Read
  <2>1. stored' = stored BY <1>8, <1>11, Zenon DEF Read
  <2> QED BY <1>2, <2>1
<1>12. CASE ReadEnd BY <1>2, <1>8, <1>12 DEF ReadEnd
<1>13. CASE Stray BY <1>2, <1>13 DEF Stray
<1>14. CASE Drop BY <1>2, <1>14 DEF Drop
<1>15. CASE User
  <2>1. \A o, c, g : Begin(o, c, g) => stored' = stored BY DEF Begin, server
  <2>2. Connect => stored' = stored BY DEF Connect
  <2>3. stored' = stored BY <1>15, <2>1, <2>2, Zenon DEF User
  <2> QED BY <1>2, <2>3
<1>16. CASE UNCHANGED vars BY <1>2, <1>16 DEF vars, server
<1>17. CASE LocalFails BY <1>2, <1>17 DEF LocalFails, server
<1>18. CASE ReadLong BY <1>2, <1>8, <1>18 DEF ReadLong
<1> QED
  BY <1>4, <1>5, <1>6, <1>7, <1>9, <1>10, <1>11, <1>12, <1>13, <1>14, <1>15, <1>16, <1>17,
     <1>18
     DEF Next, Client

LEMMA AskedStep ==
  ASSUME Truth, [Next]_vars, NEW f \in Files
  PROVE  Asked(f)
<1>1. CASE behind = 0 BY <1>1, HalfStored DEF Asked, Truth, Honest, Permitted
<1>2. CASE behind > 0 BY <1>2 DEF Asked
<1> QED BY <1>1, <1>2 DEF Truth, SlipTypes

\* What the client reports with 1 is so when the user reads it, as long as no reply was
\* left unread: Delete and Rename leave no file of the name, Put has stored and Get has
\* fetched the whole file unless FtpXfer's own file failed (ftpclient.cpp:841-863),
\* FileExists found one.
THEOREM TruthfulHolds == Spec => []Truthful
<1>1. Truth /\ [Next]_vars => Truth' BY TruthStep
<1>2. Truth => Truthful BY DEF Truth, Truthful
<1> QED BY <1>1, <1>2, TruthInit, PTL DEF Spec

\* UploadFile and CreateRemoteFile (actions.cpp) begin to store over a file of the
\* server's only under "replace all", after a Yes, when the server would not say that
\* the file exists, or out of step; the editor over the file that it edits.
THEOREM OverwriteAskedHolds == Spec => OverwriteAsked
<1>1. Truth /\ [Next]_vars => Truth' BY TruthStep
<1>2. Truth /\ [Next]_vars => [\A f \in Files : Asked(f)]_vars BY AskedStep
<1> QED BY <1>1, <1>2, TruthInit, PTL DEF Spec, OverwriteAsked
=============================================================================
