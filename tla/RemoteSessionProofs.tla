------------------------ MODULE RemoteSessionProofs ------------------------
(***************************************************************************)
(* Theorems about the session with the server, for any number of client     *)
(* objects and files, any set of protocols and any interleaving.            *)
(***************************************************************************)
EXTENDS RemoteSessionInv, TLAPS

-----------------------------------------------------------------------------
(* The invariant.                                                           *)

LEMMA InitIInv == Init => IInv
<1> SUFFICES ASSUME Init PROVE IInv
  OBVIOUS
<1> USE SessionAssumption DEF Init, Clients
<1>1. TypeOK
  <2>1. pc \in [{"gui", "worker"} -> GuiSteps \cup WorkerSteps]
    BY DEF GuiSteps, WorkerSteps
  <2>2. pc["gui"] \in GuiSteps /\ pc["worker"] \in WorkerSteps
    BY DEF GuiSteps, WorkerSteps
  <2>3. created \in 0..MaxClients /\ remoteclient \in 0..created
    OBVIOUS
  <2>4. kind \in [Clients -> Kinds]
    BY DEF Kinds
  <2>5. alive \in [Clients -> BOOLEAN] /\ connected \in [Clients -> BOOLEAN]
    OBVIOUS
  <2>6. context \in [Clients -> Contexts]
    BY DEF Contexts
  <2>7. left \in 0..MaxFiles /\ selected_action \in Actions
    BY DEF Actions
  <2> QED BY <2>1, <2>2, <2>3, <2>4, <2>5, <2>6, <2>7 DEF TypeOK
<1>2. Separate /\ Handler
  BY DEF Separate, Handler, FrameSteps, Jobs
<1>3. Objects
  BY DEF Objects, Pointed, Connectedness, Dropping
<1>4. Calm
  BY DEF Calm, GivingUp, FrameSteps
<1>5. Promises
  BY DEF Promises, CalmSession, ContextReleased, DeletedOnlyInPanel
<1> QED BY <1>1, <1>2, <1>3, <1>4, <1>5 DEF IInv, Structure

\* A method that is called and returns was called on a client that is there.
LEMMA AliveWhenCalled ==
  ASSUME TypeOK, Pointer = "none"
  PROVE  remoteclient \in Clients /\ alive[remoteclient]
<1>1. remoteclient # 0
  BY DEF Pointer
<1>2. remoteclient \in Clients
  <2>1. created \in 0..MaxClients /\ remoteclient \in 0..created /\ MaxClients \in Nat
    BY SessionAssumption DEF TypeOK
  <2> QED BY <1>1, <2>1 DEF Clients
<1>3. ASSUME ~alive[remoteclient] PROVE FALSE
  BY <1>1, <1>3 DEF Pointer
<1> QED BY <1>2, <1>3

\* Every step of the GUI thread preserves the invariant.
LEMMA GuiKeeps == IInv /\ Gui => IInv'
<1> USE SessionAssumption
    DEF IInv, Structure, Objects, Promises, TypeOK, GuiSteps, WorkerSteps, Actions,
        Requests, Separate, Handler, Pointed, Connectedness, Dropping, Calm, CalmSession,
        ContextReleased, DeletedOnlyInPanel, FrameSteps, GivingUp, Clients,
        Web, Kinds, Jobs, At, Goto, objects, screen, Virtual, Pings, Calls, Quits,
        Touched, Pointer, Library, Contexts
<1>1. ASSUME IInv, DrawPanel PROVE IInv'
  <2>1. Structure' BY <1>1, SMTT(30) DEF DrawPanel
  <2>2. Objects' BY <1>1, SMTT(30) DEF DrawPanel
  <2>3. Calm' BY <1>1, SMTT(30) DEF DrawPanel
  <2>4. Promises' BY <1>1, SMTT(30) DEF DrawPanel
  <2> QED BY <2>1, <2>2, <2>3, <2>4
<1>2. ASSUME IInv, DrawButton PROVE IInv'
  <2>1. Structure' BY <1>2, SMTT(30) DEF DrawButton
  <2>2. Objects' BY <1>2, SMTT(30) DEF DrawButton
  <2>3. Calm' BY <1>2, SMTT(30) DEF DrawButton
  <2>4. Promises' BY <1>2, SMTT(30) DEF DrawButton
  <2> QED BY <2>1, <2>2, <2>3, <2>4
<1>3. ASSUME IInv, Input PROVE IInv'
  <2>1. Structure'
    <3>1. \/ selected_action' = selected_action /\ raced' = raced
          \/ /\ selected_action' \in Actions
             /\ raced' = (raced \/ pc["worker"] # "idle")
      <4>1. ASSUME selected_action' \in Selectable PROVE selected_action' \in Actions
        BY <4>1, SMTT(30) DEF Selectable
      <4> QED BY <1>3, <4>1 DEF Input
    <3>2. popup' \in BOOLEAN
      BY <1>3 DEF Input
    <3> QED BY <1>3, <3>1, <3>2, SMTT(30) DEF Input
  <2>2. Objects' BY <1>3, SMTT(30) DEF Input, Selectable, Supports
  <2>3. Calm' BY <1>3, SMTT(30) DEF Input, Selectable, Supports
  <2>4. Promises' BY <1>3, SMTT(30) DEF Input, Selectable, Supports
  <2> QED BY <2>1, <2>2, <2>3, <2>4
<1>4. ASSUME IInv, Execute PROVE IInv'
  <2>1. Structure' BY <1>4, SMTT(30) DEF Execute, FirstCall
  <2>2. Objects' BY <1>4, SMTT(30) DEF Execute, FirstCall
  <2>3. Calm' BY <1>4, SMTT(30) DEF Execute, FirstCall
  <2>4. Promises' BY <1>4, SMTT(30) DEF Execute, FirstCall
  <2> QED BY <2>1, <2>2, <2>3, <2>4
<1>5. ASSUME IInv, ExecuteConnect PROVE IInv'
  <2>1. Structure' BY <1>5, SMTT(30) DEF ExecuteConnect
  <2>2. Objects' BY <1>5, SMTT(30) DEF ExecuteConnect
  <2>3. Calm' BY <1>5, SMTT(30) DEF ExecuteConnect
  <2>4. Promises' BY <1>5, SMTT(30) DEF ExecuteConnect
  <2> QED BY <2>1, <2>2, <2>3, <2>4
<1>6. ASSUME IInv, Connect PROVE IInv'
  <2>1. Structure' BY <1>6, SMTT(30) DEF Connect
  <2>2. Objects' BY <1>6, SMTT(30) DEF Connect, ConnectResult, Contexts
  <2>3. Calm' BY <1>6, SMTT(30) DEF Connect, ConnectResult, Contexts
  <2>4. Promises' BY <1>6, SMTT(30) DEF Connect, ConnectResult, Contexts
  <2> QED BY <2>1, <2>2, <2>3, <2>4
<1>7. ASSUME IInv, ExecuteJob PROVE IInv'
  <2>1. Structure' BY <1>7, SMTT(30) DEF ExecuteJob
  <2>2. Objects' BY <1>7, SMTT(30) DEF ExecuteJob
  <2>3. Calm' BY <1>7, SMTT(30) DEF ExecuteJob
  <2>4. Promises' BY <1>7, SMTT(30) DEF ExecuteJob
  <2> QED BY <2>1, <2>2, <2>3, <2>4
<1>8. ASSUME IInv, Ping("gui", "ping", "list", "quit") PROVE IInv'
  <2>1. Structure' BY <1>8, SMTT(30) DEF Ping
  <2>2. Objects' BY <1>8, SMTT(30) DEF Ping
  <2>3. Calm' BY <1>8, SMTT(30) DEF Ping
  <2>4. Promises' BY <1>8, SMTT(30) DEF Ping
  <2> QED BY <2>1, <2>2, <2>3, <2>4
<1>9. ASSUME IInv, Ping("gui", "enter", "ping", "lost") PROVE IInv'
  <2>1. Structure' BY <1>9, SMTT(30) DEF Ping
  <2>2. Objects' BY <1>9, SMTT(30) DEF Ping
  <2>3. Calm' BY <1>9, SMTT(30) DEF Ping
  <2>4. Promises' BY <1>9, SMTT(30) DEF Ping
  <2> QED BY <2>1, <2>2, <2>3, <2>4
<1>10. ASSUME IInv, List PROVE IInv'
  <2>1. Structure' BY <1>10, SMTT(30) DEF List, Request
  <2>2. Objects' BY <1>10, SMTT(30) DEF List, Request
  <2>3. Calm' BY <1>10, SMTT(30) DEF List, Request
  <2>4. Promises' BY <1>10, SMTT(30) DEF List, Request
  <2> QED BY <2>1, <2>2, <2>3, <2>4
<1>11. ASSUME IInv, Ask PROVE IInv'
  <2>1. Structure' BY <1>11, SMTT(30) DEF Ask, Request
  <2>2. Objects' BY <1>11, SMTT(30) DEF Ask, Request
  <2>3. Calm' BY <1>11, SMTT(30) DEF Ask, Request
  <2>4. Promises' BY <1>11, SMTT(30) DEF Ask, Request
  <2> QED BY <2>1, <2>2, <2>3, <2>4
<1>12. ASSUME IInv, Fetch PROVE IInv'
  <2>1. Structure' BY <1>12, SMTT(30) DEF Fetch, Request
  <2>2. Objects' BY <1>12, SMTT(30) DEF Fetch, Request
  <2>3. Calm' BY <1>12, SMTT(30) DEF Fetch, Request
  <2>4. Promises' BY <1>12, SMTT(30) DEF Fetch, Request
  <2> QED BY <2>1, <2>2, <2>3, <2>4
<1>13. ASSUME IInv, Quit("gui", "quit", "done") PROVE IInv'
  <2>1. Structure' BY <1>13, SMTT(30) DEF Quit, ConnectedAfterQuit
  <2>2. Objects' BY <1>13, SMTT(30) DEF Quit, ConnectedAfterQuit
  <2>3. Calm' BY <1>13, SMTT(30) DEF Quit, ConnectedAfterQuit
  <2>4. Promises' BY <1>13, SMTT(30) DEF Quit, ConnectedAfterQuit
  <2> QED BY <2>1, <2>2, <2>3, <2>4
<1>14. ASSUME IInv, Quit("gui", "lost", "panel") PROVE IInv'
  <2>1. Structure' BY <1>14, SMTT(30) DEF Quit, ConnectedAfterQuit
  <2>2. Objects' BY <1>14, SMTT(30) DEF Quit, ConnectedAfterQuit
  <2>3. Calm' BY <1>14, SMTT(30) DEF Quit, ConnectedAfterQuit
  <2>4. Promises' BY <1>14, SMTT(30) DEF Quit, ConnectedAfterQuit
  <2> QED BY <2>1, <2>2, <2>3, <2>4
<1>15. ASSUME IInv, Quit("gui", "failed", "discard") PROVE IInv'
  <2>1. Structure' BY <1>15, SMTT(30) DEF Quit, ConnectedAfterQuit
  <2>2. Objects' BY <1>15, SMTT(30) DEF Quit, ConnectedAfterQuit
  <2>3. Calm' BY <1>15, SMTT(30) DEF Quit, ConnectedAfterQuit
  <2>4. Promises' BY <1>15, SMTT(30) DEF Quit, ConnectedAfterQuit
  <2> QED BY <2>1, <2>2, <2>3, <2>4
<1>16. ASSUME IInv, Delete("gui", "discard") PROVE IInv'
  <2>1. Structure' BY <1>16, SMTT(30) DEF Delete
  <2>2. Objects' BY <1>16, SMTT(30) DEF Delete
  <2>3. Calm' BY <1>16, SMTT(30) DEF Delete
  <2>4. Promises' BY <1>16, SMTT(30) DEF Delete
  <2> QED BY <2>1, <2>2, <2>3, <2>4
<1>17. ASSUME IInv, Done PROVE IInv'
  <2>1. Structure' BY <1>17, SMTT(30) DEF Done
  <2>2. Objects' BY <1>17, SMTT(30) DEF Done
  <2>3. Calm' BY <1>17, SMTT(30) DEF Done
  <2>4. Promises' BY <1>17, SMTT(30) DEF Done
  <2> QED BY <2>1, <2>2, <2>3, <2>4
<1>18. ASSUME IInv, Leave("gui") PROVE IInv'
  <2>1. Structure' BY <1>18, SMTT(30) DEF Leave
  <2>2. Objects' BY <1>18, SMTT(30) DEF Leave
  <2>3. Calm' BY <1>18, SMTT(30) DEF Leave
  <2>4. Promises' BY <1>18, SMTT(30) DEF Leave
  <2> QED BY <2>1, <2>2, <2>3, <2>4
<1>19. ASSUME IInv, Quit("gui", "hangup", "drop") PROVE IInv'
  <2>1. Structure' BY <1>19, SMTT(30) DEF Quit, ConnectedAfterQuit
  <2>2. Objects' BY <1>19, SMTT(30) DEF Quit, ConnectedAfterQuit
  <2>3. Calm' BY <1>19, SMTT(30) DEF Quit, ConnectedAfterQuit
  <2>4. Promises' BY <1>19, SMTT(30) DEF Quit, ConnectedAfterQuit
  <2> QED BY <2>1, <2>2, <2>3, <2>4
<1>20. ASSUME IInv, Delete("gui", "drop") PROVE IInv'
  <2>1. Structure' BY <1>20, SMTT(30) DEF Delete
  <2>2. Objects' BY <1>20, SMTT(30) DEF Delete
  <2>3. Calm' BY <1>20, SMTT(30) DEF Delete
  <2>4. Promises' BY <1>20, SMTT(30) DEF Delete
  <2> QED BY <2>1, <2>2, <2>3, <2>4
<1>21. ASSUME IInv, Forget("gui") PROVE IInv'
  <2>1. Structure' BY <1>21, SMTT(30) DEF Forget
  <2>2. Objects' BY <1>21, SMTT(30) DEF Forget
  <2>3. Calm' BY <1>21, SMTT(30) DEF Forget
  <2>4. Promises' BY <1>21, SMTT(30) DEF Forget
  <2> QED BY <2>1, <2>2, <2>3, <2>4
<1> QED BY <1>1, <1>2, <1>3, <1>4, <1>5, <1>6, <1>7, <1>8, <1>9, <1>10, <1>11, <1>12,
       <1>13, <1>14, <1>15, <1>16, <1>17, <1>18, <1>19, <1>20, <1>21 DEF Gui,
       Disconnecting

\* Every step of the worker preserves the invariant.
LEMMA WorkerKeeps == IInv /\ Worker => IInv'
<1> USE SessionAssumption
    DEF IInv, Structure, Objects, Promises, TypeOK, GuiSteps, WorkerSteps, Actions,
        Requests, Separate, Handler, Pointed, Connectedness, Dropping, Calm, CalmSession,
        ContextReleased, DeletedOnlyInPanel, FrameSteps, GivingUp, Clients,
        Web, Kinds, Jobs, At, Goto, objects, screen, Virtual, Pings, Calls, Quits,
        Touched, Pointer, Library, Contexts
<1>1. ASSUME IInv, Ping("worker", "check", "files", "leave") PROVE IInv'
  <2>1. Structure' BY <1>1, SMTT(30) DEF Ping
  <2>2. Objects' BY <1>1, SMTT(30) DEF Ping
  <2>3. Calm' BY <1>1, SMTT(30) DEF Ping
  <2>4. Promises' BY <1>1, SMTT(30) DEF Ping
  <2> QED BY <2>1, <2>2, <2>3, <2>4
<1>2. ASSUME IInv, DeleteFiles PROVE IInv'
  <2>1. Structure' BY <1>2, SMTT(30) DEF DeleteFiles, Request
  <2>2. Objects' BY <1>2, SMTT(30) DEF DeleteFiles, Request
  <2>3. Calm' BY <1>2, SMTT(30) DEF DeleteFiles, Request
  <2>4. Promises' BY <1>2, SMTT(30) DEF DeleteFiles, Request
  <2> QED BY <2>1, <2>2, <2>3, <2>4
<1>3. ASSUME IInv, Leave("worker") PROVE IInv'
  <2>1. Structure' BY <1>3, SMTT(30) DEF Leave
  <2>2. Objects' BY <1>3, SMTT(30) DEF Leave
  <2>3. Calm' BY <1>3, SMTT(30) DEF Leave
  <2>4. Promises' BY <1>3, SMTT(30) DEF Leave
  <2> QED BY <2>1, <2>2, <2>3, <2>4
<1>4. ASSUME IInv, Quit("worker", "hangup", "drop") PROVE IInv'
  <2>1. Structure' BY <1>4, SMTT(30) DEF Quit, ConnectedAfterQuit
  <2>2. Objects' BY <1>4, SMTT(30) DEF Quit, ConnectedAfterQuit
  <2>3. Calm' BY <1>4, SMTT(30) DEF Quit, ConnectedAfterQuit
  <2>4. Promises' BY <1>4, SMTT(30) DEF Quit, ConnectedAfterQuit
  <2> QED BY <2>1, <2>2, <2>3, <2>4
<1>5. ASSUME IInv, Delete("worker", "drop") PROVE IInv'
  <2>1. Structure' BY <1>5, SMTT(30) DEF Delete
  <2>2. Objects' BY <1>5, SMTT(30) DEF Delete
  <2>3. Calm' BY <1>5, SMTT(30) DEF Delete
  <2>4. Promises' BY <1>5, SMTT(30) DEF Delete
  <2> QED BY <2>1, <2>2, <2>3, <2>4
<1>6. ASSUME IInv, Forget("worker") PROVE IInv'
  <2>1. Structure' BY <1>6, SMTT(30) DEF Forget
  <2>2. Objects' BY <1>6, SMTT(30) DEF Forget
  <2>3. Calm' BY <1>6, SMTT(30) DEF Forget
  <2>4. Promises' BY <1>6, SMTT(30) DEF Forget
  <2> QED BY <2>1, <2>2, <2>3, <2>4
<1>7. ASSUME IInv, Ping("worker", "probe", "put", "giveup") PROVE IInv'
  <2>1. Structure' BY <1>7, SMTT(30) DEF Ping
  <2>2. Objects' BY <1>7, SMTT(30) DEF Ping
  <2>3. Calm' BY <1>7, SMTT(30) DEF Ping
  <2>4. Promises' BY <1>7, SMTT(30) DEF Ping
  <2> QED BY <2>1, <2>2, <2>3, <2>4
<1>8. ASSUME IInv, Put PROVE IInv'
  <2>1. Structure' BY <1>8, SMTT(30) DEF Put, Request, NextFile
  <2>2. Objects' BY <1>8, SMTT(30) DEF Put, Request, NextFile
  <2>3. Calm' BY <1>8, SMTT(30) DEF Put, Request, NextFile
  <2>4. Promises' BY <1>8, SMTT(30) DEF Put, Request, NextFile
  <2> QED BY <2>1, <2>2, <2>3, <2>4
<1>9. ASSUME IInv, Quit("worker", "giveup", "failedUpload") PROVE IInv'
  <2>1. Structure' BY <1>9, SMTT(30) DEF Quit, ConnectedAfterQuit
  <2>2. Objects' BY <1>9, SMTT(30) DEF Quit, ConnectedAfterQuit
  <2>3. Calm' BY <1>9, SMTT(30) DEF Quit, ConnectedAfterQuit
  <2>4. Promises' BY <1>9, SMTT(30) DEF Quit, ConnectedAfterQuit
  <2> QED BY <2>1, <2>2, <2>3, <2>4
<1>10. ASSUME IInv, Size PROVE IInv'
  <2>1. Structure' BY <1>10, SMTT(30) DEF Size, Request
  <2>2. Objects' BY <1>10, SMTT(30) DEF Size, Request
  <2>3. Calm' BY <1>10, SMTT(30) DEF Size, Request
  <2>4. Promises' BY <1>10, SMTT(30) DEF Size, Request
  <2> QED BY <2>1, <2>2, <2>3, <2>4
<1>11. ASSUME IInv, Get PROVE IInv'
  <2>1. Structure' BY <1>11, SMTT(30) DEF Get, Request, NextFile
  <2>2. Objects' BY <1>11, SMTT(30) DEF Get, Request, NextFile
  <2>3. Calm' BY <1>11, SMTT(30) DEF Get, Request, NextFile
  <2>4. Promises' BY <1>11, SMTT(30) DEF Get, Request, NextFile
  <2> QED BY <2>1, <2>2, <2>3, <2>4
<1>12. ASSUME IInv, Quit("worker", "hopeless", "failedDownload") PROVE IInv'
  <2>1. Structure' BY <1>12, SMTT(30) DEF Quit, ConnectedAfterQuit
  <2>2. Objects' BY <1>12, SMTT(30) DEF Quit, ConnectedAfterQuit
  <2>3. Calm' BY <1>12, SMTT(30) DEF Quit, ConnectedAfterQuit
  <2>4. Promises' BY <1>12, SMTT(30) DEF Quit, ConnectedAfterQuit
  <2> QED BY <2>1, <2>2, <2>3, <2>4
<1>13. ASSUME IInv, GoOn("failedUpload", "probe", "post") PROVE IInv'
  <2>1. Structure' BY <1>13, SMTT(30) DEF GoOn, NextFile
  <2>2. Objects' BY <1>13, SMTT(30) DEF GoOn, NextFile
  <2>3. Calm' BY <1>13, SMTT(30) DEF GoOn, NextFile
  <2>4. Promises' BY <1>13, SMTT(30) DEF GoOn, NextFile
  <2> QED BY <2>1, <2>2, <2>3, <2>4
<1>14. ASSUME IInv, GoOn("failedDownload", "size", "end") PROVE IInv'
  <2>1. Structure' BY <1>14, SMTT(30) DEF GoOn, NextFile
  <2>2. Objects' BY <1>14, SMTT(30) DEF GoOn, NextFile
  <2>3. Calm' BY <1>14, SMTT(30) DEF GoOn, NextFile
  <2>4. Promises' BY <1>14, SMTT(30) DEF GoOn, NextFile
  <2> QED BY <2>1, <2>2, <2>3, <2>4
<1>15. ASSUME IInv, Post PROVE IInv'
  <2>1. Structure' BY <1>15, SMTT(30) DEF Post
  <2>2. Objects' BY <1>15, SMTT(30) DEF Post
  <2>3. Calm' BY <1>15, SMTT(30) DEF Post
  <2>4. Promises' BY <1>15, SMTT(30) DEF Post
  <2> QED BY <2>1, <2>2, <2>3, <2>4
<1>16. ASSUME IInv, End PROVE IInv'
  <2>1. Structure' BY <1>16, SMTT(30) DEF End
  <2>2. Objects' BY <1>16, SMTT(30) DEF End
  <2>3. Calm' BY <1>16, SMTT(30) DEF End
  <2>4. Promises' BY <1>16, SMTT(30) DEF End
  <2> QED BY <2>1, <2>2, <2>3, <2>4
<1> QED BY <1>1, <1>2, <1>3, <1>4, <1>5, <1>6, <1>7, <1>8, <1>9, <1>10, <1>11, <1>12,
       <1>13, <1>14, <1>15, <1>16 DEF Worker, Disconnecting

\* A bad pointer is met under the circumstances the promises name: when nothing
\* has failed the client is either there with an open context or absent, and the
\* pointer dangles only while one of the threads is about to reset it; of the
\* GUI's steps between handlers only the panel's follows it.
LEMMA CrashKeeps ==
  ASSUME IInv, NEW t \in {"gui", "worker"}, Crash(t)
  PROVE  IInv'
<1> USE DEF IInv
<1>1. /\ fault = "none" /\ Touched(pc[t]) # "none"
      /\ \/ fault' = Touched(pc[t])
         \/ fault' = "deleted client" /\ pc[t] = "button" /\ remoteclient = 0
      /\ UNCHANGED <<pc, remoteclient, created, kind, alive, connected, context, listing,
                    popup, button, selected_action, left, trouble, raced>>
  BY DEF Crash, objects, screen
<1>2. Touched(pc[t]) \in
        {"none", "null client", "deleted client", "null context", "freed context"}
  BY DEF Touched, Pointer, Library
<1>3. Structure'
  <2>1. TypeOK' BY <1>1, <1>2, Zenon DEF Structure, TypeOK
  <2>2. ~raced' => Separate' BY <1>1 DEF Structure, Separate
  <2>3. ~raced' => Handler' BY <1>1 DEF Structure, Handler
  <2> QED BY <2>1, <2>2, <2>3 DEF Structure
<1>4. Objects'
  BY <1>1 DEF Objects, Pointed, Connectedness, Dropping
<1>5. Calm'
  BY <1>1 DEF Calm
<1>6. CalmSession'
  <2>1. SUFFICES ASSUME fault' # "none", ~trouble, ~raced
                 PROVE  /\ fault' = "null client"
                        /\ selected_action = "SEARCH" \/ pc["worker"] = "probe"
    BY <1>1 DEF CalmSession
  <2>2. CASE remoteclient = 0
    <3>1. /\ \/ pc["gui"] \in {"panel", "input", "execute", "done", "leave"}
             \/ pc["gui"] = "ping" /\ selected_action = "SEARCH"
          /\ pc["worker"] \in {"idle", "probe"}
      BY <2>1, <2>2 DEF Calm
    <3>2. /\ pc[t] \in Virtual \cup Pings \cup Calls \cup Quits /\ pc[t] # "leave"
          /\ Touched(pc[t]) = "null client"
      BY <1>1, <2>2 DEF Touched, Pointer
    <3>3. fault' = "null client"
      BY <1>1, <3>1, <3>2
    <3>4. CASE t = "gui"
      BY <3>1, <3>2, <3>3, <3>4 DEF Virtual, Pings, Calls, Quits
    <3>5. CASE t = "worker"
      BY <3>1, <3>2, <3>3, <3>5 DEF Virtual, Pings, Calls, Quits
    <3> QED BY <3>4, <3>5
  <2>3. CASE remoteclient # 0
    <3>1. /\ pc[t] \in Virtual \cup Pings \cup Calls \cup Quits
          /\ Pointer = "none" => pc[t] \notin Virtual /\ Library # "none"
      BY <1>1, <2>1 DEF Touched
    <3>2. /\ pc["worker"] \notin GivingUp
          /\ pc["gui"] \in {"connect", "forget", "drop"} => pc["worker"] = "idle"
          /\ pc["gui"] \notin {"connect", "drop", "forget"} => context[remoteclient] = "open"
      BY <2>1, <2>3 DEF Calm
    <3>3. pc["gui"] # "forget" /\ pc["worker"] # "forget"
      BY <3>1, <3>2 DEF GivingUp, Virtual, Pings, Calls, Quits
    <3>4. Pointer = "none"
      BY <2>1, <2>3, <3>3 DEF Objects, Pointed, Pointer
    <3>5. context[remoteclient] # "open"
      BY <3>1, <3>4 DEF Library
    <3> QED BY <3>1, <3>2, <3>4, <3>5 DEF Virtual, Pings, Calls, Quits
  <2> QED BY <2>2, <2>3
<1>7. DeletedOnlyInPanel'
  <2>1. SUFFICES ASSUME fault' = "deleted client", ~raced
                 PROVE  /\ trouble
                        /\ pc["gui"] = "button"
                        /\ pc["worker"] \in {"forget", "end", "idle"}
    BY <1>1 DEF DeletedOnlyInPanel
  <2>2. Separate /\ Pointed
    BY <2>1 DEF Structure, Objects
  <2>3. CASE pc[t] = "button" /\ remoteclient = 0
    <3>1. t = "gui"
      BY <2>3 DEF Structure, TypeOK, WorkerSteps
    <3>2. pc["worker"] \in {"end", "idle"}
      BY <2>2, <2>3, <3>1 DEF Pointed
    <3>3. trouble
      BY <2>1, <2>3, <3>1 DEF Calm
    <3> QED BY <2>3, <3>1, <3>2, <3>3
  <2>4. CASE fault' = Touched(pc[t])
    <3>1. /\ pc[t] \in Virtual \cup Pings \cup Calls \cup Quits
          /\ Pointer = "deleted client"
      BY <2>1, <2>4 DEF Touched, Library
    <3>2. pc["gui"] = "forget" \/ pc["worker"] = "forget"
      BY <2>2, <3>1 DEF Pointer, Pointed
    <3>3. t = "gui" /\ pc["worker"] = "forget"
      BY <2>2, <3>1, <3>2 DEF Separate, FrameSteps, Virtual, Pings, Calls, Quits
    <3>4. pc["gui"] = "button"
      BY <2>2, <3>1, <3>3 DEF Separate, FrameSteps, Virtual, Pings, Calls, Quits
    <3>5. trouble
      BY <2>1, <3>3 DEF Calm, GivingUp
    <3> QED BY <3>3, <3>4, <3>5
  <2> QED BY <1>1, <2>3, <2>4
<1>8. ContextReleased'
  BY <1>1 DEF Promises, ContextReleased
<1> QED BY <1>3, <1>4, <1>5, <1>6, <1>7, <1>8 DEF Promises

LEMMA NextKeeps == IInv /\ [Next]_vars => IInv'
<1> SUFFICES ASSUME IInv, [Next]_vars PROVE IInv'
  OBVIOUS
<1>1. CASE Gui BY <1>1, GuiKeeps
<1>2. CASE Worker BY <1>2, WorkerKeeps
<1>3. CASE Crash("gui") BY <1>3, CrashKeeps
<1>4. CASE Crash("worker") BY <1>4, CrashKeeps
<1>5. CASE UNCHANGED vars
  <2>1. UNCHANGED <<pc, remoteclient, created, kind, alive, connected, context, listing,
                    popup, button, selected_action, left, fault, trouble, raced>>
    BY <1>5 DEF vars, objects, screen
  <2>2. Structure'
    <3>1. TypeOK' BY <2>1, Zenon DEF IInv, Structure, TypeOK
    <3>2. ~raced' => Separate' BY <2>1 DEF IInv, Structure, Separate
    <3>3. ~raced' => Handler' BY <2>1 DEF IInv, Structure, Handler
    <3> QED BY <3>1, <3>2, <3>3 DEF Structure
  <2>3. Objects'
    BY <2>1 DEF IInv, Objects, Pointed, Connectedness, Dropping
  <2>4. Calm'
    BY <2>1 DEF IInv, Calm
  <2>5. Promises'
    BY <2>1 DEF IInv, Promises, CalmSession, ContextReleased, DeletedOnlyInPanel
  <2> QED BY <2>2, <2>3, <2>4, <2>5 DEF IInv
<1> QED BY <1>1, <1>2, <1>3, <1>4, <1>5 DEF Next, Halted

\* The invariant holds in every reachable state (RemoteSession, all of it).
THEOREM SessionInvariant == Spec => []IInv
<1>1. Init => IInv BY InitIInv
<1>2. IInv /\ [Next]_vars => IInv' BY NextKeeps
<1> QED BY <1>1, <1>2, PTL DEF Spec

-----------------------------------------------------------------------------
(* The properties.                                                          *)

\* Every variable of the session keeps its type, whatever happens to it.
THEOREM SessionTypes == Spec => []TypeOK
<1>1. IInv => TypeOK
  BY DEF IInv, Structure, Promises
<1> QED BY <1>1, SessionInvariant, PTL

\* FTP, SMB and NFS clients that say they are connected hold an open context,
\* until the user selects something over a running job (Connect, Ping and Quit
\* of the three clients).
THEOREM ConnectedSession == Spec => [](~raced => ConnectedHasSession)
<1>1. ASSUME IInv, ~raced,
             NEW c \in Clients, alive[c] /\ connected[c] /\ kind[c] \notin Web
      PROVE  context[c] = "open"
  <2>1. kind[c] \in Kinds
    BY <1>1 DEF IInv, Structure, TypeOK
  <2> QED BY <1>1, <2>1 DEF IInv, Objects, Connectedness, Kinds
<1>2. IInv => (~raced => ConnectedHasSession)
  BY <1>1 DEF ConnectedHasSession
<1> QED BY <1>2, SessionInvariant, PTL

\* While every call succeeds only Search and Upload can follow a null pointer
\* (Connect, Disconnect, the handlers and the threads of actions.cpp).
THEOREM CalmSessionHolds == Spec => []CalmSession
<1>1. IInv => CalmSession
  BY DEF IInv, Structure, Promises
<1> QED BY <1>1, SessionInvariant, PTL

\* Wherever the threads are suspended, the panel's expression is the one place
\* where a deleted client is called, and only when the delete thread's ping has
\* failed (Disconnect in the delete thread against ConnectionPanel).
THEOREM DeletedClientInPanel == Spec => []DeletedOnlyInPanel
<1>1. IInv => DeletedOnlyInPanel
  BY DEF IInv, Structure, Promises
<1> QED BY <1>1, SessionInvariant, PTL

\* A deleted client has released its context, but for an SMB client whose ping
\* failed (Disconnect, the failure branch of Connect, the destructors).
THEOREM ContextsReleased == Spec => []ContextReleased
<1>1. IInv => ContextReleased
  BY DEF IInv, Structure, Promises
<1> QED BY <1>1, SessionInvariant, PTL

\* Until a call fails there is one client object at most (Connect, Disconnect).
THEOREM OneClientAlive == Spec => []OneClient
<1>1. IInv => OneClient
  BY DEF IInv, Calm, OneClient
<1> QED BY <1>1, SessionInvariant, PTL

=============================================================================
