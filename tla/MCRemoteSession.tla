-------------------------- MODULE MCRemoteSession --------------------------
(* All five kinds of server. *)
EXTENDS RemoteSession
=============================================================================
