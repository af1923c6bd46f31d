-------------------------- MODULE MCRemoteSession --------------------------
(* RemoteSession with a small set of requests.                             *)
EXTENDS RemoteSession, TLC
=============================================================================
