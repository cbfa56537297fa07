---------------------------- MODULE MCWsSession -----------------------------
(***************************************************************************)
(* Small instances of WsSession for TLC.                                   *)
(***************************************************************************)
EXTENDS WsSessionStages
=============================================================================
