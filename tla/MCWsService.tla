---------------------------- MODULE MCWsService -----------------------------
(***************************************************************************)
(* Small instances of WsService for TLC.                                   *)
(***************************************************************************)
EXTENDS WsService
=============================================================================
