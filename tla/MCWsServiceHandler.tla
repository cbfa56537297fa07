------------------------- MODULE MCWsServiceHandler -------------------------
(***************************************************************************)
(* Small instances of WsServiceHandler for TLC.                            *)
(***************************************************************************)
EXTENDS WsServiceHandler
=============================================================================
