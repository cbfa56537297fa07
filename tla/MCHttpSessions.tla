--------------------------- MODULE MCHttpSessions ---------------------------
(***************************************************************************)
(* Small instances of HttpSessions for TLC.                                *)
(***************************************************************************)
EXTENDS HttpSessions
=============================================================================
