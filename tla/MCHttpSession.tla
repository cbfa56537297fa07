--------------------------- MODULE MCHttpSession ----------------------------
(***************************************************************************)
(* Small instances of HttpSession for TLC.                                 *)
(***************************************************************************)
EXTENDS HttpSessionStages
=============================================================================
