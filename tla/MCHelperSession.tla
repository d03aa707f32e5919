--------------------------- MODULE MCHelperSession ---------------------------
(***************************************************************************)
(* HelperSession for two run requests, enough for a run that follows, or   *)
(* collides with, another, and a pipe that one line fills.                 *)
(***************************************************************************)
EXTENDS HelperSession
=============================================================================
