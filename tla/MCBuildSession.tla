--------------------------- MODULE MCBuildSession ---------------------------
(* Small instances of BuildSession for TLC. *)
EXTENDS BuildSession
=============================================================================
