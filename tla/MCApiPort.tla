----------------------------- MODULE MCApiPort -----------------------------
(***************************************************************************)
(* ApiPort with a few clients; the constants are in the cfg files.         *)
(***************************************************************************)
EXTENDS ApiPort
=============================================================================
