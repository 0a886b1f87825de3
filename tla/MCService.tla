----------------------------- MODULE MCService -----------------------------
(***************************************************************************)
(* Service with its two threads; the constants are in the cfg files.       *)
(***************************************************************************)
EXTENDS Service
=============================================================================
