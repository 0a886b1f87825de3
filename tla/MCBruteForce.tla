---------------------------- MODULE MCBruteForce ----------------------------
(***************************************************************************)
(* BruteForce with interchangeable addresses and scaled-down durations.    *)
(***************************************************************************)
EXTENDS BruteForce, TLC

AddressSymmetry == Permutations(Addresses)
=============================================================================
